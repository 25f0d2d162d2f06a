CONSTANTS
  Node = {1, 2}
  Resettable = {1}
  Pausable = {2}
  LateNode = {1}
  MaxChildren = 2
  MaxResets = 1
  FeedbackDepth = 1
SPECIFICATION Spec
INVARIANT CopyKeepsUpWithChart
PROPERTIES OutOfStepOnlyOverLostChoices NewRequestIsAnswered
CHECK_DEADLOCK FALSE
