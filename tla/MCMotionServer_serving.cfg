SPECIFICATION Spec
CONSTANTS
  g1 = g1
  g2 = g2
  c1 = c1
  c2 = c2
  NoGoal = NoGoal
  NoClient = NoClient
  Goal <- MCGoal
  Client <- MCClient
  ClientOf <- MCClientOf
  Threads = 2
  Breaks <- LoopBreaks
  Signals = 2
INVARIANTS RobotRestsWhenUnserved OutcomeTellsTheEnd
PROPERTIES DisconnectOnlyIfSilent UnwantedMotionEnds FinishedGoalAnswered
CHECK_DEADLOCK FALSE
