SPECIFICATION HandlerSpec
CONSTANTS
  g1 = g1
  g2 = g2
  g3 = g3
  NoGoal = NoGoal
  Goal <- MCGoal
  Threads = 3
INVARIANT EveryWaiterIsOwedOneAnswer
PROPERTIES ImplementsGoalService EveryGoalAnswered
CHECK_DEADLOCK FALSE
