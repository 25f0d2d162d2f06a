SPECIFICATION Spec
CONSTANTS
  Node = {"sequence", "first", "holder", "motion", "chooser"}
  Motion = {"first", "motion"}
  Chooser = {"chooser"}
  Composite = {"sequence", "holder"}
  Handed <- MCHanded
  NoNode = "none"
  MaxLeft = 2
  MaxModifications = 2
INVARIANTS StatechartStaysWhole WaitingHoldsTheRobotStill
PROPERTIES BlocksOnlyARobotAtRest AbandonedBlockDropsWhatItAdded HeldStillForSomething
CHECK_DEADLOCK FALSE
