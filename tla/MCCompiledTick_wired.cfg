SPECIFICATION Spec
CONSTANTS
  Node <- MCNode
  NoParent <- MCNoParent
  Charts <- ChainAndFlatCharts
  PassLimit = 20
  PassesPerNestingLevel = 2
INVARIANTS HierarchyConsistent QuietPassIsFixpoint CallbacksFollowLifeCycle
PROPERTIES NoRestartWithinTick ImplementsContract
