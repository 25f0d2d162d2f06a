SPECIFICATION ComposedSpec
CONSTANTS
  Node <- MCNode
  NoParent <- MCNoParent
  Charts <- ComposedCharts
  PassLimit = 20
  PassesPerNestingLevel = 2
  Outer <- AllTemplates
  Inner <- AllTemplates
  Ticks = {"TRUE", "FALSE"}
INVARIANTS StepsRunInTurn SettledAsWired
PROPERTIES OutcomesFollowChildren StartsOverAsAUnit FiredMonitorCancels PlansGoOn
