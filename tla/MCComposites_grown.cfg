SPECIFICATION ComposedSpec
CONSTANTS
  Node <- MCNode
  NoParent <- MCNoParent
  Charts <- GrownCharts
  PassLimit = 20
  PassesPerNestingLevel = 2
  Outer <- AllTemplates
  Inner <- AllTemplates
  Ticks = {"TRUE", "FALSE"}
INVARIANT NoOwnerIsHeldOpen
