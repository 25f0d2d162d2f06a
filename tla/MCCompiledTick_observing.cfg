SPECIFICATION Spec
CONSTANTS
  Node <- MCNode
  NoParent <- MCNoParent
  Charts <- ObservingCharts
  PassLimit = 20
  PassesPerNestingLevel = 2
INVARIANT ObservationsBelongToTheirLife
PROPERTIES PausedKeepsObservation TickEnds
