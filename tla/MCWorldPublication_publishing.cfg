SPECIFICATION Spec
CONSTANTS
  t1 = t1
  t2 = t2
  t3 = t3
  d1 = d1
  d2 = d2
  NoThread = NoThread
  Thread <- ThreeThreads
  Modifiers <- TwoThreads
  Writers <- Third
  Dof <- MCDof
  InitialDof <- OldDof
  Failures <- AnythingFails
  MaxNesting = 2
  MaxBlocks = 2
  MaxWrites = 1
INVARIANTS LockMatchesContexts StreamKeepsItsOrder StreamCarriesState
PROPERTY ThreadReturns
CHECK_DEADLOCK FALSE
