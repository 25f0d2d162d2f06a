CONSTANTS
  Giskard = giskard
  Client = client
  World = {giskard, client}
  Deferring = {giskard}
  Latecomer = {client}
  Entity = {1, 2, 3}
  Root = 0
  Base <- MCBase
  Initially = {1}
  QueueDepth = 2
  MaxMessages = 3
SPECIFICATION Spec
INVARIANTS MessagesAreAccountedFor WorldIsItsMessages
PROPERTIES GoalRunsOnItsWorld ClientReadsTheEnd UnreadableForAReason AwaitedChangesArrive
CHECK_DEADLOCK FALSE
