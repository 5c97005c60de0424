\* Programs end, and wait for users who do nothing.
CHECK_DEADLOCK FALSE
SPECIFICATION AllSpec
CONSTANTS
  Servers = {s1, s2}
  Clients = {c1, c2}
  MaxRounds = 2
  MaxStarts = 3
  MaxFaults = 1
  Units = {u1, u2}
  Agent = agent
  Main = main
  NoUnit = none
  LastCol = 2
  MaxOutside = 1
  MaxConnections = 2
  MaxFds = 4
  Letters = {"a"}
  BufferSize = 4
  MaxText = 4
  Width = 2
  Height = 2
  Before = 1
  PlateLen = 1
  PlateDir = 1
  Delay = 2
  MaxKeys = 3
  a = a
  ab = ab
  b = b
  Values = {v1, v2}
  Empty = empty
  Unset = unset
  Inherited = inherited
  MAXVARS = 2
INVARIANTS
  LocksMatchHolders NoTornText SetHasServer
  HandOverWorks OnScreen
  BytesExact AnswersOwnRequest
  RunsWhatIsAsked
  BallGoesOn CaughtIsSafe
  RightBranchRuns VariablesHold
PROPERTIES NobodyStuck KeepsDrawing
