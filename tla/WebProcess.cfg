SPECIFICATION WebFairSpec
CONSTANTS
  MaxSymbols = 5
  Batch = 2
  Cancellers = {c1, c2}
  MaxFaults = 1
  Jobs = {j1, j2}
  MaxSteps = 2
  MaxTaken = 2
  Askers = {a1, a2}
  NoAsker = NoAsker
  Documents = {d1, d2, d3}
  Fetchers = {f1, f2}
  NumStatic = 1
  NumDynamic = 0
  IncludeDirect = TRUE
  Rounds = 2
  MaxFailures = 3
  Calls = {p1}
  Timer = Timer
  MaxRetries = 2
  MaxMishaps = 1
  Strategies = {s1, s2}
INVARIANTS
  TypeOK
  SyncTypeOK
  CompletedIsWhole
  EarlyCancelSticks
  ReturnedIsReported
  TableIsTrue
  ConnectionFailsOnce
  FlagMeansServing
  DeadProxiesAreLeftAlone
  SessionTypeOK
PROPERTIES
  CompletedStays
  ScreeningSettles
  EveryJobReturns
  EveryAskIsAnswered
  ImportIsAtomic
  NoNeedlessFailure
  NoNeedlessLogout
  EveryCallSettles
  StoppedStrategiesStop
CHECK_DEADLOCK FALSE
