SPECIFICATION WalkSpec
CONSTANTS
  NumDecisions = 2
  Requests <- MCRequests
  NextTurns <- MCNextTurns
  Loop = "loop"
  Admins = {"admin"}
  Batch = 1
  MaxBatches = 2
  MaxFaults = 1
  MaxRuns = 1
  MaxSignals = 1
  Said <- MCSaid
  Within <- MCWithin
  Before <- MCBefore
  Clock <- MCClock
  Registered <- MCRegistered
  Priced <- MCPriced
  NoLimit <- MCNoLimit
  NowHour <- MCNowHour
  Queries <- MCQueries
  Walked <- MCWalked
  NamesIn <- MCNamesIn
  Prices <- MCPrices
  ModelMap <- MCModelMap
  PrefixOf <- MCPrefixOf
INVARIANT EarlyFeedbackCounts PagesAgree
PROPERTY ArmsCatchUp WalkMissesNothing
CHECK_DEADLOCK FALSE
