\* Chunks of 3 and 6 rows, ticks and latencies in half ticks.
SPECIFICATION FairSpec
CONSTANTS
  D = 2
  ExecHorizon = 5
  Leads = {0, 1, 3}
  Lens = {3, 6}
  MaxLatency = 9
  MaxWork = 3
  MaxAge = 16
INVARIANTS
  TypeOK
  IndexInRange
  NeverAhead
  LeadTimeGiven
PROPERTY KeepsReplanning
