SPECIFICATION Spec
CONSTANTS
  r1 = r1
  r2 = r2
  Requests = {r1}
  Free = Free
  Ids = {1, 2}
  OldIds = {1}
  LogsOf <- MCLogsOf
  Buffers = {9, 10}
  MaxCrashes = 1
  MaxStops = 0
  MaxOutages = 0
  MaxFaults = 0
INVARIANTS Backfilled
