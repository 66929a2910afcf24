SPECIFICATION FairSpec
CONSTANTS
  r1 = r1
  r2 = r2
  Requests = {r1, r2}
  Free = Free
  Ids = {1, 2}
  OldIds = {1}
  LogsOf <- MCLogsOf
  Buffers = {9, 10}
  MaxCrashes = 2
  MaxStops = 1
  MaxOutages = 1
  MaxFaults = 1
INVARIANTS TypeOK ServesWholeTable RowsSurvive CountsRight IInv
PROPERTIES ShutdownEnds StartsAgain
