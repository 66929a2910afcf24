SPECIFICATION FairSpec
CONSTANTS
  empty = empty
  short = short
  long = long
  NoSnapshot = NoSnapshot
  Snapshots = {empty, short, long}
  LogsOf <- MCLogsOf
  BufferMax = 2
  TailLines = 1
  MaxEntries = 4
  MaxErrors = 2
  MaxCommands = 2
INVARIANTS TypeOK Ordered NoHole SnapshotIntact SkippedHonest StatusHonest IInv
PROPERTIES NewestKept Settles
