SPECIFICATION MCFairSpec
CONSTANTS
  web = web
  db = db
  info = info
  error = error
  Blank = Blank
  DockerEvents = DockerEvents
  Kind <- MCKind
  Containers = {web}
  Levels = {info, error}
  LogCap = 1
  EventCap = 1
  TailLines = 0
  MaxLines = 0
  MaxEvents = 1
INVARIANTS EntriesAreReal
CHECK_DEADLOCK FALSE
