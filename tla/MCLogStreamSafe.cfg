SPECIFICATION MCSpec
CONSTANTS
  web = web
  db = db
  info = info
  error = error
  Blank = Blank
  DockerEvents = DockerEvents
  Kind <- MCKind
  Containers = {web, db}
  Levels = {info, error}
  LogCap = 2
  EventCap = 1
  TailLines = 1
  MaxLines = 3
  MaxEvents = 1
INVARIANTS TypeOK NothingLost InOrder IInv
PROPERTIES ImplementsFeed
CHECK_DEADLOCK FALSE
