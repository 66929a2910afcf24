SPECIFICATION MCFairSpec
CONSTANTS
  web = web
  db = db
  info = info
  error = error
  Blank = Blank
  DockerEvents = DockerEvents
  Kind <- MCKind
  Containers = {db}
  Levels = {info, error}
  LogCap = 1
  EventCap = 1
  TailLines = 1
  MaxLines = 2
  MaxEvents = 2
PROPERTIES WorkersExit EventsWorkerExitsOrStuck HandlerReturns Delivered
CHECK_DEADLOCK FALSE
