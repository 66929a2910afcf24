SPECIFICATION Spec
CONSTANTS
  web = web
  db = db
  info = info
  error = error
  word = word
  star = star
  Containers = {web, db}
  NoContainer = NoContainer
  Levels = {info, error}
  Texts <- MCTexts
  Patterns = {word, star}
  NoSearch = NoSearch
  Hits <- MCHits
  Entries <- MCEntries
  Snapshots <- MCSnapshots
  BufferMax = 3
INVARIANTS TypeOK FilterHonest 
CHECK_DEADLOCK FALSE
