SPECIFICATION Spec
CONSTANTS
  web = web
  db = db
  Containers = {web, db}
  NoContainer = NoContainer
  Payloads <- MCPayloads
  Actions = {"die", "stop", "start", "rename"}
  MaxMessage = 4
  MaxRows = 1
  MaxSaves = 3
INVARIANTS TypeOK LinesKept StoredBounded SavingSettles BlankOnlyFromEscapes LostOnlyByReturn
