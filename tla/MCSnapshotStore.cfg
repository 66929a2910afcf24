SPECIFICATION Spec
CONSTANTS
  a = a
  b = b
  short = short
  long = long
  cut = cut
  r1 = r1
  r2 = r2
  Requests = {r1, r2}
  Names = {a, b}
  NoName = NoName
  Messages = {short, long, cut}
  Stored <- MCStored
  Inputs <- MCInputs
  Malformed = Malformed
  MaxLogs = 2
  MaxIds = 2
  MaxCrashes = 1
SYMMETRY Symmetry
INVARIANTS TypeOK AcknowledgedStays CountedOnce AnswersDistinct IInv
PROPERTIES ImplementsMap
