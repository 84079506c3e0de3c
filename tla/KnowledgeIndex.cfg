SPECIFICATION DocumentsFairSpec

CONSTANTS
  a = a
  b = b
  said = said
  rest = rest
  Ids = {a, b}
  Fields = {said, rest}
  TextField = said
  Corpus <- MCCorpus
  MaxChars = 3
  Overlap = 1
  MaxInputs = 4

INVARIANTS
  ReadYourWrites
  IndexIsCurrent

PROPERTIES
  LostOnlyUnseen
  EventsAreHandled

CHECK_DEADLOCK FALSE
