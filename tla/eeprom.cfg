\* Dictionaries of two categories, written, read and written again.
SPECIFICATION Spec
CONSTANTS
  Dictionaries <- MCDictionaries
  Files <- MCFiles
  Names <- MCNames
  Serials <- MCSerials
  Generations = 1
INVARIANTS
  TypeOK
  RoundTrip
  CompleteOrRefused
CHECK_DEADLOCK FALSE
