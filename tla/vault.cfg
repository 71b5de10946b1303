SPECIFICATION Spec
CONSTANTS
  p1 = p1
  p2 = p2
  PINS = {p1, p2}
  MAX_FAILED = 2
  MaxCalls = 2
  MaxSalts = 3
  MaxGuesses = 4
INVARIANTS
  Readable
  OpensWithTheChosenPin
  GuessesAreLimited
