SPECIFICATION Spec
CONSTANTS
  Any = "*"
  One = "?"
  Sep = "/"
  Char = {"a", "A", "/", "*", "?"}
  NameChar = {"a", "A", "/"}
  Upper <- MCUpper
  MaxLen = 4
INVARIANTS
  MatchesTheMask
  PathsAreReached
PROPERTIES
  LoopEnds
