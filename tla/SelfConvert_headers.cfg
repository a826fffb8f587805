SPECIFICATION Spec
CONSTANTS
  IntMax = 30  Room = 18
  Selfs <- MCSelfs
INVARIANTS HeadersInPlace
