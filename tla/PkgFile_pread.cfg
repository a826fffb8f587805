SPECIFICATION FileSpec
CONSTANTS
  Paths <- MCPaths
  Slots = {"probe", "pkg"}
  PageSize = 2
  Sizes <- MCComplete
  Apple = TRUE
  Package = "pkg"
  Piece <- MCPiece
  HeaderSize = 1
  TableAt = 2
  DataAt = 2
  ImageAt = 3
  ImageSize = 4
  PieceSize = 4
  Requests <- MCRequests
INVARIANTS
  EntriesAreInTheHeader
CHECK_DEADLOCK FALSE
