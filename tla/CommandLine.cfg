SPECIFICATION LineSpec
CONSTANTS
  Paths <- MCPaths
  Slots = {"probe", "pkg", "pfs"}
  PageSize = 2
  Sizes <- MCSizes
  Apple = TRUE
  Package = "pkg"
  Piece <- MCPiece
  HeaderSize = 1
  TableAt = 2
  DataAt = 2
  ImageAt = 3
  ImageSize = 4
  PieceSize = 4
  Requests <- MCRequests
  Lines <- MCLines
  Image = "img"
INVARIANTS
  NothingLost
  ReadsThePackage
  CrashesForACause
  ReleasedOnce
  
  ExitTellsTruth
