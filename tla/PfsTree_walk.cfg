SPECIFICATION FairSpec
CONSTANTS
  a = a A = A b = b dot = dot dotdot = dotdot
  root = root d1 = d1 d2 = d2 f1 = f1 f2 = f2 f3 = f3
  Names <- MCNames Dot = dot DotDot = dotdot Fold <- MCFold
  Inodes <- MCInodes Root = root
  Images <- MCImages Leftovers <- MCLeftovers Requests <- MCRequests MaxChosen = 2 MaxDepth = 3
INVARIANTS RightContents OnePartialFile CountIsFiles CompleteUnlessSkipped
  ListingMatchesExtraction
PROPERTIES OnlyTheDiskFails CallsReturn
