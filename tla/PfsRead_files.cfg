SPECIFICATION Spec
CONSTANTS
  BlockSize = 4 DirectMax = 2 PerBlock = 2 WorkSize = 8
  Grain = 2 Lengths = {0, 1, 4, 7}
  Contiguous <- MCContiguous
  Files <- MCFiles
  InnerFiles <- MCInnerFiles
  Playgos <- MCPlaygos
INVARIANTS ListFitsItsAllocation ReadReturnsTheFile FailsForACause InodeTableAgrees LineIsTrue
