SPECIFICATION TwoSpec
CONSTANTS
  p1 = p1  p2 = p2  f1 = f1  g1 = g1
  default = default  good = good  malformed = malformed
  t1 = t1  t2 = t2
  Pkgs <- TwoPkgs
  NoPkg = NoPkg
  Versions = {1, 2}
  Files = {f1}
  Content <- TwoPkgContent
  Creds = {default, good}
  NoCreds = default
  MalformedCreds = {}
  Opens <- TwoPkgOpens
  Tasks = {t1, t2}
  MaxPending = 1
  MaxJobs = 3
  FileChanges = "between"
INVARIANTS
  TypeOK
  ExclusiveEngine
  EngineServesItsTask
  PickerIsCoherent
  DoneShowsLastRequest
  DoneCountsTheFiles
PROPERTIES
  CacheServesCurrent
  KeysSurvive
SYMMETRY TaskSymmetry
