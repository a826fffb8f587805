SPECIFICATION FairSpec
CONSTANTS
  p1 = p1  p2 = p2  f1 = f1  g1 = g1
  default = default  good = good  malformed = malformed
  t1 = t1  t2 = t2
  Pkgs <- OnePkg
  NoPkg = NoPkg
  Versions = {1}
  Files = {f1, g1}
  Content <- TwoFileContent
  Creds = {default, malformed}
  NoCreds = default
  MalformedCreds = {malformed}
  Opens <- OnePkgOpens
  Tasks = {t1, t2}
  MaxPending = 1
  MaxJobs = 2
  FileChanges = "between"
PROPERTY JobsEnd
