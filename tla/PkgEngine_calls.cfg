SPECIFICATION FairSpec
CONSTANTS
  game = game titled = titled fake = fake bare = bare addon = addon
  zeros = zeros word = word otherWord = otherWord ekc = ekc otherEkc = otherEkc
  None = None Garbage = Garbage
  Packages <- MCPackages Ids <- MCIds Passcodes <- MCPasscodes Zeros = zeros
  Seeds <- MCSeeds IdOf <- MCIdOf Attr <- MCAttr Title <- MCTitle
  Threads = {t1, t2}
  MaxEntries = 2
INVARIANTS ErrorsAreCaught CleanBetweenCalls ImagesOutlivedByKeys
  FailureIsExplained KeysOfThisCall RightKeysOpen
PROPERTIES CallsReturn ImplementsBridge
