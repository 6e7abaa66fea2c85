SPECIFICATION FairSpec
CONSTANTS
  r1 = r1
  r2 = r2
  a = a
  b = b
  None = None
  Repos <- TwoRepos
  Texts <- TwoTexts
  Capacity = 1
  QueryCapacity = 1
  Pool = 1
  MicroBatch = 1
  MaxBatch = 2
INVARIANT TypeOK
INVARIANT CachesWellFormed
INVARIANT RightVectors
INVARIANT SessionsKept
PROPERTY Answered
