SPECIFICATION Spec
CONSTANTS
  w1 = w1
  w2 = w2
  w3 = w3
  w4 = w4
  r1 = r1
  r2 = r2
  r3 = r3
  tag_a = tag_a
  tag_b = tag_b
  tag_c = tag_c
  tag_d = tag_d
  Workers <- MCWorkers
  Runs <- MCRuns
  Keys = {"k1", "k2"}
  RunOf <- MCRunOf
  Together <- MCTogether
  Jobs <- MCJobs
  MaxDirs = 3
  MaxStarts = 2
  Word = "x"
  NumberArgs <- MCNumberArgs
  MaxSafe = 100
  Builders = {"b1"}
  Failing = {"b1"}
  Legacy = {1, 2}
  Damage = TRUE
  Importers = {"i1"}
  Logs <- MCLogs
  PartNames = {"p1", "p2", "p3"}
  Notes = {}
  FileLimit = 2
  ChunkSize = 16
  ChunkOverlap = 4
  MinChunk = 2
  MaxText = 30
  MaxLines = 4
  LineLengths = {1}
  Stored = {1, 2, 3}
  Origin <- MCOrigin
  Limits = {0, 1, 2}
  Widening = 2
  MaxDuplicates = 2
  Tags <- MCTags
  TagSets <- MCTagSets
  HopLimits = {0, 2, 3}
  Rankers = {"v1", "v2"}
  Questions <- MCQuestions
  Assistant = {"q2"}
  Haystack <- MCHaystack
  Sessions <- MCSessions
  ChunkLimit = 2
  EmbedSize = 2
  VectorLimit = 2
INVARIANTS
  EveryDirOwned
  SearchesOpen
  OneFlightPerKey
  KnownIsHot
  ToolsAgree
  StartsSound
  AddedOnce
  SetAsideWhole
  TextKept
  AnswerPasses
  NeverShadowed
  WalkComplete
  CandidatesRight
PROPERTIES
  RunReturns
  WholeUnlessHalfRemoved
CHECK_DEADLOCK FALSE
