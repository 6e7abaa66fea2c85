SPECIFICATION CorpusDirSpec
CONSTANTS
  Builders = {"b1"}
  Failing = {"b1"}
INVARIANT OpenedWhole
