SPECIFICATION ToolSpec
CONSTANTS
  Word = "x"
  NumberArgs = {0, 3}
  MaxSafe = 100
INVARIANT CommandsAgree
CHECK_DEADLOCK FALSE
