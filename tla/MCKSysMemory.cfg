CONSTANTS
  NSlots = 3
  MemPages = 9
  StackPages = 2
  Prog <- MCProg
  Pages <- MCPages
  ArgVec = {"v_sh", "v_big"}
  Arg0 <- MCArg0
  NoArg = "noarg"
  TooBig = {}
  BootVecs = {"v_sh"}
  Codes = {"c0"}
  Zero = "zero"
  Junk = "junk"
  CallSites = {4}
  BadSites = {}
  Entry = 0
  Oth = {"x"}
  ArgvAt = {0}
  CodeAt = {1}
SPECIFICATION Spec
INVARIANT NeverKilled
