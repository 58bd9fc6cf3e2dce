CONSTANTS
  NSlots = 3
  MemPages = 6
  StackPages = 1
  Prog <- MCProg
  Pages <- RPages
  ArgVec = {"v_sh", "v_missing", "v_big"}
  Arg0 <- MCArg0
  NoArg = "noarg"
  TooBig = {"v_big"}
  BootVecs = {"v_sh", "v_missing", "v_tall", "v_huge"}
  Codes = {"c0"}
  Zero = "zero"
  Junk = "junk"
  CallSites = {4}
  BadSites = {8}
  Entry = 0
  Oth = {x, y}
  ArgvAt = {0}
  CodeAt = {0}
SPECIFICATION HSpec
SYMMETRY Registers
INVARIANT TypeOK
INVARIANT ProcsAreChainOrFree
INVARIANT MemoryIsAStack
INVARIANT RunsItsText
PROPERTY ImplementsProcStack
