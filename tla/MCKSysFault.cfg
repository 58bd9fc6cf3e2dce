CONSTANTS
  NSlots = 2
  MemPages = 6
  StackPages = 2
  Prog <- MCProg
  Pages <- MCPages
  ArgVec = {"v_sh"}
  Arg0 <- MCArg0
  NoArg = "noarg"
  TooBig = {}
  BootVecs = {"v_sh"}
  Codes = {"c0"}
  Zero = "zero"
  Junk = "junk"
  CallSites = {4}
  BadSites = {8}
  Entry = 0
  Oth = {"x"}
  ArgvAt = {0}
  CodeAt = {1}
SPECIFICATION FairSpec
PROPERTY FaultIsResolved
