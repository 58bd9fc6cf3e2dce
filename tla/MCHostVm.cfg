CONSTANTS
  NMaps = 3
  KernelMaps = {1, 3}
  Procs = {p1, p2}
  NoProc = noproc
  SEGV = segv
  Async = {int, alrm}
  When = {"user"}
SPECIFICATION Spec
INVARIANT KernelRunsOpen
