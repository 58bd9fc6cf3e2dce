CONSTANT Half = 32
CONSTANT HdrSize = 26
CONSTANT PhdrSize = 56
CONSTANT PageSize = 4
CONSTANT MemBytes = 24
CONSTANT Base = 1103
CONSTANT StackBytes = 4
CONSTANT Trailer <- MCTrailer
CONSTANT ElfPat <- MCElfPat
CONSTANT Holes <- MCHoles
CONSTANT MaxEntries = 8
CONSTANT Hosts <- MCHosts
CONSTANT ReadMax = 508
CONSTANT LastSig = 7
CONSTANT SEGV = 5
CONSTANT SigKill = 3
CONSTANT SigStop = 6
CONSTANT ExnMax = 8
CONSTANT MaxProcs = 3
CONSTANT First <- sh
CONSTANT Names <- MCNames
SPECIFICATION Spec
INVARIANT TypeOK
INVARIANT TableIsTheImage
INVARIANT FindsFirst
INVARIANT ProgramsAreWhole
PROPERTY LoadsInPages
PROPERTY AlwaysSettles
