CONSTANT BufSz = 5
CONSTANT ArgvSz = 3
CONSTANT Char = {"a", "b"}
CONSTANT NUL = "nul"
CONSTANT Vec <- EchoVec
CONSTANT Others = {}
SPECIFICATION Spec
INVARIANT GetsItsArguments
