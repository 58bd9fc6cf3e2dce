CONSTANT BufSz = 5
CONSTANT ArgvSz = 3
CONSTANT Char = {"a", "b"}
CONSTANT NUL = "nul"
CONSTANT Vec <- MCVec
CONSTANT Others <- MCOthers
SPECIFICATION Spec
INVARIANT TypeOK
INVARIANT MainFindsArguments
INVARIANT RefusesTheRest
PROPERTY ArgsBounded
