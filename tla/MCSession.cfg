CONSTANT BufSize = 8
CONSTANT Input <- MCInput
CONSTANT Behind <- MCBehind
CONSTANT Uninit = {120}
CONSTANT Keyboards <- MCKeyboards
CONSTANT Echo <- MCEcho
CONSTANT EchoCode <- MCEchoCode
CONSTANT ArgsSz = 6
CONSTANT ArgvSz = 4
CONSTANT Depth = 2
SPECIFICATION SSpec
INVARIANT TypeOK
INVARIANT RunsItsCommands
INVARIANT ArgvFits
INVARIANT PrintsWhatIsAsked
PROPERTY PromptsAgain
