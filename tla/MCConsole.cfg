CONSTANT Size = 6
CONSTANT IntMax = 127
CONSTANT Digits = 5
CONSTANT Calls <- MCCalls
CONSTANT Garbage = 255
CONSTANT Runs <- MCRuns
CONSTANT Wild = Wild
SPECIFICATION CSpec
INVARIANT TypeOK
INVARIANT PrintsWholePieces
INVARIANT ConsoleSays
