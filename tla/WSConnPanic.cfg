SPECIFICATION Spec
CONSTANTS
    MaxMessages = 2
    MaxFrames = 1
INVARIANTS
    NoConcurrentWrite
