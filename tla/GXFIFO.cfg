SPECIFICATION Spec
CONSTANTS
    FIFOSize = 4
    StallSize = 2
    Burst = 2
    Slice = 2
    Frame = 3
    FlushCycles = 3
    MaxSTM = 1
    CmdCycles = {1, 3}
    DMALengths = {3}
    Program <- MCProgram
INVARIANTS Unpacked QueuesBacked StatusTrue
PROPERTIES QueueSpec StallEnds RequestsServed
