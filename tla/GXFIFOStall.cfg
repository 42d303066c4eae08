SPECIFICATION Spec
CONSTANTS
    FIFOSize = 4
    StallSize = 4
    Burst = 2
    Slice = 2
    Frame = 4
    FlushCycles = 3
    MaxSTM = 1
    CmdCycles = {1, 3}
    DMALengths = {3}
    Program <- LongProgram
PROPERTIES StallQueueSuffices
