SPECIFICATION JITSpec
CONSTANTS
    CPUs = {"ARM9", "ARM7"}
    CodeUnits = {1, 2}
    Page <- MCPage
    Settings <- MCSettings
    Starts <- MCStarts
    Lens <- MCLens
    LitAddr = 2
    Vals = {0, 1}
    Load = 1
    Ptrs = {1, 2}
    NULL = NULL
CONSTRAINT Bounded
INVARIANTS NothingDangles StoresAreSeen DispatchIsCurrent
