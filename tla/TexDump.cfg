SPECIFICATION Spec
CONSTANTS
    Textures = {t1, t2, t3}
    Palettes = {p1}
    Paletted = {t1}
    None = None
    Budget = 2
    Gens = {"data", "fails"}
    Cap = 1
    MaxLost = 1
INVARIANTS SeenIsAccounted
PROPERTIES DumpsArrive JoinReturns
