SPECIFICATION ProcsSpec
CONSTANTS
    MaxZ = 1
    Side <- Sides
    Kids = {k1, k2}
    Asked <- Quad1
    Kills = 2
    Count = 2
    Deaths = 2
    Fails = 1
SYMMETRY KidSymmetry
CHECK_DEADLOCK FALSE
INVARIANTS OncePerKid EndsLast WaitsReturn
