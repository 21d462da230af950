SPECIFICATION Spec
CONSTANTS
    Makers = {m1, m2}
    Users = {u1}
    NoMaker = NoMaker
    Lines = 3
    MaxKills = 1
SYMMETRY MakeSymmetry
CHECK_DEADLOCK FALSE
INVARIANTS WholeChains
