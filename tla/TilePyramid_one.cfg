SPECIFICATION FairSpec
CONSTANTS
    MaxZ = 2
    Side <- Sides
    Kids = {k1}
    Asked <- Neighbours
    Kills = 2
INVARIANTS FromPublished CallsFit NeverAborts
PROPERTIES Frozen Served
