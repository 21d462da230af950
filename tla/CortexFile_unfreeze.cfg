SPECIFICATION Spec
CONSTANTS
    Learners <- NoOne
    Readers <- NoOne
    Tools = {t1}
    N = 1
    L = 2
    C = 2
    Conv <- OneConv
    Freeze <- OneFrozen
    RepInt = 1
    StopRounds = 1
    Commands = {"unfreeze"}
    MaxLearned = 0
    MaxTools = 1
    MaxKills = 0
INVARIANTS SavesArePrepared
CHECK_DEADLOCK FALSE
