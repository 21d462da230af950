SPECIFICATION ReaderSpec
CONSTANTS
    Learners = {l1}
    Readers = {r1}
    Tools = {t1}
    N = 1
    L = 1
    C = 2
    Conv <- OneConv
    Freeze <- OneFrozen
    RepInt = 1
    StopRounds = 1
    Commands = {"unfreeze"}
    MaxLearned = 3
    MaxTools = 1
    MaxKills = 1
INVARIANTS SavesKept FrozenUntrained
PROPERTIES NeverOlder ReadersCatchUp
CHECK_DEADLOCK FALSE
