SPECIFICATION FairSpec
CONSTANTS
    Learners = {l1, l2}
    Readers <- NoOne
    Tools = {t1}
    N = 1
    L = 1
    C = 1
    Conv <- OneConv
    Freeze <- OneFrozen
    RepInt = 1
    StopRounds = 3
    Commands = {"reset"}
    MaxLearned = 30
    MaxTools = 1
    MaxKills = 1
CHECK_DEADLOCK FALSE
INVARIANTS RoundsNotOvercounted
PROPERTIES LearnersStop
