SPECIFICATION Spec
CONSTANTS
    Parts = 2
    PipeN = 2
    MaxDeaths = 1
    Scenes <- AllScenes
CHECK_DEADLOCK FALSE
INVARIANTS ScanOrder Delivered IdsNameSamples StuckWhenCutShort
PROPERTIES EndsUnlessStuck
