CONSTANTS
    InpBufN = 3
    OutBufN = 5
    SockN = 2
    BacklogN = 1
    MaxRequests = 3
    Window = 3
    ReqLen = 2
    LenBytes = 2
    SelectFaults = FALSE
    Conns = {c1}
    Kids = {k1}
    Headers <- TwoTiles
    PngLen <- Pngs
SPECIFICATION FairSpec
INVARIANTS Framed
PROPERTIES FrameFinished ServesTilesFairly
