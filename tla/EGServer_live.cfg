CONSTANTS
    InpBufN = 1
    OutBufN = 2
    SockN = 1
    BacklogN = 1
    MaxRequests = 2
    Window = 2
    ReqLen = 1
    SelectFaults = FALSE
    Conns = {c1, c2}
    Kids = {k1}
    Headers <- GoodHeader
    AnswerLen <- Answers1
SPECIFICATION FairSpec
INVARIANTS OneOwner
PROPERTIES Reaped ServesRequestsFairly
