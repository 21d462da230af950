CONSTANTS
    InpBufN = 3
    OutBufN = 3
    SockN = 2
    BacklogN = 1
    MaxRequests = 3
    Window = 3
    ReqLen = 2
    SelectFaults = TRUE
    Conns = {c1}
    Kids = {k1, k2}
    Headers <- AllHeaders
    AnswerLen <- Answers3
SYMMETRY KidSymmetry
SPECIFICATION Spec
INVARIANTS TypeOK RequestStream AnswerStream OneOwner
PROPERTIES DeletedForCause
