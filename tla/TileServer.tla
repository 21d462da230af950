----------------------------- MODULE TileServer -----------------------------
(***************************************************************************)
(* The tile server's handle (src/tileserver.cc): Server with a handle that *)
(* reads requests of 12 bytes and answers each with a frame, the length of *)
(* a PNG and then the PNG.  TilePyramid models how the PNG comes to be;    *)
(* here it is a sequence of bytes of a length that depends on the tile.    *)
(*                                                                         *)
(* A frame is written in two calls, after a check that it fits in outbuf   *)
(* as a whole; peers and other kids act between them.                      *)
(***************************************************************************)
EXTENDS Server

CONSTANTS LenBytes,   \* bytes of the length: 4 in the code
          PngLen      \* bytes of a tile's PNG, by what the request asks for

ASSUME TileServerAssumption ==
    /\ ReqLen <= InpBufN
    /\ LenBytes \in Nat \ {0}
    /\ PngLen \in [Headers -> Nat \ {0}]

FrameLen(req) == LenBytes + PngLen[Header(req)]
Length(req) == [j \in 1..LenBytes |-> <<req, j>>]
Png(req) == [j \in 1..PngLen[Header(req)] |-> <<req, LenBytes + j>>]

\* The request that handle has read last.
Asked(c) == Drop(eaten[c], Len(eaten[c]) - ReqLen)

LastOfFrame(b) == b[2] = FrameLen(b[1])
Answered(c) == Cardinality({i \in 1..Len(got[c]) : LastOfFrame(got[c][i])})

Reads(c) ==
    /\ inp' = [inp EXCEPT ![c] = AfterRead(@, ReqLen)]
    /\ eaten' = [eaten EXCEPT ![c] = @ \o Request(c)]

(***************************************************************************)
(* Does the frame fit in outbuf, behind what is there?                     *)
(***************************************************************************)
\* Mutated form: the four bytes of the length are forgotten.
FitsPng(c, req) == CanWrite(out[c], PngLen[Header(req)])
Fits(c, req) == CanWrite(out[c], FrameLen(req))

Refuse(k) ==
    /\ Pending(k)
    /\ LET c == Head(todo[k])
       IN  /\ ~Fits(c, Request(c))
           /\ Reads(c)
           /\ Close(k, c, down[c])
    /\ UNCHANGED <<backlog, pc, lset, rset, wset, failed, out, up, peerVars, made>>

(***************************************************************************)
(* Client::write of one part of a frame, after which the kid goes to next, *)
(* or deletes the client when the part does not fit.                       *)
(***************************************************************************)
WritePart(k, c, part, next) ==
    LET w == Written(out[c], part, SockN - Len(down[c]))
    IN  /\ made' = [made EXCEPT ![c] = @ \o part]
        /\ out' = [out EXCEPT ![c] = w.out]
        /\ \/ /\ w.ok
              /\ pc' = [pc EXCEPT ![k] = next]
              /\ down' = [down EXCEPT ![c] = @ \o w.sent]
              /\ UNCHANGED <<phase, clients, todo>>
           \/ /\ ~w.ok
              /\ pc' = [pc EXCEPT ![k] = "handle"]
              /\ Close(k, c, down[c] \o w.sent)

(***************************************************************************)
(* A part is sent at once and the send fails: the peer has vanished.       *)
(***************************************************************************)
PartFails(k, c) ==
    /\ gone[c]
    /\ ~NeedFlush(out[c])
    /\ pc' = [pc EXCEPT ![k] = "handle"]
    /\ Close(k, c, down[c])

(***************************************************************************)
(* tile_png has returned, here and in Refuse and LengthFails: the header   *)
(* asks for a tile with z < 32.  handle tests no header, and a larger z    *)
(* would end the kid at tile_png's assertion; no peer here asks for one.   *)
(***************************************************************************)
ServeLength(k) ==
    /\ Pending(k)
    /\ LET c == Head(todo[k])
           req == Request(c)
       IN  /\ Fits(c, req)
           /\ Reads(c)
           /\ WritePart(k, c, Length(req), "png")
    /\ UNCHANGED <<backlog, lset, rset, wset, failed, up, peerVars>>

LengthFails(k) ==
    /\ Pending(k)
    /\ LET c == Head(todo[k])
       IN  /\ Fits(c, Request(c))
           /\ Reads(c)
           /\ PartFails(k, c)
    /\ UNCHANGED <<backlog, lset, rset, wset, failed, out, up, peerVars, made>>

ServePng(k) ==
    /\ pc[k] = "png"
    /\ LET c == Head(todo[k])
       IN  WritePart(k, c, Png(Asked(c)), "handle")
    /\ UNCHANGED <<backlog, lset, rset, wset, failed, inp, up, peerVars, eaten>>

PngFails(k) ==
    /\ pc[k] = "png"
    /\ PartFails(k, Head(todo[k]))
    /\ UNCHANGED <<backlog, lset, rset, wset, failed, inp, out, up, peerVars, history>>

Handle(k) == Refuse(k) \/ ServeLength(k) \/ LengthFails(k) \/ ServePng(k) \/ PngFails(k)

Init == ServerInit
Next ==
    \/ \E k \in Kids : Loop(k) \/ Handle(k)
    \/ \E c \in Conns : Peer(c, Answered(c))

Spec == Init /\ [][Next]_vars
FairSpec ==
    /\ Spec
    /\ \A k \in Kids : WF_vars(Loop(k) \/ Handle(k))
    /\ \A c \in Conns : WF_vars(Receive(c))

-----------------------------------------------------------------------------
(***************************************************************************)
(* Once the length of a PNG was written, the PNG follows: the check made   *)
(* before the first write still holds at the second, whatever the socket   *)
(* took or did not take in between.  Only a vanished peer stops it.        *)
(***************************************************************************)
FrameFinished ==
    [][\A k \in Kids : pc[k] = "png" /\ pc'[k] # "png" /\ ~gone[Head(todo[k])] =>
           phase'[Head(todo[k])] = "open"]_vars

(***************************************************************************)
(* What a peer has received is, at every moment and also after it was      *)
(* deleted, the beginning of the frames for its requests in their order:   *)
(* it never has to guess where the next length begins.                     *)
(***************************************************************************)
Frame(req) == Length(req) \o Png(req)
Framed ==
    \A c \in Conns :
        IsPrefix(got[c], FlattenSeq([r \in 1..Len(asked[c]) |-> Frame(asked[c][r])]))

(***************************************************************************)
(* The server answers tile requests: the peer's view of a connection       *)
(* implements RequestReply.                                                *)
(***************************************************************************)
FrameLens == [h \in Headers |-> LenBytes + PngLen[h]]
replied == [c \in Conns |-> Replies(got[c], FrameLens)]

Abstract == INSTANCE RequestReply WITH Valid <- Requests
ServesTilesFairly == Abstract!FairSpec
=============================================================================
