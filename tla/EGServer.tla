------------------------------ MODULE EGServer ------------------------------
(***************************************************************************)
(* The synthesis server (src/egserver.cc): Server with a handle that reads *)
(* fixed-length requests, a 256-byte header and the input of the chain,    *)
(* and writes for each the output of the chain up to the Paracortex that   *)
(* the header's "stop" selects.                                            *)
(***************************************************************************)
EXTENDS Server

CONSTANT AnswerLen    \* bytes of an answer, by the value of stop

Stops == -4..0

ASSUME EGAssumption ==
    /\ ReqLen <= InpBufN
    /\ AnswerLen \in [Stops -> Nat \ {0}]

(***************************************************************************)
(* The answer is a function of the bytes read as one request.              *)
(***************************************************************************)
Answer(req) == [j \in 1..AnswerLen[Header(req)] |-> <<req, j>>]

(***************************************************************************)
(* The requests whose answers have reached the peer whole: those of which  *)
(* the last byte of the answer is there.                                   *)
(***************************************************************************)
LastOfAnswer(b) == LastByte(b, AnswerLen)
Answered(c) == Cardinality({i \in 1..Len(got[c]) : LastOfAnswer(got[c][i])})

(***************************************************************************)
(* One iteration of the loop of EGServer::handle.                          *)
(***************************************************************************)
Consume(c, req) ==
    /\ inp' = [inp EXCEPT ![c] = AfterRead(@, ReqLen)]
    /\ eaten' = [eaten EXCEPT ![c] = @ \o req]
    /\ made' = [made EXCEPT ![c] = @ \o Answer(req)]

Serve(k) ==
    /\ Pending(k)
    /\ LET c == Head(todo[k])
           req == Request(c)
           w == Written(out[c], Answer(req), SockN - Len(down[c]))
       IN  /\ Header(req) \in Stops
           /\ Consume(c, req)
           /\ out' = [out EXCEPT ![c] = w.out]
           /\ \/ /\ w.ok
                 /\ down' = [down EXCEPT ![c] = @ \o w.sent]
                 /\ UNCHANGED <<phase, clients, todo>>
              \/ /\ ~w.ok
                 /\ Close(k, c, down[c] \o w.sent)
    /\ UNCHANGED <<backlog, pc, lset, rset, wset, failed, up, peerVars>>

(***************************************************************************)
(* The write that the answer starts with fails: the peer has vanished.     *)
(***************************************************************************)
ServeFails(k) ==
    /\ Pending(k)
    /\ LET c == Head(todo[k])
           req == Request(c)
       IN  /\ Header(req) \in Stops
           /\ gone[c]
           /\ ~NeedFlush(out[c])
           /\ Consume(c, req)
           /\ Close(k, c, down[c])
    /\ UNCHANGED <<backlog, pc, lset, rset, wset, failed, out, up, peerVars>>

Reject(k) ==
    /\ Pending(k)
    /\ LET c == Head(todo[k])
       IN  /\ Header(Request(c)) \notin Stops
           /\ Close(k, c, down[c])
    /\ UNCHANGED <<backlog, pc, lset, rset, wset, failed, inp, out, up, peerVars, history>>

Handle(k) == Serve(k) \/ ServeFails(k) \/ Reject(k)

Init == ServerInit
Next ==
    \/ \E k \in Kids : Loop(k) \/ Handle(k)
    \/ \E c \in Conns : Peer(c, Answered(c))

(***************************************************************************)
(* The kids keep running; a peer that has not vanished keeps reading.  No  *)
(* peer has to connect, to send, or to finish.                             *)
(***************************************************************************)
Spec == Init /\ [][Next]_vars
FairSpec ==
    /\ Spec
    /\ \A k \in Kids : WF_vars(Loop(k) \/ Handle(k))
    /\ \A c \in Conns : WF_vars(Receive(c))

-----------------------------------------------------------------------------
(***************************************************************************)
(* A client is deleted for a cause: its peer has finished or vanished, its *)
(* header is not valid, its answer does not fit behind those it has not    *)
(* taken, or a select that failed told of a client that was not ready, so  *)
(* that slurp or flush met the EAGAIN that both take for an error.  As     *)
(* long as select works no full inpbuf makes ::read return the 0 that      *)
(* means end of file, and nothing that other kids do takes away what       *)
(* select said of a client before its turn comes.                          *)
(***************************************************************************)
Overflows(c) ==
    /\ Len(inp[c]) >= ReqLen
    /\ Header(Request(c)) \in Stops
    /\ Len(out[c]) + AnswerLen[Header(Request(c))] > OutBufN
Malformed(c) == Len(inp[c]) >= ReqLen /\ Header(Request(c)) \notin Stops

DeletedForCause ==
    [][\A c \in Conns : phase[c] = "open" /\ phase'[c] = "closed" =>
           fin[c] \/ Malformed(c) \/ Overflows(c) \/ Misled(c)]_vars

(***************************************************************************)
(* The server answers requests: the peer's view of a connection implements *)
(* RequestReply.                                                           *)
(***************************************************************************)
replied == [c \in Conns |-> Replies(got[c], AnswerLen)]

Abstract == INSTANCE RequestReply WITH Valid <- {q \in Requests : Header(q) \in Stops}
ServesRequestsFairly == Abstract!FairSpec
=============================================================================
