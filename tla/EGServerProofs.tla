-------------------------- MODULE EGServerProofs --------------------------
(***************************************************************************)
(* Theorems about EGServer, on the lemmas of ServerProofs.                 *)
(***************************************************************************)
EXTENDS EGServer, ServerProofs

(***************************************************************************)
(* An answer is a sequence of answer bytes.                                *)
(***************************************************************************)
LEMMA AnswerTyped ==
    ASSUME NEW req \in Seq(ReqByte), Header(req) \in Stops
    PROVE  Answer(req) \in Seq(AnsByte)
<1>1. AnswerLen[Header(req)] \in Nat
  BY EGAssumption
<1>2. \A j \in 1..AnswerLen[Header(req)] : <<req, j>> \in AnsByte
  BY <1>1 DEF AnsByte
<1>. QED
  BY <1>1, <1>2, IsASeq DEF Answer

(***************************************************************************)
(* Taking one request from inpbuf.                                         *)
(***************************************************************************)
LEMMA Consumed ==
    ASSUME TypeOK, NEW c \in Conns, CanRead(inp[c], ReqLen), Header(Request(c)) \in Stops,
           Consume(c, Request(c))
    PROVE  /\ Request(c) \in Seq(ReqByte) /\ Answer(Request(c)) \in Seq(AnsByte)
           /\ Drop(inp[c], ReqLen) \in Seq(ReqByte)
           /\ Request(c) \o Drop(inp[c], ReqLen) = inp[c]
           /\ inp' = [inp EXCEPT ![c] = Drop(inp[c], ReqLen)]
           /\ inp' \in [Conns -> Seq(ReqByte)] /\ eaten' \in [Conns -> Seq(ReqByte)]
           /\ made' \in [Conns -> Seq(AnsByte)]
           /\ \A d \in Conns : Len(inp'[d]) <= InpBufN
<1>1. inp[c] \in Seq(ReqByte) /\ ReqLen \in 0..Len(inp[c])
  BY Sizes, ServerAssumption DEF CanRead
<1>2. /\ Request(c) \in Seq(ReqByte) /\ Drop(inp[c], ReqLen) \in Seq(ReqByte)
      /\ Request(c) \o Drop(inp[c], ReqLen) = inp[c]
      /\ Len(Drop(inp[c], ReqLen)) = Len(inp[c]) - ReqLen
  BY <1>1, TakeDrop DEF Request
<1>3. Answer(Request(c)) \in Seq(AnsByte)
  BY <1>2, AnswerTyped
<1>4. /\ inp' = [inp EXCEPT ![c] = Drop(inp[c], ReqLen)]
      /\ eaten' = [eaten EXCEPT ![c] = eaten[c] \o Request(c)]
      /\ made' = [made EXCEPT ![c] = made[c] \o Answer(Request(c))]
  BY DEF Consume, AfterRead
<1>5. eaten[c] \o Request(c) \in Seq(ReqByte) /\ made[c] \o Answer(Request(c)) \in Seq(AnsByte)
  BY <1>2, <1>3, Sizes, ConcatTyped
<1>6. Len(Drop(inp[c], ReqLen)) <= InpBufN
  BY <1>1, <1>2, Sizes, BufAssumption, ServerAssumption
<1>7. /\ inp \in [Conns -> Seq(ReqByte)] /\ eaten \in [Conns -> Seq(ReqByte)]
      /\ made \in [Conns -> Seq(AnsByte)]
      /\ \A d \in Conns : Len(inp[d]) <= InpBufN
  BY DEF TypeOK, Bounded
<1>8. /\ inp' \in [Conns -> Seq(ReqByte)] /\ eaten' \in [Conns -> Seq(ReqByte)]
      /\ made' \in [Conns -> Seq(AnsByte)]
      /\ \A d \in Conns : Len(inp'[d]) <= InpBufN
  BY <1>2, <1>4, <1>5, <1>6, <1>7
<1>. QED
  BY <1>2, <1>3, <1>4, <1>8

LEMMA HandleTyped ==
    ASSUME TypeOK, NEW k \in Kids, Handle(k)
    PROVE  TypeOK'
<1>. USE DEF procVars, peerVars, history
<1>0. Pending(k)
  BY Zenon DEF Handle, Serve, ServeFails, Reject
<1>1. PICK c \in Conns : c = Head(todo[k])
  BY <1>0, HeadTail DEF Pending, TypeOK
<1>2. todo[k] # <<>> /\ CanRead(inp[c], ReqLen)
  BY <1>0, <1>1 DEF Pending
<1>3. CASE Serve(k)
  <2>. DEFINE w == Written(out[c], Answer(Request(c)), SockN - Len(down[c]))
  <2>1. /\ Header(Request(c)) \in Stops /\ Consume(c, Request(c))
        /\ out' = [out EXCEPT ![c] = w.out]
        /\ \/ /\ down' = [down EXCEPT ![c] = down[c] \o w.sent]
              /\ UNCHANGED <<phase, clients, todo>>
           \/ Close(k, c, down[c] \o w.sent)
    BY <1>1, <1>3, ZenonT(40) DEF Serve
  <2>2. /\ Answer(Request(c)) \in Seq(AnsByte)
        /\ inp' \in [Conns -> Seq(ReqByte)] /\ eaten' \in [Conns -> Seq(ReqByte)]
        /\ made' \in [Conns -> Seq(AnsByte)]
        /\ \A d \in Conns : Len(inp'[d]) <= InpBufN
    BY <1>2, <2>1, Consumed
  <2>3. /\ w.out \in Seq(AnsByte) /\ Len(w.out) <= OutBufN
        /\ down[c] \o w.sent \in Seq(AnsByte) /\ Len(down[c] \o w.sent) <= SockN
    BY <2>2, WrittenTyped
  <2>. HIDE DEF w
  <2>4. out' \in [Conns -> Seq(AnsByte)] /\ \A d \in Conns : Len(out'[d]) <= OutBufN
    BY <2>1, <2>3 DEF TypeOK, Bounded
  <2>5. /\ phase' \in [Conns -> {"idle", "queued", "open", "closed"}]
        /\ clients' \in [Kids -> Seq(Conns)] /\ todo' \in [Kids -> Seq(Conns)]
        /\ \A j \in Kids : Len(todo'[j]) <= Len(clients'[j])
        /\ down' \in [Conns -> Seq(AnsByte)] /\ \A d \in Conns : Len(down'[d]) <= SockN
    <3>1. CASE Close(k, c, down[c] \o w.sent)
      <4>. DEFINE kept == down[c] \o w.sent
      <4>1. kept \in Seq(AnsByte) /\ Len(kept) <= SockN /\ Close(k, c, kept)
        BY <2>3, <3>1
      <4>. HIDE DEF kept
      <4>. QED
        BY <1>2, <4>1, CloseTyped
    <3>2. CASE /\ down' = [down EXCEPT ![c] = down[c] \o w.sent]
               /\ UNCHANGED <<phase, clients, todo>>
      BY <2>3, <3>2 DEF TypeOK, Bounded
    <3>. QED
      BY <2>1, <3>1, <3>2
  <2>. QED
    BY <1>3, <2>2, <2>4, <2>5, ZenonT(40) DEF Serve, TypeOK, Bounded
<1>4. down[c] \in Seq(AnsByte) /\ Len(down[c]) <= SockN
  BY DEF TypeOK, Bounded
<1>5. CASE ServeFails(k)
  <2>1. /\ Header(Request(c)) \in Stops /\ Consume(c, Request(c)) /\ Close(k, c, down[c])
    BY <1>1, <1>5 DEF ServeFails
  <2>2. /\ inp' \in [Conns -> Seq(ReqByte)] /\ eaten' \in [Conns -> Seq(ReqByte)]
        /\ made' \in [Conns -> Seq(AnsByte)]
        /\ \A d \in Conns : Len(inp'[d]) <= InpBufN
    BY <1>2, <2>1, Consumed
  <2>. QED
    BY <1>2, <1>4, <1>5, <2>1, <2>2, CloseTyped DEF ServeFails, TypeOK, Bounded
<1>6. CASE Reject(k)
  <2>1. Close(k, c, down[c])
    BY <1>1, <1>6 DEF Reject
  <2>. QED
    BY <1>2, <1>4, <1>6, <2>1, CloseTyped DEF Reject, TypeOK, Bounded
<1>. QED
  BY <1>3, <1>5, <1>6 DEF Handle

(***************************************************************************)
(* Every variable keeps its type, and no buffer and no kernel queue ever   *)
(* holds more than its capacity: Client::slurp, Client::write and          *)
(* Client::flush stay inside inpbuf and outbuf.                            *)
(***************************************************************************)
THEOREM TypeCorrect == Spec => []TypeOK
<1>1. Init => TypeOK
  BY InitTyped DEF Init
<1>2. TypeOK /\ [Next]_vars => TypeOK'
  BY PeerTyped, LoopTyped, HandleTyped, StutterTyped DEF Next
<1>. QED
  BY <1>1, <1>2, PTL DEF Spec

LEMMA RequestStreamRead ==
    ASSUME TypeOK, RequestStream, NEW k \in Kids, Handle(k)
    PROVE  RequestStream'
<1>. USE DEF procVars, peerVars, history
<1>1. CASE Serve(k) \/ ServeFails(k)
  <2>0. Pending(k)
    BY <1>1, Zenon DEF Serve, ServeFails
  <2>1. PICK c \in Conns : c = Head(todo[k])
    BY <2>0, HeadTail DEF Pending, TypeOK
  <2>2. /\ CanRead(inp[c], ReqLen) /\ Header(Request(c)) \in Stops /\ Consume(c, Request(c))
        /\ UNCHANGED <<sent, up>>
    BY <1>1, <2>0, <2>1, ZenonT(40) DEF Serve, ServeFails, Pending
  <2>3. /\ Request(c) \in Seq(ReqByte) /\ Drop(inp[c], ReqLen) \in Seq(ReqByte)
        /\ Split(inp[c], Request(c), Drop(inp[c], ReqLen))
        /\ inp' = [inp EXCEPT ![c] = Drop(inp[c], ReqLen)]
        /\ eaten' = [eaten EXCEPT ![c] = eaten[c] \o Request(c)]
    BY <2>2, Consumed DEF Consume, Split
  <2>4. /\ eaten[c] \in Seq(ReqByte) /\ inp[c] \in Seq(ReqByte) /\ up[c] \in Seq(ReqByte)
        /\ sent[c] \in Seq(ReqByte) /\ Stream(sent[c], eaten[c], inp[c], up[c])
    BY Sizes DEF RequestStream, Stream
  <2>5. Stream(sent[c], eaten[c] \o Request(c), Drop(inp[c], ReqLen), up[c])
    BY <2>3, <2>4, StreamMoves
  <2>6. \A d \in Conns : d # c => inp'[d] = inp[d] /\ eaten'[d] = eaten[d]
    BY <2>3 DEF TypeOK
  <2>7. inp'[c] = Drop(inp[c], ReqLen) /\ eaten'[c] = eaten[c] \o Request(c)
    BY <2>3 DEF TypeOK
  <2>. QED
    BY <2>2, <2>5, <2>6, <2>7 DEF RequestStream, Stream
<1>2. CASE Reject(k)
  BY <1>2 DEF Reject, RequestStream
<1>. QED
  BY <1>1, <1>2 DEF Handle

(***************************************************************************)
(* Whatever pieces requests arrive in, however slurps and reads interleave *)
(* with them, handle reads exactly the bytes the peer sent, in order.      *)
(***************************************************************************)
THEOREM RequestStreamKept == Spec => []RequestStream
<1>. DEFINE Inv == TypeOK /\ RequestStream
<1>1. Init => Inv
  <2>1. Init => RequestStream
    BY DEF Init, ServerInit, RequestStream
  <2>. QED
    BY <2>1, InitTyped DEF Init
<1>2. Inv /\ [Next]_vars => Inv'
  <2>. SUFFICES ASSUME TypeOK, RequestStream, [Next]_vars
                PROVE  TypeOK' /\ RequestStream'
    OBVIOUS
  <2>1. CASE UNCHANGED vars
    <3>1. UNCHANGED <<sent, eaten, inp, up>>
      BY <2>1 DEF vars, peerVars, history
    <3>. QED
      BY <2>1, <3>1, StutterTyped DEF RequestStream
  <2>2. ASSUME NEW k \in Kids, Loop(k) \/ Handle(k)
        PROVE  TypeOK' /\ RequestStream'
    BY <2>2, LoopTyped, HandleTyped, RequestStreamSlurped, RequestStreamRead
  <2>3. ASSUME NEW c \in Conns, Peer(c, Answered(c))
        PROVE  TypeOK' /\ RequestStream'
    BY <2>3, PeerTyped, RequestStreamSent
  <2>. QED
    BY <2>1, <2>2, <2>3 DEF Next
<1>3. Inv => RequestStream
  OBVIOUS
<1>. QED
  BY <1>1, <1>2, <1>3, PTL DEF Spec

LEMMA HandleOwned ==
    ASSUME TypeOK, OwnerInv, NEW k \in Kids, Handle(k)
    PROVE  OwnerInv'
<1>. USE DEF procVars, peerVars, history
<1>1. PICK c : c = Head(todo[k])
  OBVIOUS
<1>2. todo[k] # <<>> /\ UNCHANGED <<backlog, pc>>
  BY Zenon DEF Handle, Serve, ServeFails, Reject, Pending
<1>3. UNCHANGED <<phase, clients, todo>> \/ \E kept : Close(k, c, kept)
  BY <1>1, Zenon DEF Handle, Serve, ServeFails, Reject
<1>4. CASE UNCHANGED <<phase, clients, todo>>
  BY <1>2, <1>4, SameOwners
<1>5. ASSUME NEW kept, Close(k, c, kept) PROVE OwnerInv'
  BY <1>1, <1>2, <1>5, CloseOwned
<1>. QED
  BY <1>3, <1>4, <1>5

LEMMA OwnerInvAlways == Spec => [](TypeOK /\ OwnerInv)
<1>. DEFINE Inv == TypeOK /\ OwnerInv
<1>1. Init => Inv
  BY InitTyped, InitOwned DEF Init
<1>2. Inv /\ [Next]_vars => Inv'
  <2>. SUFFICES ASSUME TypeOK, OwnerInv, [Next]_vars
                PROVE  TypeOK' /\ OwnerInv'
    OBVIOUS
  <2>1. CASE UNCHANGED vars
    <3>1. UNCHANGED <<backlog, phase, clients, todo, pc>>
      BY <2>1 DEF vars, procVars
    <3>. QED
      BY <2>1, <3>1, StutterTyped, SameOwners
  <2>2. ASSUME NEW k \in Kids, Loop(k) \/ Handle(k)
        PROVE  TypeOK' /\ OwnerInv'
    BY <2>2, LoopTyped, HandleTyped, LoopOwned, HandleOwned
  <2>3. ASSUME NEW c \in Conns, Peer(c, Answered(c))
        PROVE  TypeOK' /\ OwnerInv'
    BY <2>3, PeerTyped, PeerOwned
  <2>. QED
    BY <2>1, <2>2, <2>3 DEF Next
<1>. QED
  BY <1>1, <1>2, PTL DEF Spec

(***************************************************************************)
(* However many kids wake for the same connection, and whenever clients    *)
(* are deleted while a pass over them goes on, a connection is in the      *)
(* listen queue or in one list of one kid, once, or in none, and a pass    *)
(* skips no client and visits none twice.                                  *)
(***************************************************************************)
THEOREM OwnersKept == Spec => []OneOwner
BY OwnerInvAlways, OwnerMeans, PTL

LEMMA HandleAnswers ==
    ASSUME TypeOK, OwnerInv, AnswerInv, NEW k \in Kids, Handle(k)
    PROVE  AnswerInv'
<1>. USE DEF procVars, peerVars, history
<1>1. Pending(k)
  BY Zenon DEF Handle, Serve, ServeFails, Reject
<1>2. PICK c \in Conns : c = Head(todo[k]) /\ phase[c] = "open"
  BY <1>1, Visited DEF Pending
<1>3. CanRead(inp[c], ReqLen)
  BY <1>1, <1>2 DEF Pending
<1>4. Answers(c) /\ down[c] \in Seq(AnsByte) /\ made[c] \in Seq(AnsByte) /\ got[c] \in Seq(AnsByte)
  BY Sizes DEF AnswerInv
<1>5. CASE Serve(k)
  <2>1. PICK req : req = Request(c)
    OBVIOUS
  <2>2. PICK w : w = Written(out[c], Answer(req), SockN - Len(down[c]))
    OBVIOUS
  <2>3. /\ Header(req) \in Stops /\ Consume(c, req)
        /\ out' = [out EXCEPT ![c] = w.out]
        /\ \/ w.ok /\ down' = [down EXCEPT ![c] = down[c] \o w.sent] /\ UNCHANGED phase
           \/ Close(k, c, down[c] \o w.sent)
        /\ UNCHANGED <<gone, got>>
    BY <1>2, <1>5, <2>1, <2>2, ZenonT(40) DEF Serve
  <2>4. Answer(req) \in Seq(AnsByte)
    BY <1>3, <2>1, <2>3, Consumed
  <2>5. made' = [made EXCEPT ![c] = made[c] \o Answer(req)]
    BY <2>3 DEF Consume
  <2>6. PICK part \in Seq(AnsByte) : part = Answer(req)
    BY <2>4
  <2>. QED
    BY <1>2, <2>2, <2>3, <2>5, <2>6, WriteAnswers
<1>6. CASE ServeFails(k)
  <2>1. PICK req : req = Request(c)
    OBVIOUS
  <2>2. /\ Header(req) \in Stops /\ gone[c] /\ Consume(c, req) /\ Close(k, c, down[c])
        /\ UNCHANGED <<gone, got, out>>
    BY <1>2, <1>6, <2>1 DEF ServeFails
  <2>3. PICK part \in Seq(AnsByte) : made' = [made EXCEPT ![c] = made[c] \o part]
    <3>1. Answer(req) \in Seq(AnsByte)
      BY <1>3, <2>1, <2>2, Consumed
    <3>. QED
      BY <2>2, <3>1 DEF Consume
  <2>4. /\ made'[c] = made[c] \o part
        /\ \A d \in Conns : d # c => made'[d] = made[d] /\ out'[d] = out[d]
    BY <2>2, <2>3 DEF TypeOK
  <2>5. made'[c] \in Seq(AnsByte)
    BY <1>4, <2>4, ConcatTyped
  <2>6. Starts(AnsByte, made'[c], got[c])
    <3>1. PICK r \in Seq(AnsByte) : made[c] = got[c] \o r
      BY <1>4 DEF Answers, Starts, Split
    <3>2. Stream(got[c] \o (r \o part), got[c], r, part)
      BY <1>4, Associate
    <3>3. r \o part \in Seq(AnsByte)
      BY ConcatTyped
    <3>. QED
      BY <2>4, <3>1, <3>2, <3>3 DEF Starts, Split, Stream
  <2>. QED
    BY <1>4, <2>2, <2>4, <2>5, <2>6, CloseAnswers
<1>7. CASE Reject(k)
  <2>1. Close(k, c, down[c]) /\ UNCHANGED <<gone, got, made, out>>
    BY <1>2, <1>7 DEF Reject
  <2>2. /\ ~gone[c] => Continues(made'[c], got[c], down[c])
        /\ made'[c] \in Seq(AnsByte) /\ Starts(AnsByte, made'[c], got[c])
        /\ \A d \in Conns : d # c => made'[d] = made[d] /\ out'[d] = out[d]
    BY <1>4, <2>1 DEF Answers
  <2>. QED
    BY <1>4, <2>1, <2>2, CloseAnswers
<1>. QED
  BY <1>5, <1>6, <1>7 DEF Handle

LEMMA AnswerInvAlways == Spec => [](TypeOK /\ OwnerInv /\ AnswerInv)
<1>. DEFINE Inv == TypeOK /\ OwnerInv /\ AnswerInv
<1>1. Init => Inv
  BY InitTyped, InitOwned, InitAnswers DEF Init
<1>2. TypeOK /\ TypeOK' /\ OwnerInv /\ OwnerInv' /\ AnswerInv /\ [Next]_vars => AnswerInv'
  <2>. SUFFICES ASSUME TypeOK, OwnerInv, AnswerInv, [Next]_vars
                PROVE  AnswerInv'
    OBVIOUS
  <2>1. CASE UNCHANGED vars
    <3>1. UNCHANGED <<phase, gone, made, got, down, out>>
      BY <2>1 DEF vars, peerVars, history
    <3>. QED
      BY <3>1, SameAnswers DEF AnswerInv
  <2>. QED
    BY <2>1, LoopAnswers, HandleAnswers, PeerAnswers DEF Next
<1>3. AnswerInv /\ TypeOK /\ OwnerInv => Inv
  OBVIOUS
<1>4. Init => AnswerInv
  BY <1>1
<1>. QED
  BY <1>2, <1>3, <1>4, OwnerInvAlways, PTL DEF Spec

(***************************************************************************)
(* However writes and flushes are cut into pieces, and whenever a client   *)
(* is deleted, what has reached its peer is the beginning of the answers   *)
(* to its requests, with nothing lost from the middle or repeated; while   *)
(* the connection is open nothing is lost at all.                          *)
(***************************************************************************)
THEOREM AnswerStreamKept == Spec => []AnswerStream
BY AnswerInvAlways, AnswersMean, PTL

LEMMA HandleTold ==
    ASSUME TypeOK, OwnerInv, ToldInv, NEW k \in Kids, Handle(k)
    PROVE  ToldInv'
<1>. USE DEF procVars, peerVars, history
<1>1. todo[k] # <<>> /\ pc[k] = "handle" /\ UNCHANGED <<pc, rset, wset, failed, fin, gone, up>>
  BY Zenon DEF Handle, Serve, ServeFails, Reject, Pending
<1>2. PICK c \in Conns : c = Head(todo[k])
  BY <1>1, Visited
<1>3. /\ inp' = inp \/ \E x : inp' = [inp EXCEPT ![c] = x]
      /\ \E x : down' = [down EXCEPT ![c] = x]
      /\ todo' = todo \/ \E x : todo' = [todo EXCEPT ![k] = x]
      /\ clients' = clients \/ \E x : clients' = [clients EXCEPT ![k] = x]
  BY <1>2, ZenonT(40) DEF Handle, Serve, ServeFails, Reject, Consume, Close
<1>4. \A d \in Conns : d # c => inp'[d] = inp[d] /\ up'[d] = up[d] /\ down'[d] = down[d]
  BY <1>1, <1>3 DEF TypeOK
<1>5. \A j \in Kids : j # k => /\ pc'[j] = pc[j] /\ todo'[j] = todo[j]
                               /\ clients'[j] = clients[j]
                               /\ rset'[j] = rset[j] /\ wset'[j] = wset[j]
                               /\ failed'[j] = failed[j]
  BY <1>1, <1>3 DEF TypeOK
<1>6. \A j \in Kids : j # k =>
          \A d \in Members(j) : inp'[d] = inp[d] /\ up'[d] = up[d] /\ down'[d] = down[d]
  BY <1>1, <1>2, <1>4, OwnBuffers
<1>7. Told(k)'
  BY <1>1, NothingLeft
<1>. QED
  BY <1>1, <1>5, <1>6, <1>7, OthersTold

(***************************************************************************)
(* handle deletes a client for a cause.                                    *)
(***************************************************************************)
LEMMA HandleCause ==
    ASSUME TypeOK, OwnerInv, ToldInv, NEW k \in Kids, Handle(k),
           NEW d \in Conns, phase[d] = "open", phase'[d] = "closed"
    PROVE  fin[d] \/ Malformed(d) \/ Overflows(d)
<1>. USE DEF procVars, peerVars, history
<1>1. Pending(k)
  BY Zenon DEF Handle, Serve, ServeFails, Reject
<1>2. PICK c \in Conns : c = Head(todo[k])
  BY <1>1, Visited DEF Pending
<1>3. d = c
  <2>1. phase' = phase \/ phase' = [phase EXCEPT ![c] = "closed"]
    BY <1>2, ZenonT(40) DEF Handle, Serve, ServeFails, Reject, Close
  <2>. QED
    BY <2>1 DEF TypeOK
<1>4. Len(inp[c]) >= ReqLen
  BY <1>1, <1>2 DEF Pending, CanRead
<1>5. gone[c] => fin[c]
  BY DEF ToldInv, GoneFin
<1>6. CASE Serve(k)
  <2>1. PICK req : req = Request(c)
    OBVIOUS
  <2>2. PICK w : w = Written(out[c], Answer(req), SockN - Len(down[c]))
    OBVIOUS
  <2>3. /\ Header(req) \in Stops /\ Consume(c, req)
        /\ (w.ok /\ UNCHANGED phase) \/ ~w.ok
    BY <1>2, <1>6, <2>1, <2>2, ZenonT(40) DEF Serve
  <2>4. w.ok = FALSE
    <3>1. UNCHANGED phase => FALSE
      BY <1>3
    <3>2. ~w.ok
      BY <2>3, <3>1
    <3>3. w.ok \in BOOLEAN
      BY <2>2 DEF Written, CanWrite
    <3>. QED
      BY <3>2, <3>3
  <2>5. PICK n \in Nat : n = AnswerLen[Header(req)]
    BY <2>3, EGAssumption
  <2>6. Len(Answer(req)) = n
    BY <2>5 DEF Answer
  <2>7. PICK l \in Nat : l = Len(out[c])
    BY Sizes
  <2>8. l + n > OutBufN
    <3>1. CASE NeedFlush(out[c])
      <4>1. ~CanWrite(out[c], n)
        BY <2>2, <2>4, <2>6, <3>1 DEF Written
      <4>. QED
        BY <2>5, <2>7, <4>1, BufAssumption DEF CanWrite
    <3>2. CASE ~NeedFlush(out[c])
      <4>1. PICK m \in Nat : m = Lesser(n, SockN - Len(down[c])) /\ m <= n
        BY Sizes, LesserLeast
      <4>2. ~CanWrite(out[c], n - m)
        BY <2>2, <2>4, <2>6, <3>2, <4>1 DEF Written
      <4>3. ~(l + (n - m) <= OutBufN)
        BY <2>7, <4>2 DEF CanWrite
      <4>. QED
        BY <2>5, <2>7, <4>1, <4>3, BufAssumption
    <3>. QED
      BY <3>1, <3>2
  <2>9. Overflows(c)
    BY <1>4, <2>1, <2>3, <2>5, <2>7, <2>8 DEF Overflows
  <2>. QED
    BY <1>3, <2>9
<1>7. CASE ServeFails(k)
  BY <1>2, <1>3, <1>5, <1>7 DEF ServeFails
<1>8. CASE Reject(k)
  BY <1>2, <1>3, <1>4, <1>8 DEF Reject, Malformed
<1>. QED
  BY <1>6, <1>7, <1>8 DEF Handle

LEMMA ToldInvAlways == Spec => [](TypeOK /\ OwnerInv /\ ToldInv)
<1>1. Init => ToldInv
  BY InitTold DEF Init
<1>2. TypeOK /\ OwnerInv /\ ToldInv /\ [Next]_vars => ToldInv'
  BY LoopTold, HandleTold, PeerTold, StutterTold DEF Next
<1>. QED
  BY <1>1, <1>2, OwnerInvAlways, PTL DEF Spec

(***************************************************************************)
(* A client is deleted only when its peer has finished or vanished, its    *)
(* request is malformed or its answer does not fit, or when a select that  *)
(* failed told of a client that was not ready: whatever other kids and the *)
(* peers do between select and the client's turn, what select has said of  *)
(* it still holds then.                                                    *)
(***************************************************************************)
THEOREM NeverDeletedWithoutCause == Spec => DeletedForCause
<1>1. TypeOK /\ OwnerInv /\ ToldInv /\ [Next]_vars =>
          [\A c \in Conns : phase[c] = "open" /\ phase'[c] = "closed" =>
              fin[c] \/ Malformed(c) \/ Overflows(c) \/ Misled(c)]_vars
  <2>. SUFFICES ASSUME TypeOK, OwnerInv, ToldInv, Next,
                       NEW c \in Conns, phase[c] = "open", phase'[c] = "closed"
                PROVE  fin[c] \/ Malformed(c) \/ Overflows(c) \/ Misled(c)
    OBVIOUS
  <2>1. ASSUME NEW k \in Kids, Loop(k)
        PROVE  fin[c] \/ Misled(c)
    BY <2>1, LoopExcused DEF Excused
  <2>2. ASSUME NEW k \in Kids, Handle(k)
        PROVE  fin[c] \/ Malformed(c) \/ Overflows(c)
    BY <2>2, HandleCause
  <2>3. ASSUME NEW d \in Conns, Peer(d, Answered(d))
        PROVE  FALSE
    <3>1. phase' = phase \/ phase' = [phase EXCEPT ![d] = "queued"]
      BY <2>3, ZenonT(40) DEF Peer, Connect, Send, Receive, Finish, Vanish
    <3>. QED
      BY <3>1 DEF TypeOK
  <2>. QED
    BY <2>1, <2>2, <2>3 DEF Next
<1>. QED
  BY <1>1, ToldInvAlways, PTL DEF Spec, DeletedForCause

-----------------------------------------------------------------------------
(***************************************************************************)
(* The answers produced on a connection are, one for one, those to the     *)
(* requests that handle has read: the first n that the peer asked.         *)
(***************************************************************************)
RepliedBy(c, n) ==
    /\ Len(eaten[c]) = n * ReqLen
    /\ Len(Replies(made[c], AnswerLen)) = n
    /\ \A r \in Nat : r + 1 <= n =>
           /\ Replies(made[c], AnswerLen)[r + 1] = ReqAt(sent[c], r + 1)
           /\ Header(ReqAt(sent[c], r + 1)) \in Stops
ReplyInv == \A c \in Conns : \E n \in Nat : RepliedBy(c, n)

LEMMA OneReply ==
    ASSUME NEW req \in Seq(ReqByte), Header(req) \in Stops
    PROVE  Replies(Answer(req), AnswerLen) = <<req>>
<1>1. PICK n \in Nat : AnswerLen[Header(req)] = n + 1
  <2>1. AnswerLen[Header(req)] \in Nat \ {0}
    BY EGAssumption
  <2>2. AnswerLen[Header(req)] - 1 \in Nat
        /\ AnswerLen[Header(req)] = (AnswerLen[Header(req)] - 1) + 1
    BY <2>1
  <2>. QED
    BY <2>2
<1>2. PICK s \in Seq(AnsByte) : s = Answer(req)
  BY AnswerTyped
<1>3. Len(s) = n + 1 /\ \A j \in 1..n + 1 : s[j] = <<req, j>>
  <2>1. s = [j \in 1..n + 1 |-> <<req, j>>]
    BY <1>1, <1>2 DEF Answer
  <2>. QED
    BY <2>1
<1>4. \A j \in 1..n : ~LastByte(s[j], AnswerLen)
  <2>1. \A j \in 1..n : j \in 1..n + 1 /\ j # n + 1
    OBVIOUS
  <2>. QED
    BY <1>1, <1>3, <2>1 DEF LastByte
<1>5. LastByte(s[n + 1], AnswerLen) /\ s[n + 1][1] = req
  <2>1. n + 1 \in 1..n + 1
    OBVIOUS
  <2>2. s[n + 1] = <<req, n + 1>>
    BY <1>3, <2>1
  <2>. QED
    BY <1>1, <2>2 DEF LastByte
<1>6. Replies(s, AnswerLen) = <<s[n + 1][1]>>
  BY <1>3, <1>4, <1>5, RepliesOne
<1>. QED
  BY <1>2, <1>5, <1>6

LEMMA SameReplies ==
    ASSUME NEW c \in Conns, NEW n \in Nat, RepliedBy(c, n),
           eaten'[c] = eaten[c], made'[c] = made[c],
           \A r \in Nat : r + 1 <= n => ReqAt(sent'[c], r + 1) = ReqAt(sent[c], r + 1)
    PROVE  RepliedBy(c, n)'
BY DEF RepliedBy

LEMMA LoopReplies ==
    ASSUME ReplyInv, NEW k \in Kids, Loop(k)
    PROVE  ReplyInv'
<1>. USE DEF procVars, peerVars, history
<1>1. UNCHANGED <<sent, eaten, made>>
  BY ZenonT(60) DEF Loop, Select, SelectFails, Accept, AcceptNone, Slurp, SlurpFails, NoSlurp,
            Flush, FlushFails, NoFlush, StartHandling, Handled, EndTurn
<1>. QED
  BY <1>1 DEF ReplyInv, RepliedBy

(***************************************************************************)
(* The requests in a stream of bytes stay when it grows.                   *)
(***************************************************************************)
LEMMA WithinStays ==
    ASSUME NEW s \in Seq(ReqByte), NEW t \in Seq(ReqByte), Starts(ReqByte, t, s),
           NEW n \in Nat, n * ReqLen <= Len(s)
    PROVE  \A r \in Nat : r + 1 <= n => ReqAt(t, r + 1) = ReqAt(s, r + 1)
<1>. SUFFICES ASSUME NEW r \in Nat, r + 1 <= n PROVE ReqAt(t, r + 1) = ReqAt(s, r + 1)
  OBVIOUS
<1>1. PICK a \in Nat, b \in Nat, l \in Nat :
          a = r * ReqLen + ReqLen /\ b = n * ReqLen /\ l = Len(s) /\ a <= b
  <2>1. /\ r * ReqLen + ReqLen <= n * ReqLen /\ r * ReqLen \in Nat
        /\ n * ReqLen \in Nat /\ ReqLen \in Nat /\ Len(s) \in Nat
    BY Place, Elements
  <2>2. r * ReqLen + ReqLen \in Nat
    BY <2>1
  <2>. QED
    BY <2>1, <2>2
<1>2. r * ReqLen + ReqLen <= Len(s)
  BY <1>1
<1>. QED
  BY <1>2, RequestStays

LEMMA PeerReplies ==
    ASSUME TypeOK, RequestStream, ReplyInv, NEW c \in Conns, NEW answered, Peer(c, answered),
           sent' \in [Conns -> Seq(ReqByte)]
    PROVE  ReplyInv'
<1>. USE DEF procVars, peerVars, history
<1>1. UNCHANGED <<eaten, made>>
  BY ZenonT(40) DEF Peer, Connect, Send, Receive, Finish, Vanish
<1>2. CASE Send(c, answered)
  <2>1. PICK b : sent' = [sent EXCEPT ![c] = Append(sent[c], b)]
    BY <1>2 DEF Send
  <2>2. Starts(ReqByte, sent'[c], sent[c])
    <3>1. PICK s \in Seq(ReqByte), t \in Seq(ReqByte), l \in Nat :
              s = sent[c] /\ t = sent'[c] /\ t = Append(s, b) /\ l = Len(s)
      BY <2>1, Sizes, Elements DEF TypeOK
    <3>2. Len(t) = l + 1 /\ \A i \in 1..l : t[i] = s[i]
      <4>1. s \in Seq(ReqByte \cup {b}) /\ b \in ReqByte \cup {b}
        BY <3>1
      <4>. QED
        BY <3>1, <4>1, AppendProperties
    <3>3. PICK f \in Seq(ReqByte), e \in ReqByte :
              /\ Len(f) = l /\ t = f \o <<e>> /\ <<e>> \in Seq(ReqByte)
              /\ t[l + 1] = e /\ \A i \in 1..l : f[i] = t[i]
      BY <3>2, FrontLast, Zenon
    <3>4. f = s
      BY <3>1, <3>2, <3>3, SeqEqual
    <3>. QED
      BY <3>1, <3>3, <3>4 DEF Starts, Split
  <2>3. ASSUME NEW d \in Conns PROVE (\E n \in Nat : RepliedBy(d, n))'
    <3>1. PICK n \in Nat : RepliedBy(d, n)
      BY DEF ReplyInv
    <3>2. n * ReqLen <= Len(sent[d])
      BY <3>1, EatenWithin DEF RepliedBy
    <3>3. \A r \in Nat : r + 1 <= n => ReqAt(sent'[d], r + 1) = ReqAt(sent[d], r + 1)
      <4>1. CASE d = c
        BY <2>2, <3>2, <4>1, WithinStays DEF TypeOK
      <4>2. CASE d # c
        BY <2>1, <4>2 DEF TypeOK
      <4>. QED
        BY <4>1, <4>2
    <3>4. RepliedBy(d, n)'
      BY <1>1, <3>1, <3>3, SameReplies
    <3>. QED
      BY <3>4
  <2>. QED
    BY <2>3 DEF ReplyInv
<1>3. CASE Connect(c) \/ Receive(c) \/ Finish(c) \/ Vanish(c)
  <2>1. UNCHANGED sent
    BY <1>3, Zenon DEF Connect, Receive, Finish, Vanish
  <2>. QED
    BY <1>1, <2>1 DEF ReplyInv, RepliedBy
<1>. QED
  BY <1>2, <1>3 DEF Peer

LEMMA HandleReplies ==
    ASSUME TypeOK, OwnerInv, RequestStream, RequestStream', TypeOK', ReplyInv,
           NEW k \in Kids, Handle(k)
    PROVE  ReplyInv'
<1>. USE DEF procVars, peerVars, history
<1>1. CASE Serve(k) \/ ServeFails(k)
  <2>0. Pending(k)
    BY <1>1, Zenon DEF Serve, ServeFails
  <2>1. PICK c \in Conns : c = Head(todo[k])
    BY <2>0, HeadTail DEF Pending, TypeOK
  <2>2. PICK req : req = Request(c)
    OBVIOUS
  <2>3. /\ CanRead(inp[c], ReqLen) /\ Header(req) \in Stops /\ Consume(c, req)
        /\ UNCHANGED <<sent, up>>
    BY <1>1, <2>0, <2>1, <2>2, ZenonT(40) DEF Serve, ServeFails, Pending
  <2>4. req \in Seq(ReqByte) /\ Len(req) = ReqLen
    <3>1. inp[c] \in Seq(ReqByte) /\ ReqLen \in 0..Len(inp[c])
      BY <2>3, Sizes, ServerAssumption DEF CanRead
    <3>. QED
      BY <2>2, <3>1, TakeDrop DEF Request
  <2>5. PICK ans \in Seq(AnsByte) : ans = Answer(req) /\ Replies(ans, AnswerLen) = <<req>>
    BY <2>3, <2>4, AnswerTyped, OneReply
  <2>6. /\ eaten' = [eaten EXCEPT ![c] = eaten[c] \o req]
        /\ made' = [made EXCEPT ![c] = made[c] \o ans]
    BY <2>3, <2>5 DEF Consume
  <2>7. /\ eaten'[c] = eaten[c] \o req /\ made'[c] = made[c] \o ans
        /\ \A d \in Conns : d # c => eaten'[d] = eaten[d] /\ made'[d] = made[d]
    BY <2>6 DEF TypeOK
  <2>8. PICK n \in Nat : RepliedBy(c, n)
    BY DEF ReplyInv
  <2>9. PICK s \in Seq(ReqByte), e \in Seq(ReqByte), m \in Seq(AnsByte) :
            s = sent[c] /\ e = eaten[c] /\ m = made[c] /\ s = sent'[c]
    BY <2>3, Sizes
  <2>10. /\ Len(e \o req) = (n + 1) * ReqLen /\ ReqAt(s, n + 1) = req
    <3>1. Starts(ReqByte, s, e \o req)
      <4>1. /\ Stream(sent'[c], eaten'[c], inp'[c], up'[c])
            /\ eaten'[c] \in Seq(ReqByte) /\ inp'[c] \in Seq(ReqByte) /\ up'[c] \in Seq(ReqByte)
        BY DEF RequestStream, Stream, TypeOK
      <4>2. Starts(ReqByte, sent'[c], eaten'[c])
        BY <4>1, StartOfStream
      <4>. QED
        BY <2>7, <2>9, <4>2
    <3>2. Len(e) = n * ReqLen
      BY <2>8, <2>9 DEF RepliedBy
    <3>. QED
      BY <2>4, <3>1, <3>2, NextRequest
  <2>11. PICK x \in Seq(Seq(ReqByte)) : /\ x = Replies(m, AnswerLen) /\ Len(x) = n
            /\ \A r \in Nat : r + 1 <= n =>
                   x[r + 1] = ReqAt(s, r + 1) /\ Header(ReqAt(s, r + 1)) \in Stops
    BY <2>8, <2>9, RepliesTyped DEF RepliedBy
  <2>12. PICK y \in Seq(Seq(ReqByte)) : /\ y = Replies(m \o ans, AnswerLen) /\ Len(y) = n + 1
                                        /\ y[n + 1] = req /\ \A i \in 1..n : y[i] = x[i]
    <3>1. Replies(m \o ans, AnswerLen) = Append(x, req)
      <4>1. Replies(m \o ans, AnswerLen) = x \o <<req>>
        <5>1. Replies(m \o ans, AnswerLen) = Replies(m, AnswerLen) \o Replies(ans, AnswerLen)
          BY RepliesConcat
        <5>. QED
          BY <2>5, <2>11, <5>1
      <4>2. Append(x, req) = x \o <<req>>
        BY <2>4, AppendTyped
      <4>. QED
        BY <4>1, <4>2
    <3>2. /\ Append(x, req) \in Seq(Seq(ReqByte)) /\ Len(Append(x, req)) = Len(x) + 1
          /\ \A i \in 1..Len(x) : Append(x, req)[i] = x[i]
          /\ Append(x, req)[Len(x) + 1] = req
      BY <2>4, AppendProperties
    <3>. QED
      BY <2>11, <3>1, <3>2
  <2>13. \A r \in Nat : r + 1 <= n + 1 =>
            y[r + 1] = ReqAt(s, r + 1) /\ Header(ReqAt(s, r + 1)) \in Stops
    <3>. SUFFICES ASSUME NEW r \in Nat, r + 1 <= n + 1
                  PROVE  y[r + 1] = ReqAt(s, r + 1) /\ Header(ReqAt(s, r + 1)) \in Stops
      OBVIOUS
    <3>1. CASE r = n
      BY <2>3, <2>10, <2>12, <3>1
    <3>2. CASE r # n
      <4>1. r + 1 <= n /\ r + 1 \in 1..n
        BY <3>2
      <4>. QED
        BY <2>11, <2>12, <4>1
    <3>. QED
      BY <3>1, <3>2
  <2>14. RepliedBy(c, n + 1)'
    BY <2>7, <2>9, <2>10, <2>12, <2>13 DEF RepliedBy
  <2>15. ASSUME NEW d \in Conns PROVE (\E i \in Nat : RepliedBy(d, i))'
    <3>1. CASE d = c
      BY <2>14, <3>1
    <3>2. CASE d # c
      <4>1. PICK i \in Nat : RepliedBy(d, i)
        BY DEF ReplyInv
      <4>2. RepliedBy(d, i)'
        BY <2>3, <2>7, <3>2, <4>1, SameReplies
      <4>. QED
        BY <4>2
    <3>. QED
      BY <3>1, <3>2
  <2>. QED
    BY <2>15 DEF ReplyInv
<1>2. CASE Reject(k)
  <2>1. UNCHANGED <<sent, eaten, made>>
    BY <1>2 DEF Reject
  <2>. QED
    BY <2>1 DEF ReplyInv, RepliedBy
<1>. QED
  BY <1>1, <1>2 DEF Handle

-----------------------------------------------------------------------------
LEMMA HandleAsks ==
    ASSUME TypeOK, OwnerInv, AskInv, NEW k \in Kids, Handle(k)
    PROVE  AskInv' /\ Ending
<1>. USE DEF procVars, peerVars, history
<1>1. UNCHANGED <<sent, got, gone, fin>>
  BY ZenonT(40) DEF Handle, Serve, ServeFails, Reject
<1>2. AskInv'
  BY <1>1 DEF AskInv, Numbered
<1>3. Pending(k)
  BY Zenon DEF Handle, Serve, ServeFails, Reject
<1>4. PICK c \in Conns : c = Head(todo[k])
  BY <1>3, HeadTail DEF Pending, TypeOK
<1>5. phase' = phase \/ phase' = [phase EXCEPT ![c] = "closed"]
  BY <1>4, ZenonT(40) DEF Handle, Serve, ServeFails, Reject, Close
<1>. QED
  BY <1>1, <1>2, <1>5, SameAsks

ViewInv == AskInv /\ ReplyInv

LEMMA InitView == Init => ViewInv
<1>. SUFFICES ASSUME ServerInit PROVE ViewInv
  BY DEF Init
<1>1. \A c \in Conns : eaten[c] = <<>> /\ made[c] = <<>>
  BY DEF ServerInit
<1>2. Replies(<<>>, AnswerLen) = <<>> /\ Len(<<>>) = 0 /\ 0 * ReqLen = 0
  BY RepliesEmpty, ServerAssumption
<1>3. \A c \in Conns : RepliedBy(c, 0)
  BY <1>1, <1>2 DEF RepliedBy
<1>. QED
  BY <1>3, InitAsks DEF ViewInv, ReplyInv

LEMMA ViewStep ==
    ASSUME TypeOK, TypeOK', OwnerInv, RequestStream, RequestStream', ViewInv, [Next]_vars
    PROVE  ViewInv'
<1>1. CASE UNCHANGED vars
  BY <1>1 DEF vars, peerVars, history, ViewInv, AskInv, Numbered, ReplyInv, RepliedBy
<1>2. ASSUME NEW k \in Kids, Loop(k) PROVE ViewInv'
  BY <1>2, LoopAsks, LoopReplies DEF ViewInv
<1>3. ASSUME NEW k \in Kids, Handle(k) PROVE ViewInv'
  BY <1>3, HandleAsks, HandleReplies DEF ViewInv
<1>4. ASSUME NEW c \in Conns, Peer(c, Answered(c)) PROVE ViewInv'
  <2>1. sent' \in [Conns -> Seq(ReqByte)]
    BY DEF TypeOK
  <2>. QED
    BY <1>4, <2>1, PeerAsks, PeerReplies DEF ViewInv
<1>. QED
  BY <1>1, <1>2, <1>3, <1>4 DEF Next

LEMMA ViewInvAlways == Spec => []ViewInv
BY InitView, ViewStep, TypeCorrect, OwnerInvAlways, RequestStreamKept, PTL DEF Spec

(***************************************************************************)
(* A byte that reaches the peer is a reply or part of one.                 *)
(***************************************************************************)
LEMMA ByteArrives ==
    ASSUME TypeOK, RequestStream, AnswerInv', TypeOK', ViewInv, NEW c \in Conns, NEW b \in AnsByte,
           UNCHANGED <<asked, over, sent, made>>,
           got' = [got EXCEPT ![c] = Append(got[c], b)]
    PROVE  Abstract!Reply(c) \/ UNCHANGED Abstract!avars
<1>1. PICK g \in Seq(AnsByte), m \in Seq(AnsByte), s \in Seq(ReqByte) :
          g = got[c] /\ m = made[c] /\ s = sent[c]
  BY Sizes
<1>2. PICK x : x = Replies(g, AnswerLen)
  OBVIOUS
<1>3. got'[c] = Append(g, b) /\ \A d \in Conns : d # c => got'[d] = got[d]
  BY <1>1 DEF TypeOK
<1>4. \A d \in Conns : replied'[d] = IF d = c THEN Replies(Append(g, b), AnswerLen) ELSE replied[d]
  <2>1. Replies(got'[c], AnswerLen) = Replies(Append(g, b), AnswerLen)
    BY <1>3
  <2>2. \A d \in Conns : d # c => Replies(got'[d], AnswerLen) = Replies(got[d], AnswerLen)
    BY <1>3
  <2>. QED
    BY <2>1, <2>2 DEF replied
<1>5. replied = [d \in Conns |-> replied[d]] /\ replied' = [d \in Conns |-> replied'[d]]
      /\ replied[c] = x
  BY <1>1, <1>2 DEF replied
<1>6. CASE ~LastByte(b, AnswerLen)
  <2>1. Replies(Append(g, b), AnswerLen) = Replies(g, AnswerLen)
    BY <1>6, RepliesAppend
  <2>2. \A d \in Conns : replied'[d] = replied[d]
    BY <1>2, <1>4, <1>5, <2>1
  <2>3. replied' = replied
    BY <1>5, <2>2
  <2>. QED
    BY <2>3 DEF Abstract!avars
<1>7. CASE LastByte(b, AnswerLen)
  <2>1. PICK n \in Nat :
            /\ Len(eaten[c]) = n * ReqLen /\ Len(Replies(m, AnswerLen)) = n
            /\ \A r \in Nat : r + 1 <= n =>
                   /\ Replies(m, AnswerLen)[r + 1] = ReqAt(s, r + 1)
                   /\ Header(ReqAt(s, r + 1)) \in Stops
    BY <1>1 DEF ViewInv, ReplyInv, RepliedBy
  <2>2. Starts(AnsByte, m, Append(g, b))
    <3>1. Starts(AnsByte, made'[c], got'[c])
      BY DEF AnswerInv, Answers
    <3>. QED
      BY <1>1, <1>3, <3>1
  <2>3. PICK l \in Nat : /\ l + 1 <= n /\ Len(x) = l
                         /\ Replies(m, AnswerLen)[l + 1] = b[1]
                         /\ Replies(Append(g, b), AnswerLen) = Append(x, b[1])
    <3>1. \E l \in Nat : /\ l + 1 <= n /\ Len(Replies(g, AnswerLen)) = l
                         /\ Replies(m, AnswerLen)[l + 1] = b[1]
                         /\ Replies(Append(g, b), AnswerLen) = Append(Replies(g, AnswerLen), b[1])
      <4>1. Len(Replies(m, AnswerLen)) = n
        BY <2>1
      <4>. QED
        BY <1>7, <2>2, <4>1, ReplyNext
    <3>. QED
      BY <1>2, <3>1
  <2>4. b[1] = ReqAt(s, l + 1) /\ Header(b[1]) \in Stops
    BY <2>1, <2>3
  <2>5. n * ReqLen <= Len(s)
    BY <1>1, <2>1, EatenWithin
  <2>6. asked[c] = Asks(s)
    BY <1>1 DEF asked, Asks, ReqAt
  <2>7. l < Len(Asks(s)) /\ Asks(s)[l + 1] = ReqAt(s, l + 1)
    BY <2>3, <2>5, AskedOf
  <2>8. b[1] \in Requests
    <3>1. Numbered(s) /\ Len(s) <= MaxRequests * ReqLen
      BY <1>1 DEF ViewInv, AskInv
    <3>2. ReqAt(s, l + 1) \in Requests
      BY <2>3, <2>5, <3>1, AskedOf
    <3>. QED
      BY <2>4, <3>2
  <2>9. b[1] \in {q \in Requests : Header(q) \in Stops}
    BY <2>4, <2>8
  <2>10. replied' = [replied EXCEPT ![c] = Append(replied[c], b[1])]
    <3>1. PICK y : y = Append(x, b[1])
      OBVIOUS
    <3>2. \A d \in Conns : replied'[d] = IF d = c THEN y ELSE replied[d]
      BY <1>4, <2>3, <3>1
    <3>3. [replied EXCEPT ![c] = y] = [d \in Conns |-> IF d = c THEN y ELSE replied[d]]
      BY <1>5
    <3>. QED
      BY <1>5, <3>1, <3>2, <3>3
  <2>11. Len(replied[c]) < Len(asked[c]) /\ asked[c][Len(replied[c]) + 1] = b[1]
    BY <1>5, <2>3, <2>4, <2>6, <2>7
  <2>. QED
    BY <2>9, <2>10, <2>11 DEF Abstract!Reply, Abstract!Outstanding
<1>. QED
  BY <1>6, <1>7

LEMMA ViewOfEnding ==
    ASSUME Ending
    PROVE  [Abstract!Next]_(Abstract!avars)
<1>1. replied' = replied
  BY DEF Ending, replied
<1>2. CASE over' = over
  BY <1>1, <1>2 DEF Ending, Abstract!avars
<1>3. ASSUME NEW c \in Conns, ~over[c], over' = [over EXCEPT ![c] = TRUE]
      PROVE  Abstract!Next
  BY <1>1, <1>3 DEF Ending, Abstract!Next, Abstract!End
<1>. QED
  BY <1>2, <1>3 DEF Ending

(***************************************************************************)
(* The synthesis server answers requests: what a peer sends and receives   *)
(* on its connection is a behaviour of RequestReply, which replies to the  *)
(* valid requests, each once, in the order they were asked, and to no      *)
(* other, until the connection is over.  This is the safety of             *)
(* ServesRequestsFairly, for any kids, connections, lengths and buffers.   *)
(***************************************************************************)
THEOREM RequestsServedInOrder == Spec => Abstract!Spec
<1>1. Init => Abstract!Init
  <2>. SUFFICES ASSUME ServerInit PROVE Abstract!Init
    BY DEF Init
  <2>1. asked = [c \in Conns |-> <<>>] /\ over = [c \in Conns |-> FALSE]
    BY InitAsks
  <2>2. replied = [c \in Conns |-> <<>>]
    BY RepliesEmpty DEF ServerInit, replied
  <2>. QED
    BY <2>1, <2>2 DEF Abstract!Init
<1>2. /\ TypeOK /\ TypeOK' /\ OwnerInv /\ RequestStream /\ AnswerInv' /\ ViewInv
      /\ [Next]_vars
      => [Abstract!Next]_(Abstract!avars)
  <2>. SUFFICES ASSUME TypeOK, TypeOK', OwnerInv, RequestStream, AnswerInv', ViewInv, [Next]_vars
                PROVE  [Abstract!Next]_(Abstract!avars)
    OBVIOUS
  <2>1. CASE UNCHANGED vars
    <3>1. asked' = asked /\ over' = over /\ replied' = replied
      BY <2>1 DEF vars, peerVars, asked, over, replied
    <3>. QED
      BY <3>1 DEF Abstract!avars
  <2>2. ASSUME NEW k \in Kids, Loop(k) \/ Handle(k)
        PROVE  [Abstract!Next]_(Abstract!avars)
    BY <2>2, LoopAsks, HandleAsks, ViewOfEnding DEF ViewInv
  <2>3. ASSUME NEW c \in Conns, Peer(c, Answered(c))
        PROVE  [Abstract!Next]_(Abstract!avars)
    <3>1. \/ Asking(c) \/ Ending
          \/ /\ UNCHANGED <<asked, over, sent, made>>
             /\ \E b \in AnsByte : got' = [got EXCEPT ![c] = Append(got[c], b)]
      BY <2>3, PeerAsks DEF ViewInv
    <3>2. CASE Asking(c)
      <4>1. replied' = replied
        BY <3>2 DEF Asking, replied
      <4>. QED
        BY <3>2, <4>1 DEF Asking, Abstract!Next, Abstract!Ask
    <3>3. CASE Ending
      BY <3>3, ViewOfEnding
    <3>4. CASE /\ UNCHANGED <<asked, over, sent, made>>
               /\ \E b \in AnsByte : got' = [got EXCEPT ![c] = Append(got[c], b)]
      <4>1. Abstract!Reply(c) \/ UNCHANGED Abstract!avars
        BY <3>4, ByteArrives
      <4>. QED
        BY <4>1 DEF Abstract!Next
    <3>. QED
      BY <3>1, <3>2, <3>3, <3>4
  <2>. QED
    BY <2>1, <2>2, <2>3 DEF Next
<1>3. Spec => [](TypeOK /\ OwnerInv /\ RequestStream /\ AnswerInv /\ ViewInv)
  BY AnswerInvAlways, RequestStreamKept, ViewInvAlways, PTL
<1>. QED
  BY <1>1, <1>2, <1>3, PTL DEF Spec, Abstract!Spec
=============================================================================
