--------------------------- MODULE ServerProofs ---------------------------
(***************************************************************************)
(* Lemmas about Client and Server, and about what the steps of the event   *)
(* loop and of the peers preserve, for the proofs about the servers that   *)
(* extend Server (EGServerProofs): for every number of connections and     *)
(* kids, every size of buffers and queues, every length of requests.       *)
(***************************************************************************)
EXTENDS Server, SequenceTheorems, FiniteSetTheorems, TLAPS

(***************************************************************************)
(* Splitting a buffer, as slurp, flush and read do, loses nothing.         *)
(***************************************************************************)
LEMMA TakeDrop ==
    ASSUME NEW S, NEW s \in Seq(S), NEW n \in 0..Len(s)
    PROVE  /\ Take(s, n) \in Seq(S) /\ Len(Take(s, n)) = n
           /\ Drop(s, n) \in Seq(S) /\ Len(Drop(s, n)) = Len(s) - n
           /\ Take(s, n) \o Drop(s, n) = s
<1>1. Len(s) \in Nat /\ \A i \in 1..Len(s) : s[i] \in S
  BY LenProperties, ElementOfSeq
<1>2. \A i \in 1..n : s[i] \in S
  BY <1>1
<1>3. \A i \in (n + 1)..Len(s) : s[i] \in S
  BY <1>1
<1>4. Take(s, n) \in Seq(S) /\ Len(Take(s, n)) = n
  BY <1>1, <1>2, SubSeqProperties DEF Take
<1>5. Drop(s, n) \in Seq(S) /\ Len(Drop(s, n)) = Len(s) - n
  BY <1>1, <1>3, SubSeqProperties DEF Drop
<1>6. SubSeq(s, 1, n) \o SubSeq(s, n + 1, Len(s)) = SubSeq(s, 1, Len(s))
  <2>1. 1 \in 1..(Len(s) + 1) /\ n \in (1 - 1)..Len(s) /\ Len(s) \in n..Len(s)
    BY <1>1
  <2>. QED
    BY <2>1, ConcatAdjacentSubSeq
<1>7. SubSeq(s, 1, Len(s)) = s
  BY SubSeqFull
<1>. QED
  BY <1>4, <1>5, <1>6, <1>7, ZenonT(40) DEF Take, Drop

(***************************************************************************)
(* s is a followed by b; s starts with a.                                  *)
(***************************************************************************)
Split(s, a, b) == s = a \o b
Starts(S, s, a) == \E rest \in Seq(S) : Split(s, a, rest)

LEMMA ConcatTyped ==
    ASSUME NEW S, NEW s \in Seq(S), NEW t \in Seq(S)
    PROVE  s \o t \in Seq(S) /\ Len(s \o t) = Len(s) + Len(t)
BY ConcatProperties

LEMMA Associative ==
    ASSUME NEW S
    PROVE  \A x, y, z \in Seq(S) : (x \o y) \o z = x \o (y \o z)
BY ConcatAssociative, SMT

LEMMA AppendTyped ==
    ASSUME NEW S, NEW s \in Seq(S), NEW e \in S
    PROVE  /\ Append(s, e) \in Seq(S) /\ Len(Append(s, e)) = Len(s) + 1
           /\ Append(s, e) = s \o <<e>> /\ <<e>> \in Seq(S)
OBVIOUS

LEMMA HeadTail ==
    ASSUME NEW S, NEW s \in Seq(S), s # <<>>
    PROVE  /\ Head(s) \in S /\ Tail(s) \in Seq(S)
           /\ Len(s) > 0 /\ Len(Tail(s)) = Len(s) - 1
           /\ s = <<Head(s)>> \o Tail(s)
OBVIOUS

(***************************************************************************)
(* Client::write, when it succeeds, leaves between socket and outbuf what  *)
(* was in outbuf followed by buf, and overfills neither.                   *)
(***************************************************************************)
LEMMA WrittenKeepsOrder ==
    ASSUME NEW S, NEW o \in Seq(S), NEW buf \in Seq(S), NEW room \in Nat,
           Len(o) <= OutBufN, NEW w, w = Written(o, buf, room)
    PROVE  /\ w.sent \in Seq(S) /\ Len(w.sent) <= room
           /\ w.out \in Seq(S) /\ Len(w.out) <= OutBufN
           /\ w.ok => Split(o \o buf, w.sent, w.out)
           /\ Starts(S, o \o buf, w.sent)
<1>. USE BufAssumption
<1>. DEFINE both == o \o buf
<1>1. /\ <<>> \in Seq(S) /\ Len(<<>>) = 0
      /\ both \in Seq(S) /\ Len(both) = Len(o) + Len(buf)
      /\ <<>> \o both = both
      /\ Len(o) \in Nat /\ Len(buf) \in Nat /\ OutBufN \in Nat
  BY ConcatTyped, ConcatEmptySeq, EmptySeq, LenProperties
<1>2. CASE NeedFlush(o) /\ CanWrite(o, Len(buf))
  <2>1. w = [ok |-> TRUE, sent |-> <<>>, out |-> both]
    BY <1>2 DEF Written
  <2>2. w.sent = <<>> /\ w.out = both
    BY <2>1
  <2>3. Len(both) <= OutBufN
    BY <1>1, <1>2 DEF CanWrite
  <2>. HIDE DEF both, Split, Starts
  <2>4. \E rest \in Seq(S) : both = w.sent \o rest
    BY <1>1, <2>2
  <2>. QED
    BY <1>1, <2>2, <2>3, <2>4 DEF both, Split, Starts
<1>3. CASE NeedFlush(o) /\ ~CanWrite(o, Len(buf))
  <2>1. w = [ok |-> FALSE, sent |-> <<>>, out |-> o]
    BY <1>3 DEF Written
  <2>2. w.sent = <<>> /\ w.out = o /\ w.ok = FALSE
    BY <2>1
  <2>. HIDE DEF both, Split, Starts
  <2>4. \E rest \in Seq(S) : both = w.sent \o rest
    BY <1>1, <2>2
  <2>. QED
    BY <1>1, <2>2, <2>4 DEF both, Split, Starts
<1>4. CASE ~NeedFlush(o)
  <2>. DEFINE n == Lesser(Len(buf), room)
  <2>1. n \in 0..Len(buf) /\ n <= room
    BY LenProperties DEF Lesser
  <2>2. /\ Take(buf, n) \in Seq(S) /\ Len(Take(buf, n)) = n
        /\ Drop(buf, n) \in Seq(S) /\ Len(Drop(buf, n)) = Len(buf) - n
        /\ Take(buf, n) \o Drop(buf, n) = buf
    BY <2>1, TakeDrop
  <2>3. o = <<>> /\ both = buf
    BY <1>4, ConcatEmptySeq DEF NeedFlush
  <2>4. w.sent = Take(buf, n)
    BY <1>4 DEF Written
  <2>5. CanWrite(o, Len(buf) - n) => w.out = Drop(buf, n)
    BY <1>4 DEF Written
  <2>6. ~CanWrite(o, Len(buf) - n) => w.out = <<>> /\ w.ok = FALSE
    BY <1>4 DEF Written
  <2>. HIDE DEF n, both
  <2>7. CanWrite(o, Len(buf) - n) => Len(Drop(buf, n)) <= OutBufN
    BY <2>1, <2>2, <2>3, <1>1 DEF CanWrite
  <2>8. \E rest \in Seq(S) : both = w.sent \o rest
    BY <2>2, <2>3, <2>4
  <2>. QED
    BY <1>1, <2>1, <2>2, <2>3, <2>4, <2>5, <2>6, <2>7, <2>8 DEF both, Split, Starts
<1>. QED
  BY <1>2, <1>3, <1>4

LEMMA RemoveAtTyped ==
    ASSUME NEW S, NEW s \in Seq(S), NEW i \in 1..Len(s)
    PROVE  RemoveAt(s, i) \in Seq(S) /\ Len(RemoveAt(s, i)) = Len(s) - 1
<1>1. Len(s) \in Nat /\ i - 1 \in 0..Len(s) /\ i \in 0..Len(s)
  BY LenProperties
<1>2. Take(s, i - 1) \in Seq(S) /\ Len(Take(s, i - 1)) = i - 1
  BY <1>1, TakeDrop
<1>3. Drop(s, i) \in Seq(S) /\ Len(Drop(s, i)) = Len(s) - i
  BY <1>1, TakeDrop
<1>4. RemoveAt(s, i) = Take(s, i - 1) \o Drop(s, i)
  BY DEF RemoveAt, Take, Drop
<1>. QED
  BY <1>1, <1>2, <1>3, <1>4, ConcatTyped

(***************************************************************************)
(* delete client, where the kernel keeps or drops a send queue that fits.  *)
(***************************************************************************)
LEMMA CloseTyped ==
    ASSUME TypeOK, NEW k \in Kids, NEW c \in Conns, NEW kept \in Seq(AnsByte),
           todo[k] # <<>>, Len(kept) <= SockN, Close(k, c, kept)
    PROVE  /\ phase' \in [Conns -> {"idle", "queued", "open", "closed"}]
           /\ clients' \in [Kids -> Seq(Conns)]
           /\ todo' \in [Kids -> Seq(Conns)]
           /\ \A j \in Kids : Len(todo'[j]) <= Len(clients'[j])
           /\ down' \in [Conns -> Seq(AnsByte)]
           /\ \A d \in Conns : Len(down'[d]) <= SockN
<1>1. /\ clients \in [Kids -> Seq(Conns)] /\ todo \in [Kids -> Seq(Conns)]
      /\ clients[k] \in Seq(Conns) /\ todo[k] \in Seq(Conns)
      /\ Len(todo[k]) <= Len(clients[k])
      /\ \A j \in Kids : Len(todo[j]) <= Len(clients[j])
  BY DEF TypeOK
<1>2. Len(clients[k]) \in Nat /\ Len(todo[k]) \in 1..Len(clients[k])
  BY <1>1, HeadTail, LenProperties
<1>3. Visiting(k) \in 1..Len(clients[k])
  <2>. DEFINE m == Len(clients[k])
              n == Len(todo[k])
  <2>1. m \in Nat /\ n \in 1..m /\ Visiting(k) = m - n + 1
    BY <1>2 DEF Visiting
  <2>. HIDE DEF m, n
  <2>2. m - n + 1 \in 1..m
    BY <2>1
  <2>. QED
    BY <2>1, <2>2 DEF m
<1>4. Tail(todo[k]) \in Seq(Conns) /\ Len(Tail(todo[k])) = Len(todo[k]) - 1
  BY <1>1, HeadTail
<1>5. /\ RemoveAt(clients[k], Visiting(k)) \in Seq(Conns)
      /\ Len(RemoveAt(clients[k], Visiting(k))) = Len(clients[k]) - 1
  BY <1>1, <1>3, RemoveAtTyped
<1>6. /\ clients' = [clients EXCEPT ![k] = RemoveAt(clients[k], Visiting(k))]
      /\ todo' = [todo EXCEPT ![k] = Tail(todo[k])]
  BY DEF Close
<1>7. clients' \in [Kids -> Seq(Conns)] /\ todo' \in [Kids -> Seq(Conns)]
  BY <1>1, <1>4, <1>5, <1>6
<1>8. ASSUME NEW j \in Kids PROVE Len(todo'[j]) <= Len(clients'[j])
  BY <1>1, <1>2, <1>4, <1>5, <1>6
<1>9. phase' \in [Conns -> {"idle", "queued", "open", "closed"}]
  BY DEF Close, TypeOK
<1>10. <<>> \in Seq(AnsByte) /\ Len(<<>>) <= SockN
  BY EmptySeq, ServerAssumption
<1>11. PICK q \in {kept, <<>>} : down' = [down EXCEPT ![c] = q]
  BY DEF Close
<1>12. down \in [Conns -> Seq(AnsByte)] /\ \A d \in Conns : Len(down[d]) <= SockN
  BY DEF TypeOK, Bounded
<1>13. down' \in [Conns -> Seq(AnsByte)] /\ \A d \in Conns : Len(down'[d]) <= SockN
  BY <1>10, <1>11, <1>12
<1>. QED
  BY <1>7, <1>8, <1>9, <1>13

(***************************************************************************)
(* The bytes that slurp and flush move.                                    *)
(***************************************************************************)
LEMMA Moved ==
    ASSUME NEW S
    PROVE  \A x, y \in Seq(S) : \A n \in 0..Len(x) :
               /\ y \o Take(x, n) \in Seq(S) /\ Len(y \o Take(x, n)) = Len(y) + n
               /\ Drop(x, n) \in Seq(S) /\ Len(Drop(x, n)) <= Len(x)
<1>. SUFFICES ASSUME NEW x \in Seq(S), NEW y \in Seq(S), NEW n \in 0..Len(x)
              PROVE  /\ y \o Take(x, n) \in Seq(S) /\ Len(y \o Take(x, n)) = Len(y) + n
                     /\ Drop(x, n) \in Seq(S) /\ Len(Drop(x, n)) <= Len(x)
  OBVIOUS
<1>1. /\ Take(x, n) \in Seq(S) /\ Len(Take(x, n)) = n
      /\ Drop(x, n) \in Seq(S) /\ Len(Drop(x, n)) = Len(x) - n
  BY TakeDrop
<1>2. y \o Take(x, n) \in Seq(S) /\ Len(y \o Take(x, n)) = Len(y) + n
  BY <1>1, ConcatTyped
<1>. QED
  BY <1>1, <1>2, LenProperties

LEMMA LesserLeast ==
    ASSUME NEW m \in Nat, NEW n \in Nat
    PROVE  Lesser(m, n) \in Nat /\ Lesser(m, n) <= m /\ Lesser(m, n) <= n
BY DEF Lesser

LEMMA DivMod ==
    ASSUME NEW n \in Nat, NEW d \in Nat \ {0}
    PROVE  n \div d \in Nat /\ n % d \in Nat
OBVIOUS

(***************************************************************************)
(* What the type invariant says of the buffers of one connection.          *)
(***************************************************************************)
LEMMA Sizes ==
    ASSUME TypeOK, NEW c \in Conns
    PROVE  /\ inp[c] \in Seq(ReqByte) /\ Len(inp[c]) \in Nat /\ InpBufN - Len(inp[c]) \in Nat
           /\ up[c] \in Seq(ReqByte) /\ Len(up[c]) \in Nat /\ Len(up[c]) <= SockN
           /\ out[c] \in Seq(AnsByte) /\ Len(out[c]) \in Nat /\ Len(out[c]) <= OutBufN
           /\ down[c] \in Seq(AnsByte) /\ Len(down[c]) \in Nat /\ SockN - Len(down[c]) \in Nat
           /\ sent[c] \in Seq(ReqByte) /\ eaten[c] \in Seq(ReqByte)
           /\ made[c] \in Seq(AnsByte) /\ got[c] \in Seq(AnsByte)
<1>1. /\ inp[c] \in Seq(ReqByte) /\ up[c] \in Seq(ReqByte)
      /\ out[c] \in Seq(AnsByte) /\ down[c] \in Seq(AnsByte)
      /\ Len(inp[c]) <= InpBufN /\ Len(up[c]) <= SockN
      /\ Len(out[c]) <= OutBufN /\ Len(down[c]) <= SockN
      /\ sent[c] \in Seq(ReqByte) /\ eaten[c] \in Seq(ReqByte)
      /\ made[c] \in Seq(AnsByte) /\ got[c] \in Seq(AnsByte)
  BY DEF TypeOK, Bounded
<1>2. Len(inp[c]) \in Nat /\ Len(up[c]) \in Nat /\ Len(out[c]) \in Nat /\ Len(down[c]) \in Nat
  BY <1>1, LenProperties
<1>. QED
  BY <1>1, <1>2, BufAssumption, ServerAssumption

(***************************************************************************)
(* Passing to the next client of a pass.                                   *)
(***************************************************************************)
LEMMA NextClient ==
    ASSUME TypeOK, NEW k \in Kids, todo[k] # <<>>,
           todo' = [todo EXCEPT ![k] = Tail(@)], clients' = clients
    PROVE  todo' \in [Kids -> Seq(Conns)] /\ \A j \in Kids : Len(todo'[j]) <= Len(clients'[j])
<1>1. /\ todo \in [Kids -> Seq(Conns)] /\ clients \in [Kids -> Seq(Conns)]
      /\ \A j \in Kids : Len(todo[j]) <= Len(clients[j])
  BY DEF TypeOK
<1>2. Tail(todo[k]) \in Seq(Conns) /\ Len(Tail(todo[k])) = Len(todo[k]) - 1
  BY <1>1, HeadTail
<1>3. Len(todo[k]) \in Nat /\ Len(clients[k]) \in Nat
  BY <1>1, LenProperties
<1>. QED
  BY <1>1, <1>2, <1>3

(***************************************************************************)
(* The event loop and the peers keep the types and the buffer bounds.      *)
(***************************************************************************)
LEMMA InitTyped == ServerInit => TypeOK
<1>1. <<>> \in Seq(Conns) /\ <<>> \in Seq(ReqByte) /\ <<>> \in Seq(AnsByte) /\ Len(<<>>) = 0
  BY EmptySeq
<1>. QED
  BY <1>1, BufAssumption, ServerAssumption DEF ServerInit, TypeOK, Bounded

LEMMA PeerTyped ==
    ASSUME TypeOK, NEW c \in Conns, NEW answered, Peer(c, answered)
    PROVE  TypeOK'
<1>. USE DEF TypeOK, Bounded, procVars, peerVars, history
<1>1. CASE Connect(c)
  <2>1. Append(backlog, c) \in Seq(Conns)
    BY AppendTyped
  <2>. QED
    BY <1>1, <2>1 DEF Connect
<1>2. CASE Send(c, answered)
  <2>1. PICK b \in NextBytes(c) : /\ sent' = [sent EXCEPT ![c] = Append(@, b)]
                                  /\ up' = [up EXCEPT ![c] = Append(@, b)]
    BY <1>2 DEF Send
  <2>2. b \in ReqByte
    <3>1. Len(sent[c]) \in Nat /\ ReqLen \in Nat \ {0} /\ Headers \subseteq Int
      BY LenProperties, ServerAssumption
    <3>2. 1 + (Len(sent[c]) \div ReqLen) \in Nat /\ 1 + (Len(sent[c]) % ReqLen) \in Nat
      <4>1. Len(sent[c]) \div ReqLen \in Nat /\ Len(sent[c]) % ReqLen \in Nat
        BY <3>1, DivMod
      <4>. QED
        BY <4>1
    <3>. DEFINE r == 1 + (Len(sent[c]) \div ReqLen)
                i == 1 + (Len(sent[c]) % ReqLen)
    <3>3. PICK h \in Int : b = <<r, i, h>>
      BY <3>1 DEF NextBytes
    <3>. HIDE DEF r, i
    <3>. QED
      BY <3>2, <3>3 DEF ReqByte, r, i
  <2>3. Append(sent[c], b) \in Seq(ReqByte) /\ Append(up[c], b) \in Seq(ReqByte)
        /\ Len(Append(up[c], b)) = Len(up[c]) + 1
    BY <2>2, AppendTyped
  <2>4. Len(up[c]) < SockN /\ Len(up[c]) \in Nat /\ SockN \in Nat
    BY <1>2, LenProperties, ServerAssumption DEF Send
  <2>5. UNCHANGED <<backlog, phase, pc, todo, lset, rset, wset, failed, clients, inp, out, down,
                    fin, gone, got, eaten, made>>
    BY <1>2 DEF Send
  <2>6. sent' \in [Conns -> Seq(ReqByte)] /\ up' \in [Conns -> Seq(ReqByte)]
    BY <2>1, <2>3
  <2>7. \A d \in Conns : Len(up'[d]) <= SockN
    BY <2>1, <2>3, <2>4
  <2>. QED
    BY <2>5, <2>6, <2>7
<1>3. CASE Receive(c)
  <2>1. /\ Append(got[c], Head(down[c])) \in Seq(AnsByte)
        /\ Tail(down[c]) \in Seq(AnsByte) /\ Len(Tail(down[c])) = Len(down[c]) - 1
        /\ Len(down[c]) \in Nat /\ SockN \in Nat
    BY <1>3, HeadTail, AppendTyped, LenProperties, ServerAssumption DEF Receive
  <2>. QED
    BY <1>3, <2>1 DEF Receive
<1>4. CASE Finish(c)
  BY <1>4 DEF Finish
<1>5. CASE Vanish(c)
  <2>1. <<>> \in Seq(AnsByte) /\ Len(<<>>) <= SockN
    BY EmptySeq, ServerAssumption
  <2>. QED
    BY <1>5, <2>1 DEF Vanish
<1>. QED
  BY <1>1, <1>2, <1>3, <1>4, <1>5 DEF Peer

LEMMA LoopTyped ==
    ASSUME TypeOK, NEW k \in Kids, Loop(k)
    PROVE  TypeOK'
<1>. USE DEF procVars, peerVars, history
<1>1. ToSlurp(k) \subseteq Conns /\ ToFlush(k) \subseteq Conns
  <2>1. \A i \in 1..Len(clients[k]) : clients[k][i] \in Conns
    BY ElementOfSeq DEF TypeOK
  <2>. QED
    BY <2>1 DEF ToSlurp, ToFlush, Members
<1>2. todo[k] # <<>> => Head(todo[k]) \in Conns
  BY HeadTail DEF TypeOK
<1>3. CASE Select(k)
  BY <1>1, <1>3 DEF Select, TypeOK, Bounded
<1>4. CASE SelectFails(k)
  BY <1>1, <1>4 DEF SelectFails, TypeOK, Bounded
<1>5. CASE Accept(k)
  <2>1. /\ Head(backlog) \in Conns /\ Tail(backlog) \in Seq(Conns)
        /\ Append(clients[k], Head(backlog)) \in Seq(Conns)
        /\ Len(Append(clients[k], Head(backlog))) = Len(clients[k]) + 1
    BY <1>5, HeadTail, AppendTyped DEF Accept, TypeOK
  <2>2. clients' = [clients EXCEPT ![k] = Append(@, Head(backlog))] /\ todo' = todo
    BY <1>5 DEF Accept
  <2>3. \A j \in Kids : Len(todo[j]) \in Nat /\ Len(clients[j]) \in Nat /\ Len(todo[j]) <= Len(clients[j])
    BY LenProperties DEF TypeOK
  <2>4. \A j \in Kids : Len(todo'[j]) <= Len(clients'[j])
    BY <2>1, <2>2, <2>3 DEF TypeOK
  <2>. QED
    BY <1>5, <2>1, <2>4 DEF Accept, TypeOK, Bounded
<1>6. ASSUME todo' = [todo EXCEPT ![k] = clients[k]], clients' = clients
      PROVE  todo' \in [Kids -> Seq(Conns)] /\ \A j \in Kids : Len(todo'[j]) <= Len(clients'[j])
  <2>1. \A j \in Kids : Len(clients[j]) \in Nat
    BY LenProperties DEF TypeOK
  <2>. QED
    BY <1>6, <2>1 DEF TypeOK
<1>7. CASE AcceptNone(k)
  BY <1>6, <1>7 DEF AcceptNone, TypeOK, Bounded
<1>8. CASE StartHandling(k)
  BY <1>6, <1>8 DEF StartHandling, TypeOK, Bounded
<1>9. CASE Slurp(k)
  <2>1. PICK c \in Conns : c = Head(todo[k])
    BY <1>2, <1>9 DEF Slurp
  <2>. DEFINE n == SlurpCount(inp[c], Len(up[c]))
  <2>2. n \in Nat /\ n <= Len(up[c]) /\ n <= InpBufN - Len(inp[c])
    BY <2>1, Sizes, LesserLeast DEF SlurpCount
  <2>3. inp' = [inp EXCEPT ![c] = inp[c] \o Take(up[c], n)] /\ up' = [up EXCEPT ![c] = Drop(up[c], n)]
    BY <1>9, <2>1 DEF Slurp
  <2>. HIDE DEF n
  <2>4. n \in 0..Len(up[c]) /\ inp[c] \in Seq(ReqByte) /\ up[c] \in Seq(ReqByte)
    BY <2>2, Sizes
  <2>5. /\ inp[c] \o Take(up[c], n) \in Seq(ReqByte)
        /\ Len(inp[c] \o Take(up[c], n)) = Len(inp[c]) + n
        /\ Drop(up[c], n) \in Seq(ReqByte) /\ Len(Drop(up[c], n)) <= Len(up[c])
    <3>1. \A x, y \in Seq(ReqByte) : \A m \in 0..Len(x) :
              /\ y \o Take(x, m) \in Seq(ReqByte) /\ Len(y \o Take(x, m)) = Len(y) + m
              /\ Drop(x, m) \in Seq(ReqByte) /\ Len(Drop(x, m)) <= Len(x)
      BY Moved
    <3>. QED
      BY <2>4, <3>1
  <2>6. Len(inp[c] \o Take(up[c], n)) <= InpBufN /\ Len(Drop(up[c], n)) <= SockN
    BY <2>2, <2>5, Sizes, BufAssumption, ServerAssumption
  <2>7. inp' \in [Conns -> Seq(ReqByte)] /\ up' \in [Conns -> Seq(ReqByte)]
    BY <2>3, <2>5, SMTT(30) DEF TypeOK
  <2>8. \A d \in Conns : Len(inp'[d]) <= InpBufN /\ Len(up'[d]) <= SockN
    BY <2>3, <2>6 DEF TypeOK, Bounded
  <2>. QED
    BY <1>9, <2>7, <2>8 DEF Slurp, TypeOK, Bounded
<1>10. CASE Flush(k)
  <2>1. PICK c \in Conns : c = Head(todo[k])
    BY <1>2, <1>10 DEF Flush
  <2>. DEFINE n == Lesser(Len(out[c]), SockN - Len(down[c]))
  <2>2. n \in Nat /\ n <= Len(out[c]) /\ n <= SockN - Len(down[c])
    BY Sizes, LesserLeast
  <2>3. down' = [down EXCEPT ![c] = down[c] \o Take(out[c], n)] /\ out' = [out EXCEPT ![c] = Drop(out[c], n)]
    BY <1>10, <2>1 DEF Flush
  <2>. HIDE DEF n
  <2>4. n \in 0..Len(out[c]) /\ down[c] \in Seq(AnsByte) /\ out[c] \in Seq(AnsByte)
    BY <2>2, Sizes
  <2>5. /\ down[c] \o Take(out[c], n) \in Seq(AnsByte)
        /\ Len(down[c] \o Take(out[c], n)) = Len(down[c]) + n
        /\ Drop(out[c], n) \in Seq(AnsByte) /\ Len(Drop(out[c], n)) <= Len(out[c])
    <3>1. \A x, y \in Seq(AnsByte) : \A m \in 0..Len(x) :
              /\ y \o Take(x, m) \in Seq(AnsByte) /\ Len(y \o Take(x, m)) = Len(y) + m
              /\ Drop(x, m) \in Seq(AnsByte) /\ Len(Drop(x, m)) <= Len(x)
      BY Moved
    <3>. QED
      BY <2>4, <3>1
  <2>6. Len(down[c] \o Take(out[c], n)) <= SockN /\ Len(Drop(out[c], n)) <= OutBufN
    BY <2>2, <2>5, Sizes, BufAssumption, ServerAssumption
  <2>7. down' \in [Conns -> Seq(AnsByte)] /\ out' \in [Conns -> Seq(AnsByte)]
    BY <2>3, <2>5, SMTT(30) DEF TypeOK
  <2>8. \A d \in Conns : Len(down'[d]) <= SockN /\ Len(out'[d]) <= OutBufN
    BY <2>3, <2>6 DEF TypeOK, Bounded
  <2>9. todo' \in [Kids -> Seq(Conns)] /\ \A j \in Kids : Len(todo'[j]) <= Len(clients'[j])
    BY <1>10, NextClient DEF Flush
  <2>. QED
    BY <1>10, <2>7, <2>8, <2>9 DEF Flush, TypeOK, Bounded
<1>11. CASE SlurpFails(k)
  <2>1. PICK c \in Conns : Close(k, c, down[c])
    BY <1>2, <1>11 DEF SlurpFails
  <2>2. todo[k] # <<>> /\ down[c] \in Seq(AnsByte) /\ Len(down[c]) <= SockN
    BY <1>11 DEF SlurpFails, TypeOK, Bounded
  <2>. QED
    BY <1>11, <2>1, <2>2, CloseTyped DEF SlurpFails, TypeOK, Bounded
<1>12. CASE FlushFails(k)
  <2>1. PICK c \in Conns : Close(k, c, down[c])
    BY <1>2, <1>12 DEF FlushFails
  <2>2. todo[k] # <<>> /\ down[c] \in Seq(AnsByte) /\ Len(down[c]) <= SockN
    BY <1>12 DEF FlushFails, TypeOK, Bounded
  <2>. QED
    BY <1>12, <2>1, <2>2, CloseTyped DEF FlushFails, TypeOK, Bounded
<1>13. CASE NoSlurp(k)
  BY <1>13 DEF NoSlurp, TypeOK, Bounded
<1>14. CASE NoFlush(k)
  BY <1>14, NextClient DEF NoFlush, TypeOK, Bounded
<1>15. CASE Handled(k)
  BY <1>15, NextClient DEF Handled, TypeOK, Bounded
<1>16. CASE EndTurn(k)
  BY <1>16 DEF EndTurn, TypeOK, Bounded
<1>. QED
  BY <1>3, <1>4, <1>5, <1>7, <1>8, <1>9, <1>10, <1>11, <1>12, <1>13, <1>14, <1>15, <1>16 DEF Loop

(***************************************************************************)
(* What Client::write of an answer leaves in outbuf and the send queue.    *)
(***************************************************************************)
LEMMA WrittenTyped ==
    ASSUME TypeOK, NEW c \in Conns, NEW buf \in Seq(AnsByte),
           NEW w, w = Written(out[c], buf, SockN - Len(down[c]))
    PROVE  /\ w.out \in Seq(AnsByte) /\ Len(w.out) <= OutBufN
           /\ w.sent \in Seq(AnsByte)
           /\ down[c] \o w.sent \in Seq(AnsByte) /\ Len(down[c] \o w.sent) <= SockN
           /\ w.ok => Split(out[c] \o buf, w.sent, w.out)
           /\ Starts(AnsByte, out[c] \o buf, w.sent)
<1>1. /\ out[c] \in Seq(AnsByte) /\ Len(out[c]) <= OutBufN
      /\ down[c] \in Seq(AnsByte) /\ Len(down[c]) \in Nat /\ SockN \in Nat
  BY Sizes, ServerAssumption
<1>2. PICK room \in Nat : room = SockN - Len(down[c])
  BY Sizes
<1>3. /\ w.sent \in Seq(AnsByte) /\ Len(w.sent) <= room
      /\ w.out \in Seq(AnsByte) /\ Len(w.out) <= OutBufN
      /\ w.ok => Split(out[c] \o buf, w.sent, w.out)
      /\ Starts(AnsByte, out[c] \o buf, w.sent)
  <2>1. w = Written(out[c], buf, room)
    BY <1>2
  <2>. QED
    BY <1>1, <2>1, WrittenKeepsOrder
<1>4. down[c] \o w.sent \in Seq(AnsByte) /\ Len(down[c] \o w.sent) = Len(down[c]) + Len(w.sent)
  BY <1>1, <1>3, ConcatTyped
<1>5. Len(down[c] \o w.sent) <= SockN
  <2>1. Len(w.sent) \in Nat
    BY <1>3, LenProperties
  <2>2. \A a, b, s \in Nat : b <= s - a => a + b <= s
    OBVIOUS
  <2>3. Len(w.sent) <= SockN - Len(down[c])
    BY <1>2, <1>3
  <2>4. Len(down[c]) + Len(w.sent) <= SockN
    BY <1>1, <2>1, <2>2, <2>3, Zenon
  <2>. QED
    BY <1>4, <2>4
<1>. QED
  BY <1>3, <1>4, <1>5

LEMMA StutterTyped == TypeOK /\ UNCHANGED vars => TypeOK'
BY DEF TypeOK, Bounded, vars, procVars, peerVars, history

-----------------------------------------------------------------------------
(***************************************************************************)
(* The request stream.                                                     *)
(***************************************************************************)
Stream(s, x, y, z) == s = (x \o y) \o z

LEMMA Associate ==
    ASSUME NEW S, NEW x \in Seq(S), NEW y \in Seq(S), NEW z \in Seq(S)
    PROVE  Stream(x \o (y \o z), x, y, z)
BY Associative, SMTT(30) DEF Stream

LEMMA StreamMoves ==
    ASSUME NEW S, NEW s \in Seq(S), NEW x \in Seq(S), NEW y \in Seq(S), NEW z \in Seq(S),
           NEW a \in Seq(S), NEW b \in Seq(S), Stream(s, x, y, z)
    PROVE  /\ Split(z, a, b) => Stream(s, x, y \o a, b)
           /\ Split(y, a, b) => Stream(s, x \o a, b, z)
           /\ Stream(s \o a, x, y, z \o a)
<1>1. PICK xy \in Seq(S) : xy = x \o y
  BY ConcatTyped
<1>2. s = xy \o z
  BY <1>1 DEF Stream
<1>3. ASSUME Split(z, a, b) PROVE Stream(s, x, y \o a, b)
  <2>1. Stream(xy \o (a \o b), xy, a, b)
    BY <1>1, Associate
  <2>2. s = (xy \o a) \o b
    BY <1>2, <1>3, <2>1 DEF Split, Stream
  <2>3. Stream(x \o (y \o a), x, y, a)
    BY Associate
  <2>4. xy \o a = x \o (y \o a)
    BY <1>1, <2>3 DEF Stream
  <2>. QED
    BY <2>2, <2>4 DEF Stream
<1>4. ASSUME Split(y, a, b) PROVE Stream(s, x \o a, b, z)
  <2>1. Stream(x \o (a \o b), x, a, b)
    BY Associate
  <2>2. xy = (x \o a) \o b
    BY <1>1, <1>4, <2>1 DEF Split, Stream
  <2>. QED
    BY <1>2, <2>2 DEF Stream
<1>5. Stream(s \o a, x, y, z \o a)
  <2>1. Stream(xy \o (z \o a), xy, z, a)
    BY <1>1, Associate
  <2>. QED
    BY <1>1, <1>2, <2>1 DEF Stream
<1>. QED
  BY <1>3, <1>4, <1>5

LEMMA RequestStreamSent ==
    ASSUME TypeOK, RequestStream, NEW c \in Conns, NEW answered, Peer(c, answered)
    PROVE  RequestStream'
<1>. USE DEF procVars, peerVars, history
<1>1. CASE Send(c, answered)
  <2>1. PICK b \in NextBytes(c) : /\ sent' = [sent EXCEPT ![c] = Append(@, b)]
                                  /\ up' = [up EXCEPT ![c] = Append(@, b)]
                                  /\ UNCHANGED <<inp, eaten>>
    BY <1>1 DEF Send
  <2>2. b \in ReqByte
    <3>1. sent'[c] \in Seq(ReqByte) /\ Len(sent[c]) \in Nat
          /\ sent'[c] = Append(sent[c], b)
      <4>1. TypeOK'
        BY PeerTyped
      <4>. QED
        BY <2>1, <4>1, LenProperties DEF TypeOK
    <3>2. sent'[c][Len(sent[c]) + 1] = b /\ Len(sent'[c]) = Len(sent[c]) + 1
      BY <3>1
    <3>. QED
      BY <3>1, <3>2, ElementOfSeq
  <2>3. /\ eaten[c] \in Seq(ReqByte) /\ inp[c] \in Seq(ReqByte)
        /\ up[c] \in Seq(ReqByte) /\ sent[c] \in Seq(ReqByte)
        /\ Stream(sent[c], eaten[c], inp[c], up[c])
    BY Sizes DEF RequestStream, Stream
  <2>4. /\ Append(sent[c], b) = sent[c] \o <<b>> /\ Append(up[c], b) = up[c] \o <<b>>
        /\ <<b>> \in Seq(ReqByte)
    BY <2>2, <2>3, AppendTyped
  <2>5. Stream(sent[c] \o <<b>>, eaten[c], inp[c], up[c] \o <<b>>)
    BY <2>3, <2>4, StreamMoves
  <2>6. \A d \in Conns : d # c => sent'[d] = sent[d] /\ up'[d] = up[d]
    BY <2>1 DEF TypeOK
  <2>7. sent'[c] = sent[c] \o <<b>> /\ up'[c] = up[c] \o <<b>>
    BY <2>1, <2>4 DEF TypeOK
  <2>. QED
    BY <2>1, <2>5, <2>6, <2>7 DEF RequestStream, Stream
<1>2. CASE Connect(c) \/ Receive(c) \/ Finish(c) \/ Vanish(c)
  <2>1. UNCHANGED <<sent, eaten, inp, up>>
    BY <1>2 DEF Connect, Receive, Finish, Vanish
  <2>. QED
    BY <2>1 DEF RequestStream
<1>. QED
  BY <1>1, <1>2 DEF Peer
LEMMA RequestStreamSlurped ==
    ASSUME TypeOK, RequestStream, NEW k \in Kids, Loop(k)
    PROVE  RequestStream'
<1>. USE DEF procVars, peerVars, history
<1>1. CASE Slurp(k)
  <2>1. PICK c \in Conns : c = Head(todo[k])
    BY <1>1, HeadTail DEF Slurp, TypeOK
  <2>2. PICK n \in Nat : n = SlurpCount(inp[c], Len(up[c])) /\ n <= Len(up[c])
    BY Sizes, LesserLeast DEF SlurpCount
  <2>3. n \in 0..Len(up[c])
    BY <2>2, Sizes
  <2>4. /\ inp' = [inp EXCEPT ![c] = inp[c] \o Take(up[c], n)]
        /\ up' = [up EXCEPT ![c] = Drop(up[c], n)]
        /\ UNCHANGED <<sent, eaten>>
    BY <1>1, <2>1, <2>2 DEF Slurp
  <2>5. /\ eaten[c] \in Seq(ReqByte) /\ inp[c] \in Seq(ReqByte) /\ up[c] \in Seq(ReqByte)
        /\ sent[c] \in Seq(ReqByte) /\ Stream(sent[c], eaten[c], inp[c], up[c])
    BY Sizes DEF RequestStream, Stream
  <2>6. /\ Take(up[c], n) \in Seq(ReqByte) /\ Drop(up[c], n) \in Seq(ReqByte)
        /\ Split(up[c], Take(up[c], n), Drop(up[c], n))
    BY <2>3, <2>5, TakeDrop DEF Split
  <2>7. Stream(sent[c], eaten[c], inp[c] \o Take(up[c], n), Drop(up[c], n))
    BY <2>5, <2>6, StreamMoves
  <2>8. \A d \in Conns : d # c => inp'[d] = inp[d] /\ up'[d] = up[d]
    BY <2>4 DEF TypeOK
  <2>9. inp'[c] = inp[c] \o Take(up[c], n) /\ up'[c] = Drop(up[c], n)
    BY <2>4 DEF TypeOK
  <2>. QED
    BY <2>4, <2>7, <2>8, <2>9 DEF RequestStream, Stream
<1>2. CASE \/ Select(k) \/ SelectFails(k) \/ Accept(k) \/ AcceptNone(k) \/ SlurpFails(k)
           \/ NoSlurp(k) \/ Flush(k) \/ FlushFails(k) \/ NoFlush(k) \/ StartHandling(k)
           \/ Handled(k) \/ EndTurn(k)
  <2>1. UNCHANGED <<sent, eaten, inp, up>>
    BY <1>2, ZenonT(40) DEF Select, SelectFails, Accept, AcceptNone, SlurpFails, NoSlurp, Flush,
                FlushFails, NoFlush, StartHandling, Handled, EndTurn
  <2>. QED
    BY <2>1, ZenonT(40) DEF RequestStream
<1>. QED
  BY <1>1, <1>2 DEF Loop

-----------------------------------------------------------------------------
(* Lists of clients: deleting the one that is visited, going on to the next. *)

LEMMA Elements ==
    ASSUME NEW S, NEW s \in Seq(S)
    PROVE  Len(s) \in Nat /\ \A i \in 1..Len(s) : s[i] \in S
BY LenProperties, ElementOfSeq

LEMMA Piece ==
    ASSUME NEW S, NEW s \in Seq(S), NEW m \in Nat, NEW n \in Nat, m + n <= Len(s),
           NEW r, r = SubSeq(s, m + 1, m + n)
    PROVE  r \in Seq(S) /\ Len(r) = n /\ \A i \in 1..n : r[i] = s[m + i]
<1>1. Len(s) \in Nat /\ \A i \in 1..Len(s) : s[i] \in S
  BY Elements
<1>2. \A i \in (m + 1)..(m + n) : s[i] \in S
  BY <1>1
<1>3. m + 1 \in Int /\ m + n \in Int
  OBVIOUS
<1>4. /\ r \in Seq(S)
      /\ Len(r) = IF m + 1 <= m + n THEN (m + n) - (m + 1) + 1 ELSE 0
      /\ \A i \in 1..((m + n) - (m + 1) + 1) : r[i] = s[(m + 1) + i - 1]
  <2>1. /\ SubSeq(s, m + 1, m + n) \in Seq(S)
        /\ Len(SubSeq(s, m + 1, m + n)) = IF m + 1 <= m + n THEN (m + n) - (m + 1) + 1 ELSE 0
        /\ \A i \in 1..((m + n) - (m + 1) + 1) : SubSeq(s, m + 1, m + n)[i] = s[(m + 1) + i - 1]
    BY <1>2, <1>3, SubSeqProperties
  <2>. QED
    BY <2>1
<1>5. Len(r) = n
  BY <1>4
<1>6. ASSUME NEW i \in 1..n PROVE r[i] = s[m + i]
  <2>1. i \in 1..((m + n) - (m + 1) + 1) /\ (m + 1) + i - 1 = m + i
    OBVIOUS
  <2>. QED
    BY <1>4, <2>1, Zenon
<1>. QED
  BY <1>4, <1>5, <1>6

LEMMA RemoveAtElements ==
    ASSUME NEW S, NEW s \in Seq(S), NEW i \in 1..Len(s)
    PROVE  /\ RemoveAt(s, i) \in Seq(S) /\ Len(RemoveAt(s, i)) = Len(s) - 1
           /\ \A j \in 1..Len(s) - 1 :
                  RemoveAt(s, i)[j] = s[IF j < i THEN j ELSE j + 1]
<1>. DEFINE q == RemoveAt(s, i)
<1>0. PICK n \in Nat : n = Len(s) /\ i \in 1..n
  BY Elements
<1>1. PICK h \in Nat : h + 1 = i /\ 0 + h <= n
  <2>1. i - 1 \in Nat /\ (i - 1) + 1 = i /\ 0 + (i - 1) <= n
    BY <1>0
  <2>. QED
    BY <2>1
<1>2. PICK l \in Nat : i + l = n
  <2>1. n - i \in Nat /\ i + (n - i) = n
    BY <1>0
  <2>. QED
    BY <2>1
<1>3. PICK a : a = SubSeq(s, 0 + 1, 0 + h)
  OBVIOUS
<1>4. a \in Seq(S) /\ Len(a) = h /\ \A j \in 1..h : a[j] = s[0 + j]
  BY <1>0, <1>1, <1>3, Piece
<1>5. PICK b : b = SubSeq(s, i + 1, i + l)
  OBVIOUS
<1>6. b \in Seq(S) /\ Len(b) = l /\ \A j \in 1..l : b[j] = s[i + j]
  <2>1. i \in Nat /\ i + l <= Len(s)
    BY <1>0, <1>2
  <2>. QED
    BY <1>5, <2>1, Piece
<1>7. q = a \o b
  <2>1. i - 1 = 0 + h /\ 0 + 1 = 1 /\ i + l = Len(s)
    BY <1>0, <1>1, <1>2
  <2>. QED
    BY <1>3, <1>5, <2>1 DEF RemoveAt
<1>. HIDE DEF q
<1>8. /\ q \in Seq(S) /\ Len(q) = h + l
      /\ \A j \in 1..h + l : q[j] = IF j <= h THEN a[j] ELSE b[j - h]
  <2>1. /\ a \o b \in Seq(S) /\ Len(a \o b) = Len(a) + Len(b)
        /\ \A j \in 1..Len(a) + Len(b) : (a \o b)[j] = IF j <= Len(a) THEN a[j] ELSE b[j - Len(a)]
    BY <1>4, <1>6, ConcatProperties
  <2>. QED
    BY <1>4, <1>6, <1>7, <2>1, Zenon
<1>9. Len(q) = n - 1 /\ h + l = n - 1
  BY <1>1, <1>2, <1>8
<1>10. ASSUME NEW j \in 1..n - 1 PROVE q[j] = s[IF j < i THEN j ELSE j + 1]
  <2>1. q[j] = IF j <= h THEN a[j] ELSE b[j - h]
    BY <1>8, <1>9
  <2>2. CASE j < i
    <3>1. j <= h /\ j \in 1..h /\ 0 + j = j
      BY <1>1, <2>2
    <3>. QED
      BY <1>4, <2>1, <2>2, <3>1
  <2>3. CASE ~(j < i)
    <3>1. ~(j <= h) /\ j - h \in 1..l /\ i + (j - h) = j + 1
      BY <1>1, <1>2, <2>3
    <3>. QED
      BY <1>6, <2>1, <2>3, <3>1
  <2>. QED
    BY <2>2, <2>3
<1>. QED
  BY <1>0, <1>8, <1>9, <1>10 DEF q

(***************************************************************************)
(* t is the end of s.                                                      *)
(***************************************************************************)
Ends(s, t) ==
    \E m \in Nat : Len(s) = m + Len(t) /\ \A i \in 1..Len(t) : t[i] = s[m + i]

LEMMA EndsIs ==
    ASSUME NEW S, NEW s \in Seq(S), NEW t \in Seq(S), Len(t) <= Len(s)
    PROVE  t = SubSeq(s, Len(s) - Len(t) + 1, Len(s)) <=> Ends(s, t)
<1>1. PICK n \in Nat : n = Len(t)
  BY Elements
<1>2. PICK m \in Nat : m = Len(s) - Len(t) /\ Len(s) = m + n
  <2>1. Len(s) \in Nat
    BY Elements
  <2>2. Len(s) - Len(t) \in Nat /\ Len(s) = (Len(s) - Len(t)) + n
    BY <1>1, <2>1
  <2>. QED
    BY <2>2
<1>3. PICK r : r = SubSeq(s, m + 1, m + n)
  OBVIOUS
<1>4. r \in Seq(S) /\ Len(r) = n /\ \A i \in 1..n : r[i] = s[m + i]
  BY <1>2, <1>3, Piece
<1>5. r = SubSeq(s, Len(s) - Len(t) + 1, Len(s))
  BY <1>2, <1>3
<1>6. ASSUME t = r PROVE Ends(s, t)
  BY <1>1, <1>2, <1>4, <1>6 DEF Ends
<1>7. ASSUME Ends(s, t) PROVE t = r
  <2>1. PICK l \in Nat : Len(s) = l + Len(t) /\ \A i \in 1..Len(t) : t[i] = s[l + i]
    BY <1>7 DEF Ends
  <2>2. l = m
    BY <1>1, <1>2, <2>1
  <2>3. \A i \in 1..Len(t) : t[i] = r[i]
    BY <1>1, <1>4, <2>1, <2>2
  <2>. QED
    BY <1>1, <1>4, <2>3, SeqEqual
<1>. QED
  BY <1>5, <1>6, <1>7

(***************************************************************************)
(* Going on to the next client, or deleting the one that is visited,       *)
(* leaves what is still to visit the end of the list.                      *)
(***************************************************************************)
LEMMA EndsShorter ==
    ASSUME NEW S, NEW s \in Seq(S), NEW t \in Seq(S), t # <<>>, Ends(s, t),
           NEW v, v = Len(s) - Len(t) + 1
    PROVE  /\ v \in 1..Len(s) /\ Head(t) = s[v]
           /\ Ends(s, Tail(t))
           /\ Ends(RemoveAt(s, v), Tail(t))
<1>1. PICK m \in Nat : Len(s) = m + Len(t) /\ \A i \in 1..Len(t) : t[i] = s[m + i]
  BY DEF Ends
<1>2. PICK n \in Nat : n + 1 = Len(t)
  <2>1. Len(t) \in Nat /\ Len(t) > 0
    BY Elements, HeadTail
  <2>2. Len(t) - 1 \in Nat /\ (Len(t) - 1) + 1 = Len(t)
    BY <2>1
  <2>. QED
    BY <2>2
<1>3. PICK r : r = Tail(t)
  OBVIOUS
<1>4. Len(r) = n /\ \A i \in 1..n : r[i] = t[i + 1]
  <2>1. Len(r) = Len(t) - 1 /\ \A i \in 1..Len(r) : r[i] = t[i + 1]
    BY <1>3, HeadTailProperties, Zenon
  <2>. QED
    BY <1>2, <2>1
<1>5. /\ v = m + 1 /\ v \in 1..Len(s) /\ Len(s) = m + n + 1
  BY <1>1, <1>2
<1>6. Head(t) = s[v]
  <2>1. Head(t) = t[1] /\ 1 \in 1..Len(t)
    BY <1>2
  <2>. QED
    BY <1>1, <1>5, <2>1
<1>7. \A i \in 1..n : r[i] = s[m + 1 + i] /\ r[i] = s[m + i + 1]
  <2>. SUFFICES ASSUME NEW i \in 1..n PROVE r[i] = s[m + 1 + i] /\ r[i] = s[m + i + 1]
    OBVIOUS
  <2>1. i + 1 \in 1..Len(t) /\ m + (i + 1) = m + 1 + i /\ m + i + 1 = m + 1 + i
    BY <1>2
  <2>2. t[i + 1] = s[m + (i + 1)]
    BY <1>1, <2>1
  <2>. QED
    BY <1>4, <2>1, <2>2
<1>8. Ends(s, r)
  <2>1. m + 1 \in Nat /\ Len(s) = (m + 1) + Len(r)
    BY <1>4, <1>5
  <2>. QED
    BY <1>4, <1>7, <2>1 DEF Ends
<1>9. PICK q : /\ q = RemoveAt(s, v) /\ Len(q) = Len(s) - 1
               /\ \A j \in 1..Len(s) - 1 : q[j] = s[IF j < v THEN j ELSE j + 1]
  BY <1>5, RemoveAtElements
<1>10. PICK N \in Nat : N = Len(s) /\ N = m + n + 1
  BY <1>5
<1>11. Len(q) = N - 1 /\ \A j \in 1..N - 1 : q[j] = s[IF j < v THEN j ELSE j + 1]
  BY <1>9, <1>10
<1>12. Ends(q, r)
  <2>1. Len(q) = m + Len(r)
    BY <1>4, <1>10, <1>11
  <2>2. ASSUME NEW i \in 1..n PROVE r[i] = q[m + i]
    <3>1. m + i \in 1..N - 1 /\ ~(m + i < v)
      BY <1>5, <1>10
    <3>2. q[m + i] = s[m + i + 1]
      BY <1>11, <3>1
    <3>. QED
      BY <1>7, <3>2
  <2>. QED
    BY <1>4, <2>1, <2>2 DEF Ends
<1>. QED
  BY <1>3, <1>5, <1>6, <1>8, <1>9, <1>12

-----------------------------------------------------------------------------
(***************************************************************************)
(* The invariant behind OneOwner: a kid that selects or accepts is between *)
(* two passes, so that the client it accepts is not behind its visits.     *)
(***************************************************************************)
RestLeft == \A k \in Kids : Ends(clients[k], todo[k])
Fresh == \A k \in Kids : pc[k] \in {"select", "accept"} => todo[k] = <<>>
OwnerInv == QueuedOnce /\ OwnedOnce /\ RestLeft /\ Fresh

LEMMA WholeEnds ==
    ASSUME NEW S, NEW s \in Seq(S)
    PROVE  Ends(s, s) /\ Ends(s, <<>>)
<1>1. Len(s) \in Nat /\ Len(<<>>) = 0
  BY Elements, EmptySeq
<1>2. Ends(s, s)
  <2>1. 0 \in Nat /\ Len(s) = 0 + Len(s) /\ \A i \in 1..Len(s) : 0 + i = i
    BY <1>1
  <2>. QED
    BY <2>1 DEF Ends
<1>3. Ends(s, <<>>)
  <2>1. Len(s) = Len(s) + Len(<<>>) /\ \A i \in 1..Len(<<>>) : FALSE
    BY <1>1
  <2>. QED
    BY <1>1, <2>1, Zenon DEF Ends
<1>. QED
  BY <1>2, <1>3

LEMMA OwnerMeans ==
    ASSUME TypeOK, OwnerInv
    PROVE  OneOwner
<1>1. ASSUME NEW k \in Kids
      PROVE  todo[k] = SubSeq(clients[k], Visiting(k), Len(clients[k]))
  <2>1. /\ clients[k] \in Seq(Conns) /\ todo[k] \in Seq(Conns)
        /\ Len(todo[k]) <= Len(clients[k]) /\ Ends(clients[k], todo[k])
    BY DEF TypeOK, OwnerInv, RestLeft
  <2>. QED
    BY <2>1, EndsIs DEF Visiting
<1>. QED
  BY <1>1 DEF OwnerInv, OneOwner, VisitsRest

(***************************************************************************)
(* A step of a kid in its pass, the lists of clients as they were.         *)
(***************************************************************************)
LEMMA PassOwned ==
    ASSUME TypeOK, OwnerInv, NEW k \in Kids, UNCHANGED <<backlog, phase, clients>>,
           NEW r, NEW p, todo' = [todo EXCEPT ![k] = r], pc' = [pc EXCEPT ![k] = p],
           Ends(clients[k], r), p \in {"select", "accept"} => r = <<>>
    PROVE  OwnerInv'
<1>1. /\ QueuedOnce /\ OwnedOnce
      /\ \A j \in Kids : Ends(clients[j], todo[j])
      /\ \A j \in Kids : pc[j] \in {"select", "accept"} => todo[j] = <<>>
  BY DEF OwnerInv, RestLeft, Fresh
<1>2. QueuedOnce' /\ OwnedOnce'
  BY <1>1 DEF QueuedOnce, OwnedOnce, Members
<1>3. /\ todo'[k] = r /\ pc'[k] = p
      /\ \A j \in Kids : j # k => todo'[j] = todo[j] /\ pc'[j] = pc[j]
  BY DEF TypeOK
<1>4. \A j \in Kids : Ends(clients'[j], todo'[j])
  BY <1>1, <1>3
<1>5. \A j \in Kids : pc'[j] \in {"select", "accept"} => todo'[j] = <<>>
  BY <1>1, <1>3
<1>. QED
  BY <1>2, <1>4, <1>5 DEF OwnerInv, RestLeft, Fresh

LEMMA SameOwners ==
    ASSUME OwnerInv, UNCHANGED <<backlog, phase, clients, todo, pc>>
    PROVE  OwnerInv'
BY DEF OwnerInv, QueuedOnce, OwnedOnce, Members, RestLeft, Fresh

(***************************************************************************)
(* The client that a kid visits is its own; no other kid has it.           *)
(***************************************************************************)
LEMMA Visited ==
    ASSUME TypeOK, OwnerInv, NEW k \in Kids, todo[k] # <<>>,
           NEW c, c = Head(todo[k])
    PROVE  /\ c \in Conns /\ c \in Members(k) /\ phase[c] = "open"
           /\ Visiting(k) \in 1..Len(clients[k]) /\ clients[k][Visiting(k)] = c
           /\ \A j \in Kids : j # k => c \notin Members(j)
<1>1. /\ clients[k] \in Seq(Conns) /\ todo[k] \in Seq(Conns) /\ Ends(clients[k], todo[k])
  BY DEF TypeOK, OwnerInv, RestLeft
<1>2. Visiting(k) \in 1..Len(clients[k]) /\ clients[k][Visiting(k)] = c
  BY <1>1, EndsShorter DEF Visiting
<1>3. c \in Conns /\ c \in Members(k)
  BY <1>1, <1>2, Elements DEF Members
<1>. QED
  BY <1>2, <1>3 DEF OwnerInv, OwnedOnce, Members

(***************************************************************************)
(* Where the i-th client was before the one at v was deleted from its list *)
(* (here), or from another.                                                *)
(***************************************************************************)
Kept(here, v, i) == IF here /\ ~(i < v) THEN i + 1 ELSE i

LEMMA CloseOwned ==
    ASSUME TypeOK, OwnerInv, NEW k \in Kids, todo[k] # <<>>,
           NEW c, c = Head(todo[k]), NEW kept, Close(k, c, kept),
           backlog' = backlog, pc' = pc \/ pc' = [pc EXCEPT ![k] = "slurp"] \/ pc' = [pc EXCEPT ![k] = "handle"]
    PROVE  OwnerInv'
<1>. DEFINE s == clients[k]
            v == Visiting(k)
            q == RemoveAt(s, v)
<1>1. /\ c \in Conns /\ phase[c] = "open" /\ v \in 1..Len(s) /\ s[v] = c
      /\ \A j \in Kids : j # k => c \notin Members(j)
  BY Visited
<1>2. /\ s \in Seq(Conns) /\ todo[k] \in Seq(Conns) /\ Ends(s, todo[k])
      /\ \A j \in Kids : Ends(clients[j], todo[j])
      /\ \A j \in Kids : clients[j] \in Seq(Conns)
      /\ \A j \in Kids : pc[j] \in {"select", "accept"} => todo[j] = <<>>
  BY DEF TypeOK, OwnerInv, RestLeft, Fresh
<1>3. PICK n \in Nat : n = Len(s)
  BY <1>2, Elements
<1>4. q \in Seq(Conns) /\ Len(q) = n - 1 /\ \A i \in 1..n - 1 : q[i] = s[IF i < v THEN i ELSE i + 1]
  BY <1>1, <1>2, <1>3, RemoveAtElements
<1>5. Ends(q, Tail(todo[k]))
  BY <1>2, EndsShorter DEF Visiting
<1>6. /\ clients' = [clients EXCEPT ![k] = q] /\ todo' = [todo EXCEPT ![k] = Tail(todo[k])]
      /\ phase' = [phase EXCEPT ![c] = "closed"]
  BY DEF Close
<1>. HIDE DEF q, v
<1>7. /\ clients'[k] = q /\ todo'[k] = Tail(todo[k])
      /\ \A j \in Kids : j # k => clients'[j] = clients[j] /\ todo'[j] = todo[j]
      /\ phase'[c] = "closed" /\ \A d \in Conns : d # c => phase'[d] = phase[d]
  BY <1>1, <1>6 DEF TypeOK
<1>8. ASSUME NEW j \in Kids, NEW i \in 1..Len(clients'[j])
      PROVE  /\ Kept(j = k, v, i) \in 1..Len(clients[j]) /\ clients'[j][i] = clients[j][Kept(j = k, v, i)]
             /\ j = k => Kept(j = k, v, i) # v
  <2>1. CASE j # k
    BY <1>7, <2>1 DEF Kept
  <2>2. CASE j = k
    <3>1. i \in 1..n - 1 /\ clients'[j][i] = q[i]
      BY <1>4, <1>7, <2>2
    <3>. QED
      BY <1>1, <1>3, <1>4, <2>2, <3>1 DEF Kept
  <2>. QED
    BY <2>1, <2>2
<1>9. ASSUME NEW j \in Kids, NEW i1 \in 1..Len(clients'[j]), NEW i2 \in 1..Len(clients'[j]), Kept(j = k, v, i1) = Kept(j = k, v, i2)
      PROVE  i1 = i2
  <2>1. Len(clients'[j]) \in Nat /\ v \in Nat
    <3>1. clients'[j] \in Seq(Conns)
      BY <1>2, <1>4, <1>7
    <3>2. Len(clients'[j]) \in Nat
      BY <3>1, Elements
    <3>. QED
      BY <1>1, <1>3, <3>2
  <2>2. i1 \in Nat /\ i2 \in Nat
    BY <2>1
  <2>. QED
    BY <1>9, <2>1, <2>2 DEF Kept
<1>10. ASSUME NEW j \in Kids, NEW i \in 1..Len(clients[j]), clients[j][i] # c
       PROVE  \E x \in 1..Len(clients'[j]) : clients'[j][x] = clients[j][i]
  <2>1. CASE j # k
    BY <1>7, <2>1
  <2>2. CASE j = k
    <3>1. i \in 1..n /\ s[i] # c /\ i # v
      BY <1>1, <1>3, <1>10, <2>2
    <3>2. CASE i < v
      <4>1. i \in 1..n - 1
        BY <1>1, <1>3, <3>1, <3>2
      <4>. QED
        BY <1>4, <1>7, <2>2, <3>2, <4>1
    <3>3. CASE ~(i < v)
      <4>1. i - 1 \in 1..n - 1 /\ ~(i - 1 < v) /\ (i - 1) + 1 = i
        BY <1>1, <1>3, <3>1, <3>3
      <4>. QED
        BY <1>4, <1>7, <2>2, <4>1
    <3>. QED
      BY <3>2, <3>3
  <2>. QED
    BY <2>1, <2>2
<1>11. ASSUME NEW j \in Kids, NEW l \in Kids,
              NEW i1 \in 1..Len(clients'[j]), NEW i2 \in 1..Len(clients'[l]),
              clients'[j][i1] = clients'[l][i2]
       PROVE  j = l /\ i1 = i2
  <2>1. clients[j][Kept(j = k, v, i1)] = clients[l][Kept(l = k, v, i2)]
        /\ Kept(j = k, v, i1) \in 1..Len(clients[j]) /\ Kept(l = k, v, i2) \in 1..Len(clients[l])
    BY <1>8, <1>11
  <2>2. j = l /\ Kept(j = k, v, i1) = Kept(l = k, v, i2)
    BY <2>1 DEF OwnerInv, OwnedOnce
  <2>. QED
    BY <1>9, <2>2
<1>12. ASSUME NEW d \in Conns
       PROVE  phase'[d] = "open" <=> \E j \in Kids : \E i \in 1..Len(clients'[j]) : clients'[j][i] = d
  <2>1. phase[d] = "open" <=> \E j \in Kids : \E i \in 1..Len(clients[j]) : clients[j][i] = d
    BY DEF OwnerInv, OwnedOnce, Members
  <2>2. ASSUME NEW j \in Kids, NEW i \in 1..Len(clients'[j]), clients'[j][i] = d
        PROVE  d # c /\ \E x \in 1..Len(clients[j]) : clients[j][x] = d
    <3>1. Kept(j = k, v, i) \in 1..Len(clients[j]) /\ clients[j][Kept(j = k, v, i)] = d /\ (j = k => Kept(j = k, v, i) # v)
      BY <1>8, <2>2
    <3>2. d # c
      <4>1. v \in 1..Len(clients[k]) /\ clients[k][v] = c
        BY <1>1
      <4>2. ASSUME d = c PROVE j = k /\ Kept(j = k, v, i) = v
        BY <3>1, <4>1, <4>2 DEF OwnerInv, OwnedOnce
      <4>. QED
        BY <3>1, <4>2
    <3>. QED
      BY <3>1, <3>2
  <2>3. CASE d = c
    BY <1>7, <2>2, <2>3
  <2>4. CASE d # c
    <3>1. phase'[d] = phase[d]
      BY <1>7, <2>4
    <3>. HIDE DEF s
    <3>. QED
      BY <1>10, <2>1, <2>2, <2>4, <3>1
  <2>. QED
    BY <2>3, <2>4
<1>13. OwnedOnce'
  BY <1>11, <1>12 DEF OwnedOnce, Members
<1>14. QueuedOnce'
  <2>1. /\ \A i, j \in 1..Len(backlog) : backlog[i] = backlog[j] => i = j
        /\ \A d \in Conns : phase[d] = "queued" <=> \E i \in 1..Len(backlog) : backlog[i] = d
    BY DEF OwnerInv, QueuedOnce
  <2>2. \A d \in Conns : phase'[d] = "queued" <=> phase[d] = "queued"
    BY <1>1, <1>7
  <2>. QED
    BY <2>1, <2>2 DEF QueuedOnce
<1>15. RestLeft'
  BY <1>2, <1>5, <1>7 DEF RestLeft
<1>16. Fresh'
  <2>1. ASSUME NEW j \in Kids, pc'[j] \in {"select", "accept"} PROVE todo'[j] = <<>>
    <3>1. j # k
      <4>1. pc[k] \notin {"select", "accept"}
        BY <1>2
      <4>. QED
        BY <2>1, <4>1 DEF TypeOK
    <3>2. pc'[j] = pc[j]
      BY <3>1 DEF TypeOK
    <3>. QED
      BY <1>2, <1>7, <2>1, <3>1, <3>2
  <2>. QED
    BY <2>1 DEF Fresh
<1>. QED
  BY <1>13, <1>14, <1>15, <1>16 DEF OwnerInv

LEMMA InitOwned == ServerInit => OwnerInv
<1>1. <<>> \in Seq(Conns) /\ Len(<<>>) = 0 /\ Ends(<<>>, <<>>)
  BY EmptySeq, WholeEnds
<1>. QED
  BY <1>1 DEF ServerInit, OwnerInv, QueuedOnce, OwnedOnce, Members, RestLeft, Fresh

LEMMA PeerOwned ==
    ASSUME TypeOK, OwnerInv, NEW c \in Conns, NEW answered, Peer(c, answered)
    PROVE  OwnerInv'
<1>. USE DEF procVars, peerVars, history
<1>1. CASE Connect(c)
  <2>1. /\ phase[c] = "idle" /\ phase' = [phase EXCEPT ![c] = "queued"]
        /\ backlog' = Append(backlog, c) /\ UNCHANGED <<clients, todo, pc>>
    BY <1>1 DEF Connect
  <2>2. backlog \in Seq(Conns)
    BY DEF TypeOK
  <2>3. PICK n \in Nat : n = Len(backlog)
    BY <2>2, Elements
  <2>4. PICK b : b = backlog'
    OBVIOUS
  <2>5. Len(b) = n + 1 /\ b[n + 1] = c /\ \A i \in 1..n : b[i] = backlog[i]
    BY <2>1, <2>2, <2>3, <2>4, AppendProperties
  <2>6. /\ \A i, j \in 1..n : backlog[i] = backlog[j] => i = j
        /\ \A d \in Conns : phase[d] = "queued" <=> \E i \in 1..n : backlog[i] = d
    BY <2>3 DEF OwnerInv, QueuedOnce
  <2>7. phase'[c] = "queued" /\ \A d \in Conns : d # c => phase'[d] = phase[d]
    BY <2>1 DEF TypeOK
  <2>8. \A i \in 1..n : backlog[i] # c
    BY <2>1, <2>6
  <2>9. \A i \in 1..n + 1 : i \in 1..n \/ i = n + 1
    OBVIOUS
  <2>10. \A i \in 1..n : i \in 1..n + 1
    OBVIOUS
  <2>11. n + 1 \in 1..n + 1
    OBVIOUS
  <2>12. \A i, j \in 1..n + 1 : b[i] = b[j] => i = j
    BY <2>5, <2>6, <2>8, <2>9
  <2>13. ASSUME NEW d \in Conns PROVE phase'[d] = "queued" <=> \E i \in 1..n + 1 : b[i] = d
    <3>1. CASE d = c
      BY <2>5, <2>7, <2>11, <3>1
    <3>2. CASE d # c
      BY <2>5, <2>6, <2>7, <2>9, <2>10, <3>2
    <3>. QED
      BY <3>1, <3>2
  <2>14. QueuedOnce'
    BY <2>4, <2>5, <2>12, <2>13 DEF QueuedOnce
  <2>15. \A d \in Conns : phase'[d] = "open" <=> phase[d] = "open"
    BY <2>1, <2>7
  <2>16. OwnedOnce' /\ RestLeft' /\ Fresh'
    BY <2>1, <2>15 DEF OwnerInv, OwnedOnce, Members, RestLeft, Fresh
  <2>. QED
    BY <2>14, <2>16 DEF OwnerInv
<1>2. CASE Send(c, answered) \/ Receive(c) \/ Finish(c) \/ Vanish(c)
  <2>1. UNCHANGED <<backlog, phase, clients, todo, pc>>
    BY <1>2 DEF Send, Receive, Finish, Vanish
  <2>. QED
    BY <2>1, SameOwners
<1>. QED
  BY <1>1, <1>2 DEF Peer

LEMMA AcceptOwned ==
    ASSUME TypeOK, OwnerInv, NEW k \in Kids, Accept(k)
    PROVE  OwnerInv'
<1>. DEFINE e == Head(backlog)
            s == clients[k]
<1>1. /\ backlog # <<>> /\ pc[k] = "accept" /\ backlog' = Tail(backlog)
      /\ phase' = [phase EXCEPT ![e] = "open"]
      /\ clients' = [clients EXCEPT ![k] = Append(s, e)] /\ UNCHANGED <<todo, pc>>
  BY DEF Accept
<1>2. /\ backlog \in Seq(Conns) /\ s \in Seq(Conns)
      /\ \A j \in Kids : clients[j] \in Seq(Conns)
  BY DEF TypeOK
<1>3. PICK n \in Nat : n + 1 = Len(backlog)
  <2>1. Len(backlog) \in Nat /\ Len(backlog) > 0
    BY <1>1, <1>2, Elements, HeadTail
  <2>2. Len(backlog) - 1 \in Nat /\ (Len(backlog) - 1) + 1 = Len(backlog)
    BY <2>1
  <2>. QED
    BY <2>2
<1>4. PICK b : b = Tail(backlog) /\ Len(b) = n /\ \A i \in 1..n : b[i] = backlog[i + 1]
  <2>1. /\ Len(Tail(backlog)) = Len(backlog) - 1
        /\ \A i \in 1..Len(Tail(backlog)) : Tail(backlog)[i] = backlog[i + 1]
    BY <1>1, <1>2, HeadTailProperties
  <2>2. Len(Tail(backlog)) = n
    BY <1>3, <2>1
  <2>. QED
    BY <2>1, <2>2
<1>5. e = backlog[1] /\ e \in Conns /\ 1 \in 1..n + 1
  BY <1>1, <1>2, <1>3, HeadTailProperties
<1>6. /\ \A i, j \in 1..n + 1 : backlog[i] = backlog[j] => i = j
      /\ \A d \in Conns : phase[d] = "queued" <=> \E i \in 1..n + 1 : backlog[i] = d
  BY <1>3 DEF OwnerInv, QueuedOnce
<1>7. PICK m \in Nat : m = Len(s)
  BY <1>2, Elements
<1>8. PICK q : /\ q = Append(s, e) /\ q \in Seq(Conns) /\ Len(q) = m + 1
               /\ q[m + 1] = e /\ \A i \in 1..m : q[i] = s[i]
  <2>1. PICK x \in Conns : x = e
    BY <1>5
  <2>2. PICK q : q = Append(s, x)
    OBVIOUS
  <2>3. /\ q \in Seq(Conns) /\ Len(q) = Len(s) + 1
        /\ q[Len(s) + 1] = x /\ \A i \in 1..Len(s) : q[i] = s[i]
    BY <1>2, <2>2, AppendProperties
  <2>. QED
    BY <1>7, <2>1, <2>2, <2>3
<1>. HIDE DEF e
<1>9. /\ phase'[e] = "open" /\ \A d \in Conns : d # e => phase'[d] = phase[d]
      /\ clients'[k] = q /\ \A j \in Kids : j # k => clients'[j] = clients[j]
  BY <1>1, <1>5, <1>8 DEF TypeOK
<1>10. phase[e] = "queued"
  BY <1>5, <1>6
<1>11. QueuedOnce'
  <2>1. ASSUME NEW i \in 1..n PROVE i + 1 \in 1..n + 1 /\ i + 1 # 1
    OBVIOUS
  <2>2. \A i, j \in 1..n : b[i] = b[j] => i = j
    <3>. SUFFICES ASSUME NEW i \in 1..n, NEW j \in 1..n, b[i] = b[j] PROVE i = j
      OBVIOUS
    <3>1. backlog[i + 1] = backlog[j + 1]
      BY <1>4
    <3>2. i + 1 = j + 1
      BY <1>6, <2>1, <3>1
    <3>. QED
      BY <3>2
  <2>3. \A i \in 1..n : b[i] # e
    BY <1>4, <1>5, <1>6, <2>1
  <2>4. ASSUME NEW d \in Conns PROVE phase'[d] = "queued" <=> \E i \in 1..n : b[i] = d
    <3>1. CASE d = e
      BY <1>9, <2>3, <3>1
    <3>2. CASE d # e
      <4>1. ASSUME NEW i \in 1..n + 1, backlog[i] = d PROVE \E j \in 1..n : b[j] = d
        <5>1. i - 1 \in 1..n /\ (i - 1) + 1 = i
          BY <1>5, <3>2, <4>1
        <5>. QED
          BY <1>4, <4>1, <5>1
      <4>2. ASSUME NEW i \in 1..n, b[i] = d PROVE \E j \in 1..n + 1 : backlog[j] = d
        BY <1>4, <2>1, <4>2
      <4>. QED
        BY <1>6, <1>9, <3>2, <4>1, <4>2
    <3>. QED
      BY <3>1, <3>2
  <2>. QED
    BY <1>1, <1>4, <2>2, <2>4 DEF QueuedOnce
<1>12. \A j \in Kids : \A i \in 1..Len(clients[j]) : clients[j][i] # e
  BY <1>5, <1>10 DEF OwnerInv, OwnedOnce, Members
<1>13. ASSUME NEW j \in Kids, NEW i \in 1..Len(clients'[j])
       PROVE  \/ i \in 1..Len(clients[j]) /\ clients'[j][i] = clients[j][i]
              \/ j = k /\ i = m + 1 /\ clients'[j][i] = e
  <2>1. CASE j # k
    BY <1>9, <2>1
  <2>2. CASE j = k
    <3>1. i \in 1..m + 1
      BY <1>8, <1>9, <2>2
    <3>2. i \in 1..m \/ i = m + 1
      BY <3>1
    <3>. QED
      BY <1>7, <1>8, <1>9, <2>2, <3>2
  <2>. QED
    BY <2>1, <2>2
<1>14. ASSUME NEW j \in Kids, NEW i \in 1..Len(clients[j])
       PROVE  i \in 1..Len(clients'[j]) /\ clients'[j][i] = clients[j][i]
  <2>1. CASE j # k
    BY <1>9, <2>1
  <2>2. CASE j = k
    <3>1. i \in 1..m /\ i \in 1..m + 1
      BY <1>7, <2>2
    <3>. QED
      BY <1>8, <1>9, <2>2, <3>1
  <2>. QED
    BY <2>1, <2>2
<1>15. m + 1 \in 1..Len(clients'[k]) /\ clients'[k][m + 1] = e
  BY <1>8, <1>9
<1>. HIDE DEF s
<1>16. OwnedOnce'
  <2>1. ASSUME NEW j \in Kids, NEW l \in Kids,
               NEW i1 \in 1..Len(clients'[j]), NEW i2 \in 1..Len(clients'[l]),
               clients'[j][i1] = clients'[l][i2]
        PROVE  j = l /\ i1 = i2
    <3>1. \A x \in 1..Len(clients[j]), y \in 1..Len(clients[l]) :
              clients[j][x] = clients[l][y] => j = l /\ x = y
      BY DEF OwnerInv, OwnedOnce
    <3>. QED
      BY <1>12, <1>13, <2>1, <3>1
  <2>2. ASSUME NEW d \in Conns
        PROVE  phase'[d] = "open" <=> \E j \in Kids : \E i \in 1..Len(clients'[j]) : clients'[j][i] = d
    <3>1. phase[d] = "open" <=> \E j \in Kids : \E i \in 1..Len(clients[j]) : clients[j][i] = d
      BY DEF OwnerInv, OwnedOnce, Members
    <3>2. CASE d = e
      BY <1>9, <1>15, <3>2
    <3>3. CASE d # e
      <4>1. phase'[d] = phase[d]
        BY <1>9, <3>3
      <4>2. ASSUME NEW j \in Kids, NEW i \in 1..Len(clients'[j]), clients'[j][i] = d
            PROVE  \E l \in Kids : \E x \in 1..Len(clients[l]) : clients[l][x] = d
        BY <1>13, <3>3, <4>2
      <4>3. ASSUME NEW j \in Kids, NEW i \in 1..Len(clients[j]), clients[j][i] = d
            PROVE  \E l \in Kids : \E x \in 1..Len(clients'[l]) : clients'[l][x] = d
        BY <1>14, <4>3
      <4>. QED
        BY <3>1, <4>1, <4>2, <4>3
    <3>. QED
      BY <3>2, <3>3
  <2>. QED
    BY <2>1, <2>2 DEF OwnedOnce, Members
<1>17. todo[k] = <<>>
  BY <1>1 DEF OwnerInv, Fresh
<1>18. RestLeft'
  <2>1. Ends(q, <<>>)
    BY <1>8, WholeEnds
  <2>. QED
    BY <1>1, <1>9, <1>17, <2>1 DEF OwnerInv, RestLeft
<1>19. Fresh'
  BY <1>1 DEF OwnerInv, Fresh
<1>. QED
  BY <1>11, <1>16, <1>18, <1>19 DEF OwnerInv

LEMMA LoopOwned ==
    ASSUME TypeOK, OwnerInv, NEW k \in Kids, Loop(k)
    PROVE  OwnerInv'
<1>. USE DEF procVars, peerVars, history
<1>1. /\ clients[k] \in Seq(Conns) /\ todo[k] \in Seq(Conns) /\ Ends(clients[k], todo[k])
      /\ todo = [todo EXCEPT ![k] = todo[k]] /\ pc = [pc EXCEPT ![k] = pc[k]]
      /\ pc[k] \in {"select", "accept"} => todo[k] = <<>>
  BY DEF TypeOK, OwnerInv, RestLeft, Fresh
<1>2. Ends(clients[k], clients[k])
  BY <1>1, WholeEnds
<1>3. CASE Select(k) \/ SelectFails(k)
  <2>1. /\ pc' = [pc EXCEPT ![k] = "accept"] /\ todo[k] = <<>>
        /\ todo' = [todo EXCEPT ![k] = todo[k]] /\ UNCHANGED <<backlog, phase, clients>>
    BY <1>1, <1>3 DEF Select, SelectFails
  <2>. QED
    BY <1>1, <2>1, PassOwned
<1>4. CASE Accept(k)
  BY <1>4, AcceptOwned
<1>5. CASE AcceptNone(k) \/ StartHandling(k)
  <2>1. PICK p \in {"slurp", "handle"} :
            /\ pc' = [pc EXCEPT ![k] = p] /\ todo' = [todo EXCEPT ![k] = clients[k]]
            /\ UNCHANGED <<backlog, phase, clients>>
    BY <1>5 DEF AcceptNone, StartHandling
  <2>2. p \notin {"select", "accept"}
    OBVIOUS
  <2>. QED
    BY <1>2, <2>1, <2>2, PassOwned
<1>6. CASE Slurp(k) \/ NoSlurp(k)
  <2>1. /\ pc' = [pc EXCEPT ![k] = "flush"] /\ todo' = [todo EXCEPT ![k] = todo[k]]
        /\ UNCHANGED <<backlog, phase, clients>>
    BY <1>1, <1>6 DEF Slurp, NoSlurp
  <2>. QED
    BY <1>1, <2>1, PassOwned
<1>7. CASE Flush(k) \/ NoFlush(k) \/ Handled(k)
  <2>1. /\ todo[k] # <<>> /\ todo' = [todo EXCEPT ![k] = Tail(todo[k])]
        /\ UNCHANGED <<backlog, phase, clients>>
    BY <1>7 DEF Flush, NoFlush, Handled
  <2>2. PICK p \in {"slurp", "handle"} : pc' = [pc EXCEPT ![k] = p]
    <3>1. CASE Handled(k)
      <4>1. pc' = [pc EXCEPT ![k] = "handle"]
        BY <1>1, <3>1 DEF Handled
      <4>. QED
        BY <4>1
    <3>2. CASE Flush(k) \/ NoFlush(k)
      <4>1. pc' = [pc EXCEPT ![k] = "slurp"]
        BY <3>2 DEF Flush, NoFlush
      <4>. QED
        BY <4>1
    <3>. QED
      BY <1>7, <3>1, <3>2
  <2>3. Ends(clients[k], Tail(todo[k])) /\ p \notin {"select", "accept"}
    BY <1>1, <2>1, EndsShorter
  <2>. QED
    BY <2>1, <2>2, <2>3, PassOwned
<1>8. CASE EndTurn(k)
  <2>1. /\ pc' = [pc EXCEPT ![k] = "select"] /\ todo[k] = <<>>
        /\ todo' = [todo EXCEPT ![k] = todo[k]] /\ UNCHANGED <<backlog, phase, clients>>
    BY <1>1, <1>8 DEF EndTurn
  <2>. QED
    BY <1>1, <2>1, PassOwned
<1>9. CASE SlurpFails(k)
  <2>1. PICK c : c = Head(todo[k])
    OBVIOUS
  <2>2. todo[k] # <<>> /\ Close(k, c, down[c]) /\ backlog' = backlog /\ pc' = pc
    BY <1>9, <2>1 DEF SlurpFails
  <2>. QED
    BY <2>1, <2>2, CloseOwned
<1>10. CASE FlushFails(k)
  <2>1. PICK c : c = Head(todo[k])
    OBVIOUS
  <2>2. /\ todo[k] # <<>> /\ Close(k, c, down[c]) /\ backlog' = backlog
        /\ pc' = [pc EXCEPT ![k] = "slurp"]
    BY <1>10, <2>1 DEF FlushFails
  <2>. QED
    BY <2>1, <2>2, CloseOwned
<1>. QED
  BY <1>3, <1>4, <1>5, <1>6, <1>7, <1>8, <1>9, <1>10 DEF Loop

-----------------------------------------------------------------------------
(***************************************************************************)
(* The answer stream.  A prefix is written with what follows it, so that   *)
(* what is added at one end of a buffer is added to the stream.            *)
(***************************************************************************)
Continues(s, x, y) == \E rest \in Seq(AnsByte) : Stream(s, x, y, rest)

Answers(c) ==
    /\ phase[c] # "closed" /\ ~gone[c] => Stream(made[c], got[c], down[c], out[c])
    /\ ~gone[c] => Continues(made[c], got[c], down[c])
    /\ Starts(AnsByte, made[c], got[c])
AnswerInv == \A c \in Conns : Answers(c)

LEMMA PrefixIs ==
    ASSUME NEW S, NEW s \in Seq(S), NEW t \in Seq(S), Starts(S, t, s)
    PROVE  IsPrefix(s, t)
<1>1. PICK r \in Seq(S) : t = s \o r
  BY DEF Starts, Split
<1>2. PICK n \in Nat : n = Len(s) /\ 0 + n <= Len(t) /\ Len(s) <= Len(t)
  <2>1. Len(s) \in Nat /\ Len(r) \in Nat /\ Len(t) = Len(s) + Len(r)
    BY <1>1, ConcatTyped, Elements
  <2>2. 0 + Len(s) <= Len(t) /\ Len(s) <= Len(t)
    BY <2>1
  <2>. QED
    BY <2>1, <2>2
<1>3. PICK a : a = SubSeq(t, 0 + 1, 0 + n)
  OBVIOUS
<1>4. a \in Seq(S) /\ Len(a) = n /\ \A i \in 1..n : a[i] = t[0 + i]
  BY <1>2, <1>3, Piece
<1>5. \A i \in 1..n : t[i] = s[i]
  <2>1. \A i \in 1..Len(s) + Len(r) : (s \o r)[i] = IF i <= Len(s) THEN s[i] ELSE r[i - Len(s)]
    BY <1>1, ConcatProperties
  <2>2. ASSUME NEW i \in 1..n PROVE i \in 1..Len(s) + Len(r) /\ i <= Len(s)
    <3>1. Len(r) \in Nat
      BY Elements
    <3>. QED
      BY <1>2, <3>1
  <2>. QED
    BY <1>1, <2>1, <2>2
<1>6. a = s
  <2>1. \A i \in 1..Len(a) : a[i] = s[i]
    <3>1. ASSUME NEW i \in 1..n PROVE 0 + i = i
      OBVIOUS
    <3>. QED
      BY <1>4, <1>5, <3>1
  <2>. QED
    BY <1>2, <1>4, <2>1, SeqEqual
<1>7. a = SubSeq(t, 1, Len(s))
  BY <1>2, <1>3
<1>. QED
  BY <1>2, <1>6, <1>7 DEF IsPrefix

LEMMA AnswersMean ==
    ASSUME TypeOK, AnswerInv
    PROVE  AnswerStream
<1>. SUFFICES ASSUME NEW c \in Conns
     PROVE  /\ phase[c] # "closed" /\ ~gone[c] => made[c] = got[c] \o down[c] \o out[c]
            /\ ~gone[c] => IsPrefix(got[c] \o down[c], made[c])
            /\ IsPrefix(got[c], made[c])
  BY DEF AnswerStream
<1>1. made[c] \in Seq(AnsByte) /\ got[c] \in Seq(AnsByte) /\ down[c] \in Seq(AnsByte)
  BY Sizes
<1>2. got[c] \o down[c] \in Seq(AnsByte)
  BY <1>1, ConcatTyped
<1>3. Answers(c)
  BY DEF AnswerInv
<1>4. ~gone[c] => Starts(AnsByte, made[c], got[c] \o down[c])
  BY <1>3 DEF Answers, Continues, Stream, Starts, Split
<1>5. ~gone[c] => IsPrefix(got[c] \o down[c], made[c])
  BY <1>1, <1>2, <1>4, PrefixIs
<1>6. IsPrefix(got[c], made[c])
  BY <1>1, <1>3, PrefixIs DEF Answers
<1>. QED
  BY <1>3, <1>5, <1>6 DEF Answers, Stream

(***************************************************************************)
(* What continues a stream begins with its first part.                     *)
(***************************************************************************)
LEMMA StartOfStream ==
    ASSUME NEW S, NEW s, NEW x \in Seq(S), NEW y \in Seq(S), NEW z \in Seq(S),
           Stream(s, x, y, z)
    PROVE  Starts(S, s, x)
<1>1. Stream(x \o (y \o z), x, y, z)
  BY Associate
<1>2. y \o z \in Seq(S)
  BY ConcatTyped
<1>3. s = x \o (y \o z)
  BY <1>1 DEF Stream
<1>. QED
  BY <1>2, <1>3 DEF Starts, Split

LEMMA SameAnswers ==
    ASSUME NEW c \in Conns, Answers(c), phase'[c] = "closed" <=> phase[c] = "closed",
           gone'[c] = gone[c], made'[c] = made[c], got'[c] = got[c],
           down'[c] = down[c], out'[c] = out[c]
    PROVE  Answers(c)'
BY Zenon DEF Answers

LEMMA InitAnswers == ServerInit => AnswerInv
<1>1. <<>> \in Seq(AnsByte) /\ <<>> \o <<>> = <<>>
  BY EmptySeq, ConcatEmptySeq
<1>. QED
  BY <1>1 DEF ServerInit, AnswerInv, Answers, Stream, Continues, Starts, Split

LEMMA PeerAnswers ==
    ASSUME TypeOK, AnswerInv, NEW c \in Conns, NEW answered, Peer(c, answered)
    PROVE  AnswerInv'
<1>. USE DEF procVars, peerVars, history
<1>1. \A d \in Conns : Answers(d)
  BY DEF AnswerInv
<1>2. /\ got[c] \in Seq(AnsByte) /\ made[c] \in Seq(AnsByte)
      /\ down[c] \in Seq(AnsByte) /\ out[c] \in Seq(AnsByte)
  BY Sizes
<1>3. CASE Receive(c)
  <2>1. /\ ~gone[c] /\ down[c] # <<>>
        /\ got' = [got EXCEPT ![c] = Append(got[c], Head(down[c]))]
        /\ down' = [down EXCEPT ![c] = Tail(down[c])]
        /\ UNCHANGED <<phase, gone, made, out>>
    BY <1>3 DEF Receive
  <2>2. PICK h \in AnsByte : h = Head(down[c])
    BY <1>2, <2>1, HeadTail
  <2>3. PICK a \in Seq(AnsByte) : /\ a = <<h>> /\ Append(got[c], h) = got[c] \o a
                                  /\ got[c] \o a \in Seq(AnsByte)
    <3>1. Append(got[c], h) = got[c] \o <<h>> /\ <<h>> \in Seq(AnsByte)
      BY <1>2, <2>2, AppendTyped
    <3>2. got[c] \o <<h>> \in Seq(AnsByte)
      BY <1>2, <3>1, ConcatTyped
    <3>. QED
      BY <3>1, <3>2
  <2>4. PICK b \in Seq(AnsByte) : b = Tail(down[c]) /\ Split(down[c], a, b)
    <3>1. Tail(down[c]) \in Seq(AnsByte) /\ down[c] = <<h>> \o Tail(down[c])
      BY <1>2, <2>1, <2>2, HeadTail
    <3>. QED
      BY <2>3, <3>1 DEF Split
  <2>5. /\ got'[c] = got[c] \o a /\ down'[c] = b
        /\ \A d \in Conns : d # c => got'[d] = got[d] /\ down'[d] = down[d]
    BY <2>1, <2>2, <2>3, <2>4 DEF TypeOK
  <2>6. ASSUME NEW z \in Seq(AnsByte), Stream(made[c], got[c], down[c], z)
        PROVE  Stream(made[c], got'[c], down'[c], z)
    <3>1. Stream(made[c], got[c] \o a, b, z)
      BY <1>2, <2>4, <2>6, StreamMoves
    <3>. QED
      BY <2>5, <3>1
  <2>7. PICK z \in Seq(AnsByte) : Stream(made[c], got[c], down[c], z)
    BY <1>1, <2>1 DEF Answers, Continues
  <2>8. Starts(AnsByte, made[c], got'[c])
    <3>1. Stream(made[c], got'[c], down'[c], z) /\ got'[c] \in Seq(AnsByte) /\ down'[c] \in Seq(AnsByte)
      BY <2>3, <2>6, <2>7, <2>5
    <3>. QED
      BY <3>1, StartOfStream
  <2>9. Answers(c)'
    BY <1>1, <1>2, <2>1, <2>6, <2>7, <2>8 DEF Answers, Continues
  <2>10. \A d \in Conns : d # c => Answers(d)'
    BY <1>1, <2>1, <2>5, SameAnswers
  <2>. QED
    BY <2>9, <2>10 DEF AnswerInv
<1>4. CASE Vanish(c)
  <2>1. /\ gone' = [gone EXCEPT ![c] = TRUE] /\ down' = [down EXCEPT ![c] = <<>>]
        /\ UNCHANGED <<phase, got, made, out>>
    BY <1>4 DEF Vanish
  <2>2. /\ gone'[c] = TRUE
        /\ \A d \in Conns : d # c => gone'[d] = gone[d] /\ down'[d] = down[d]
    BY <2>1 DEF TypeOK
  <2>3. Answers(c)'
    BY <1>1, <2>1, <2>2 DEF Answers
  <2>4. \A d \in Conns : d # c => Answers(d)'
    BY <1>1, <2>1, <2>2, SameAnswers
  <2>. QED
    BY <2>3, <2>4 DEF AnswerInv
<1>5. CASE Connect(c) \/ Send(c, answered) \/ Finish(c)
  <2>1. UNCHANGED <<gone, made, got, down, out>>
    BY <1>5 DEF Connect, Send, Finish
  <2>2. \A d \in Conns : phase'[d] = "closed" <=> phase[d] = "closed"
    <3>1. CASE Connect(c)
      BY <3>1 DEF Connect, TypeOK
    <3>2. CASE Send(c, answered) \/ Finish(c)
      BY <3>2 DEF Send, Finish
    <3>. QED
      BY <1>5, <3>1, <3>2
  <2>. QED
    BY <1>1, <2>1, <2>2, SameAnswers DEF AnswerInv
<1>. QED
  BY <1>3, <1>4, <1>5 DEF Peer

(***************************************************************************)
(* delete client: what was still in outbuf never reaches the peer, what    *)
(* has reached it is still the beginning of the answers.                   *)
(***************************************************************************)
LEMMA CloseAnswers ==
    ASSUME TypeOK, AnswerInv, NEW k \in Kids, NEW c \in Conns,
           NEW kept \in Seq(AnsByte), Close(k, c, kept), UNCHANGED <<gone, got>>,
           ~gone[c] => Continues(made'[c], got[c], kept),
           made'[c] \in Seq(AnsByte), Starts(AnsByte, made'[c], got[c]),
           \A d \in Conns : d # c => made'[d] = made[d] /\ out'[d] = out[d]
    PROVE  AnswerInv'
<1>1. \A d \in Conns : Answers(d)
  BY DEF AnswerInv
<1>2. /\ phase' = [phase EXCEPT ![c] = "closed"]
      /\ down' = [down EXCEPT ![c] = kept] \/ down' = [down EXCEPT ![c] = <<>>]
  BY DEF Close
<1>3. /\ phase'[c] = "closed" /\ down'[c] \in {kept, <<>>}
      /\ \A d \in Conns : d # c => phase'[d] = phase[d] /\ down'[d] = down[d]
  BY <1>2 DEF TypeOK
<1>4. ASSUME ~gone[c] PROVE Continues(made'[c], got[c], <<>>)
  <2>1. PICK r \in Seq(AnsByte) : made'[c] = got[c] \o r
    BY DEF Starts, Split
  <2>2. got[c] \o <<>> = got[c]
    BY Sizes, ConcatEmptySeq
  <2>. QED
    BY <2>1, <2>2 DEF Continues, Stream
<1>5. Answers(c)'
  BY <1>3, <1>4 DEF Answers
<1>6. \A d \in Conns : d # c => Answers(d)'
  BY <1>1, <1>3, SameAnswers
<1>. QED
  BY <1>5, <1>6 DEF AnswerInv

(***************************************************************************)
(* Client::write of a part of the answers, and what its caller does when   *)
(* it fails.                                                               *)
(***************************************************************************)
LEMMA WriteAnswers ==
    ASSUME TypeOK, AnswerInv, NEW k \in Kids, NEW c \in Conns, phase[c] = "open",
           NEW part \in Seq(AnsByte),
           NEW w, w = Written(out[c], part, SockN - Len(down[c])),
           made' = [made EXCEPT ![c] = made[c] \o part],
           out' = [out EXCEPT ![c] = w.out], UNCHANGED <<gone, got>>,
           \/ w.ok /\ down' = [down EXCEPT ![c] = down[c] \o w.sent] /\ UNCHANGED phase
           \/ Close(k, c, down[c] \o w.sent)
    PROVE  AnswerInv'
<1>1. Answers(c)
  BY DEF AnswerInv
<1>2. /\ got[c] \in Seq(AnsByte) /\ made[c] \in Seq(AnsByte)
      /\ down[c] \in Seq(AnsByte) /\ out[c] \in Seq(AnsByte)
  BY Sizes
<1>3. /\ w.out \in Seq(AnsByte) /\ w.sent \in Seq(AnsByte)
      /\ down[c] \o w.sent \in Seq(AnsByte)
      /\ w.ok => Split(out[c] \o part, w.sent, w.out)
      /\ Starts(AnsByte, out[c] \o part, w.sent)
  BY WrittenTyped
<1>4. /\ made'[c] = made[c] \o part /\ out'[c] = w.out
      /\ \A d \in Conns : d # c => made'[d] = made[d] /\ out'[d] = out[d]
  BY DEF TypeOK
<1>5. made[c] \o part \in Seq(AnsByte) /\ out[c] \o part \in Seq(AnsByte)
  BY <1>2, ConcatTyped
<1>6. ASSUME ~gone[c] PROVE Stream(made'[c], got[c], down[c], out[c] \o part)
  <2>1. Stream(made[c], got[c], down[c], out[c])
    BY <1>1, <1>6 DEF Answers
  <2>2. Stream(made[c] \o part, got[c], down[c], out[c] \o part)
    BY <1>2, <2>1, StreamMoves
  <2>. QED
    BY <1>4, <2>2
<1>7. ASSUME ~gone[c], NEW rest \in Seq(AnsByte), Split(out[c] \o part, w.sent, rest)
      PROVE  Stream(made'[c], got[c], down[c] \o w.sent, rest)
  <2>1. PICK all \in Seq(AnsByte) : all = out[c] \o part
    BY <1>5
  <2>2. PICK m \in Seq(AnsByte) : m = made'[c]
    BY <1>4, <1>5
  <2>3. Stream(m, got[c], down[c], all) /\ Split(all, w.sent, rest)
    BY <1>6, <1>7, <2>1, <2>2
  <2>. QED
    BY <1>2, <1>3, <2>2, <2>3, StreamMoves
<1>8. Starts(AnsByte, made'[c], got[c])
  <2>1. PICK r \in Seq(AnsByte) : made[c] = got[c] \o r
    BY <1>1 DEF Answers, Starts, Split
  <2>2. (got[c] \o r) \o part = got[c] \o (r \o part) /\ r \o part \in Seq(AnsByte)
    <3>1. Stream(got[c] \o (r \o part), got[c], r, part)
      BY <1>2, Associate
    <3>2. r \o part \in Seq(AnsByte)
      BY ConcatTyped
    <3>. QED
      BY <3>1, <3>2 DEF Stream
  <2>. QED
    BY <1>4, <2>1, <2>2 DEF Starts, Split
<1>9. CASE Close(k, c, down[c] \o w.sent)
  <2>1. ~gone[c] => Continues(made'[c], got[c], down[c] \o w.sent)
    BY <1>3, <1>7 DEF Starts, Continues
  <2>2. made'[c] \in Seq(AnsByte) /\ UNCHANGED <<gone, got>>
    BY <1>4, <1>5
  <2>3. PICK kept \in Seq(AnsByte) : kept = down[c] \o w.sent
    BY <1>3
  <2>4. Close(k, c, kept) /\ (~gone[c] => Continues(made'[c], got[c], kept))
    BY <1>9, <2>1, <2>3
  <2>. QED
    BY <1>4, <1>8, <2>2, <2>4, CloseAnswers
<1>10. CASE w.ok /\ down' = [down EXCEPT ![c] = down[c] \o w.sent] /\ UNCHANGED phase
  <2>1. /\ down'[c] = down[c] \o w.sent
        /\ \A d \in Conns : d # c => down'[d] = down[d]
    BY <1>10 DEF TypeOK
  <2>2. ~gone[c] => Stream(made'[c], got[c], down'[c], out'[c])
    BY <1>3, <1>4, <1>7, <1>10, <2>1
  <2>3. Answers(c)'
    BY <1>3, <1>4, <1>8, <2>2 DEF Answers, Continues
  <2>4. \A d \in Conns : d # c => Answers(d)'
    BY <1>4, <1>10, <2>1, SameAnswers DEF AnswerInv
  <2>. QED
    BY <2>3, <2>4 DEF AnswerInv
<1>. QED
  BY <1>9, <1>10

LEMMA LoopAnswers ==
    ASSUME TypeOK, OwnerInv, AnswerInv, NEW k \in Kids, Loop(k)
    PROVE  AnswerInv'
<1>. USE DEF procVars, peerVars, history
<1>1. CASE Flush(k)
  <2>1. PICK c \in Conns : c = Head(todo[k]) /\ phase[c] = "open"
    BY <1>1, Visited DEF Flush
  <2>2. Answers(c)
    BY DEF AnswerInv
  <2>3. /\ got[c] \in Seq(AnsByte) /\ made[c] \in Seq(AnsByte) /\ Len(out[c]) \in Nat
        /\ down[c] \in Seq(AnsByte) /\ out[c] \in Seq(AnsByte)
    BY Sizes
  <2>4. PICK n \in Nat : n = Lesser(Len(out[c]), SockN - Len(down[c])) /\ n <= Len(out[c])
    BY Sizes, LesserLeast
  <2>5. /\ down' = [down EXCEPT ![c] = down[c] \o Take(out[c], n)]
        /\ out' = [out EXCEPT ![c] = Drop(out[c], n)]
        /\ UNCHANGED <<phase, gone, made, got>>
    BY <1>1, <2>1, <2>4 DEF Flush
  <2>6. n \in 0..Len(out[c])
    BY <2>3, <2>4
  <2>7. /\ Take(out[c], n) \in Seq(AnsByte) /\ Drop(out[c], n) \in Seq(AnsByte)
        /\ Split(out[c], Take(out[c], n), Drop(out[c], n))
    BY <2>3, <2>6, TakeDrop DEF Split
  <2>8. ~gone[c] => Stream(made[c], got[c], down[c] \o Take(out[c], n), Drop(out[c], n))
    <3>1. ~gone[c] => Stream(made[c], got[c], down[c], out[c])
      BY <2>1, <2>2 DEF Answers
    <3>. QED
      BY <2>3, <2>7, <3>1, StreamMoves
  <2>9. /\ down'[c] = down[c] \o Take(out[c], n) /\ out'[c] = Drop(out[c], n)
        /\ \A d \in Conns : d # c => down'[d] = down[d] /\ out'[d] = out[d]
    BY <2>5 DEF TypeOK
  <2>10. Answers(c)'
    BY <2>2, <2>5, <2>7, <2>8, <2>9 DEF Answers, Continues
  <2>11. \A d \in Conns : d # c => Answers(d)'
    BY <2>5, <2>9, SameAnswers DEF AnswerInv
  <2>. QED
    BY <2>10, <2>11 DEF AnswerInv
<1>2. CASE SlurpFails(k) \/ FlushFails(k)
  <2>1. todo[k] # <<>>
    BY <1>2 DEF SlurpFails, FlushFails
  <2>2. PICK c \in Conns : c = Head(todo[k]) /\ phase[c] = "open"
    BY <2>1, Visited
  <2>3. Close(k, c, down[c]) /\ UNCHANGED <<gone, made, got, out>>
    BY <1>2, <2>2, Zenon DEF SlurpFails, FlushFails
  <2>4. Answers(c) /\ down[c] \in Seq(AnsByte) /\ made[c] \in Seq(AnsByte)
    BY Sizes DEF AnswerInv
  <2>5. /\ ~gone[c] => Continues(made'[c], got[c], down[c])
        /\ made'[c] \in Seq(AnsByte) /\ Starts(AnsByte, made'[c], got[c])
        /\ \A d \in Conns : d # c => made'[d] = made[d] /\ out'[d] = out[d]
    BY <2>3, <2>4 DEF Answers
  <2>. QED
    BY <2>3, <2>4, <2>5, CloseAnswers
<1>3. CASE \/ Select(k) \/ SelectFails(k) \/ Accept(k) \/ AcceptNone(k) \/ Slurp(k)
           \/ NoSlurp(k) \/ NoFlush(k) \/ StartHandling(k) \/ Handled(k) \/ EndTurn(k)
  <2>1. UNCHANGED <<gone, made, got, down, out>>
    BY <1>3, ZenonT(40) DEF Select, SelectFails, Accept, AcceptNone, Slurp, NoSlurp, NoFlush,
                StartHandling, Handled, EndTurn
  <2>2. \A d \in Conns : phase'[d] = "closed" <=> phase[d] = "closed"
    <3>1. CASE Accept(k)
      <4>1. /\ Head(backlog) \in Conns /\ backlog # <<>>
            /\ phase' = [phase EXCEPT ![Head(backlog)] = "open"]
        BY <3>1, HeadTail DEF Accept, TypeOK
      <4>2. phase[Head(backlog)] = "queued"
        <5>1. backlog \in Seq(Conns)
          BY DEF TypeOK
        <5>2. 1 \in 1..Len(backlog) /\ backlog[1] = Head(backlog)
          BY <4>1, <5>1
        <5>. QED
          BY <4>1, <5>2 DEF OwnerInv, QueuedOnce
      <4>. QED
        BY <4>1, <4>2 DEF TypeOK
    <3>2. CASE ~Accept(k)
      <4>1. phase' = phase
        BY <1>3, <3>2, ZenonT(40) DEF Select, SelectFails, AcceptNone, Slurp, NoSlurp, NoFlush,
                    StartHandling, Handled, EndTurn
      <4>. QED
        BY <4>1
    <3>. QED
      BY <3>1, <3>2
  <2>. QED
    BY <2>1, <2>2, SameAnswers DEF AnswerInv
<1>. QED
  BY <1>1, <1>2, <1>3 DEF Loop

-----------------------------------------------------------------------------
(***************************************************************************)
(* What select has told a kid holds until the kid acts on it: ReadLeft and *)
(* WriteLeft are the clients it has still to slurp and to flush in the     *)
(* pass.  They are its own, so that nothing but itself takes bytes from    *)
(* their up or adds to their down.                                         *)
(***************************************************************************)
Listed(s) == {s[i] : i \in 1..Len(s)}
Behind(s) == {s[i] : i \in 2..Len(s)}

ReadLeft(k) ==
    {c \in rset[k] : \/ pc[k] = "accept"
                     \/ pc[k] = "slurp" /\ c \in Listed(todo[k])
                     \/ pc[k] = "flush" /\ c \in Behind(todo[k])}
WriteLeft(k) ==
    {c \in wset[k] : \/ pc[k] = "accept"
                     \/ pc[k] \in {"slurp", "flush"} /\ c \in Listed(todo[k])}

Told(k) ==
    /\ ReadLeft(k) \cup WriteLeft(k) \subseteq Members(k)
    /\ \A c \in ReadLeft(k) : NeedSlurp(inp[c]) /\ (failed[k] \/ Readable(c))
    /\ \A c \in WriteLeft(k) : failed[k] \/ Writable(c)

GoneFin == \A c \in Conns : gone[c] => fin[c]
ToldInv == GoneFin /\ \A k \in Kids : Told(k)

LEMMA ListedTail ==
    ASSUME NEW S, NEW s \in Seq(S), s # <<>>
    PROVE  /\ Listed(Tail(s)) = Behind(s)
           /\ Listed(s) = {Head(s)} \cup Behind(s)
<1>1. PICK n \in Nat : n + 1 = Len(s)
  <2>1. Len(s) \in Nat /\ Len(s) > 0
    BY Elements, HeadTail
  <2>2. Len(s) - 1 \in Nat /\ (Len(s) - 1) + 1 = Len(s)
    BY <2>1
  <2>. QED
    BY <2>2
<1>2. PICK r : r = Tail(s) /\ Len(r) = n /\ \A i \in 1..n : r[i] = s[i + 1]
  <2>1. Len(Tail(s)) = Len(s) - 1 /\ \A i \in 1..Len(Tail(s)) : Tail(s)[i] = s[i + 1]
    BY HeadTailProperties
  <2>2. Len(Tail(s)) = n
    BY <1>1, <2>1
  <2>. QED
    BY <2>1, <2>2
<1>3. Head(s) = s[1]
  OBVIOUS
<1>4. \A i \in 1..n : i + 1 \in 2..n + 1
  OBVIOUS
<1>5. \A i \in 2..n + 1 : i - 1 \in 1..n /\ (i - 1) + 1 = i
  OBVIOUS
<1>6. \A i \in 1..n + 1 : i = 1 \/ i \in 2..n + 1
  OBVIOUS
<1>7. 1 \in 1..n + 1 /\ \A i \in 2..n + 1 : i \in 1..n + 1
  OBVIOUS
<1>8. Listed(r) = Behind(s)
  <2>1. Listed(r) = {r[i] : i \in 1..n} /\ Behind(s) = {s[i] : i \in 2..n + 1}
    BY <1>1, <1>2 DEF Listed, Behind
  <2>2. ASSUME NEW i \in 2..n + 1 PROVE r[i - 1] = s[i]
    BY <1>2, <1>5
  <2>. QED
    <3>1. ASSUME NEW i \in 1..n PROVE r[i] \in {s[j] : j \in 2..n + 1}
      BY <1>2, <1>4
    <3>2. ASSUME NEW i \in 2..n + 1 PROVE s[i] \in {r[j] : j \in 1..n}
      BY <1>5, <2>2
    <3>. QED
      BY <2>1, <3>1, <3>2
<1>9. Listed(s) = {Head(s)} \cup Behind(s)
  <2>1. Listed(s) = {s[i] : i \in 1..n + 1} /\ Behind(s) = {s[i] : i \in 2..n + 1}
    BY <1>1 DEF Listed, Behind
  <2>. QED
    BY <1>3, <1>6, <1>7, <2>1
<1>. QED
  BY <1>2, <1>8, <1>9

LEMMA EndsListed ==
    ASSUME NEW S, NEW s \in Seq(S), NEW t \in Seq(S), Ends(s, t)
    PROVE  Listed(t) \subseteq {s[i] : i \in 1..Len(s)}
<1>1. PICK m \in Nat : Len(s) = m + Len(t) /\ \A i \in 1..Len(t) : t[i] = s[m + i]
  BY DEF Ends
<1>2. PICK n \in Nat : n = Len(t)
  BY Elements
<1>3. \A i \in 1..n : m + i \in 1..Len(s) /\ t[i] = s[m + i]
  BY <1>1, <1>2
<1>. QED
  BY <1>2, <1>3 DEF Listed

(***************************************************************************)
(* The clients still to visit are the kid's own, each once.                *)
(***************************************************************************)
LEMMA VisitsOwn ==
    ASSUME TypeOK, OwnerInv, NEW k \in Kids
    PROVE  /\ Listed(todo[k]) \subseteq Members(k) /\ Listed(clients[k]) = Members(k)
           /\ todo[k] # <<>> => Head(todo[k]) \notin Behind(todo[k])
<1>1. /\ clients[k] \in Seq(Conns) /\ todo[k] \in Seq(Conns) /\ Ends(clients[k], todo[k])
  BY DEF TypeOK, OwnerInv, RestLeft
<1>2. PICK m \in Nat : /\ Len(clients[k]) = m + Len(todo[k])
                       /\ \A i \in 1..Len(todo[k]) : todo[k][i] = clients[k][m + i]
  BY <1>1 DEF Ends
<1>3. PICK n \in Nat : n = Len(todo[k])
  BY <1>1, Elements
<1>4. \A i \in 1..n : m + i \in 1..Len(clients[k]) /\ todo[k][i] = clients[k][m + i]
  BY <1>2, <1>3
<1>5. Listed(todo[k]) \subseteq Members(k)
  BY <1>1, EndsListed DEF Members
<1>6. ASSUME todo[k] # <<>>, Head(todo[k]) \in Behind(todo[k]) PROVE FALSE
  <2>1. PICK i \in 2..n : todo[k][i] = Head(todo[k])
    BY <1>3, <1>6 DEF Behind
  <2>2. i \in 1..n /\ 1 \in 1..n /\ m + i # m + 1
    BY <1>2, <2>1
  <2>3. Head(todo[k]) = todo[k][1]
    BY <1>1, <1>6
  <2>4. clients[k][m + i] = clients[k][m + 1]
    BY <1>4, <2>1, <2>2, <2>3
  <2>. QED
    <3>1. \A x, y \in 1..Len(clients[k]) : clients[k][x] = clients[k][y] => x = y
      BY DEF OwnerInv, OwnedOnce
    <3>2. PICK x \in 1..Len(clients[k]), y \in 1..Len(clients[k]) : x = m + i /\ y = m + 1
      BY <1>4, <2>2
    <3>. QED
      BY <2>2, <2>4, <3>1, <3>2
<1>. QED
  BY <1>5, <1>6 DEF Listed, Members

(***************************************************************************)
(* What was told still holds of the clients that are left.                 *)
(***************************************************************************)
LEMMA StillTold ==
    ASSUME NEW k \in Kids, Told(k),
           ReadLeft(k)' \subseteq ReadLeft(k), WriteLeft(k)' \subseteq WriteLeft(k),
           ReadLeft(k)' \cup WriteLeft(k)' \subseteq Members(k)', failed'[k] = failed[k],
           \A c \in ReadLeft(k)' : inp'[c] = inp[c] /\ (Readable(c) => Readable(c)'),
           \A c \in WriteLeft(k)' : Writable(c) => Writable(c)'
    PROVE  Told(k)'
<1>1. \A c \in ReadLeft(k)' : NeedSlurp(inp'[c]) /\ (failed'[k] \/ Readable(c)')
  BY DEF Told
<1>2. \A c \in WriteLeft(k)' : failed'[k] \/ Writable(c)'
  BY DEF Told
<1>. QED
  BY <1>1, <1>2 DEF Told

(***************************************************************************)
(* Steps of the peers and of other kids.                                   *)
(***************************************************************************)
LEMMA ToldApart ==
    ASSUME NEW k \in Kids, Told(k),
           pc'[k] = pc[k], todo'[k] = todo[k], clients'[k] = clients[k],
           rset'[k] = rset[k], wset'[k] = wset[k], failed'[k] = failed[k],
           \A c \in Members(k) : /\ inp'[c] = inp[c]
                                 /\ Readable(c) => Readable(c)'
                                 /\ Writable(c) => Writable(c)'
    PROVE  Told(k)'
<1>1. ReadLeft(k)' = ReadLeft(k) /\ WriteLeft(k)' = WriteLeft(k) /\ Members(k)' = Members(k)
  BY DEF ReadLeft, WriteLeft, Members
<1>2. ReadLeft(k) \cup WriteLeft(k) \subseteq Members(k)
  BY DEF Told
<1>. QED
  BY <1>1, <1>2, StillTold

LEMMA PeerTold ==
    ASSUME TypeOK, OwnerInv, ToldInv, NEW c \in Conns, NEW answered, Peer(c, answered)
    PROVE  ToldInv'
<1>. USE DEF procVars, peerVars, history
<1>1. UNCHANGED <<pc, todo, clients, rset, wset, failed, inp>>
  BY ZenonT(40) DEF Peer, Connect, Send, Receive, Finish, Vanish
<1>2. \A d \in Conns : /\ Readable(d) => Readable(d)'
                       /\ Writable(d) => Writable(d)'
                       /\ (gone[d] => fin[d]) => (gone'[d] => fin'[d])
  <2>. SUFFICES ASSUME NEW d \in Conns
                PROVE  /\ Readable(d) => Readable(d)'
                       /\ Writable(d) => Writable(d)'
                       /\ (gone[d] => fin[d]) => (gone'[d] => fin'[d])
    OBVIOUS
  <2>1. CASE Connect(c)
    <3>1. UNCHANGED <<up, down, fin, gone>>
      BY <2>1 DEF Connect
    <3>. QED
      BY <3>1 DEF Readable, Writable
  <2>2. CASE Send(c, answered)
    <3>1. PICK b \in NextBytes(c) : up' = [up EXCEPT ![c] = Append(up[c], b)]
      BY <2>2 DEF Send
    <3>2. UNCHANGED <<down, fin, gone>>
      BY <2>2 DEF Send
    <3>3. up[d] # <<>> => up'[d] # <<>>
      <4>1. CASE d = c
        <5>1. up'[c] = Append(up[c], b) /\ up[c] \in Seq(ReqByte)
          BY <3>1 DEF TypeOK
        <5>2. TypeOK'
          BY <2>2, PeerTyped DEF Peer
        <5>3. Len(up'[c]) = Len(up[c]) + 1 /\ Len(up[c]) \in Nat
          BY <5>1
        <5>4. Len(<<>>) = 0
          OBVIOUS
        <5>. QED
          BY <4>1, <5>3, <5>4
      <4>2. CASE d # c
        BY <3>1, <4>2 DEF TypeOK
      <4>. QED
        BY <4>1, <4>2
    <3>. QED
      BY <3>2, <3>3 DEF Readable, Writable
  <2>3. CASE Receive(c)
    <3>1. /\ down[c] # <<>> /\ down' = [down EXCEPT ![c] = Tail(down[c])]
          /\ UNCHANGED <<up, fin, gone>>
      BY <2>3 DEF Receive
    <3>2. /\ down[c] \in Seq(AnsByte) /\ Len(down[c]) \in Nat
          /\ Len(Tail(down[c])) = Len(down[c]) - 1 /\ SockN \in Nat
      BY <3>1, Sizes, HeadTail, ServerAssumption
    <3>3. Len(down[d]) < SockN => Len(down'[d]) < SockN
      BY <3>1, <3>2 DEF TypeOK
    <3>. QED
      BY <3>1, <3>3 DEF Readable, Writable
  <2>4. CASE Finish(c)
    BY <2>4 DEF Finish, Readable, Writable, TypeOK
  <2>5. CASE Vanish(c)
    <3>1. /\ fin' = [fin EXCEPT ![c] = TRUE] /\ gone' = [gone EXCEPT ![c] = TRUE]
          /\ down' = [down EXCEPT ![c] = <<>>] /\ UNCHANGED up
      BY <2>5 DEF Vanish
    <3>2. fin[d] => fin'[d]
      BY <3>1 DEF TypeOK
    <3>3. gone[d] => gone'[d]
      BY <3>1 DEF TypeOK
    <3>4. d # c => gone'[d] = gone[d] /\ fin'[d] = fin[d] /\ down'[d] = down[d]
      BY <3>1 DEF TypeOK
    <3>5. d = c => fin'[d] = TRUE /\ gone'[d] = TRUE
      BY <3>1 DEF TypeOK
    <3>. QED
      BY <3>1, <3>2, <3>3, <3>4, <3>5 DEF Readable, Writable
  <2>. QED
    BY <2>1, <2>2, <2>3, <2>4, <2>5 DEF Peer
<1>3. \A k \in Kids : Members(k) \subseteq Conns
  <2>. SUFFICES ASSUME NEW k \in Kids PROVE Members(k) \subseteq Conns
    OBVIOUS
  <2>1. clients[k] \in Seq(Conns)
    BY DEF TypeOK
  <2>. QED
    BY <2>1, Elements DEF Members
<1>4. \A k \in Kids : Told(k)'
  BY <1>1, <1>2, <1>3, ToldApart DEF ToldInv
<1>. QED
  BY <1>2, <1>4 DEF ToldInv, GoneFin

(***************************************************************************)
(* A step of kid k that leaves alone what the others have.                 *)
(***************************************************************************)
LEMMA OthersTold ==
    ASSUME TypeOK, ToldInv, NEW k \in Kids, Told(k)', UNCHANGED <<fin, gone>>,
           \A j \in Kids : j # k => /\ pc'[j] = pc[j] /\ todo'[j] = todo[j]
                                    /\ clients'[j] = clients[j]
                                    /\ rset'[j] = rset[j] /\ wset'[j] = wset[j]
                                    /\ failed'[j] = failed[j],
           \A j \in Kids : j # k =>
               \A c \in Members(j) : inp'[c] = inp[c] /\ up'[c] = up[c] /\ down'[c] = down[c]
    PROVE  ToldInv'
<1>1. ASSUME NEW j \in Kids, j # k PROVE Told(j)'
  <2>1. Told(j)
    BY DEF ToldInv
  <2>2. \A c \in Members(j) : /\ inp'[c] = inp[c]
                              /\ Readable(c) => Readable(c)'
                              /\ Writable(c) => Writable(c)'
    BY <1>1 DEF Readable, Writable
  <2>3. /\ pc'[j] = pc[j] /\ todo'[j] = todo[j] /\ clients'[j] = clients[j]
        /\ rset'[j] = rset[j] /\ wset'[j] = wset[j] /\ failed'[j] = failed[j]
    BY <1>1
  <2>. QED
    BY <2>1, <2>2, <2>3, ToldApart
<1>. QED
  BY <1>1 DEF ToldInv, GoneFin

(***************************************************************************)
(* Only the buffers of a client of k change.                               *)
(***************************************************************************)
LEMMA OwnBuffers ==
    ASSUME TypeOK, OwnerInv, NEW k \in Kids, todo[k] # <<>>,
           NEW c, c = Head(todo[k]),
           \A d \in Conns : d # c => inp'[d] = inp[d] /\ up'[d] = up[d] /\ down'[d] = down[d]
    PROVE  \A j \in Kids : j # k =>
               \A d \in Members(j) : inp'[d] = inp[d] /\ up'[d] = up[d] /\ down'[d] = down[d]
<1>. SUFFICES ASSUME NEW j \in Kids, j # k, NEW d \in Members(j)
              PROVE  inp'[d] = inp[d] /\ up'[d] = up[d] /\ down'[d] = down[d]
  OBVIOUS
<1>1. c \notin Members(j)
  BY Visited
<1>2. d \in Conns
  <2>1. clients[j] \in Seq(Conns)
    BY DEF TypeOK
  <2>. QED
    BY <2>1, Elements DEF Members
<1>. QED
  BY <1>1, <1>2

(***************************************************************************)
(* A kid that handles has nothing more to slurp or flush.                  *)
(***************************************************************************)
LEMMA NothingLeft ==
    ASSUME NEW k \in Kids, pc'[k] \notin {"accept", "slurp", "flush"}
    PROVE  Told(k)'
BY DEF Told, ReadLeft, WriteLeft

(***************************************************************************)
(* A kid passes to the next client: pc goes from one of the two steps of   *)
(* the pass to the next, with the client it visits done.                   *)
(***************************************************************************)
LEMMA PassTold ==
    ASSUME TypeOK, OwnerInv, NEW k \in Kids, Told(k), todo[k] # <<>>,
           NEW c, c = Head(todo[k]),
           rset'[k] = rset[k], wset'[k] = wset[k], failed'[k] = failed[k],
           UNCHANGED <<fin, gone>>,
           \/ pc[k] = "slurp" /\ pc'[k] = "flush" /\ todo'[k] = todo[k]
           \/ pc[k] = "slurp" /\ pc'[k] = "slurp" /\ todo'[k] = Tail(todo[k])
           \/ pc[k] = "flush" /\ pc'[k] = "slurp" /\ todo'[k] = Tail(todo[k]),
           \A d \in Conns : d # c => inp'[d] = inp[d] /\ up'[d] = up[d] /\ down'[d] = down[d],
           down'[c] = down[c] \/ todo'[k] = Tail(todo[k]),
           TypeOK', OwnerInv'
    PROVE  Told(k)'
<1>1. /\ todo[k] \in Seq(Conns) /\ c \notin Behind(todo[k])
      /\ Listed(Tail(todo[k])) = Behind(todo[k])
      /\ Listed(todo[k]) = {c} \cup Behind(todo[k])
  BY ListedTail, VisitsOwn DEF TypeOK
<1>2. Listed(todo[k]) \subseteq Conns
  <2>1. \A i \in 1..Len(todo[k]) : todo[k][i] \in Conns
    BY <1>1, Elements
  <2>. QED
    BY <2>1 DEF Listed
<1>3. ReadLeft(k)' \subseteq ReadLeft(k) /\ ReadLeft(k)' \subseteq Behind(todo[k])
  BY <1>1 DEF ReadLeft
<1>4. WriteLeft(k)' \subseteq WriteLeft(k) /\ WriteLeft(k)' \subseteq Listed(todo'[k])
  BY <1>1 DEF WriteLeft
<1>5. ReadLeft(k)' \cup WriteLeft(k)' \subseteq Members(k)'
  <2>1. /\ clients'[k] \in Seq(Conns) /\ todo'[k] \in Seq(Conns)
        /\ Ends(clients'[k], todo'[k])
    BY DEF TypeOK, OwnerInv, RestLeft
  <2>2. Listed(todo'[k]) \subseteq Members(k)'
    BY <2>1, EndsListed DEF Members
  <2>3. Behind(todo[k]) \subseteq Listed(todo'[k])
    BY <1>1
  <2>. QED
    BY <1>3, <1>4, <2>2, <2>3
<1>6. \A d \in ReadLeft(k)' : inp'[d] = inp[d] /\ (Readable(d) => Readable(d)')
  BY <1>1, <1>2, <1>3 DEF Readable
<1>7. \A d \in WriteLeft(k)' : down'[d] = down[d]
  <2>. SUFFICES ASSUME NEW d \in WriteLeft(k)' PROVE down'[d] = down[d]
    OBVIOUS
  <2>1. d \in Conns
    BY <1>1, <1>2, <1>4
  <2>2. CASE d = c
    BY <1>1, <1>4, <2>2
  <2>3. CASE d # c
    BY <2>1, <2>3
  <2>. QED
    BY <2>2, <2>3
<1>8. \A d \in WriteLeft(k)' : Writable(d) => Writable(d)'
  BY <1>7 DEF Writable
<1>. QED
  BY <1>3, <1>4, <1>5, <1>6, <1>8, StillTold

LEMMA LoopTold ==
    ASSUME TypeOK, OwnerInv, ToldInv, NEW k \in Kids, Loop(k)
    PROVE  ToldInv'
<1>. USE DEF procVars, peerVars, history
<1>1. TypeOK' /\ OwnerInv'
  BY LoopTyped, LoopOwned
<1>2. UNCHANGED <<fin, gone>>
  BY ZenonT(40) DEF Loop, Select, SelectFails, Accept, AcceptNone, Slurp, SlurpFails, NoSlurp,
            Flush, FlushFails, NoFlush, StartHandling, Handled, EndTurn
<1>3. \A j \in Kids : j # k => /\ pc'[j] = pc[j] /\ todo'[j] = todo[j]
                               /\ clients'[j] = clients[j]
                               /\ rset'[j] = rset[j] /\ wset'[j] = wset[j]
                               /\ failed'[j] = failed[j]
  <2>1. /\ pc' = pc \/ \E x : pc' = [pc EXCEPT ![k] = x]
        /\ todo' = todo \/ \E x : todo' = [todo EXCEPT ![k] = x]
        /\ clients' = clients \/ \E x : clients' = [clients EXCEPT ![k] = x]
        /\ rset' = rset \/ \E x : rset' = [rset EXCEPT ![k] = x]
        /\ wset' = wset \/ \E x : wset' = [wset EXCEPT ![k] = x]
        /\ failed' = failed \/ \E x : failed' = [failed EXCEPT ![k] = x]
    BY ZenonT(60) DEF Loop, Select, SelectFails, Accept, AcceptNone, Slurp, SlurpFails, NoSlurp,
              Flush, FlushFails, NoFlush, StartHandling, Handled, EndTurn, Close
  <2>. QED
    BY <2>1 DEF TypeOK
<1>4. Told(k) /\ todo[k] \in Seq(Conns) /\ clients[k] \in Seq(Conns)
  BY DEF ToldInv, TypeOK
<1>5. Listed(clients[k]) = Members(k)
  BY VisitsOwn
<1>6. ASSUME UNCHANGED <<inp, up, down>>, Told(k)' PROVE ToldInv'
  BY <1>2, <1>3, <1>6, OthersTold
<1>7. ASSUME NEW c, c = Head(todo[k]), todo[k] # <<>>,
             \A d \in Conns : d # c => inp'[d] = inp[d] /\ up'[d] = up[d] /\ down'[d] = down[d],
             Told(k)'
      PROVE  ToldInv'
  <2>1. \A j \in Kids : j # k =>
            \A d \in Members(j) : inp'[d] = inp[d] /\ up'[d] = up[d] /\ down'[d] = down[d]
    BY <1>7, OwnBuffers
  <2>. QED
    BY <1>2, <1>3, <1>7, <2>1, OthersTold
<1>8. CASE Select(k)
  <2>1. /\ pc' = [pc EXCEPT ![k] = "accept"] /\ UNCHANGED <<clients, inp, up, down, out>>
        /\ rset' = [rset EXCEPT ![k] = {c \in ToSlurp(k) : Readable(c)}]
        /\ wset' = [wset EXCEPT ![k] = {c \in ToFlush(k) : Writable(c)}]
    BY <1>8 DEF Select
  <2>2. /\ rset'[k] = {c \in ToSlurp(k) : Readable(c)}
        /\ wset'[k] = {c \in ToFlush(k) : Writable(c)}
    BY <2>1 DEF TypeOK
  <2>3. ReadLeft(k)' \subseteq rset'[k] /\ WriteLeft(k)' \subseteq wset'[k]
    BY DEF ReadLeft, WriteLeft
  <2>4. Members(k)' = Members(k)
    BY <2>1 DEF Members
  <2>5. Told(k)'
    BY <1>2, <2>1, <2>2, <2>3, <2>4 DEF Told, ToSlurp, ToFlush, Readable, Writable
  <2>. QED
    BY <1>6, <2>1, <2>5
<1>9. CASE SelectFails(k)
  <2>1. /\ failed' = [failed EXCEPT ![k] = TRUE] /\ UNCHANGED <<clients, inp, up, down, out>>
        /\ rset' = [rset EXCEPT ![k] = ToSlurp(k)]
        /\ wset' = [wset EXCEPT ![k] = ToFlush(k)]
    BY <1>9 DEF SelectFails
  <2>2. rset'[k] = ToSlurp(k) /\ wset'[k] = ToFlush(k) /\ failed'[k] = TRUE
    BY <2>1 DEF TypeOK
  <2>3. ReadLeft(k)' \subseteq rset'[k] /\ WriteLeft(k)' \subseteq wset'[k]
    BY DEF ReadLeft, WriteLeft
  <2>4. Members(k)' = Members(k)
    BY <2>1 DEF Members
  <2>5. Told(k)'
    BY <2>1, <2>2, <2>3, <2>4 DEF Told, ToSlurp, ToFlush
  <2>. QED
    BY <1>6, <2>1, <2>5
<1>10. CASE Accept(k)
  <2>1. /\ clients' = [clients EXCEPT ![k] = Append(clients[k], Head(backlog))]
        /\ backlog # <<>> /\ UNCHANGED <<pc, todo, rset, wset, failed, inp, up, down>>
    BY <1>10 DEF Accept
  <2>2. ReadLeft(k)' = ReadLeft(k) /\ WriteLeft(k)' = WriteLeft(k)
    BY <2>1 DEF ReadLeft, WriteLeft
  <2>3. Members(k) \subseteq Members(k)'
    <3>1. Head(backlog) \in Conns
      BY <2>1, HeadTail DEF TypeOK
    <3>2. PICK e \in Conns : e = Head(backlog)
      BY <3>1
    <3>3. PICK q : q = Append(clients[k], e)
      OBVIOUS
    <3>4. Len(q) = Len(clients[k]) + 1 /\ \A i \in 1..Len(clients[k]) : q[i] = clients[k][i]
      BY <1>4, <3>2, <3>3, AppendProperties
    <3>5. clients'[k] = q
      BY <2>1, <3>2, <3>3 DEF TypeOK
    <3>6. \A i \in 1..Len(clients[k]) : i \in 1..Len(q)
      <4>1. Len(clients[k]) \in Nat
        BY <1>4, Elements
      <4>. QED
        BY <3>4, <4>1
    <3>. QED
      BY <3>4, <3>5, <3>6 DEF Members
  <2>4. ReadLeft(k)' \cup WriteLeft(k)' \subseteq Members(k)'
    BY <1>4, <2>2, <2>3 DEF Told
  <2>5. Told(k)'
    BY <1>2, <1>4, <2>1, <2>2, <2>4, StillTold DEF Readable, Writable
  <2>. QED
    BY <1>6, <2>1, <2>5
<1>11. CASE AcceptNone(k)
  <2>1. /\ pc[k] = "accept" /\ pc' = [pc EXCEPT ![k] = "slurp"]
        /\ UNCHANGED <<clients, rset, wset, failed, inp, up, down>>
    BY <1>11 DEF AcceptNone
  <2>2. ReadLeft(k)' \subseteq ReadLeft(k) /\ WriteLeft(k)' \subseteq WriteLeft(k)
    BY <2>1 DEF ReadLeft, WriteLeft
  <2>3. Members(k)' = Members(k)
    BY <2>1 DEF Members
  <2>4. ReadLeft(k)' \cup WriteLeft(k)' \subseteq Members(k)'
    BY <1>4, <2>2, <2>3 DEF Told
  <2>5. Told(k)'
    BY <1>2, <1>4, <2>1, <2>2, <2>4, StillTold DEF Readable, Writable
  <2>. QED
    BY <1>6, <2>1, <2>5
<1>12. CASE Slurp(k) \/ NoSlurp(k) \/ SlurpFails(k) \/ Flush(k) \/ NoFlush(k) \/ FlushFails(k)
  <2>1. todo[k] # <<>> /\ UNCHANGED <<rset, wset, failed>>
    BY <1>12, Zenon DEF Slurp, NoSlurp, SlurpFails, Flush, NoFlush, FlushFails
  <2>2. PICK c \in Conns : c = Head(todo[k])
    BY <1>4, <2>1, HeadTail
  <2>3. /\ inp' = inp \/ \E x : inp' = [inp EXCEPT ![c] = x]
        /\ up' = up \/ \E x : up' = [up EXCEPT ![c] = x]
        /\ down' = down \/ \E x : down' = [down EXCEPT ![c] = x]
    BY <1>12, <2>2, ZenonT(40) DEF Slurp, NoSlurp, SlurpFails, Flush, NoFlush, FlushFails, Close
  <2>4. \A d \in Conns : d # c => inp'[d] = inp[d] /\ up'[d] = up[d] /\ down'[d] = down[d]
    BY <2>3 DEF TypeOK
  <2>5. /\ \/ pc[k] = "slurp" /\ pc'[k] = "flush" /\ todo'[k] = todo[k]
           \/ pc[k] = "slurp" /\ pc'[k] = "slurp" /\ todo'[k] = Tail(todo[k])
           \/ pc[k] = "flush" /\ pc'[k] = "slurp" /\ todo'[k] = Tail(todo[k])
        /\ down'[c] = down[c] \/ todo'[k] = Tail(todo[k])
    <3>1. CASE Slurp(k) \/ NoSlurp(k)
      <4>1. /\ pc[k] = "slurp" /\ pc' = [pc EXCEPT ![k] = "flush"] /\ UNCHANGED <<todo, down>>
        BY <3>1 DEF Slurp, NoSlurp
      <4>. QED
        BY <4>1 DEF TypeOK
    <3>2. CASE SlurpFails(k)
      <4>1. /\ pc[k] = "slurp" /\ pc' = pc /\ todo' = [todo EXCEPT ![k] = Tail(todo[k])]
        BY <3>2 DEF SlurpFails, Close
      <4>. QED
        BY <4>1 DEF TypeOK
    <3>3. CASE Flush(k) \/ NoFlush(k) \/ FlushFails(k)
      <4>1. /\ pc[k] = "flush" /\ pc' = [pc EXCEPT ![k] = "slurp"]
            /\ todo' = [todo EXCEPT ![k] = Tail(todo[k])]
        BY <3>3, Zenon DEF Flush, NoFlush, FlushFails, Close
      <4>. QED
        BY <4>1 DEF TypeOK
    <3>. QED
      BY <1>12, <3>1, <3>2, <3>3
  <2>6. Told(k)'
    BY <1>1, <1>2, <1>4, <2>1, <2>2, <2>4, <2>5, PassTold
  <2>. QED
    BY <1>7, <2>1, <2>2, <2>4, <2>6
<1>13. CASE StartHandling(k) \/ Handled(k) \/ EndTurn(k)
  <2>1. UNCHANGED <<inp, up, down>>
    BY <1>13 DEF StartHandling, Handled, EndTurn
  <2>2. pc'[k] \in {"handle", "select"}
    BY <1>13 DEF StartHandling, Handled, EndTurn, TypeOK
  <2>3. Told(k)'
    BY <2>2, NothingLeft
  <2>. QED
    BY <1>6, <2>1, <2>3
<1>. QED
  BY <1>8, <1>9, <1>10, <1>11, <1>12, <1>13 DEF Loop

(***************************************************************************)
(* slurp and flush delete a client for a cause.                            *)
(***************************************************************************)
Excused(c) ==
    \/ fin[c]
    \/ Misled(c)

LEMMA LoopExcused ==
    ASSUME TypeOK, OwnerInv, ToldInv, NEW k \in Kids, Loop(k),
           NEW d \in Conns, phase[d] = "open", phase'[d] = "closed"
    PROVE  Excused(d)
<1>. USE DEF procVars, peerVars, history
<1>1. SlurpFails(k) \/ FlushFails(k)
  <2>1. CASE Accept(k)
    <3>1. phase' = [phase EXCEPT ![Head(backlog)] = "open"]
      BY <2>1 DEF Accept
    <3>. QED
      BY <3>1 DEF TypeOK
  <2>2. CASE \/ Select(k) \/ SelectFails(k) \/ AcceptNone(k) \/ Slurp(k) \/ NoSlurp(k)
             \/ Flush(k) \/ NoFlush(k) \/ StartHandling(k) \/ Handled(k) \/ EndTurn(k)
    <3>1. phase' = phase
      BY <2>2, ZenonT(40) DEF Select, SelectFails, AcceptNone, Slurp, NoSlurp, Flush, NoFlush,
                StartHandling, Handled, EndTurn
    <3>. QED
      BY <3>1
  <2>. QED
    BY <2>1, <2>2 DEF Loop
<1>2. PICK c \in Conns : c = Head(todo[k])
  BY <1>1, Visited DEF SlurpFails, FlushFails
<1>3. /\ todo[k] # <<>> /\ c \in Listed(todo[k])
  <2>1. todo[k] # <<>> /\ todo[k] \in Seq(Conns)
    BY <1>1 DEF SlurpFails, FlushFails, TypeOK
  <2>. QED
    BY <1>2, <2>1, ListedTail
<1>4. d = c
  <2>1. phase' = [phase EXCEPT ![c] = "closed"]
    BY <1>1, <1>2, Zenon DEF SlurpFails, FlushFails, Close
  <2>. QED
    BY <2>1 DEF TypeOK
<1>5. Told(k) /\ (gone[c] => fin[c])
  BY DEF ToldInv, GoneFin
<1>8. c \in Members(k)
  BY <1>3, VisitsOwn
<1>6. CASE SlurpFails(k)
  <2>1. /\ pc[k] = "slurp" /\ c \in rset[k]
        /\ SlurpCount(inp[c], Len(up[c])) = 0 \/ gone[c]
    BY <1>2, <1>6 DEF SlurpFails
  <2>2. c \in ReadLeft(k)
    BY <1>3, <2>1 DEF ReadLeft
  <2>3. NeedSlurp(inp[c]) /\ (failed[k] \/ Readable(c))
    BY <1>5, <2>2 DEF Told
  <2>4. SlurpCount(inp[c], Len(up[c])) = 0 => Len(up[c]) = 0
    <3>1. Len(up[c]) \in Nat /\ Len(inp[c]) \in Nat /\ InpBufN \in Nat
      BY Sizes, BufAssumption
    <3>2. PICK m \in Nat, n \in Nat, b \in Nat : m = Len(up[c]) /\ n = Len(inp[c]) /\ b = InpBufN
      BY <3>1
    <3>3. SlurpCount(inp[c], Len(up[c])) = IF m <= b - n THEN m ELSE b - n
      BY <3>2 DEF SlurpCount, Lesser
    <3>4. n < b
      BY <2>3, <3>2 DEF NeedSlurp
    <3>5. (IF m <= b - n THEN m ELSE b - n) = 0 => m = 0
      BY <3>4
    <3>. QED
      BY <3>2, <3>3, <3>5, Zenon
  <2>5. Len(up[c]) = 0 => up[c] = <<>>
    BY Sizes, EmptySeq
  <2>6. CASE gone[c]
    <3>1. fin[c]
      BY <1>5, <2>6, Zenon
    <3>. QED
      BY <1>4, <3>1 DEF Excused
  <2>7. CASE up[c] = <<>>
    BY <1>4, <1>8, <2>1, <2>3, <2>7 DEF Excused, Misled, Readable
  <2>. QED
    BY <2>1, <2>4, <2>5, <2>6, <2>7
<1>7. CASE FlushFails(k)
  <2>1. /\ pc[k] = "flush" /\ c \in wset[k]
        /\ Len(down[c]) = SockN \/ gone[c]
    BY <1>2, <1>7 DEF FlushFails
  <2>2. c \in WriteLeft(k)
    BY <1>3, <2>1 DEF WriteLeft
  <2>3. failed[k] \/ Writable(c)
    BY <1>5, <2>2 DEF Told
  <2>4. Len(down[c]) = SockN => ~(Len(down[c]) < SockN)
    BY Sizes
  <2>5. CASE gone[c]
    <3>1. fin[c]
      BY <1>5, <2>5, Zenon
    <3>. QED
      BY <1>4, <3>1 DEF Excused
  <2>6. CASE Len(down[c]) = SockN /\ ~gone[c]
    BY <1>4, <1>8, <2>1, <2>3, <2>4, <2>6 DEF Excused, Misled, Writable
  <2>. QED
    BY <2>1, <2>5, <2>6
<1>. QED
  BY <1>1, <1>6, <1>7

LEMMA InitTold == ServerInit => ToldInv
BY DEF ServerInit, ToldInv, GoneFin, Told, ReadLeft, WriteLeft

LEMMA StutterTold == TypeOK /\ ToldInv /\ UNCHANGED vars => ToldInv'
<1>. SUFFICES ASSUME TypeOK, ToldInv, UNCHANGED vars PROVE ToldInv'
  OBVIOUS
<1>1. UNCHANGED <<pc, todo, clients, rset, wset, failed, inp, up, down, fin, gone>>
  BY DEF vars, procVars, peerVars
<1>2. \A k \in Kids : Told(k)'
  BY <1>1, ToldApart DEF ToldInv, Readable, Writable
<1>. QED
  BY <1>1, <1>2 DEF ToldInv, GoneFin

-----------------------------------------------------------------------------
(***************************************************************************)
(* Induction over the numbers, for a set (a predicate would be a parameter *)
(* that no prover here can instantiate): the least number that is missing  *)
(* ends the shortest of the intervals 0..n - 1 for the missing n.          *)
(***************************************************************************)
LEMMA NatSetInduction ==
    ASSUME NEW T, 0 \in T, \A n \in Nat : n \in T => n + 1 \in T
    PROVE  Nat \subseteq T
<1>. DEFINE U == {0..n - 1 : n \in Nat \ T}
<1>1. SUFFICES ASSUME NEW n \in Nat, n \notin T PROVE FALSE
  OBVIOUS
<1>2. U # {} /\ U \subseteq FiniteSubsetsOf(Nat)
  <2>1. \A m \in Nat : 0..m - 1 \in SUBSET Nat /\ IsFiniteSet(0..m - 1)
    BY FS_Interval
  <2>. QED
    BY <1>1, <2>1 DEF FiniteSubsetsOf
<1>3. IsWellFoundedOn(StrictSubsetOrdering(Nat), FiniteSubsetsOf(Nat))
  BY FS_StrictSubsetOrderingWellFounded
<1>4. PICK x \in U : \A y \in U : ~ (<<y, x>> \in StrictSubsetOrdering(Nat))
  <2>. HIDE DEF U
  <2>. QED
    BY <1>2, <1>3, WFMin
<1>5. PICK m \in Nat : m \notin T /\ x = 0..m - 1
  BY <1>4
<1>6. PICK k \in Nat : m = k + 1
  <2>1. m # 0
    BY <1>5
  <2>2. m - 1 \in Nat /\ m = (m - 1) + 1
    BY <2>1
  <2>. QED
    BY <2>2
<1>7. k \notin T
  BY <1>5, <1>6
<1>8. 0..k - 1 \in U
  BY <1>7
<1>9. <<0..k - 1, x>> \in StrictSubsetOrdering(Nat)
  <2>1. 0..k - 1 \in SUBSET Nat /\ x \in SUBSET Nat
    BY <1>5
  <2>2. k \in x /\ k \notin 0..k - 1
    BY <1>5, <1>6
  <2>3. 0..k - 1 \subseteq x
    BY <1>5, <1>6
  <2>. QED
    BY <2>1, <2>2, <2>3 DEF StrictSubsetOrdering
<1>. QED
  BY <1>4, <1>8, <1>9

LEMMA Multiples ==
    ASSUME NEW d \in Nat \ {0}, NEW q \in Nat
    PROVE  (q * d) % d = 0 /\ (q + 1) * d = q * d + d /\ q * d \in Nat
<1>1. q * d \in Nat /\ (q + 1) * d = q * d + d
  OBVIOUS
<1>2. PICK n \in Nat : n = q * d
  BY <1>1
<1>3. PICK e \in Nat, m \in Nat : e = n \div d /\ m = n % d /\ n = d * e + m /\ m < d
  OBVIOUS
<1>4. m = 0
  <2>1. CASE q = e
    BY <1>2, <1>3, <2>1
  <2>2. CASE q > e
    <3>1. PICK x \in Nat : q = e + 1 + x
      <4>1. q - e - 1 \in Nat /\ q = e + 1 + (q - e - 1)
        BY <2>2
      <4>. QED
        BY <4>1
    <3>2. q * d = e * d + d + x * d /\ x * d \in Nat
      BY <3>1
    <3>. QED
      BY <1>2, <1>3, <3>2
  <2>3. CASE q < e
    <3>1. PICK x \in Nat : e = q + 1 + x
      <4>1. e - q - 1 \in Nat /\ e = q + 1 + (e - q - 1)
        BY <2>3
      <4>. QED
        BY <4>1
    <3>2. d * e = q * d + d + x * d /\ x * d \in Nat
      BY <3>1
    <3>. QED
      BY <1>2, <1>3, <3>2
  <2>. QED
    BY <2>1, <2>2, <2>3
<1>. QED
  BY <1>1, <1>2, <1>3, <1>4

(***************************************************************************)
(* The requests in a stream of bytes.                                      *)
(***************************************************************************)
ReqAt(s, r) == SubSeq(s, (r - 1) * ReqLen + 1, r * ReqLen)
WellHeaded(s) == \A i \in 1..Len(s) : (i - 1) % ReqLen = 0 => s[i][3] \in Headers

(***************************************************************************)
(* The place of the request that follows r whole ones.                     *)
(***************************************************************************)
LEMMA Place ==
    ASSUME NEW r \in Nat
    PROVE  /\ ((r + 1) - 1) * ReqLen = r * ReqLen /\ r * ReqLen \in Nat
           /\ (r + 1) * ReqLen = r * ReqLen + ReqLen /\ ReqLen \in Nat /\ ReqLen > 0
           /\ (r * ReqLen) % ReqLen = 0
           /\ \A n \in Nat : r + 1 <= n => r * ReqLen + ReqLen <= n * ReqLen
<1>1. ReqLen \in Nat \ {0}
  BY ServerAssumption
<1>2. /\ (r * ReqLen) % ReqLen = 0 /\ (r + 1) * ReqLen = r * ReqLen + ReqLen
      /\ r * ReqLen \in Nat
  BY <1>1, Multiples
<1>3. (r + 1) - 1 = r
  OBVIOUS
<1>4. ASSUME NEW n \in Nat, r + 1 <= n PROVE r * ReqLen + ReqLen <= n * ReqLen
  <2>1. PICK x \in Nat : n = (r + 1) + x
    <3>1. n - (r + 1) \in Nat /\ n = (r + 1) + (n - (r + 1))
      BY <1>4
    <3>. QED
      BY <3>1
  <2>2. n * ReqLen = (r + 1) * ReqLen + x * ReqLen /\ x * ReqLen \in Nat
    BY <1>1, <2>1
  <2>. QED
    BY <1>1, <1>2, <2>2
<1>. QED
  BY <1>1, <1>2, <1>3, <1>4

LEMMA RequestAt ==
    ASSUME NEW s \in Seq(ReqByte), NEW r \in Nat, r * ReqLen + ReqLen <= Len(s)
    PROVE  /\ ReqAt(s, r + 1) \in Seq(ReqByte) /\ Len(ReqAt(s, r + 1)) = ReqLen
           /\ \A i \in 1..ReqLen : ReqAt(s, r + 1)[i] = s[r * ReqLen + i]
           /\ WellHeaded(s) => Header(ReqAt(s, r + 1)) \in Headers
<1>1. PICK m \in Nat, l \in Nat : m = r * ReqLen /\ l = ReqLen /\ l > 0
  BY Place
<1>2. PICK q : q = SubSeq(s, m + 1, m + l)
  OBVIOUS
<1>3. q = ReqAt(s, r + 1)
  BY <1>1, <1>2, Place DEF ReqAt
<1>4. q \in Seq(ReqByte) /\ Len(q) = l /\ \A i \in 1..l : q[i] = s[m + i]
  BY <1>1, <1>2, Piece
<1>5. ASSUME WellHeaded(s) PROVE Header(q) \in Headers
  <2>1. m + 1 \in 1..Len(s) /\ (m + 1) - 1 = m /\ 1 \in 1..l
    <3>1. PICK n \in Nat : n = Len(s)
      BY Elements
    <3>. QED
      BY <1>1, <3>1
  <2>2. ((m + 1) - 1) % ReqLen = 0
    <3>1. m % ReqLen = 0
      BY <1>1, Place
    <3>. QED
      BY <2>1, <3>1
  <2>3. s[m + 1][3] \in Headers
    BY <1>5, <2>1, <2>2 DEF WellHeaded
  <2>4. q[1] = s[m + 1]
    BY <1>4, <2>1
  <2>. QED
    BY <2>3, <2>4 DEF Header
<1>. QED
  BY <1>1, <1>3, <1>4, <1>5


(***************************************************************************)
(* The requests in a stream stay when the stream grows at its end.         *)
(***************************************************************************)
LEMMA RequestStays ==
    ASSUME NEW s \in Seq(ReqByte), NEW t \in Seq(ReqByte), Starts(ReqByte, t, s),
           NEW r \in Nat, r * ReqLen + ReqLen <= Len(s)
    PROVE  ReqAt(t, r + 1) = ReqAt(s, r + 1) /\ r * ReqLen + ReqLen <= Len(t)
<1>1. PICK rest \in Seq(ReqByte) : t = s \o rest
  BY DEF Starts, Split
<1>2. PICK a \in Nat, b \in Nat : a = Len(s) /\ b = Len(rest)
  BY Elements
<1>3. Len(t) = a + b /\ \A i \in 1..a : t[i] = s[i]
  <2>1. /\ Len(s \o rest) = Len(s) + Len(rest)
        /\ \A i \in 1..Len(s) + Len(rest) :
              (s \o rest)[i] = IF i <= Len(s) THEN s[i] ELSE rest[i - Len(s)]
    BY ConcatProperties
  <2>. QED
    BY <1>1, <1>2, <2>1
<1>4. PICK m \in Nat, l \in Nat : m = r * ReqLen /\ l = ReqLen
  BY Place
<1>5. m + l <= Len(t)
  BY <1>2, <1>3, <1>4
<1>6. /\ ReqAt(s, r + 1) \in Seq(ReqByte) /\ Len(ReqAt(s, r + 1)) = l
      /\ \A i \in 1..l : ReqAt(s, r + 1)[i] = s[m + i]
  BY <1>4, RequestAt
<1>7. /\ ReqAt(t, r + 1) \in Seq(ReqByte) /\ Len(ReqAt(t, r + 1)) = l
      /\ \A i \in 1..l : ReqAt(t, r + 1)[i] = t[m + i]
  BY <1>4, <1>5, RequestAt
<1>8. \A i \in 1..l : t[m + i] = s[m + i]
  <2>1. \A i \in 1..l : m + i \in 1..a
    BY <1>2, <1>4
  <2>. QED
    BY <1>3, <2>1
<1>9. ReqAt(t, r + 1) = ReqAt(s, r + 1)
  BY <1>6, <1>7, <1>8, SeqEqual
<1>. QED
  BY <1>4, <1>5, <1>9

-----------------------------------------------------------------------------
(***************************************************************************)
(* The replies in a sequence of bytes, as Replies adds them up.            *)
(***************************************************************************)
RepliesStep(s, len, h, i) ==
    IF i = 0 THEN <<>>
    ELSE IF LastByte(s[i], len) THEN Append(h[i - 1], s[i][1]) ELSE h[i - 1]
RepliesFold(s, len) == CHOOSE h : h = [i \in 0..Len(s) |-> RepliesStep(s, len, h, i)]

LEMMA RepliesIs ==
    ASSUME NEW s, NEW len
    PROVE  Replies(s, len) = RepliesFold(s, len)[Len(s)]
BY DEF Replies, RepliesFold, RepliesStep

LEMMA RepliesExist ==
    ASSUME NEW s, NEW len, NEW m \in Nat
    PROVE  \E h : h = [i \in 0..m |-> RepliesStep(s, len, h, i)]
<1>. DEFINE T == {n \in Nat : \E h : h = [i \in 0..n |-> RepliesStep(s, len, h, i)]}
<1>1. 0 \in T
  <2>1. PICK h : h = [i \in 0..0 |-> <<>>]
    OBVIOUS
  <2>2. \A i \in 0..0 : RepliesStep(s, len, h, i) = <<>>
    BY DEF RepliesStep
  <2>3. h = [i \in 0..0 |-> RepliesStep(s, len, h, i)]
    BY <2>1, <2>2
  <2>. QED
    BY <2>3
<1>2. ASSUME NEW n \in Nat, n \in T PROVE n + 1 \in T
  <2>1. PICK h : h = [i \in 0..n |-> RepliesStep(s, len, h, i)]
    BY <1>2
  <2>2. PICK g : g = [i \in 0..n + 1 |-> RepliesStep(s, len, h, i)]
    OBVIOUS
  <2>3. \A i \in 0..n : g[i] = h[i]
    <3>1. ASSUME NEW i \in 0..n PROVE i \in 0..n + 1
      OBVIOUS
    <3>2. \A i \in 0..n : h[i] = RepliesStep(s, len, h, i)
      BY <2>1
    <3>. QED
      BY <2>2, <3>1, <3>2
  <2>4. ASSUME NEW i \in 0..n + 1 PROVE RepliesStep(s, len, h, i) = RepliesStep(s, len, g, i)
    <3>1. i # 0 => i - 1 \in 0..n
      OBVIOUS
    <3>. QED
      BY <2>3, <3>1 DEF RepliesStep
  <2>5. g = [i \in 0..n + 1 |-> RepliesStep(s, len, g, i)]
    BY <2>2, <2>4
  <2>. QED
    BY <2>5
<1>3. Nat \subseteq T
  <2>. HIDE DEF T
  <2>. QED
    BY <1>1, <1>2, NatSetInduction
<1>. QED
  BY <1>3

Repeats(s, len, h) ==
    /\ Replies(s, len) = h[Len(s)]
    /\ h[0] = <<>>
    /\ \A i \in 1..Len(s) :
           /\ LastByte(s[i], len) => h[i] = Append(h[i - 1], s[i][1])
           /\ ~LastByte(s[i], len) => h[i] = h[i - 1]

LEMMA RepliesHas ==
    ASSUME NEW S, NEW s \in Seq(S), NEW len
    PROVE  \E h : Repeats(s, len, h)
<1>1. PICK n \in Nat : n = Len(s)
  BY Elements
<1>2. PICK h : h = RepliesFold(s, len)
  OBVIOUS
<1>3. h = [i \in 0..n |-> RepliesStep(s, len, h, i)]
  BY <1>1, <1>2, RepliesExist DEF RepliesFold
<1>4. \A i \in 0..n : h[i] = RepliesStep(s, len, h, i)
  BY <1>3
<1>5. h[0] = <<>>
  BY <1>4 DEF RepliesStep
<1>6. \A i \in 1..n : /\ LastByte(s[i], len) => h[i] = Append(h[i - 1], s[i][1])
                      /\ ~LastByte(s[i], len) => h[i] = h[i - 1]
  <2>1. \A i \in 1..n : i \in 0..n /\ i # 0
    OBVIOUS
  <2>. QED
    BY <1>4, <2>1 DEF RepliesStep
<1>7. Replies(s, len) = h[n]
  BY <1>1, <1>2, RepliesIs
<1>8. Repeats(s, len, h)
  BY <1>1, <1>5, <1>6, <1>7 DEF Repeats
<1>. QED
  BY <1>8

(***************************************************************************)
(* The replies in the first bytes of a sequence are determined by them.    *)
(***************************************************************************)
LEMMA RepeatsAgree ==
    ASSUME NEW s, NEW t, NEW len, NEW g, NEW h, NEW n \in Nat,
           Repeats(s, len, g), Repeats(t, len, h), n <= Len(s), n <= Len(t),
           Len(s) \in Nat, Len(t) \in Nat, \A i \in 1..n : s[i] = t[i]
    PROVE  g[n] = h[n]
<1>. DEFINE T == {i \in Nat : i <= n => g[i] = h[i]}
<1>1. 0 \in T
  BY DEF Repeats
<1>2. ASSUME NEW i \in Nat, i \in T PROVE i + 1 \in T
  <2>. SUFFICES ASSUME i + 1 <= n PROVE g[i + 1] = h[i + 1]
    OBVIOUS
  <2>1. /\ i + 1 \in 1..n /\ i + 1 \in 1..Len(s) /\ i + 1 \in 1..Len(t)
        /\ (i + 1) - 1 = i /\ i <= n
    OBVIOUS
  <2>2. g[i] = h[i] /\ s[i + 1] = t[i + 1]
    BY <1>2, <2>1
  <2>. QED
    BY <2>1, <2>2 DEF Repeats
<1>3. n \in T
  <2>. HIDE DEF T
  <2>. QED
    BY <1>1, <1>2, NatSetInduction
<1>. QED
  BY <1>3

LEMMA RepliesNext ==
    ASSUME NEW S, NEW s \in Seq(S), NEW t \in Seq(S), NEW n \in Nat, n = Len(s), NEW len,
           Len(t) = n + 1, \A i \in 1..n : s[i] = t[i]
    PROVE  /\ LastByte(t[n + 1], len) => Replies(t, len) = Append(Replies(s, len), t[n + 1][1])
           /\ ~LastByte(t[n + 1], len) => Replies(t, len) = Replies(s, len)
<1>1. PICK g : Repeats(s, len, g)
  BY RepliesHas
<1>2. PICK h : Repeats(t, len, h)
  BY RepliesHas
<1>3. g[n] = h[n]
  <2>1. n <= Len(s) /\ n <= Len(t) /\ Len(s) \in Nat /\ Len(t) \in Nat
    OBVIOUS
  <2>. QED
    BY <1>1, <1>2, <2>1, RepeatsAgree
<1>4. n + 1 \in 1..Len(t) /\ (n + 1) - 1 = n
  OBVIOUS
<1>. QED
  BY <1>1, <1>2, <1>3, <1>4 DEF Repeats

LEMMA RepliesAppend ==
    ASSUME NEW S, NEW s \in Seq(S), NEW b \in S, NEW len
    PROVE  /\ LastByte(b, len) => Replies(Append(s, b), len) = Append(Replies(s, len), b[1])
           /\ ~LastByte(b, len) => Replies(Append(s, b), len) = Replies(s, len)
<1>1. PICK n \in Nat : n = Len(s)
  BY Elements
<1>2. \E t \in Seq(S) : /\ t = Append(s, b) /\ Len(t) = n + 1 /\ t[n + 1] = b
                        /\ \A i \in 1..n : s[i] = t[i]
  <2>1. /\ Append(s, b) \in Seq(S) /\ Len(Append(s, b)) = Len(s) + 1
        /\ \A i \in 1..Len(s) : Append(s, b)[i] = s[i]
        /\ Append(s, b)[Len(s) + 1] = b
    BY AppendProperties
  <2>2. \A i \in 1..n : s[i] = Append(s, b)[i]
    BY <1>1, <2>1
  <2>. QED
    BY <1>1, <2>1, <2>2
<1>3. ASSUME NEW t \in Seq(S), Len(t) = n + 1, t[n + 1] = b, \A i \in 1..n : s[i] = t[i]
      PROVE  /\ LastByte(b, len) => Replies(t, len) = Append(Replies(s, len), b[1])
             /\ ~LastByte(b, len) => Replies(t, len) = Replies(s, len)
  BY <1>1, <1>3, RepliesNext
<1>. QED
  BY <1>2, <1>3

LEMMA RepliesEmpty ==
    ASSUME NEW len
    PROVE  Replies(<<>>, len) = <<>>
<1>1. <<>> \in Seq({}) /\ Len(<<>>) = 0
  BY EmptySeq
<1>2. PICK h : Repeats(<<>>, len, h)
  BY <1>1, RepliesHas
<1>. QED
  BY <1>1, <1>2 DEF Repeats

LEMMA RepliesTyped ==
    ASSUME NEW s \in Seq(AnsByte), NEW len
    PROVE  Replies(s, len) \in Seq(Seq(ReqByte))
<1>1. PICK h : Repeats(s, len, h)
  BY RepliesHas
<1>2. PICK n \in Nat : n = Len(s)
  BY Elements
<1>. DEFINE T == {i \in Nat : i <= n => h[i] \in Seq(Seq(ReqByte))}
<1>3. 0 \in T
  <2>1. <<>> \in Seq(Seq(ReqByte))
    BY EmptySeq
  <2>. QED
    BY <1>1, <2>1 DEF Repeats
<1>4. ASSUME NEW i \in Nat, i \in T PROVE i + 1 \in T
  <2>. SUFFICES ASSUME i + 1 <= n PROVE h[i + 1] \in Seq(Seq(ReqByte))
    OBVIOUS
  <2>1. i + 1 \in 1..n /\ (i + 1) - 1 = i /\ i <= n
    OBVIOUS
  <2>2. h[i] \in Seq(Seq(ReqByte))
    BY <1>4, <2>1
  <2>3. s[i + 1][1] \in Seq(ReqByte)
    <3>1. s[i + 1] \in AnsByte
      BY <1>2, <2>1, Elements
    <3>. QED
      BY <3>1 DEF AnsByte
  <2>4. Append(h[i], s[i + 1][1]) \in Seq(Seq(ReqByte))
    BY <2>2, <2>3, AppendTyped
  <2>. QED
    BY <1>1, <1>2, <2>1, <2>2, <2>4 DEF Repeats
<1>5. n \in T
  <2>. HIDE DEF T
  <2>. QED
    BY <1>3, <1>4, NatSetInduction
<1>. QED
  BY <1>1, <1>2, <1>5 DEF Repeats


LEMMA FrontLast ==
    ASSUME NEW S, NEW s \in Seq(S), NEW n \in Nat, Len(s) = n + 1
    PROVE  \E f \in Seq(S), b \in S : /\ Len(f) = n /\ s = f \o <<b>> /\ <<b>> \in Seq(S)
                                      /\ s[n + 1] = b /\ \A i \in 1..n : f[i] = s[i]
<1>1. PICK f : f = SubSeq(s, 0 + 1, 0 + n)
  OBVIOUS
<1>2. f \in Seq(S) /\ Len(f) = n /\ \A i \in 1..n : f[i] = s[i]
  <2>1. /\ f \in Seq(S) /\ Len(f) = n /\ \A i \in 1..n : f[i] = s[0 + i]
    <3>1. 0 + n <= Len(s)
      OBVIOUS
    <3>. QED
      BY <1>1, <3>1, Piece
  <2>2. \A i \in 1..n : 0 + i = i
    OBVIOUS
  <2>. QED
    BY <2>1, <2>2
<1>3. PICK b \in S : b = s[n + 1]
  <2>1. n + 1 \in 1..Len(s)
    OBVIOUS
  <2>. QED
    BY <2>1, Elements
<1>4. PICK t \in Seq(S) : t = f \o <<b>> /\ Len(t) = n + 1 /\ <<b>> \in Seq(S)
                          /\ t[n + 1] = b /\ \A i \in 1..n : t[i] = f[i]
  <2>1. /\ Append(f, b) \in Seq(S) /\ Len(Append(f, b)) = Len(f) + 1
        /\ \A i \in 1..Len(f) : Append(f, b)[i] = f[i]
        /\ Append(f, b)[Len(f) + 1] = b
    BY <1>2, AppendProperties
  <2>2. Append(f, b) = f \o <<b>> /\ <<b>> \in Seq(S)
    BY <1>2, AppendTyped
  <2>. QED
    BY <1>2, <2>1, <2>2
<1>5. \A i \in 1..n + 1 : t[i] = s[i]
  <2>1. \A i \in 1..n + 1 : i \in 1..n \/ i = n + 1
    OBVIOUS
  <2>. QED
    BY <1>2, <1>3, <1>4, <2>1
<1>6. t = s
  BY <1>4, <1>5, SeqEqual
<1>7. f \in Seq(S) /\ b \in S /\ Len(f) = n /\ s = f \o <<b>> /\ <<b>> \in Seq(S)
  BY <1>2, <1>3, <1>4, <1>6
<1>. QED
  BY <1>2, <1>3, <1>7, Zenon

LEMMA AppendConcat ==
    ASSUME NEW S, NEW p \in Seq(S), NEW q \in Seq(S), NEW r \in S
    PROVE  \E x \in Seq(S) : x = Append(p \o q, r) /\ x = p \o Append(q, r)
<1>1. p \o q \in Seq(S) /\ Append(q, r) \in Seq(S) /\ <<r>> \in Seq(S)
  BY ConcatTyped, AppendTyped
<1>2. Append(p \o q, r) = (p \o q) \o <<r>> /\ Append(q, r) = q \o <<r>>
  BY <1>1, AppendTyped
<1>3. \A l \in Seq(S) : (p \o q) \o l = p \o (q \o l)
  BY Associative
<1>4. p \o Append(q, r) \in Seq(S)
  BY <1>1, ConcatTyped
<1>. QED
  BY <1>1, <1>2, <1>3, <1>4, Zenon

LEMMA RepliesConcat ==
    ASSUME NEW x \in Seq(AnsByte), NEW y \in Seq(AnsByte), NEW len
    PROVE  Replies(x \o y, len) = Replies(x, len) \o Replies(y, len)
<1>. DEFINE T == {n \in Nat : \A z \in Seq(AnsByte) : Len(z) = n =>
                      Replies(x \o z, len) = Replies(x, len) \o Replies(z, len)}
<1>1. Replies(x, len) \in Seq(Seq(ReqByte))
  BY RepliesTyped
<1>2. 0 \in T
  <2>. SUFFICES ASSUME NEW z \in Seq(AnsByte), Len(z) = 0
                PROVE  Replies(x \o z, len) = Replies(x, len) \o Replies(z, len)
    OBVIOUS
  <2>1. z = <<>>
    BY EmptySeq
  <2>2. x \o z = x
    BY <2>1, ConcatEmptySeq
  <2>3. Replies(z, len) = <<>>
    BY <2>1, RepliesEmpty
  <2>4. Replies(x, len) \o <<>> = Replies(x, len)
    BY <1>1, ConcatEmptySeq
  <2>. QED
    BY <2>2, <2>3, <2>4
<1>3. ASSUME NEW n \in Nat, n \in T PROVE n + 1 \in T
  <2>. SUFFICES ASSUME NEW z \in Seq(AnsByte), Len(z) = n + 1
                PROVE  Replies(x \o z, len) = Replies(x, len) \o Replies(z, len)
    OBVIOUS
  <2>1. PICK f \in Seq(AnsByte), b \in AnsByte :
            /\ Len(f) = n /\ z = f \o <<b>> /\ <<b>> \in Seq(AnsByte)
            /\ z[n + 1] = b /\ \A i \in 1..n : f[i] = z[i]
    BY FrontLast, Zenon
  <2>2. Replies(x \o f, len) = Replies(x, len) \o Replies(f, len)
    BY <1>3, <2>1
  <2>3. PICK xf \in Seq(AnsByte) : xf = x \o f
    BY ConcatTyped
  <2>4. x \o z = Append(xf, b) /\ z = Append(f, b)
    <3>1. Append(xf, b) = xf \o <<b>> /\ Append(f, b) = f \o <<b>>
      BY AppendTyped
    <3>2. PICK u \in Seq(AnsByte) : u = Append(x \o f, b) /\ u = x \o Append(f, b)
      BY AppendConcat
    <3>. QED
      BY <2>1, <2>3, <3>1, <3>2, Zenon
  <2>5. Replies(f, len) \in Seq(Seq(ReqByte)) /\ b[1] \in Seq(ReqByte)
    BY RepliesTyped DEF AnsByte
  <2>6. CASE LastByte(b, len)
    <3>1. /\ Replies(Append(xf, b), len) = Append(Replies(xf, len), b[1])
          /\ Replies(Append(f, b), len) = Append(Replies(f, len), b[1])
      BY <2>6, RepliesAppend
    <3>2. PICK p \in Seq(Seq(ReqByte)), q \in Seq(Seq(ReqByte)), r \in Seq(ReqByte) :
              p = Replies(x, len) /\ q = Replies(f, len) /\ r = b[1]
      BY <1>1, <2>5
    <3>3. PICK u \in Seq(Seq(ReqByte)) : u = Append(p \o q, r) /\ u = p \o Append(q, r)
      BY AppendConcat, Zenon
    <3>4. Replies(x \o z, len) = Append(p \o q, r)
      BY <2>2, <2>3, <2>4, <3>1, <3>2, Zenon
    <3>5. Replies(z, len) = Append(q, r)
      BY <2>4, <3>1, <3>2, Zenon
    <3>. QED
      BY <3>2, <3>3, <3>4, <3>5, Zenon
  <2>7. CASE ~LastByte(b, len)
    <3>1. /\ Replies(Append(xf, b), len) = Replies(xf, len)
          /\ Replies(Append(f, b), len) = Replies(f, len)
      BY <2>7, RepliesAppend
    <3>. QED
      BY <2>2, <2>3, <2>4, <3>1
  <2>. QED
    BY <2>6, <2>7
<1>4. Nat \subseteq T
  <2>. HIDE DEF T
  <2>. QED
    BY <1>2, <1>3, NatSetInduction
<1>. QED
  BY <1>4, Elements

LEMMA RepliesNone ==
    ASSUME NEW s \in Seq(AnsByte), NEW len, \A i \in 1..Len(s) : ~LastByte(s[i], len)
    PROVE  Replies(s, len) = <<>>
<1>1. PICK h : Repeats(s, len, h)
  BY RepliesHas
<1>2. PICK n \in Nat : n = Len(s)
  BY Elements
<1>. DEFINE T == {i \in Nat : i <= n => h[i] = <<>>}
<1>3. 0 \in T
  BY <1>1 DEF Repeats
<1>4. ASSUME NEW i \in Nat, i \in T PROVE i + 1 \in T
  <2>. SUFFICES ASSUME i + 1 <= n PROVE h[i + 1] = <<>>
    OBVIOUS
  <2>1. i + 1 \in 1..n /\ (i + 1) - 1 = i /\ i <= n
    OBVIOUS
  <2>. QED
    BY <1>1, <1>2, <1>4, <2>1 DEF Repeats
<1>5. n \in T
  <2>. HIDE DEF T
  <2>. QED
    BY <1>3, <1>4, NatSetInduction
<1>. QED
  BY <1>1, <1>2, <1>5 DEF Repeats

(***************************************************************************)
(* One whole answer is one reply.                                          *)
(***************************************************************************)
LEMMA RepliesOne ==
    ASSUME NEW s \in Seq(AnsByte), NEW n \in Nat, Len(s) = n + 1, NEW len,
           \A i \in 1..n : ~LastByte(s[i], len), LastByte(s[n + 1], len)
    PROVE  Replies(s, len) = <<s[n + 1][1]>>
<1>1. PICK f \in Seq(AnsByte), b \in AnsByte :
          /\ Len(f) = n /\ s = f \o <<b>> /\ <<b>> \in Seq(AnsByte)
          /\ s[n + 1] = b /\ \A i \in 1..n : f[i] = s[i]
  BY FrontLast, Zenon
<1>2. Replies(f, len) = <<>>
  <2>1. \A i \in 1..Len(f) : ~LastByte(f[i], len)
    BY <1>1
  <2>. QED
    BY <2>1, RepliesNone
<1>3. Replies(Append(f, b), len) = Append(<<>>, b[1])
  BY <1>1, <1>2, RepliesAppend
<1>4. Append(f, b) = s
  BY <1>1, AppendTyped
<1>5. Append(<<>>, b[1]) = <<b[1]>>
  OBVIOUS
<1>. QED
  BY <1>1, <1>3, <1>4, <1>5

-----------------------------------------------------------------------------
(***************************************************************************)
(* The requests in a stream, and what the peer's steps do to them.         *)
(***************************************************************************)
LEMMA DivModOf ==
    ASSUME NEW d \in Nat \ {0}, NEW q \in Nat, NEW x \in Nat, x < d
    PROVE  (q * d + x) \div d = q /\ (q * d + x) % d = x
<1>1. PICK n \in Nat : n = q * d + x
  OBVIOUS
<1>2. PICK e \in Nat, m \in Nat : e = n \div d /\ m = n % d /\ n = d * e + m /\ m < d
  OBVIOUS
<1>3. e = q
  <2>1. CASE q > e
    <3>1. PICK y \in Nat : q = e + 1 + y
      <4>1. q - e - 1 \in Nat /\ q = e + 1 + (q - e - 1)
        BY <2>1
      <4>. QED
        BY <4>1
    <3>2. q * d = e * d + d + y * d /\ y * d \in Nat
      BY <3>1
    <3>. QED
      BY <1>1, <1>2, <3>2
  <2>2. CASE q < e
    <3>1. PICK y \in Nat : e = q + 1 + y
      <4>1. e - q - 1 \in Nat /\ e = q + 1 + (e - q - 1)
        BY <2>2
      <4>. QED
        BY <4>1
    <3>2. d * e = q * d + d + y * d /\ y * d \in Nat
      BY <3>1
    <3>. QED
      BY <1>1, <1>2, <3>2
  <2>. QED
    BY <2>1, <2>2
<1>4. d * e = q * d
  BY <1>3
<1>. QED
  BY <1>1, <1>2, <1>3, <1>4

Asks(s) == [r \in 1..(Len(s) \div ReqLen) |-> ReqAt(s, r)]

LEMMA AsksIs ==
    ASSUME NEW s \in Seq(ReqByte), NEW n \in Nat, NEW x \in Nat, x < ReqLen,
           Len(s) = n * ReqLen + x
    PROVE  /\ Asks(s) \in Seq(Seq(ReqByte)) /\ Len(Asks(s)) = n
           /\ \A r \in Nat : r + 1 <= n =>
                  Asks(s)[r + 1] = ReqAt(s, r + 1) /\ r * ReqLen + ReqLen <= Len(s)
<1>1. Len(s) \div ReqLen = n
  BY DivModOf, ServerAssumption
<1>2. ASSUME NEW r \in Nat, r + 1 <= n PROVE r * ReqLen + ReqLen <= Len(s)
  <2>1. r * ReqLen + ReqLen <= n * ReqLen
    BY <1>2, Place
  <2>2. PICK m \in Nat, a \in Nat, l \in Nat : m = n * ReqLen /\ a = r * ReqLen /\ l = ReqLen
    BY Place
  <2>. QED
    BY <2>1, <2>2
<1>3. \A r \in 1..n : ReqAt(s, r) \in Seq(ReqByte)
  <2>. SUFFICES ASSUME NEW r \in 1..n PROVE ReqAt(s, r) \in Seq(ReqByte)
    OBVIOUS
  <2>1. r - 1 \in Nat /\ (r - 1) + 1 = r
    OBVIOUS
  <2>2. (r - 1) * ReqLen + ReqLen <= Len(s)
    BY <1>2, <2>1
  <2>3. ReqAt(s, (r - 1) + 1) \in Seq(ReqByte)
    BY <2>1, <2>2, RequestAt
  <2>. QED
    BY <2>1, <2>3
<1>4. PICK a : a = [r \in 1..n |-> ReqAt(s, r)]
  OBVIOUS
<1>5. a \in Seq(Seq(ReqByte)) /\ Len(a) = n
  BY <1>3, <1>4, IsASeq
<1>6. Asks(s) = a
  BY <1>1, <1>4 DEF Asks
<1>7. \A r \in Nat : r + 1 <= n => a[r + 1] = ReqAt(s, r + 1)
  BY <1>4
<1>. QED
  BY <1>2, <1>5, <1>6, <1>7

LEMMA Parts ==
    ASSUME NEW s \in Seq(ReqByte)
    PROVE  \E n \in Nat, x \in Nat : x < ReqLen /\ Len(s) = n * ReqLen + x
<1>1. PICK l \in Nat, d \in Nat \ {0} : l = Len(s) /\ d = ReqLen
  BY Elements, ServerAssumption
<1>2. PICK n \in Nat, x \in Nat : n = l \div d /\ x = l % d /\ l = d * n + x /\ x < d
  BY SMTT(60)
<1>3. n * d = d * n
  OBVIOUS
<1>. QED
  BY <1>1, <1>2, <1>3

(***************************************************************************)
(* The bytes a peer sends are numbered, and a whole request of them is one *)
(* of Requests.                                                            *)
(***************************************************************************)
Numbered(s) ==
    \A p \in 1..Len(s) :
        LET r == 1 + ((p - 1) \div ReqLen)
            i == 1 + ((p - 1) % ReqLen)
        IN  \E h \in IF i = 1 THEN Headers ELSE {0} : s[p] = <<r, i, h>>
AskInv ==
    \A c \in Conns :
        /\ Len(sent[c]) <= MaxRequests * ReqLen
        /\ Numbered(sent[c])
        /\ gone[c] => fin[c]

LEMMA WholeRequest ==
    ASSUME NEW s \in Seq(ReqByte), Numbered(s), Len(s) <= MaxRequests * ReqLen,
           NEW r \in Nat, r * ReqLen + ReqLen <= Len(s)
    PROVE  ReqAt(s, r + 1) \in Requests
<1>1. PICK m \in Nat, l \in Nat : m = r * ReqLen /\ l = ReqLen /\ l > 0
  BY Place
<1>2. PICK q : q = ReqAt(s, r + 1)
  OBVIOUS
<1>3. q \in Seq(ReqByte) /\ Len(q) = l /\ \A i \in 1..l : q[i] = s[m + i]
  BY <1>1, <1>2, RequestAt
<1>4. \A i \in 1..l : \E h \in IF i = 1 THEN Headers ELSE {0} : q[i] = <<r + 1, i, h>>
  <2>. SUFFICES ASSUME NEW i \in 1..l
                PROVE  \E h \in IF i = 1 THEN Headers ELSE {0} : q[i] = <<r + 1, i, h>>
    OBVIOUS
  <2>1. PICK n \in Nat : n = Len(s)
    BY Elements
  <2>2. PICK y \in Nat : y = i - 1 /\ y < l /\ (m + i) - 1 = m + y /\ m + i \in 1..n
    <3>1. i - 1 \in Nat /\ i - 1 < l /\ (m + i) - 1 = m + (i - 1) /\ m + i \in 1..n
      BY <1>1, <2>1
    <3>. QED
      BY <3>1
  <2>3. (r * ReqLen + y) \div ReqLen = r /\ (r * ReqLen + y) % ReqLen = y
    BY <1>1, <2>2, DivModOf, ServerAssumption
  <2>4. 1 + (((m + i) - 1) \div ReqLen) = r + 1 /\ 1 + (((m + i) - 1) % ReqLen) = i
    <3>1. ((m + i) - 1) \div ReqLen = r /\ ((m + i) - 1) % ReqLen = y
      BY <1>1, <2>2, <2>3
    <3>2. 1 + r = r + 1 /\ 1 + y = i
      BY <2>2
    <3>. QED
      BY <3>1, <3>2
  <2>5. \E h \in IF i = 1 THEN Headers ELSE {0} : s[m + i] = <<r + 1, i, h>>
    BY <2>1, <2>2, <2>4 DEF Numbered
  <2>. QED
    BY <1>3, <2>5
<1>5. PICK h \in Headers : q[1] = <<r + 1, 1, h>>
  BY <1>1, <1>4
<1>6. \A i \in 1..l : q[i] = <<r + 1, i, IF i = 1 THEN h ELSE 0>>
  BY <1>4, <1>5
<1>7. q = [i \in 1..l |-> <<r + 1, i, IF i = 1 THEN h ELSE 0>>]
  <2>1. q = [i \in 1..l |-> q[i]]
    BY <1>3
  <2>. QED
    BY <1>6, <2>1
<1>8. r + 1 \in 1..MaxRequests
  <2>1. PICK k \in Nat, n \in Nat, b \in Nat : k = MaxRequests /\ n = Len(s) /\ b = k * ReqLen
    BY Elements, Place, ServerAssumption
  <2>2. ASSUME k + 1 <= r + 1 PROVE FALSE
    <3>1. b + l <= (r + 1) * ReqLen
      BY <1>1, <2>1, <2>2, Place
    <3>2. (r + 1) * ReqLen = m + l
      BY <1>1, Place
    <3>. QED
      BY <1>1, <2>1, <3>1, <3>2
  <2>. QED
    BY <2>1, <2>2
<1>9. \A k \in 1..MaxRequests :
          [i \in 1..ReqLen |-> <<k, i, IF i = 1 THEN h ELSE 0>>] \in Requests
  BY DEF Requests
<1>10. [i \in 1..ReqLen |-> <<r + 1, i, IF i = 1 THEN h ELSE 0>>] \in Requests
  BY <1>8, <1>9
<1>. QED
  BY <1>1, <1>2, <1>7, <1>10

-----------------------------------------------------------------------------
(***************************************************************************)
(* What a step does to the peer's view, as RequestReply has it: Asking c   *)
(* is its Ask, Ending its End or a stutter.                                *)
(***************************************************************************)
Asking(c) ==
    /\ ~over[c]
    /\ \E q \in Requests : asked' = [asked EXCEPT ![c] = Append(asked[c], q)]
    /\ over' = over
    /\ got' = got
Ending ==
    /\ asked' = asked
    /\ got' = got
    /\ over' = over \/ \E c \in Conns : ~over[c] /\ over' = [over EXCEPT ![c] = TRUE]

LEMMA SendGrows ==
    ASSUME NEW s \in Seq(ReqByte), Numbered(s),
           Len(s) < MaxRequests * ReqLen,
           NEW h, h \in IF 1 + (Len(s) % ReqLen) = 1 THEN Headers ELSE {0},
           NEW t \in Seq(ReqByte), Len(t) = Len(s) + 1, \A i \in 1..Len(s) : t[i] = s[i],
           t[Len(s) + 1] = <<1 + (Len(s) \div ReqLen), 1 + (Len(s) % ReqLen), h>>
    PROVE  /\ Numbered(t) /\ Len(t) <= MaxRequests * ReqLen
           /\ Asks(t) = Asks(s) \/ \E q \in Requests : Asks(t) = Append(Asks(s), q)
<1>1. PICK l \in Nat, d \in Nat, m \in Nat : l = Len(s) /\ d = ReqLen /\ m = MaxRequests * ReqLen
  BY Elements, Place, ServerAssumption
<1>2. Len(t) <= MaxRequests * ReqLen
  BY <1>1
<1>3. Numbered(t)
  <2>. SUFFICES ASSUME NEW p \in 1..Len(t)
                PROVE  \E k \in IF 1 + ((p - 1) % ReqLen) = 1 THEN Headers ELSE {0} :
                           t[p] = <<1 + ((p - 1) \div ReqLen), 1 + ((p - 1) % ReqLen), k>>
    BY DEF Numbered
  <2>1. CASE p \in 1..Len(s)
    BY <2>1 DEF Numbered
  <2>2. CASE p = Len(s) + 1
    <3>1. p - 1 = Len(s)
      BY <1>1, <2>2
    <3>. QED
      BY <2>2, <3>1
  <2>. QED
    BY <1>1, <2>1, <2>2
<1>4. PICK n \in Nat, x \in Nat : x < ReqLen /\ Len(s) = n * ReqLen + x
  BY Parts
<1>5. Starts(ReqByte, t, s)
  <2>1. PICK f \in Seq(ReqByte), b \in ReqByte :
            /\ Len(f) = l /\ t = f \o <<b>> /\ <<b>> \in Seq(ReqByte)
            /\ t[l + 1] = b /\ \A i \in 1..l : f[i] = t[i]
    <3>1. Len(t) = l + 1
      BY <1>1
    <3>. QED
      BY <3>1, FrontLast, Zenon
  <2>2. f = s
    BY <1>1, <2>1, SeqEqual
  <2>. QED
    BY <2>1, <2>2 DEF Starts, Split
<1>6. /\ Asks(s) \in Seq(Seq(ReqByte)) /\ Len(Asks(s)) = n
      /\ \A r \in Nat : r + 1 <= n =>
             Asks(s)[r + 1] = ReqAt(s, r + 1) /\ r * ReqLen + ReqLen <= Len(s)
  BY <1>4, AsksIs, SMTT(40)
<1>7. PICK a \in Nat : a = n * ReqLen
  BY Place
<1>8. CASE x + 1 < ReqLen
  <2>1. PICK y \in Nat : y < ReqLen /\ Len(t) = n * ReqLen + y
    <3>1. x + 1 \in Nat /\ Len(t) = n * ReqLen + (x + 1)
      BY <1>1, <1>4, <1>7
    <3>. QED
      BY <1>8, <3>1
  <2>2. /\ Asks(t) \in Seq(Seq(ReqByte)) /\ Len(Asks(t)) = n
        /\ \A r \in Nat : r + 1 <= n => Asks(t)[r + 1] = ReqAt(t, r + 1)
    BY <2>1, AsksIs, ZenonT(60)
  <2>3. \A i \in 1..n : Asks(t)[i] = Asks(s)[i]
    <3>. SUFFICES ASSUME NEW i \in 1..n PROVE Asks(t)[i] = Asks(s)[i]
      OBVIOUS
    <3>1. PICK r \in Nat : i = r + 1 /\ r + 1 <= n
      <4>1. i - 1 \in Nat /\ i = (i - 1) + 1
        OBVIOUS
      <4>. QED
        BY <4>1
    <3>2. r * ReqLen + ReqLen <= Len(s) /\ Asks(s)[i] = ReqAt(s, r + 1)
      BY <1>6, <3>1
    <3>3. ReqAt(t, r + 1) = ReqAt(s, r + 1)
      BY <1>5, <3>2, RequestStays
    <3>4. Asks(t)[i] = ReqAt(t, r + 1)
      BY <2>2, <3>1
    <3>. QED
      BY <3>2, <3>3, <3>4
  <2>4. Asks(t) = Asks(s)
    BY <1>6, <2>2, <2>3, SeqEqual
  <2>. QED
    BY <1>2, <1>3, <2>4
<1>9. CASE x + 1 = ReqLen
  <2>0. n + 1 \in Nat /\ 0 < ReqLen /\ (n + 1) * ReqLen = a + ReqLen
    BY <1>7, Place
  <2>1. Len(t) = (n + 1) * ReqLen + 0
    BY <1>1, <1>4, <1>7, <1>9, <2>0
  <2>2. /\ Asks(t) \in Seq(Seq(ReqByte)) /\ Len(Asks(t)) = n + 1
        /\ \A r \in Nat : r + 1 <= n + 1 =>
               Asks(t)[r + 1] = ReqAt(t, r + 1) /\ r * ReqLen + ReqLen <= Len(t)
    BY <2>0, <2>1, AsksIs, SMTT(40)
  <2>3. \A i \in 1..n : Asks(t)[i] = Asks(s)[i]
    <3>. SUFFICES ASSUME NEW i \in 1..n PROVE Asks(t)[i] = Asks(s)[i]
      OBVIOUS
    <3>1. PICK r \in Nat : i = r + 1 /\ r + 1 <= n /\ r + 1 <= n + 1
      <4>1. i - 1 \in Nat /\ i = (i - 1) + 1 /\ (i - 1) + 1 <= n + 1
        OBVIOUS
      <4>. QED
        BY <4>1
    <3>2. r * ReqLen + ReqLen <= Len(s) /\ Asks(s)[i] = ReqAt(s, r + 1)
      BY <1>6, <3>1
    <3>3. ReqAt(t, r + 1) = ReqAt(s, r + 1)
      BY <1>5, <3>2, RequestStays
    <3>4. Asks(t)[i] = ReqAt(t, r + 1)
      BY <2>2, <3>1
    <3>. QED
      BY <3>2, <3>3, <3>4
  <2>4. PICK q \in Requests : q = Asks(t)[n + 1]
    <3>0. n + 1 <= n + 1
      OBVIOUS
    <3>1. n * ReqLen + ReqLen <= Len(t) /\ Asks(t)[n + 1] = ReqAt(t, n + 1)
      BY <2>2, <3>0
    <3>. QED
      BY <1>2, <1>3, <3>1, WholeRequest
  <2>5. Asks(t) = Append(Asks(s), q)
    <3>1. q \in Seq(ReqByte)
      <4>1. n + 1 \in 1..Len(Asks(t))
        BY <2>2
      <4>. QED
        BY <2>2, <2>4, <4>1, Elements
    <3>2. PICK u \in Seq(Seq(ReqByte)) : u = Append(Asks(s), q)
      BY <1>6, <3>1, AppendTyped
    <3>3. Len(u) = n + 1 /\ u[n + 1] = q /\ \A i \in 1..n : u[i] = Asks(s)[i]
      BY <1>6, <3>1, <3>2, AppendProperties
    <3>4. \A i \in 1..n + 1 : u[i] = Asks(t)[i]
      <4>1. \A i \in 1..n + 1 : i \in 1..n \/ i = n + 1
        OBVIOUS
      <4>. QED
        BY <2>3, <2>4, <3>3, <4>1
    <3>5. u = Asks(t)
      BY <2>2, <3>3, <3>4, SeqEqual
    <3>. QED
      BY <3>2, <3>5
  <2>. QED
    BY <1>2, <1>3, <2>5
<1>10. x + 1 < ReqLen \/ x + 1 = ReqLen
  BY <1>1, <1>4
<1>. QED
  BY <1>8, <1>9, <1>10

LEMMA SendAsks ==
    ASSUME TypeOK, AskInv, NEW c \in Conns, NEW answered, Send(c, answered)
    PROVE  AskInv' /\ (Asking(c) \/ Ending)
<1>1. PICK s \in Seq(ReqByte) : s = sent[c] /\ Numbered(s)
  BY Sizes DEF AskInv
<1>2. PICK b \in NextBytes(c) : sent' = [sent EXCEPT ![c] = Append(s, b)]
  BY <1>1 DEF Send
<1>3. PICK h \in IF 1 + (Len(s) % ReqLen) = 1 THEN Headers ELSE {0} :
          b = <<1 + (Len(s) \div ReqLen), 1 + (Len(s) % ReqLen), h>>
  BY <1>1, <1>2 DEF NextBytes
<1>4. Len(s) < MaxRequests * ReqLen /\ ~fin[c] /\ phase[c] \in {"queued", "open"}
      /\ UNCHANGED <<phase, fin, gone, got>>
  BY <1>1 DEF Send
<1>5. b \in ReqByte
  <2>1. Len(s) \in Nat /\ ReqLen \in Nat \ {0}
    BY Elements, ServerAssumption
  <2>2. Len(s) \div ReqLen \in Nat /\ Len(s) % ReqLen \in Nat
    BY <2>1, DivMod
  <2>3. h \in Int
    BY ServerAssumption
  <2>. QED
    BY <1>3, <2>2, <2>3 DEF ReqByte
<1>6. PICK t \in Seq(ReqByte) : /\ t = Append(s, b) /\ Len(t) = Len(s) + 1
                                /\ t[Len(s) + 1] = b /\ \A i \in 1..Len(s) : t[i] = s[i]
  <2>1. /\ Append(s, b) \in Seq(ReqByte) /\ Len(Append(s, b)) = Len(s) + 1
        /\ \A i \in 1..Len(s) : Append(s, b)[i] = s[i]
        /\ Append(s, b)[Len(s) + 1] = b
    BY <1>5, AppendProperties
  <2>. QED
    BY <2>1
<1>7. /\ Numbered(t) /\ Len(t) <= MaxRequests * ReqLen
      /\ Asks(t) = Asks(s) \/ \E q \in Requests : Asks(t) = Append(Asks(s), q)
  <2>1. t[Len(s) + 1] = <<1 + (Len(s) \div ReqLen), 1 + (Len(s) % ReqLen), h>>
    BY <1>3, <1>6
  <2>2. /\ Numbered(s) /\ Len(s) < MaxRequests * ReqLen
        /\ Len(t) = Len(s) + 1 /\ \A i \in 1..Len(s) : t[i] = s[i]
    BY <1>1, <1>4, <1>6
  <2>. QED
    BY <2>1, <2>2, SendGrows, Zenon
<1>8. sent' = [sent EXCEPT ![c] = t] /\ sent'[c] = t /\ \A d \in Conns : d # c => sent'[d] = sent[d]
  BY <1>2, <1>6 DEF TypeOK
<1>9. AskInv'
  <2>1. \A d \in Conns : Len(sent'[d]) <= MaxRequests * ReqLen /\ Numbered(sent'[d])
    BY <1>7, <1>8 DEF AskInv
  <2>. QED
    BY <1>4, <2>1 DEF AskInv, Numbered
<1>10. /\ asked = [d \in Conns |-> Asks(sent[d])] /\ asked' = [d \in Conns |-> Asks(sent'[d])]
  BY DEF asked, Asks, ReqAt
<1>11. over' = over /\ got' = got /\ ~over[c]
  BY <1>4 DEF over, AskInv
<1>12. CASE Asks(t) = Asks(s)
  <2>1. asked' = asked
    BY <1>1, <1>8, <1>10, <1>12
  <2>. QED
    BY <1>9, <1>11, <2>1 DEF Ending
<1>13. CASE \E q \in Requests : Asks(t) = Append(Asks(s), q)
  <2>1. PICK q \in Requests : Asks(t) = Append(Asks(s), q)
    BY <1>13
  <2>2. asked[c] = Asks(s)
    BY <1>1, <1>10
  <2>3. asked' = [asked EXCEPT ![c] = Append(asked[c], q)]
    <3>1. PICK a : a = Append(asked[c], q)
      OBVIOUS
    <3>2. \A d \in Conns : Asks(sent'[d]) = IF d = c THEN a ELSE Asks(sent[d])
      <4>1. Asks(sent'[c]) = a
        BY <1>8, <2>1, <2>2, <3>1
      <4>2. \A d \in Conns : d # c => Asks(sent'[d]) = Asks(sent[d])
        BY <1>8
      <4>. QED
        BY <4>1, <4>2
    <3>3. [asked EXCEPT ![c] = a] = [d \in Conns |-> IF d = c THEN a ELSE Asks(sent[d])]
      BY <1>10
    <3>. QED
      BY <1>10, <3>1, <3>2, <3>3
  <2>. QED
    BY <1>9, <1>11, <2>3 DEF Asking
<1>. QED
  BY <1>7, <1>12, <1>13

LEMMA SameAsks ==
    ASSUME TypeOK, UNCHANGED <<sent, got>>,
           \/ /\ gone' = gone
              /\ \/ phase' = phase
                 \/ \E c \in Conns : phase' = [phase EXCEPT ![c] = "closed"]
                 \/ \E c \in Conns, p \in {"queued", "open"} :
                        phase[c] # "closed" /\ phase' = [phase EXCEPT ![c] = p]
           \/ /\ phase' = phase
              /\ \E c \in Conns : gone' = [gone EXCEPT ![c] = TRUE]
    PROVE  Ending
<1>1. asked' = asked
  BY DEF asked
<1>2. /\ phase \in [Conns -> {"idle", "queued", "open", "closed"}]
      /\ gone \in [Conns -> BOOLEAN]
  BY DEF TypeOK
<1>3. \/ over' = over
      \/ \E c \in Conns : \A d \in Conns : over'[d] = (over[d] \/ d = c)
  <2>1. CASE gone' = gone /\ phase' = phase
    BY <2>1 DEF over
  <2>2. ASSUME gone' = gone, NEW c \in Conns, phase' = [phase EXCEPT ![c] = "closed"]
        PROVE  \A d \in Conns : over'[d] = (over[d] \/ d = c)
    BY <1>2, <2>2 DEF over
  <2>3. ASSUME gone' = gone, NEW c \in Conns, NEW p \in {"queued", "open"},
               phase[c] # "closed", phase' = [phase EXCEPT ![c] = p]
        PROVE  over' = over
    <3>1. \A d \in Conns : (phase'[d] = "closed") = (phase[d] = "closed")
      BY <1>2, <2>3
    <3>. QED
      BY <2>3, <3>1 DEF over
  <2>4. ASSUME phase' = phase, NEW c \in Conns, gone' = [gone EXCEPT ![c] = TRUE]
        PROVE  \A d \in Conns : over'[d] = (over[d] \/ d = c)
    BY <1>2, <2>4 DEF over
  <2>. QED
    BY <2>1, <2>2, <2>3, <2>4
<1>4. ASSUME NEW c \in Conns, \A d \in Conns : over'[d] = (over[d] \/ d = c)
      PROVE  over' = over \/ (~over[c] /\ over' = [over EXCEPT ![c] = TRUE])
  <2>1. over = [d \in Conns |-> over[d]] /\ over' = [d \in Conns |-> over'[d]]
    BY DEF over
  <2>2. \A d \in Conns : over[d] \in BOOLEAN
    BY <1>2 DEF over
  <2>3. CASE over[c]
    <3>1. \A d \in Conns : over'[d] = over[d]
      BY <1>4, <2>2, <2>3
    <3>. QED
      BY <2>1, <3>1
  <2>4. CASE ~over[c]
    <3>1. \A d \in Conns : over'[d] = IF d = c THEN TRUE ELSE over[d]
      BY <1>4, <2>2
    <3>2. [over EXCEPT ![c] = TRUE] = [d \in Conns |-> IF d = c THEN TRUE ELSE over[d]]
      BY <2>1
    <3>. QED
      BY <2>1, <2>4, <3>1, <3>2
  <2>. QED
    BY <2>3, <2>4
<1>. QED
  BY <1>1, <1>3, <1>4 DEF Ending

LEMMA PeerAsks ==
    ASSUME TypeOK, AskInv, NEW c \in Conns, NEW answered, Peer(c, answered)
    PROVE  /\ AskInv'
           /\ \/ Asking(c)
              \/ Ending
              \/ /\ UNCHANGED <<asked, over, sent, made>>
                 /\ \E b \in AnsByte : got' = [got EXCEPT ![c] = Append(got[c], b)]
<1>. USE DEF procVars, peerVars, history
<1>1. CASE Send(c, answered)
  BY <1>1, SendAsks
<1>2. CASE Connect(c) \/ Finish(c)
  <2>1. /\ UNCHANGED <<sent, gone, got>>
        /\ fin' = fin \/ fin' = [fin EXCEPT ![c] = TRUE]
        /\ \/ phase' = phase
           \/ phase[c] # "closed" /\ phase' = [phase EXCEPT ![c] = "queued"]
    BY <1>2 DEF Connect, Finish
  <2>2. AskInv'
    <3>1. \A d \in Conns : fin[d] => fin'[d]
      <4>1. fin \in [Conns -> BOOLEAN]
        BY DEF TypeOK
      <4>. QED
        BY <2>1, <4>1
    <3>2. ASSUME NEW d \in Conns PROVE Numbered(sent[d])'
      <4>1. Numbered(sent[d]) /\ sent'[d] = sent[d]
        BY <2>1 DEF AskInv
      <4>. QED
        BY <4>1 DEF Numbered
    <3>3. \A d \in Conns : Len(sent'[d]) <= MaxRequests * ReqLen /\ (gone'[d] => fin'[d])
      BY <2>1, <3>1 DEF AskInv
    <3>. QED
      BY <3>2, <3>3 DEF AskInv
  <2>3. Ending
    BY <2>1, SameAsks
  <2>. QED
    BY <2>2, <2>3
<1>3. CASE Vanish(c)
  <2>1. /\ UNCHANGED <<sent, phase, got>> /\ gone' = [gone EXCEPT ![c] = TRUE]
        /\ fin' = [fin EXCEPT ![c] = TRUE]
    BY <1>3 DEF Vanish
  <2>2. AskInv'
    <3>1. \A d \in Conns : gone'[d] => fin'[d]
      BY <2>1 DEF TypeOK, AskInv
    <3>. QED
      BY <2>1, <3>1 DEF AskInv, Numbered
  <2>3. Ending
    BY <2>1, SameAsks
  <2>. QED
    BY <2>2, <2>3
<1>4. CASE Receive(c)
  <2>1. /\ UNCHANGED <<sent, phase, gone, fin, made>> /\ down[c] # <<>>
        /\ got' = [got EXCEPT ![c] = Append(got[c], Head(down[c]))]
    BY <1>4 DEF Receive
  <2>2. Head(down[c]) \in AnsByte
    BY <2>1, Sizes, HeadTail
  <2>3. AskInv' /\ asked' = asked /\ over' = over
    BY <2>1 DEF AskInv, Numbered, asked, over
  <2>. QED
    BY <2>1, <2>2, <2>3
<1>. QED
  BY <1>1, <1>2, <1>3, <1>4 DEF Peer

LEMMA LoopAsks ==
    ASSUME TypeOK, OwnerInv, AskInv, NEW k \in Kids, Loop(k)
    PROVE  AskInv' /\ Ending
<1>. USE DEF procVars, peerVars, history
<1>1. UNCHANGED <<sent, got, gone, fin>>
  BY ZenonT(60) DEF Loop, Select, SelectFails, Accept, AcceptNone, Slurp, SlurpFails, NoSlurp,
            Flush, FlushFails, NoFlush, StartHandling, Handled, EndTurn
<1>2. AskInv'
  BY <1>1 DEF AskInv, Numbered
<1>3. CASE Accept(k)
  <2>1. backlog # <<>> /\ phase' = [phase EXCEPT ![Head(backlog)] = "open"]
    BY <1>3 DEF Accept
  <2>2. PICK c \in Conns : c = Head(backlog) /\ phase[c] = "queued"
    <3>1. backlog \in Seq(Conns)
      BY DEF TypeOK
    <3>2. Head(backlog) \in Conns /\ Len(backlog) \in Nat /\ Len(backlog) > 0
      BY <2>1, <3>1, HeadTail, Elements
    <3>3. Head(backlog) = backlog[1] /\ 1 \in 1..Len(backlog)
      BY <2>1, <3>1, <3>2
    <3>. QED
      BY <3>2, <3>3 DEF OwnerInv, QueuedOnce
  <2>3. phase[c] # "closed" /\ phase' = [phase EXCEPT ![c] = "open"]
    BY <2>1, <2>2
  <2>. QED
    BY <1>1, <1>2, <2>3, SameAsks
<1>4. CASE ~Accept(k)
  <2>1. phase' = phase \/ (todo[k] # <<>> /\ phase' = [phase EXCEPT ![Head(todo[k])] = "closed"])
    BY <1>4, ZenonT(60) DEF Loop, Select, SelectFails, AcceptNone, Slurp, SlurpFails, NoSlurp,
              Flush, FlushFails, NoFlush, StartHandling, Handled, EndTurn, Close
  <2>2. phase' = phase \/ \E c \in Conns : phase' = [phase EXCEPT ![c] = "closed"]
    BY <2>1, Visited
  <2>. QED
    BY <1>1, <1>2, <2>2, SameAsks
<1>. QED
  BY <1>3, <1>4

(***************************************************************************)
(* The last byte of an answer makes the reply to the next request, when    *)
(* what is on its way is the answers to the first of them.                 *)
(***************************************************************************)
LEMMA ReplyNext ==
    ASSUME NEW len, NEW m \in Seq(AnsByte), NEW n \in Nat, Len(Replies(m, len)) = n,
           NEW g \in Seq(AnsByte), NEW b \in AnsByte, Starts(AnsByte, m, Append(g, b)),
           LastByte(b, len)
    PROVE  \E l \in Nat : /\ l + 1 <= n /\ Len(Replies(g, len)) = l
                          /\ Replies(m, len)[l + 1] = b[1]
                          /\ Replies(Append(g, b), len) = Append(Replies(g, len), b[1])
<1>1. PICK rest \in Seq(AnsByte) : m = Append(g, b) \o rest
  BY DEF Starts, Split
<1>2. PICK h \in Seq(AnsByte) : h = Append(g, b)
  BY AppendTyped
<1>3. Replies(m, len) = Replies(h, len) \o Replies(rest, len)
  <2>1. m = h \o rest
    BY <1>1, <1>2, Zenon
  <2>2. Replies(h \o rest, len) = Replies(h, len) \o Replies(rest, len)
    BY RepliesConcat, Zenon
  <2>. QED
    BY <2>1, <2>2, Zenon
<1>4. Replies(Append(g, b), len) = Append(Replies(g, len), b[1])
  BY RepliesAppend
<1>5. PICK x \in Seq(Seq(ReqByte)), y \in Seq(Seq(ReqByte)), z \in Seq(Seq(ReqByte)), q \in Seq(ReqByte) :
          x = Replies(g, len) /\ y = Replies(h, len) /\ z = Replies(rest, len) /\ q = b[1]
  BY RepliesTyped DEF AnsByte
<1>6. PICK l \in Nat, o \in Nat : l = Len(x) /\ o = Len(z)
  BY Elements
<1>7. y = Append(x, q) /\ Len(y) = l + 1 /\ y[l + 1] = q
  <2>1. y = Append(x, q)
    BY <1>2, <1>4, <1>5
  <2>2. Len(Append(x, q)) = Len(x) + 1 /\ Append(x, q)[Len(x) + 1] = q
    BY AppendProperties
  <2>. QED
    BY <1>6, <2>1, <2>2
<1>8. Len(y \o z) = (l + 1) + o /\ (y \o z)[l + 1] = q
  <2>1. /\ Len(y \o z) = Len(y) + Len(z)
        /\ \A i \in 1..Len(y) + Len(z) : (y \o z)[i] = IF i <= Len(y) THEN y[i] ELSE z[i - Len(y)]
    BY ConcatProperties
  <2>2. l + 1 \in 1..(l + 1) + o /\ l + 1 <= l + 1
    OBVIOUS
  <2>. QED
    BY <1>6, <1>7, <2>1, <2>2
<1>9. l + 1 <= n /\ Replies(m, len)[l + 1] = q
  <2>1. n = (l + 1) + o
    BY <1>3, <1>5, <1>8
  <2>. QED
    BY <1>3, <1>5, <1>8, <2>1
<1>. QED
  BY <1>4, <1>5, <1>6, <1>9

-----------------------------------------------------------------------------
LEMMA EatenWithin ==
    ASSUME TypeOK, RequestStream, NEW c \in Conns
    PROVE  Starts(ReqByte, sent[c], eaten[c]) /\ Len(eaten[c]) <= Len(sent[c])
<1>1. /\ eaten[c] \in Seq(ReqByte) /\ inp[c] \in Seq(ReqByte) /\ up[c] \in Seq(ReqByte)
      /\ Stream(sent[c], eaten[c], inp[c], up[c])
  BY Sizes DEF RequestStream, Stream
<1>2. Starts(ReqByte, sent[c], eaten[c])
  BY <1>1, StartOfStream
<1>3. PICK rest \in Seq(ReqByte) : sent[c] = eaten[c] \o rest
  BY <1>2 DEF Starts, Split
<1>4. Len(sent[c]) = Len(eaten[c]) + Len(rest) /\ Len(eaten[c]) \in Nat /\ Len(rest) \in Nat
  BY <1>1, <1>3, ConcatTyped, Elements
<1>. QED
  BY <1>2, <1>4

LEMMA StartsStarts ==
    ASSUME NEW S, NEW s \in Seq(S), NEW t \in Seq(S), NEW u \in Seq(S),
           Starts(S, t, s), Starts(S, u, t)
    PROVE  Starts(S, u, s)
<1>1. PICK x \in Seq(S) : t = s \o x
  BY DEF Starts, Split
<1>2. PICK y \in Seq(S) : u = t \o y
  BY DEF Starts, Split
<1>3. u = s \o (x \o y) /\ x \o y \in Seq(S)
  BY <1>1, <1>2, Associative, ConcatTyped
<1>. QED
  BY <1>3 DEF Starts, Split

(***************************************************************************)
(* Reading a request: it is the next in the stream.                        *)
(***************************************************************************)
LEMMA NextRequest ==
    ASSUME NEW s \in Seq(ReqByte), NEW e \in Seq(ReqByte), NEW req \in Seq(ReqByte),
           NEW n \in Nat, Len(e) = n * ReqLen, Len(req) = ReqLen, Starts(ReqByte, s, e \o req)
    PROVE  /\ Len(e \o req) = (n + 1) * ReqLen
           /\ ReqAt(s, n + 1) = req /\ n * ReqLen + ReqLen <= Len(s)
<1>1. PICK m \in Nat, l \in Nat : /\ m = n * ReqLen /\ l = ReqLen /\ l > 0
                                  /\ (n + 1) * ReqLen = m + l
  BY Place
<1>2. PICK t \in Seq(ReqByte) : /\ t = e \o req /\ Len(t) = m + l
                                /\ \A i \in 1..m + l : t[i] = IF i <= m THEN e[i] ELSE req[i - m]
  <2>1. /\ e \o req \in Seq(ReqByte) /\ Len(e \o req) = Len(e) + Len(req)
        /\ \A i \in 1..Len(e) + Len(req) : (e \o req)[i] = IF i <= Len(e) THEN e[i] ELSE req[i - Len(e)]
    BY ConcatProperties
  <2>2. Len(e) = m /\ Len(req) = l
    BY <1>1
  <2>3. /\ Len(e \o req) = m + l
        /\ \A i \in 1..m + l : (e \o req)[i] = IF i <= m THEN e[i] ELSE req[i - m]
    BY <2>1, <2>2
  <2>. QED
    BY <2>1, <2>3
<1>3. n * ReqLen + ReqLen <= Len(t)
  BY <1>1, <1>2
<1>4. /\ ReqAt(t, n + 1) \in Seq(ReqByte) /\ Len(ReqAt(t, n + 1)) = l
      /\ \A i \in 1..l : ReqAt(t, n + 1)[i] = t[m + i]
  BY <1>1, <1>3, RequestAt
<1>5. \A i \in 1..l : ReqAt(t, n + 1)[i] = req[i]
  <2>1. \A i \in 1..l : m + i \in 1..m + l /\ ~(m + i <= m) /\ (m + i) - m = i
    OBVIOUS
  <2>2. \A i \in 1..l : t[m + i] = req[i]
    BY <1>1, <1>2, <2>1
  <2>. QED
    BY <1>4, <2>2
<1>6. ReqAt(t, n + 1) = req
  BY <1>1, <1>4, <1>5, SeqEqual
<1>7. ReqAt(s, n + 1) = ReqAt(t, n + 1) /\ n * ReqLen + ReqLen <= Len(s)
  <2>1. Starts(ReqByte, s, t)
    BY <1>2
  <2>. QED
    BY <1>3, <2>1, RequestStays
<1>. QED
  BY <1>1, <1>2, <1>6, <1>7

LEMMA InitAsks == ServerInit => AskInv /\ asked = [c \in Conns |-> <<>>] /\ over = [c \in Conns |-> FALSE]
<1>. SUFFICES ASSUME ServerInit
              PROVE  AskInv /\ asked = [c \in Conns |-> <<>>] /\ over = [c \in Conns |-> FALSE]
  OBVIOUS
<1>1. \A c \in Conns : sent[c] = <<>> /\ phase[c] = "idle" /\ gone[c] = FALSE
  BY DEF ServerInit
<1>2. AskInv
  <2>1. 0 <= MaxRequests * ReqLen /\ Len(<<>>) = 0
    BY Place, ServerAssumption
  <2>. QED
    BY <1>1, <2>1 DEF AskInv, Numbered
<1>3. Asks(<<>>) = <<>>
  <2>1. <<>> \in Seq(ReqByte) /\ Len(<<>>) = 0 * ReqLen + 0 /\ 0 < ReqLen
    BY EmptySeq, ServerAssumption
  <2>2. Asks(<<>>) \in Seq(Seq(ReqByte)) /\ Len(Asks(<<>>)) = 0
    BY <2>1, AsksIs, ZenonT(60)
  <2>. QED
    BY <2>2, EmptySeq
<1>4. asked = [c \in Conns |-> Asks(sent[c])]
  BY DEF asked, Asks, ReqAt
<1>. QED
  BY <1>1, <1>2, <1>3, <1>4 DEF over

(***************************************************************************)
(* Of n whole requests that were sent, each has been asked.                *)
(***************************************************************************)
LEMMA AskedOf ==
    ASSUME NEW s \in Seq(ReqByte), NEW n \in Nat, n * ReqLen <= Len(s), NEW l \in Nat, l + 1 <= n
    PROVE  /\ l < Len(Asks(s)) /\ Asks(s)[l + 1] = ReqAt(s, l + 1)
           /\ Numbered(s) /\ Len(s) <= MaxRequests * ReqLen => ReqAt(s, l + 1) \in Requests
<1>1. PICK k \in Nat, z \in Nat : z < ReqLen /\ Len(s) = k * ReqLen + z
  BY Parts
<1>2. l + 1 <= k /\ l < k
  <2>1. ASSUME k + 1 <= n PROVE FALSE
    <3>1. k * ReqLen + ReqLen <= n * ReqLen
      BY <2>1, Place
    <3>2. PICK u \in Nat, v \in Nat, w \in Nat : u = k * ReqLen /\ v = n * ReqLen /\ w = ReqLen
      BY Place
    <3>. QED
      BY <1>1, <3>1, <3>2
  <2>. QED
    BY <2>1
<1>3. /\ Len(Asks(s)) = k
      /\ \A r \in Nat : r + 1 <= k =>
             Asks(s)[r + 1] = ReqAt(s, r + 1) /\ r * ReqLen + ReqLen <= Len(s)
  BY <1>1, AsksIs, SMTT(40)
<1>4. l * ReqLen + ReqLen <= Len(s)
  BY <1>2, <1>3
<1>. QED
  BY <1>2, <1>3, <1>4, WholeRequest
=============================================================================
