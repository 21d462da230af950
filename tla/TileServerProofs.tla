-------------------------- MODULE TileServerProofs --------------------------
(***************************************************************************)
(* Theorems about TileServer, on the lemmas of ServerProofs.               *)
(***************************************************************************)
EXTENDS TileServer, ServerProofs

(***************************************************************************)
(* Every ReqLen-th byte a peer sends is a header, and handle has read a    *)
(* whole number of requests, so that the next one begins with a header.    *)
(***************************************************************************)
Whole(n) == \E q \in Nat : n = q * ReqLen
Aligned ==
    \A c \in Conns :
        /\ \A i \in 1..Len(sent[c]) : (i - 1) % ReqLen = 0 => sent[c][i][3] \in Headers
        /\ Whole(Len(eaten[c]))

LEMMA ConcatFirst ==
    ASSUME NEW S, NEW x \in Seq(S), NEW y \in Seq(S), NEW z \in Seq(S), Len(y) > 0,
           NEW s, Stream(s, x, y, z)
    PROVE  Len(x) + 1 \in 1..Len(s) /\ s[Len(x) + 1] = y[1]
<1>1. PICK a \in Nat, b \in Nat, l \in Nat : a = Len(x) /\ b = Len(y) /\ l = Len(z) /\ b > 0
  BY Elements
<1>2. PICK xy \in Seq(S) : /\ xy = x \o y /\ Len(xy) = a + b
                           /\ \A i \in 1..a + b : xy[i] = IF i <= a THEN x[i] ELSE y[i - a]
  <2>1. /\ x \o y \in Seq(S) /\ Len(x \o y) = Len(x) + Len(y)
        /\ \A i \in 1..Len(x) + Len(y) : (x \o y)[i] = IF i <= Len(x) THEN x[i] ELSE y[i - Len(x)]
    BY ConcatProperties
  <2>. QED
    BY <1>1, <2>1
<1>3. /\ s = xy \o z /\ Len(s) = a + b + l
      /\ \A i \in 1..a + b + l : s[i] = IF i <= a + b THEN xy[i] ELSE z[i - (a + b)]
  <2>1. /\ Len(xy \o z) = Len(xy) + Len(z)
        /\ \A i \in 1..Len(xy) + Len(z) : (xy \o z)[i] = IF i <= Len(xy) THEN xy[i] ELSE z[i - Len(xy)]
    BY ConcatProperties
  <2>. QED
    BY <1>1, <1>2, <2>1 DEF Stream
<1>4. a + 1 \in 1..a + b + l /\ a + 1 \in 1..a + b /\ a + 1 <= a + b /\ ~(a + 1 <= a) /\ (a + 1) - a = 1
  BY <1>1
<1>. QED
  BY <1>1, <1>2, <1>3, <1>4

LEMMA DropConcat ==
    ASSUME NEW S, NEW x \in Seq(S), NEW y \in Seq(S)
    PROVE  Drop(x \o y, Len(x \o y) - Len(y)) = y
<1>1. PICK a \in Nat, b \in Nat : a = Len(x) /\ b = Len(y)
  BY Elements
<1>2. PICK s \in Seq(S) : /\ s = x \o y /\ Len(s) = a + b
                          /\ \A i \in 1..a + b : s[i] = IF i <= a THEN x[i] ELSE y[i - a]
  <2>1. /\ x \o y \in Seq(S) /\ Len(x \o y) = Len(x) + Len(y)
        /\ \A i \in 1..Len(x) + Len(y) : (x \o y)[i] = IF i <= Len(x) THEN x[i] ELSE y[i - Len(x)]
    BY ConcatProperties
  <2>. QED
    BY <1>1, <2>1
<1>3. PICK r : r = SubSeq(s, a + 1, a + b)
  OBVIOUS
<1>4. r \in Seq(S) /\ Len(r) = b /\ \A i \in 1..b : r[i] = s[a + i]
  <2>1. a + b <= Len(s)
    BY <1>2
  <2>. QED
    BY <1>3, <2>1, Piece
<1>5. \A i \in 1..b : r[i] = y[i]
  <2>1. ASSUME NEW i \in 1..b
        PROVE  a + i \in 1..a + b /\ ~(a + i <= a) /\ (a + i) - a = i
    OBVIOUS
  <2>. QED
    BY <1>2, <1>4, <2>1
<1>6. r = y
  BY <1>1, <1>4, <1>5, SeqEqual
<1>7. Len(s) - Len(y) = a /\ Len(s) = a + b
  BY <1>1, <1>2
<1>. QED
  BY <1>2, <1>3, <1>6, <1>7 DEF Drop

(***************************************************************************)
(* Reading one request.                                                    *)
(***************************************************************************)
LEMMA Read ==
    ASSUME TypeOK, RequestStream, Aligned, NEW c \in Conns, CanRead(inp[c], ReqLen),
           Reads(c), NEW req, req = Request(c)
    PROVE  /\ req \in Seq(ReqByte) /\ Header(req) \in Headers
           /\ inp' \in [Conns -> Seq(ReqByte)] /\ eaten' \in [Conns -> Seq(ReqByte)]
           /\ \A d \in Conns : Len(inp'[d]) <= InpBufN
           /\ \A d \in Conns : d # c => inp'[d] = inp[d] /\ eaten'[d] = eaten[d]
           /\ Stream(sent[c], eaten'[c], inp'[c], up[c])
           /\ Whole(Len(eaten'[c]))
           /\ Drop(eaten'[c], Len(eaten'[c]) - ReqLen) = req
<1>1. inp[c] \in Seq(ReqByte) /\ ReqLen \in 0..Len(inp[c]) /\ ReqLen \in Nat \ {0}
  BY Sizes, ServerAssumption DEF CanRead
<1>2. PICK rest : rest = Drop(inp[c], ReqLen)
  OBVIOUS
<1>3. /\ req \in Seq(ReqByte) /\ Len(req) = ReqLen /\ rest \in Seq(ReqByte)
      /\ Split(inp[c], req, rest) /\ Len(rest) = Len(inp[c]) - ReqLen
  BY <1>1, <1>2, TakeDrop DEF Request, Split
<1>4. /\ eaten[c] \in Seq(ReqByte) /\ up[c] \in Seq(ReqByte) /\ sent[c] \in Seq(ReqByte)
      /\ Stream(sent[c], eaten[c], inp[c], up[c])
  BY Sizes DEF RequestStream, Stream
<1>5. Header(req) \in Headers
  <2>1. Stream(sent[c], eaten[c] \o req, rest, up[c])
    BY <1>1, <1>3, <1>4, StreamMoves
  <2>2. PICK n \in Nat : n = Len(eaten[c])
    BY <1>4, Elements
  <2>3. n + 1 \in 1..Len(sent[c]) /\ sent[c][n + 1] = inp[c][1]
    <3>1. Len(inp[c]) > 0
      BY <1>1
    <3>. QED
      BY <1>1, <1>4, <2>2, <3>1, ConcatFirst
  <2>4. ((n + 1) - 1) % ReqLen = 0
    <3>1. PICK q \in Nat : n = q * ReqLen
      BY <2>2 DEF Aligned, Whole
    <3>2. (q * ReqLen) % ReqLen = 0
      BY <1>1, Multiples
    <3>3. (n + 1) - 1 = n
      OBVIOUS
    <3>. QED
      BY <3>1, <3>2, <3>3
  <2>5. sent[c][n + 1][3] \in Headers
    BY <2>3, <2>4 DEF Aligned
  <2>6. req[1] = inp[c][1]
    <3>1. \A x \in Seq(ReqByte) : Stream(x, <<>>, req, rest) =>
              Len(<<>>) + 1 \in 1..Len(x) /\ x[Len(<<>>) + 1] = req[1]
      <4>1. <<>> \in Seq(ReqByte) /\ Len(req) > 0
        BY <1>1, <1>3, EmptySeq
      <4>. QED
        BY <1>3, <4>1, ConcatFirst
    <3>2. Stream(inp[c], <<>>, req, rest)
      <4>1. <<>> \o req = req
        BY <1>3, ConcatEmptySeq
      <4>. QED
        BY <1>3, <4>1 DEF Stream, Split
    <3>3. Len(<<>>) = 0 /\ Len(<<>>) + 1 = 1
      OBVIOUS
    <3>. QED
      BY <1>1, <3>1, <3>2, <3>3
  <2>. QED
    BY <2>3, <2>5, <2>6 DEF Header
<1>6. inp' = [inp EXCEPT ![c] = rest] /\ eaten' = [eaten EXCEPT ![c] = eaten[c] \o req]
  BY <1>2 DEF Reads, AfterRead
<1>7. PICK e \in Seq(ReqByte) : e = eaten[c] \o req /\ Len(e) = Len(eaten[c]) + Len(req)
  BY <1>3, <1>4, ConcatTyped
<1>8. /\ inp \in [Conns -> Seq(ReqByte)] /\ eaten \in [Conns -> Seq(ReqByte)]
      /\ \A d \in Conns : Len(inp[d]) <= InpBufN
  BY DEF TypeOK, Bounded
<1>9. /\ inp'[c] = rest /\ eaten'[c] = e
      /\ \A d \in Conns : d # c => inp'[d] = inp[d] /\ eaten'[d] = eaten[d]
      /\ inp' \in [Conns -> Seq(ReqByte)] /\ eaten' \in [Conns -> Seq(ReqByte)]
  BY <1>3, <1>6, <1>7, <1>8
<1>10. \A d \in Conns : Len(inp'[d]) <= InpBufN
  <2>1. Len(rest) <= InpBufN
    BY <1>1, <1>3, <1>8, Sizes, BufAssumption
  <2>. QED
    BY <1>8, <1>9, <2>1
<1>11. Stream(sent[c], e, rest, up[c])
  BY <1>1, <1>3, <1>4, <1>7, StreamMoves
<1>12. Whole(Len(e))
  <2>1. PICK q \in Nat : Len(eaten[c]) = q * ReqLen
    BY DEF Aligned, Whole
  <2>2. (q + 1) * ReqLen = q * ReqLen + ReqLen
    BY <1>1, Multiples
  <2>3. Len(e) = (q + 1) * ReqLen /\ q + 1 \in Nat
    BY <1>3, <1>7, <2>1, <2>2
  <2>. QED
    BY <2>3 DEF Whole
<1>13. Drop(e, Len(e) - ReqLen) = req
  <2>1. Drop(eaten[c] \o req, Len(eaten[c] \o req) - Len(req)) = req
    BY <1>3, <1>4, DropConcat
  <2>. QED
    BY <1>3, <1>7, <2>1
<1>. QED
  BY <1>3, <1>5, <1>9, <1>10, <1>11, <1>12, <1>13

(***************************************************************************)
(* A kid between the two parts of a frame has the request it answers in    *)
(* Asked, and room in outbuf for the PNG.                                  *)
(***************************************************************************)
PngFits(c) ==
    /\ Asked(c) \in Seq(ReqByte) /\ Header(Asked(c)) \in Headers
    /\ CanWrite(out[c], PngLen[Header(Asked(c))])
PngReady == \A k \in Kids : pc[k] = "png" => todo[k] # <<>> /\ PngFits(Head(todo[k]))

LEMMA PartTyped ==
    ASSUME NEW req \in Seq(ReqByte), Header(req) \in Headers
    PROVE  /\ PngLen[Header(req)] \in Nat /\ LenBytes \in Nat
           /\ Length(req) \in Seq(AnsByte) /\ Len(Length(req)) = LenBytes
           /\ Png(req) \in Seq(AnsByte) /\ Len(Png(req)) = PngLen[Header(req)]
<1>1. PngLen[Header(req)] \in Nat /\ LenBytes \in Nat
  BY TileServerAssumption
<1>2. PICK n \in Nat, l \in Nat : n = PngLen[Header(req)] /\ l = LenBytes
  BY <1>1
<1>3. \A j \in 1..l : <<req, j>> \in AnsByte
  BY DEF AnsByte
<1>4. \A j \in 1..n : <<req, l + j>> \in AnsByte
  BY DEF AnsByte
<1>5. [j \in 1..l |-> <<req, j>>] \in Seq(AnsByte) /\ Len([j \in 1..l |-> <<req, j>>]) = l
  BY <1>3, IsASeq
<1>6. /\ [j \in 1..n |-> <<req, l + j>>] \in Seq(AnsByte)
      /\ Len([j \in 1..n |-> <<req, l + j>>]) = n
  BY <1>4, IsASeq
<1>. QED
  BY <1>1, <1>2, <1>5, <1>6 DEF Length, Png

(***************************************************************************)
(* Writing a part of a frame, or failing to.                               *)
(***************************************************************************)
LEMMA PartWritten ==
    ASSUME TypeOK, OwnerInv, NEW k \in Kids, todo[k] # <<>>, pc[k] \in {"handle", "png"},
           NEW c, c = Head(todo[k]), NEW part \in Seq(AnsByte), NEW next \in {"png", "handle"},
           WritePart(k, c, part, next), backlog' = backlog
    PROVE  /\ made' \in [Conns -> Seq(AnsByte)]
           /\ out' \in [Conns -> Seq(AnsByte)] /\ \A d \in Conns : Len(out'[d]) <= OutBufN
           /\ down' \in [Conns -> Seq(AnsByte)] /\ \A d \in Conns : Len(down'[d]) <= SockN
           /\ phase' \in [Conns -> {"idle", "queued", "open", "closed"}]
           /\ clients' \in [Kids -> Seq(Conns)] /\ todo' \in [Kids -> Seq(Conns)]
           /\ \A j \in Kids : Len(todo'[j]) <= Len(clients'[j])
           /\ pc' \in [Kids -> {"select", "accept", "slurp", "flush", "handle", "png"}]
           /\ OwnerInv'
<1>1. c \in Conns /\ made[c] \in Seq(AnsByte) /\ down[c] \in Seq(AnsByte)
  BY Visited, Sizes
<1>2. PICK w : w = Written(out[c], part, SockN - Len(down[c]))
  OBVIOUS
<1>3. /\ made' = [made EXCEPT ![c] = made[c] \o part] /\ out' = [out EXCEPT ![c] = w.out]
      /\ \/ /\ pc' = [pc EXCEPT ![k] = next] /\ down' = [down EXCEPT ![c] = down[c] \o w.sent]
            /\ UNCHANGED <<phase, clients, todo>>
         \/ /\ pc' = [pc EXCEPT ![k] = "handle"] /\ Close(k, c, down[c] \o w.sent)
  BY <1>2, Zenon DEF WritePart
<1>4. /\ w.out \in Seq(AnsByte) /\ Len(w.out) <= OutBufN
      /\ down[c] \o w.sent \in Seq(AnsByte) /\ Len(down[c] \o w.sent) <= SockN
  BY <1>1, <1>2, WrittenTyped
<1>5. made[c] \o part \in Seq(AnsByte)
  BY <1>1, ConcatTyped
<1>6. /\ made' \in [Conns -> Seq(AnsByte)] /\ out' \in [Conns -> Seq(AnsByte)]
      /\ \A d \in Conns : Len(out'[d]) <= OutBufN
  BY <1>3, <1>4, <1>5 DEF TypeOK, Bounded
<1>7. pc' \in [Kids -> {"select", "accept", "slurp", "flush", "handle", "png"}]
  <2>1. \E x \in {"png", "handle"} : pc' = [pc EXCEPT ![k] = x]
    BY <1>3
  <2>. QED
    BY <2>1 DEF TypeOK
<1>8. PICK kept \in Seq(AnsByte) : kept = down[c] \o w.sent /\ Len(kept) <= SockN
  BY <1>4
<1>9. CASE pc' = [pc EXCEPT ![k] = "handle"] /\ Close(k, c, down[c] \o w.sent)
  <2>1. Close(k, c, kept)
    BY <1>8, <1>9
  <2>2. OwnerInv'
    BY <1>9, <2>1, CloseOwned
  <2>3. /\ phase' \in [Conns -> {"idle", "queued", "open", "closed"}]
        /\ clients' \in [Kids -> Seq(Conns)] /\ todo' \in [Kids -> Seq(Conns)]
        /\ \A j \in Kids : Len(todo'[j]) <= Len(clients'[j])
        /\ down' \in [Conns -> Seq(AnsByte)] /\ \A d \in Conns : Len(down'[d]) <= SockN
    BY <1>1, <1>8, <2>1, CloseTyped
  <2>. QED
    BY <1>6, <1>7, <2>2, <2>3
<1>10. CASE /\ pc' = [pc EXCEPT ![k] = next] /\ down' = [down EXCEPT ![c] = down[c] \o w.sent]
            /\ UNCHANGED <<phase, clients, todo>>
  <2>1. OwnerInv'
    <3>1. /\ todo' = [todo EXCEPT ![k] = todo[k]] /\ next \notin {"select", "accept"}
          /\ Ends(clients[k], todo[k])
      BY <1>10 DEF TypeOK, OwnerInv, RestLeft
    <3>. QED
      BY <1>10, <3>1, PassOwned
  <2>2. down' \in [Conns -> Seq(AnsByte)] /\ \A d \in Conns : Len(down'[d]) <= SockN
    BY <1>4, <1>10 DEF TypeOK, Bounded
  <2>. QED
    BY <1>6, <1>7, <1>10, <2>1, <2>2 DEF TypeOK
<1>. QED
  BY <1>3, <1>9, <1>10

LEMMA PartFailed ==
    ASSUME TypeOK, OwnerInv, NEW k \in Kids, todo[k] # <<>>,
           NEW c, c = Head(todo[k]), Close(k, c, down[c]), backlog' = backlog,
           pc' = pc \/ pc' = [pc EXCEPT ![k] = "handle"]
    PROVE  /\ down' \in [Conns -> Seq(AnsByte)] /\ \A d \in Conns : Len(down'[d]) <= SockN
           /\ phase' \in [Conns -> {"idle", "queued", "open", "closed"}]
           /\ clients' \in [Kids -> Seq(Conns)] /\ todo' \in [Kids -> Seq(Conns)]
           /\ \A j \in Kids : Len(todo'[j]) <= Len(clients'[j])
           /\ pc' \in [Kids -> {"select", "accept", "slurp", "flush", "handle", "png"}]
           /\ OwnerInv'
<1>1. c \in Conns /\ down[c] \in Seq(AnsByte) /\ Len(down[c]) <= SockN
  BY Visited DEF TypeOK, Bounded
<1>2. OwnerInv'
  BY CloseOwned
<1>3. /\ phase' \in [Conns -> {"idle", "queued", "open", "closed"}]
      /\ clients' \in [Kids -> Seq(Conns)] /\ todo' \in [Kids -> Seq(Conns)]
      /\ \A j \in Kids : Len(todo'[j]) <= Len(clients'[j])
      /\ down' \in [Conns -> Seq(AnsByte)] /\ \A d \in Conns : Len(down'[d]) <= SockN
  BY <1>1, CloseTyped
<1>. QED
  BY <1>2, <1>3 DEF TypeOK

(***************************************************************************)
(* What every step of handle starts from.                                  *)
(***************************************************************************)
LEMMA Handling ==
    ASSUME TypeOK, OwnerInv, PngReady, NEW k \in Kids, Handle(k)
    PROVE  /\ todo[k] # <<>> /\ pc[k] \in {"handle", "png"}
           /\ Head(todo[k]) \in Conns /\ phase[Head(todo[k])] = "open"
           /\ backlog' = backlog /\ UNCHANGED <<lset, rset, wset, failed, up, peerVars>>
<1>1. todo[k] # <<>> /\ pc[k] \in {"handle", "png"}
  <2>1. Pending(k) \/ pc[k] = "png"
    BY Zenon DEF Handle, Refuse, ServeLength, LengthFails, ServePng, PngFails
  <2>. QED
    BY <2>1 DEF Pending, PngReady
<1>2. backlog' = backlog /\ UNCHANGED <<lset, rset, wset, failed, up, peerVars>>
  BY Zenon DEF Handle, Refuse, ServeLength, LengthFails, ServePng, PngFails
<1>. QED
  BY <1>1, <1>2, Visited

LEMMA HandleTyped ==
    ASSUME TypeOK, OwnerInv, RequestStream, Aligned, PngReady, NEW k \in Kids, Handle(k)
    PROVE  TypeOK' /\ OwnerInv'
<1>. USE DEF procVars, peerVars, history
<1>1. PICK c \in Conns : /\ c = Head(todo[k]) /\ todo[k] # <<>> /\ pc[k] \in {"handle", "png"}
                         /\ backlog' = backlog
                         /\ UNCHANGED <<lset, rset, wset, failed, up, fin, gone, sent, got>>
  BY Handling
<1>2. CASE Refuse(k)
  <2>1. /\ CanRead(inp[c], ReqLen) /\ Reads(c) /\ Close(k, c, down[c])
        /\ UNCHANGED <<pc, out, made>>
    BY <1>1, <1>2 DEF Refuse, Pending
  <2>2. /\ inp' \in [Conns -> Seq(ReqByte)] /\ eaten' \in [Conns -> Seq(ReqByte)]
        /\ \A d \in Conns : Len(inp'[d]) <= InpBufN
    BY <2>1, Read
  <2>3. /\ down' \in [Conns -> Seq(AnsByte)] /\ \A d \in Conns : Len(down'[d]) <= SockN
        /\ phase' \in [Conns -> {"idle", "queued", "open", "closed"}]
        /\ clients' \in [Kids -> Seq(Conns)] /\ todo' \in [Kids -> Seq(Conns)]
        /\ \A j \in Kids : Len(todo'[j]) <= Len(clients'[j])
        /\ pc' \in [Kids -> {"select", "accept", "slurp", "flush", "handle", "png"}]
        /\ OwnerInv'
    BY <1>1, <2>1, PartFailed
  <2>. QED
    BY <1>1, <2>1, <2>2, <2>3 DEF TypeOK, Bounded
<1>3. CASE ServeLength(k)
  <2>1. PICK req : req = Request(c)
    OBVIOUS
  <2>2. /\ CanRead(inp[c], ReqLen) /\ Reads(c) /\ WritePart(k, c, Length(req), "png")
    BY <1>1, <1>3, <2>1 DEF ServeLength, Pending
  <2>3. /\ inp' \in [Conns -> Seq(ReqByte)] /\ eaten' \in [Conns -> Seq(ReqByte)]
        /\ \A d \in Conns : Len(inp'[d]) <= InpBufN
        /\ req \in Seq(ReqByte) /\ Header(req) \in Headers
    BY <2>1, <2>2, Read
  <2>4. PICK part \in Seq(AnsByte) : part = Length(req)
    BY <2>3, PartTyped
  <2>5. WritePart(k, c, part, "png") /\ "png" \in {"png", "handle"}
    BY <2>2, <2>4
  <2>6. /\ made' \in [Conns -> Seq(AnsByte)]
        /\ out' \in [Conns -> Seq(AnsByte)] /\ \A d \in Conns : Len(out'[d]) <= OutBufN
        /\ down' \in [Conns -> Seq(AnsByte)] /\ \A d \in Conns : Len(down'[d]) <= SockN
        /\ phase' \in [Conns -> {"idle", "queued", "open", "closed"}]
        /\ clients' \in [Kids -> Seq(Conns)] /\ todo' \in [Kids -> Seq(Conns)]
        /\ \A j \in Kids : Len(todo'[j]) <= Len(clients'[j])
        /\ pc' \in [Kids -> {"select", "accept", "slurp", "flush", "handle", "png"}]
        /\ OwnerInv'
    BY <1>1, <2>5, PartWritten
  <2>. QED
    BY <1>1, <2>3, <2>6 DEF TypeOK, Bounded
<1>4. CASE LengthFails(k)
  <2>1. /\ CanRead(inp[c], ReqLen) /\ Reads(c) /\ Close(k, c, down[c])
        /\ pc' = [pc EXCEPT ![k] = "handle"] /\ UNCHANGED <<out, made>>
    BY <1>1, <1>4 DEF LengthFails, PartFails, Pending
  <2>2. /\ inp' \in [Conns -> Seq(ReqByte)] /\ eaten' \in [Conns -> Seq(ReqByte)]
        /\ \A d \in Conns : Len(inp'[d]) <= InpBufN
    BY <2>1, Read
  <2>3. /\ down' \in [Conns -> Seq(AnsByte)] /\ \A d \in Conns : Len(down'[d]) <= SockN
        /\ phase' \in [Conns -> {"idle", "queued", "open", "closed"}]
        /\ clients' \in [Kids -> Seq(Conns)] /\ todo' \in [Kids -> Seq(Conns)]
        /\ \A j \in Kids : Len(todo'[j]) <= Len(clients'[j])
        /\ pc' \in [Kids -> {"select", "accept", "slurp", "flush", "handle", "png"}]
        /\ OwnerInv'
    BY <1>1, <2>1, PartFailed
  <2>. QED
    BY <1>1, <2>1, <2>2, <2>3 DEF TypeOK, Bounded
<1>5. CASE ServePng(k)
  <2>1. PICK req : req = Asked(c)
    OBVIOUS
  <2>2. pc[k] = "png" /\ WritePart(k, c, Png(req), "handle") /\ UNCHANGED <<inp, eaten>>
    BY <1>1, <1>5, <2>1 DEF ServePng
  <2>3. req \in Seq(ReqByte) /\ Header(req) \in Headers
    BY <1>1, <2>1, <2>2 DEF PngReady, PngFits
  <2>4. PICK part \in Seq(AnsByte) : part = Png(req)
    BY <2>3, PartTyped
  <2>5. WritePart(k, c, part, "handle") /\ "handle" \in {"png", "handle"}
    BY <2>2, <2>4
  <2>6. /\ made' \in [Conns -> Seq(AnsByte)]
        /\ out' \in [Conns -> Seq(AnsByte)] /\ \A d \in Conns : Len(out'[d]) <= OutBufN
        /\ down' \in [Conns -> Seq(AnsByte)] /\ \A d \in Conns : Len(down'[d]) <= SockN
        /\ phase' \in [Conns -> {"idle", "queued", "open", "closed"}]
        /\ clients' \in [Kids -> Seq(Conns)] /\ todo' \in [Kids -> Seq(Conns)]
        /\ \A j \in Kids : Len(todo'[j]) <= Len(clients'[j])
        /\ pc' \in [Kids -> {"select", "accept", "slurp", "flush", "handle", "png"}]
        /\ OwnerInv'
    BY <1>1, <2>5, PartWritten
  <2>. QED
    BY <1>1, <2>2, <2>6 DEF TypeOK, Bounded
<1>6. CASE PngFails(k)
  <2>1. /\ Close(k, c, down[c]) /\ pc' = [pc EXCEPT ![k] = "handle"]
        /\ UNCHANGED <<inp, eaten, out, made>>
    BY <1>1, <1>6 DEF PngFails, PartFails
  <2>2. /\ down' \in [Conns -> Seq(AnsByte)] /\ \A d \in Conns : Len(down'[d]) <= SockN
        /\ phase' \in [Conns -> {"idle", "queued", "open", "closed"}]
        /\ clients' \in [Kids -> Seq(Conns)] /\ todo' \in [Kids -> Seq(Conns)]
        /\ \A j \in Kids : Len(todo'[j]) <= Len(clients'[j])
        /\ pc' \in [Kids -> {"select", "accept", "slurp", "flush", "handle", "png"}]
        /\ OwnerInv'
    BY <1>1, <2>1, PartFailed
  <2>. QED
    BY <1>1, <2>1, <2>2 DEF TypeOK, Bounded
<1>. QED
  BY <1>2, <1>3, <1>4, <1>5, <1>6 DEF Handle

-----------------------------------------------------------------------------
(***************************************************************************)
(* A step of handle reads a whole request of one client, or none.          *)
(***************************************************************************)
LEMMA HandleReads ==
    ASSUME TypeOK, OwnerInv, RequestStream, Aligned, PngReady, NEW k \in Kids, Handle(k)
    PROVE  RequestStream' /\ Aligned'
<1>. USE DEF procVars, peerVars, history
<1>1. PICK c \in Conns : c = Head(todo[k]) /\ UNCHANGED <<up, sent>>
  BY Handling
<1>2. CASE CanRead(inp[c], ReqLen) /\ Reads(c)
  <2>1. /\ Stream(sent[c], eaten'[c], inp'[c], up[c]) /\ Whole(Len(eaten'[c]))
        /\ \A d \in Conns : d # c => inp'[d] = inp[d] /\ eaten'[d] = eaten[d]
    BY <1>2, Read
  <2>2. RequestStream'
    BY <1>1, <2>1 DEF RequestStream, Stream
  <2>3. \A d \in Conns : Whole(Len(eaten'[d]))
    BY <2>1 DEF Aligned
  <2>4. Aligned'
    BY <1>1, <2>3 DEF Aligned, Whole
  <2>. QED
    BY <2>2, <2>4
<1>3. CASE UNCHANGED <<inp, eaten>>
  BY <1>1, <1>3 DEF RequestStream, Aligned, Whole
<1>4. (CanRead(inp[c], ReqLen) /\ Reads(c)) \/ UNCHANGED <<inp, eaten>>
  <2>1. CASE Refuse(k) \/ ServeLength(k) \/ LengthFails(k)
    BY <1>1, <2>1, Zenon DEF Refuse, ServeLength, LengthFails, Pending
  <2>2. CASE ServePng(k) \/ PngFails(k)
    BY <2>2, Zenon DEF ServePng, PngFails
  <2>. QED
    BY <2>1, <2>2 DEF Handle
<1>. QED
  BY <1>2, <1>3, <1>4

LEMMA PeerAligned ==
    ASSUME TypeOK, Aligned, NEW c \in Conns, NEW answered, Peer(c, answered)
    PROVE  Aligned'
<1>. USE DEF procVars, peerVars, history
<1>1. UNCHANGED eaten
  BY ZenonT(40) DEF Peer, Connect, Send, Receive, Finish, Vanish
<1>2. CASE Send(c, answered)
  <2>1. PICK b \in NextBytes(c) : sent' = [sent EXCEPT ![c] = Append(sent[c], b)]
    BY <1>2 DEF Send
  <2>2. PICK n \in Nat : n = Len(sent[c])
    BY Sizes, Elements
  <2>3. n % ReqLen = 0 => b[3] \in Headers
    <3>1. ASSUME n % ReqLen = 0 PROVE b[3] \in Headers
      <4>1. 1 + (Len(sent[c]) % ReqLen) = 1
        BY <2>2, <3>1
      <4>2. PICK h \in Headers : b = <<1 + (Len(sent[c]) \div ReqLen), 1, h>>
        BY <4>1 DEF NextBytes
      <4>. QED
        BY <4>2
    <3>. QED
      BY <3>1
  <2>4. PICK t : t = Append(sent[c], b)
    OBVIOUS
  <2>5. Len(t) = n + 1 /\ t[n + 1] = b /\ \A i \in 1..n : t[i] = sent[c][i]
    <3>1. sent[c] \in Seq(ReqByte) /\ sent'[c] = t /\ sent'[c] \in Seq(ReqByte)
      BY <2>1, <2>4, PeerTyped, Sizes DEF TypeOK
    <3>2. sent[c] \in Seq(ReqByte \cup {b}) /\ b \in ReqByte \cup {b}
      <4>1. Seq(ReqByte) \subseteq Seq(ReqByte \cup {b})
        OBVIOUS
      <4>. QED
        BY <3>1, <4>1
    <3>. QED
      BY <2>2, <2>4, <3>2, AppendProperties
  <2>6. \A i \in 1..Len(t) : (i - 1) % ReqLen = 0 => t[i][3] \in Headers
    <3>. SUFFICES ASSUME NEW i \in 1..n + 1, (i - 1) % ReqLen = 0
                  PROVE  t[i][3] \in Headers
      BY <2>5
    <3>1. CASE i = n + 1
      <4>1. i - 1 = n
        BY <3>1
      <4>. QED
        BY <2>3, <2>5, <3>1, <4>1
    <3>2. CASE i # n + 1
      <4>1. i \in 1..n
        BY <3>2
      <4>. QED
        BY <2>2, <2>5, <4>1 DEF Aligned
    <3>. QED
      BY <3>1, <3>2
  <2>7. \A d \in Conns : sent'[d] = IF d = c THEN t ELSE sent[d]
    BY <2>1, <2>4 DEF TypeOK
  <2>. QED
    BY <1>1, <2>6, <2>7 DEF Aligned, Whole
<1>3. CASE Connect(c) \/ Receive(c) \/ Finish(c) \/ Vanish(c)
  <2>1. UNCHANGED sent
    BY <1>3, Zenon DEF Connect, Receive, Finish, Vanish
  <2>. QED
    BY <1>1, <2>1 DEF Aligned, Whole
<1>. QED
  BY <1>2, <1>3 DEF Peer

LEMMA LoopAligned ==
    ASSUME Aligned, NEW k \in Kids, Loop(k)
    PROVE  Aligned'
<1>1. UNCHANGED <<sent, eaten>>
  BY ZenonT(40) DEF Loop, Select, SelectFails, Accept, AcceptNone, Slurp, SlurpFails, NoSlurp,
            Flush, FlushFails, NoFlush, StartHandling, Handled, EndTurn, peerVars, history
<1>. QED
  BY <1>1 DEF Aligned, Whole

(***************************************************************************)
(* A frame that fits leaves room for its PNG once the length is written.   *)
(***************************************************************************)
LEMMA RoomLeft ==
    ASSUME NEW o \in Seq(AnsByte), NEW part \in Seq(AnsByte), NEW room \in Nat, NEW more \in Nat,
           CanWrite(o, Len(part) + more),
           NEW w, w = Written(o, part, room)
    PROVE  w.ok = TRUE /\ CanWrite(w.out, more)
<1>1. PICK a \in Nat, b \in Nat, m \in Nat : a = Len(o) /\ b = Len(part) /\ m = OutBufN
  BY Elements, BufAssumption
<1>2. a + (b + more) <= m
  BY <1>1 DEF CanWrite
<1>3. CASE NeedFlush(o)
  <2>1. CanWrite(o, b)
    BY <1>1, <1>2 DEF CanWrite
  <2>2. w = [ok |-> TRUE, sent |-> <<>>, out |-> o \o part]
    BY <1>1, <1>3, <2>1 DEF Written
  <2>3. Len(o \o part) = a + b
    BY <1>1, ConcatTyped
  <2>4. w.ok = TRUE /\ Len(w.out) = a + b
    BY <2>2, <2>3
  <2>5. Len(w.out) + more <= OutBufN
    BY <1>1, <1>2, <2>4
  <2>. QED
    BY <2>4, <2>5 DEF CanWrite
<1>4. CASE ~NeedFlush(o)
  <2>1. PICK n \in Nat : n = Lesser(Len(part), room) /\ n <= b
    BY <1>1, LesserLeast
  <2>2. CanWrite(o, Len(part) - n)
    <3>1. a + (b - n) <= m
      BY <1>2, <2>1
    <3>. QED
      BY <1>1, <3>1 DEF CanWrite
  <2>3. w = [ok |-> TRUE, sent |-> Take(part, n), out |-> Drop(part, n)]
    BY <1>4, <2>1, <2>2 DEF Written
  <2>4. n \in 0..Len(part)
    BY <1>1, <2>1
  <2>5. Len(Drop(part, n)) = b - n
    BY <1>1, <2>4, TakeDrop
  <2>6. w.ok = TRUE /\ Len(w.out) = b - n
    BY <2>3, <2>5
  <2>7. Len(w.out) + more <= OutBufN
    BY <1>1, <1>2, <2>1, <2>6
  <2>. QED
    BY <2>6, <2>7 DEF CanWrite
<1>. QED
  BY <1>3, <1>4

-----------------------------------------------------------------------------
(***************************************************************************)
(* Nothing but the kid itself comes between the two parts of a frame: only *)
(* k moves, and no buffer of a client of another kid changes.              *)
(***************************************************************************)
LEMMA OthersPng ==
    ASSUME TypeOK, OwnerInv, PngReady, NEW k \in Kids, NEW c \in Conns, c \in Members(k),
           \A j \in Kids : j # k => pc'[j] = pc[j] /\ todo'[j] = todo[j],
           \A d \in Conns : d # c => out'[d] = out[d] /\ eaten'[d] = eaten[d],
           pc'[k] = "png" => todo'[k] # <<>> /\ PngFits(Head(todo[k]))'
                             /\ Head(todo'[k]) = Head(todo[k])
    PROVE  PngReady'
<1>. SUFFICES ASSUME NEW j \in Kids, pc'[j] = "png"
              PROVE  todo'[j] # <<>> /\ PngFits(Head(todo[j]))' /\ Head(todo'[j]) = Head(todo[j])
  BY DEF PngReady, PngFits, Asked
<1>1. CASE j = k
  BY <1>1
<1>2. CASE j # k
  <2>1. /\ pc[j] = "png" /\ todo[j] # <<>> /\ todo'[j] = todo[j]
        /\ PngFits(Head(todo[j]))
    BY <1>2 DEF PngReady
  <2>2. PICK d \in Conns : d = Head(todo[j]) /\ d \in Members(j)
    BY <2>1, Visited
  <2>3. d # c
    <3>1. clients[k] \in Seq(Conns) /\ clients[j] \in Seq(Conns)
      BY DEF TypeOK
    <3>. QED
      BY <1>2, <2>1, <2>2, Visited
  <2>4. out'[d] = out[d] /\ eaten'[d] = eaten[d]
    BY <2>3
  <2>. QED
    BY <2>1, <2>2, <2>4 DEF PngFits, Asked
<1>. QED
  BY <1>1, <1>2

LEMMA HandlePng ==
    ASSUME TypeOK, OwnerInv, RequestStream, Aligned, PngReady, NEW k \in Kids, Handle(k)
    PROVE  PngReady'
<1>. USE DEF procVars, peerVars, history
<1>1. PICK c \in Conns : c = Head(todo[k]) /\ todo[k] # <<>> /\ c \in Members(k)
  BY Handling, Visited
<1>2. /\ pc' = pc \/ \E x : pc' = [pc EXCEPT ![k] = x]
      /\ todo' = todo \/ \E x : todo' = [todo EXCEPT ![k] = x]
      /\ out' = out \/ \E x : out' = [out EXCEPT ![c] = x]
      /\ eaten' = eaten \/ \E x : eaten' = [eaten EXCEPT ![c] = x]
  BY <1>1, ZenonT(60) DEF Handle, Refuse, ServeLength, LengthFails, ServePng, PngFails, PartFails,
            WritePart, Reads, Close
<1>3. /\ \A j \in Kids : j # k => pc'[j] = pc[j] /\ todo'[j] = todo[j]
      /\ \A d \in Conns : d # c => out'[d] = out[d] /\ eaten'[d] = eaten[d]
  BY <1>2 DEF TypeOK
<1>4. ASSUME pc'[k] = "png"
      PROVE  /\ todo'[k] # <<>> /\ PngFits(c)' /\ Head(todo'[k]) = c
  <2>1. CASE ServeLength(k)
    <3>1. PICK req : req = Request(c)
      OBVIOUS
    <3>2. /\ CanRead(inp[c], ReqLen) /\ Reads(c) /\ Fits(c, req)
          /\ WritePart(k, c, Length(req), "png")
      BY <1>1, <2>1, <3>1 DEF ServeLength, Pending
    <3>3. /\ req \in Seq(ReqByte) /\ Header(req) \in Headers
          /\ Drop(eaten'[c], Len(eaten'[c]) - ReqLen) = req
      BY <3>1, <3>2, Read
    <3>4. PICK part \in Seq(AnsByte), n \in Nat :
              part = Length(req) /\ n = PngLen[Header(req)] /\ Len(part) = LenBytes
      BY <3>3, PartTyped
    <3>5. PICK w : w = Written(out[c], part, SockN - Len(down[c]))
      OBVIOUS
    <3>6. w.ok = TRUE /\ CanWrite(w.out, n)
      <4>1. CanWrite(out[c], Len(part) + n)
        BY <3>2, <3>4 DEF Fits, FrameLen
      <4>2. out[c] \in Seq(AnsByte) /\ SockN - Len(down[c]) \in Nat
        BY Sizes
      <4>. QED
        BY <3>5, <4>1, <4>2, RoomLeft
    <3>7. out' = [out EXCEPT ![c] = w.out] /\ UNCHANGED todo
      BY <3>2, <3>4, <3>5, <3>6, Zenon DEF WritePart
    <3>8. CanWrite(out'[c], n)
      BY <3>6, <3>7 DEF TypeOK
    <3>. QED
      BY <1>1, <3>3, <3>4, <3>7, <3>8 DEF PngFits, Asked
  <2>2. CASE Refuse(k)
    BY <1>4, <2>2 DEF Refuse, Pending
  <2>3. CASE LengthFails(k) \/ PngFails(k)
    <3>1. pc' = [pc EXCEPT ![k] = "handle"]
      BY <2>3, Zenon DEF LengthFails, PngFails, PartFails
    <3>. QED
      BY <1>4, <3>1 DEF TypeOK
  <2>4. CASE ServePng(k)
    <3>1. pc' = [pc EXCEPT ![k] = "handle"]
      BY <2>4, Zenon DEF ServePng, WritePart
    <3>. QED
      BY <1>4, <3>1 DEF TypeOK
  <2>. QED
    BY <2>1, <2>2, <2>3, <2>4 DEF Handle
<1>. QED
  BY <1>1, <1>3, <1>4, OthersPng

LEMMA LoopLeavesPng ==
    ASSUME TypeOK, NEW k \in Kids, Loop(k)
    PROVE  pc'[k] # "png"
<1>. USE DEF procVars, peerVars, history
<1>1. CASE Select(k) \/ SelectFails(k) \/ AcceptNone(k) \/ Slurp(k) \/ NoSlurp(k)
  <2>1. \E x \in {"accept", "slurp", "flush"} : pc' = [pc EXCEPT ![k] = x]
    BY <1>1 DEF Select, SelectFails, AcceptNone, Slurp, NoSlurp
  <2>. QED
    BY <2>1 DEF TypeOK
<1>2. CASE Flush(k) \/ FlushFails(k) \/ NoFlush(k) \/ StartHandling(k) \/ EndTurn(k)
  <2>1. \E x \in {"slurp", "handle", "select"} : pc' = [pc EXCEPT ![k] = x]
    BY <1>2 DEF Flush, FlushFails, NoFlush, StartHandling, EndTurn
  <2>. QED
    BY <2>1 DEF TypeOK
<1>3. CASE Accept(k) \/ SlurpFails(k) \/ Handled(k)
  BY <1>3 DEF Accept, SlurpFails, Handled
<1>. QED
  BY <1>1, <1>2, <1>3 DEF Loop

LEMMA LoopPng ==
    ASSUME TypeOK, OwnerInv, PngReady, NEW k \in Kids, Loop(k)
    PROVE  PngReady'
<1>. USE DEF procVars, peerVars, history
<1>1. pc'[k] # "png"
  BY LoopLeavesPng
<1>2. /\ pc' = pc \/ \E x : pc' = [pc EXCEPT ![k] = x]
      /\ todo' = todo \/ \E x : todo' = [todo EXCEPT ![k] = x]
      /\ eaten' = eaten
  BY ZenonT(60) DEF Loop, Select, SelectFails, Accept, AcceptNone, Slurp, SlurpFails, NoSlurp,
            Flush, FlushFails, NoFlush, StartHandling, Handled, EndTurn, Close
<1>3. \A j \in Kids : j # k => pc'[j] = pc[j] /\ todo'[j] = todo[j]
  BY <1>2 DEF TypeOK
<1>4. CASE Flush(k)
  <2>1. PICK c \in Conns : c = Head(todo[k]) /\ c \in Members(k)
    BY <1>4, Visited DEF Flush
  <2>2. \E x : out' = [out EXCEPT ![c] = x]
    BY <1>4, <2>1, Zenon DEF Flush
  <2>3. \A d \in Conns : d # c => out'[d] = out[d] /\ eaten'[d] = eaten[d]
    BY <1>2, <2>2 DEF TypeOK
  <2>. QED
    BY <1>1, <1>3, <2>1, <2>3, OthersPng
<1>5. CASE ~Flush(k)
  <2>1. UNCHANGED <<out, eaten>>
    BY <1>5, ZenonT(60) DEF Loop, Select, SelectFails, Accept, AcceptNone, Slurp, SlurpFails,
              NoSlurp, FlushFails, NoFlush, StartHandling, Handled, EndTurn
  <2>. QED
    BY <1>1, <1>3, <2>1 DEF PngReady, PngFits, Asked
<1>. QED
  BY <1>4, <1>5

LEMMA SamePng ==
    ASSUME PngReady, UNCHANGED <<pc, todo, out, eaten>>
    PROVE  PngReady'
BY DEF PngReady, PngFits, Asked

-----------------------------------------------------------------------------
(***************************************************************************)
(* The answer stream: both parts of a frame go through Client::write, and  *)
(* a client that is deleted before or between them gets no more.           *)
(***************************************************************************)
LEMMA HandleAnswers ==
    ASSUME TypeOK, OwnerInv, RequestStream, Aligned, PngReady, AnswerInv,
           NEW k \in Kids, Handle(k)
    PROVE  AnswerInv'
<1>. USE DEF procVars, peerVars, history
<1>1. PICK c \in Conns : /\ c = Head(todo[k]) /\ phase[c] = "open"
                         /\ UNCHANGED <<fin, gone, sent, got>>
  BY Handling
<1>2. Answers(c) /\ down[c] \in Seq(AnsByte) /\ made[c] \in Seq(AnsByte)
  BY Sizes DEF AnswerInv
<1>3. ASSUME NEW part \in Seq(AnsByte), NEW next, WritePart(k, c, part, next)
      PROVE  AnswerInv'
  <2>1. PICK w : w = Written(out[c], part, SockN - Len(down[c]))
    OBVIOUS
  <2>2. /\ made' = [made EXCEPT ![c] = made[c] \o part] /\ out' = [out EXCEPT ![c] = w.out]
        /\ \/ w.ok /\ down' = [down EXCEPT ![c] = down[c] \o w.sent] /\ UNCHANGED phase
           \/ Close(k, c, down[c] \o w.sent)
    BY <1>3, <2>1, Zenon DEF WritePart
  <2>. QED
    BY <1>1, <2>1, <2>2, WriteAnswers
<1>4. ASSUME Close(k, c, down[c]), UNCHANGED <<made, out>>
      PROVE  AnswerInv'
  <2>1. /\ ~gone[c] => Continues(made'[c], got[c], down[c])
        /\ made'[c] \in Seq(AnsByte) /\ Starts(AnsByte, made'[c], got[c])
        /\ \A d \in Conns : d # c => made'[d] = made[d] /\ out'[d] = out[d]
    BY <1>2, <1>4 DEF Answers
  <2>. QED
    BY <1>1, <1>2, <1>4, <2>1, CloseAnswers
<1>5. CASE ServeLength(k)
  <2>1. PICK req : req = Request(c)
    OBVIOUS
  <2>2. CanRead(inp[c], ReqLen) /\ Reads(c) /\ WritePart(k, c, Length(req), "png")
    BY <1>1, <1>5, <2>1 DEF ServeLength, Pending
  <2>3. req \in Seq(ReqByte) /\ Header(req) \in Headers
    BY <2>1, <2>2, Read
  <2>4. PICK part \in Seq(AnsByte) : part = Length(req)
    BY <2>3, PartTyped
  <2>5. WritePart(k, c, part, "png")
    BY <2>2, <2>4
  <2>. QED
    BY <1>3, <2>5
<1>6. CASE ServePng(k)
  <2>1. PICK req : req = Asked(c)
    OBVIOUS
  <2>2. pc[k] = "png" /\ WritePart(k, c, Png(req), "handle")
    BY <1>1, <1>6, <2>1 DEF ServePng
  <2>3. req \in Seq(ReqByte) /\ Header(req) \in Headers
    BY <1>1, <2>1, <2>2 DEF PngReady, PngFits
  <2>4. PICK part \in Seq(AnsByte) : part = Png(req)
    BY <2>3, PartTyped
  <2>5. WritePart(k, c, part, "handle")
    BY <2>2, <2>4
  <2>. QED
    BY <1>3, <2>5
<1>7. CASE Refuse(k) \/ LengthFails(k) \/ PngFails(k)
  <2>1. Close(k, c, down[c]) /\ UNCHANGED <<made, out>>
    BY <1>1, <1>7, Zenon DEF Refuse, LengthFails, PngFails, PartFails
  <2>. QED
    BY <1>4, <2>1
<1>. QED
  BY <1>5, <1>6, <1>7 DEF Handle

(***************************************************************************)
(* The inductive invariant of the tile server.                             *)
(***************************************************************************)
TileInv == TypeOK /\ OwnerInv /\ RequestStream /\ Aligned /\ PngReady /\ AnswerInv

LEMMA TileInit == Init => TileInv
<1>. SUFFICES ASSUME ServerInit PROVE TileInv
  BY DEF Init
<1>1. TypeOK /\ OwnerInv /\ AnswerInv
  BY InitTyped, InitOwned, InitAnswers
<1>2. RequestStream
  BY DEF ServerInit, RequestStream
<1>3. Aligned
  <2>1. Len(<<>>) = 0 /\ 0 = 0 * ReqLen
    BY ServerAssumption
  <2>2. \A c \in Conns : sent[c] = <<>> /\ eaten[c] = <<>>
    BY DEF ServerInit
  <2>. QED
    BY <2>1, <2>2 DEF Aligned, Whole
<1>4. PngReady
  BY DEF ServerInit, PngReady
<1>. QED
  BY <1>1, <1>2, <1>3, <1>4 DEF TileInv

LEMMA TileStep == TileInv /\ [Next]_vars => TileInv'
<1>. SUFFICES ASSUME TypeOK, OwnerInv, RequestStream, Aligned, PngReady, AnswerInv, [Next]_vars
              PROVE  TileInv'
  BY DEF TileInv
<1>1. CASE UNCHANGED vars
  <2>1. UNCHANGED <<backlog, phase, clients, todo, pc, gone, made, got, down, out,
                    sent, eaten, inp, up>>
    BY <1>1 DEF vars, procVars, peerVars, history
  <2>2. TypeOK' /\ OwnerInv'
    BY <1>1, <2>1, StutterTyped, SameOwners
  <2>3. RequestStream' /\ Aligned'
    BY <2>1 DEF RequestStream, Aligned, Whole
  <2>4. PngReady' /\ AnswerInv'
    BY <2>1, SamePng, SameAnswers DEF AnswerInv
  <2>. QED
    BY <2>2, <2>3, <2>4 DEF TileInv
<1>2. ASSUME NEW k \in Kids, Loop(k) PROVE TileInv'
  <2>1. TypeOK' /\ OwnerInv' /\ AnswerInv'
    BY <1>2, LoopTyped, LoopOwned, LoopAnswers
  <2>2. RequestStream' /\ Aligned' /\ PngReady'
    BY <1>2, RequestStreamSlurped, LoopAligned, LoopPng
  <2>. QED
    BY <2>1, <2>2 DEF TileInv
<1>3. ASSUME NEW k \in Kids, Handle(k) PROVE TileInv'
  <2>1. TypeOK' /\ OwnerInv' /\ AnswerInv'
    BY <1>3, HandleTyped, HandleAnswers
  <2>2. RequestStream' /\ Aligned' /\ PngReady'
    BY <1>3, HandleReads, HandlePng
  <2>. QED
    BY <2>1, <2>2 DEF TileInv
<1>4. ASSUME NEW c \in Conns, Peer(c, Answered(c)) PROVE TileInv'
  <2>1. TypeOK' /\ OwnerInv' /\ AnswerInv'
    BY <1>4, PeerTyped, PeerOwned, PeerAnswers
  <2>2. RequestStream' /\ Aligned'
    BY <1>4, RequestStreamSent, PeerAligned
  <2>3. PngReady'
    <3>1. UNCHANGED <<pc, todo, out, eaten>>
      BY <1>4, ZenonT(40) DEF Peer, Connect, Send, Receive, Finish, Vanish,
                procVars, peerVars, history
    <3>. QED
      BY <3>1, SamePng
  <2>. QED
    BY <2>1, <2>2, <2>3 DEF TileInv
<1>. QED
  BY <1>1, <1>2, <1>3, <1>4 DEF Next

LEMMA TileInvAlways == Spec => []TileInv
BY TileInit, TileStep, PTL DEF Spec

(***************************************************************************)
(* What is proved of the event loop holds with the tile server's handle    *)
(* too: buffers stay within their bounds, a connection has one owner, the  *)
(* bytes handle reads are the bytes sent, and the bytes a peer gets are    *)
(* the beginning of the parts of frames made for it.                       *)
(***************************************************************************)
THEOREM TileServerServes == Spec => [](TypeOK /\ OneOwner /\ RequestStream /\ AnswerStream)
<1>1. TileInv => TypeOK /\ OneOwner /\ RequestStream /\ AnswerStream
  BY OwnerMeans, AnswersMean DEF TileInv
<1>. QED
  BY <1>1, TileInvAlways, PTL

(***************************************************************************)
(* Once the length of a PNG was written the PNG follows, unless the peer   *)
(* has vanished: the check made before the first write leaves room for the *)
(* second, since nobody but the kid that made it adds to that outbuf.      *)
(***************************************************************************)
THEOREM FramesFinished == Spec => FrameFinished
<1>1. TileInv /\ [Next]_vars =>
          [\A k \in Kids : pc[k] = "png" /\ pc'[k] # "png" /\ ~gone[Head(todo[k])] =>
               phase'[Head(todo[k])] = "open"]_vars
  <2>. SUFFICES ASSUME TileInv, Next,
                       NEW k \in Kids, pc[k] = "png", pc'[k] # "png", ~gone[Head(todo[k])]
                PROVE  phase'[Head(todo[k])] = "open"
    OBVIOUS
  <2>. USE DEF TileInv
  <2>1. ASSUME NEW c \in Conns, Peer(c, Answered(c)) PROVE FALSE
    <3>1. UNCHANGED pc
      BY <2>1, ZenonT(40) DEF Peer, Connect, Send, Receive, Finish, Vanish, procVars
    <3>. QED
      BY <3>1
  <2>2. ASSUME NEW j \in Kids, Loop(j) PROVE FALSE
    <3>1. pc[j] # "png"
      <4>1. pc[j] \in {"select", "accept", "slurp", "flush", "handle"}
        BY <2>2, ZenonT(60) DEF Loop, Select, SelectFails, Accept, AcceptNone, Slurp, SlurpFails,
                  NoSlurp, Flush, FlushFails, NoFlush, StartHandling, Handled, EndTurn
      <4>. QED
        BY <4>1
    <3>2. pc' = pc \/ \E x : pc' = [pc EXCEPT ![j] = x]
      BY <2>2, ZenonT(60) DEF Loop, Select, SelectFails, Accept, AcceptNone, Slurp, SlurpFails,
                NoSlurp, Flush, FlushFails, NoFlush, StartHandling, Handled, EndTurn
    <3>. QED
      BY <3>1, <3>2 DEF TypeOK
  <2>3. ASSUME NEW j \in Kids, Handle(j) PROVE phase'[Head(todo[k])] = "open"
    <3>1. j = k
      <4>1. pc' = pc \/ \E x : pc' = [pc EXCEPT ![j] = x]
        BY <2>3, ZenonT(60) DEF Handle, Refuse, ServeLength, LengthFails, ServePng, PngFails,
                  PartFails, WritePart
      <4>. QED
        BY <4>1 DEF TypeOK
    <3>2. PICK c \in Conns : c = Head(todo[k]) /\ phase[c] = "open"
      BY <2>3, <3>1, Handling
    <3>3. ServePng(k)
      <4>1. ~Pending(k)
        BY DEF Pending
      <4>2. ~PngFails(k)
        BY DEF PngFails, PartFails
      <4>. QED
        BY <2>3, <3>1, <4>1, <4>2, Zenon DEF Handle, Refuse, ServeLength, LengthFails
    <3>4. PICK req : req = Asked(c)
      OBVIOUS
    <3>5. req \in Seq(ReqByte) /\ Header(req) \in Headers /\ CanWrite(out[c], PngLen[Header(req)])
      BY <3>2, <3>4 DEF PngReady, PngFits
    <3>6. PICK part \in Seq(AnsByte) : part = Png(req) /\ Len(part) = PngLen[Header(req)]
      BY <3>5, PartTyped
    <3>7. PICK w : w = Written(out[c], part, SockN - Len(down[c]))
      OBVIOUS
    <3>8. w.ok = TRUE
      <4>1. PICK n \in Nat : n = Len(part)
        BY Elements
      <4>2. CanWrite(out[c], Len(part) + 0)
        <5>1. n + 0 = n
          OBVIOUS
        <5>. QED
          BY <3>5, <3>6, <4>1, <5>1
      <4>3. out[c] \in Seq(AnsByte) /\ SockN - Len(down[c]) \in Nat
        BY Sizes
      <4>. QED
        BY <3>7, <4>2, <4>3, RoomLeft
    <3>9. UNCHANGED phase
      BY <3>2, <3>3, <3>4, <3>6, <3>7, <3>8, Zenon DEF ServePng, WritePart
    <3>. QED
      BY <3>2, <3>9
  <2>. QED
    BY <2>1, <2>2, <2>3 DEF Next
<1>. QED
  BY <1>1, TileInvAlways, PTL DEF Spec, FrameFinished

-----------------------------------------------------------------------------
(***************************************************************************)
(* What FlattenSeq computes: the flattened beginnings of a sequence grow   *)
(* by one of its elements at a time.                                       *)
(***************************************************************************)
Cut(f, n) == [r \in 1..n |-> f[r]]
FlatStep(t, h, i) == IF i = 1 THEN t[i] ELSE h[i - 1] \o t[i]
FlatFold(t) == CHOOSE h : h = [i \in 1..Len(t) |-> FlatStep(t, h, i)]

LEMMA FlatIs ==
    ASSUME NEW t
    PROVE  FlattenSeq(t) = IF Len(t) = 0 THEN t ELSE FlatFold(t)[Len(t)]
BY DEF FlattenSeq, FlatFold, FlatStep

LEMMA FlatExists ==
    ASSUME NEW t, NEW m \in Nat
    PROVE  \E h : h = [i \in 1..m |-> FlatStep(t, h, i)]
<1>. DEFINE T == {n \in Nat : \E h : h = [i \in 1..n |-> FlatStep(t, h, i)]}
<1>1. 0 \in T
  <2>1. PICK h : h = [i \in 1..0 |-> t]
    OBVIOUS
  <2>2. h = [i \in 1..0 |-> FlatStep(t, h, i)]
    BY <2>1
  <2>. QED
    BY <2>2
<1>2. ASSUME NEW n \in Nat, n \in T PROVE n + 1 \in T
  <2>1. PICK h : h = [i \in 1..n |-> FlatStep(t, h, i)]
    BY <1>2
  <2>2. PICK g : g = [i \in 1..n + 1 |-> FlatStep(t, h, i)]
    OBVIOUS
  <2>3. \A i \in 1..n : g[i] = h[i]
    <3>1. ASSUME NEW i \in 1..n PROVE i \in 1..n + 1
      OBVIOUS
    <3>2. \A i \in 1..n : h[i] = FlatStep(t, h, i)
      BY <2>1
    <3>. QED
      BY <2>2, <3>1, <3>2
  <2>4. ASSUME NEW i \in 1..n + 1 PROVE FlatStep(t, h, i) = FlatStep(t, g, i)
    <3>1. i # 1 => i - 1 \in 1..n
      OBVIOUS
    <3>. QED
      BY <2>3, <3>1 DEF FlatStep
  <2>5. g = [i \in 1..n + 1 |-> FlatStep(t, g, i)]
    BY <2>2, <2>4
  <2>. QED
    BY <2>5
<1>3. Nat \subseteq T
  <2>. HIDE DEF T
  <2>. QED
    BY <1>1, <1>2, NatSetInduction
<1>. QED
  BY <1>3

LEMMA CutIs ==
    ASSUME NEW S, NEW f, NEW n \in Nat, \A r \in 1..n : f[r] \in S
    PROVE  Cut(f, n) \in Seq(S) /\ Len(Cut(f, n)) = n
<1>1. [r \in 1..n |-> f[r]] \in Seq(S) /\ Len([r \in 1..n |-> f[r]]) = n
  BY IsASeq
<1>. QED
  BY <1>1 DEF Cut

LEMMA FlatCut ==
    ASSUME NEW S, NEW f, NEW n \in Nat, \A r \in 1..n + 1 : f[r] \in Seq(S)
    PROVE  /\ FlattenSeq(Cut(f, 1)) = f[1]
           /\ n # 0 => FlattenSeq(Cut(f, n + 1)) = FlattenSeq(Cut(f, n)) \o f[n + 1]
<1>1. ASSUME NEW l \in 1..n + 1
      PROVE  \E h : /\ \A i \in 1..l : h[i] = FlatStep(f, h, i)
                    /\ FlattenSeq(Cut(f, l)) = h[l]
  <2>1. PICK t : t = Cut(f, l)
    OBVIOUS
  <2>2. l \in Nat /\ l # 0 /\ \A r \in 1..l : f[r] \in Seq(S)
    OBVIOUS
  <2>3. Len(t) = l /\ \A r \in 1..l : t[r] = f[r]
    <3>1. Len(Cut(f, l)) = l
      BY <2>2, CutIs
    <3>2. \A r \in 1..l : Cut(f, l)[r] = f[r]
      BY DEF Cut
    <3>. QED
      BY <2>1, <3>1, <3>2
  <2>4. PICK h : h = FlatFold(t)
    OBVIOUS
  <2>5. h = [i \in 1..l |-> FlatStep(t, h, i)]
    BY <2>2, <2>3, <2>4, FlatExists DEF FlatFold
  <2>6. \A i \in 1..l : h[i] = FlatStep(t, h, i)
    BY <2>5
  <2>7. \A i \in 1..l : h[i] = FlatStep(f, h, i)
    BY <2>3, <2>6 DEF FlatStep
  <2>8. FlattenSeq(t) = h[l]
    BY <2>2, <2>3, <2>4, FlatIs
  <2>. QED
    BY <2>1, <2>7, <2>8
<1>2. FlattenSeq(Cut(f, 1)) = f[1]
  <2>1. 1 \in 1..n + 1 /\ 1 \in 1..1
    OBVIOUS
  <2>2. PICK h : h[1] = FlatStep(f, h, 1) /\ FlattenSeq(Cut(f, 1)) = h[1]
    BY <1>1, <2>1
  <2>. QED
    BY <2>2 DEF FlatStep
<1>3. ASSUME n # 0 PROVE FlattenSeq(Cut(f, n + 1)) = FlattenSeq(Cut(f, n)) \o f[n + 1]
  <2>1. n \in 1..n + 1 /\ n + 1 \in 1..n + 1 /\ n + 1 # 1 /\ (n + 1) - 1 = n /\ n \in 1..n
    BY <1>3
  <2>2. PICK h : /\ \A i \in 1..n : h[i] = FlatStep(f, h, i)
                 /\ FlattenSeq(Cut(f, n)) = h[n]
    BY <1>1, <2>1
  <2>3. PICK g : /\ \A i \in 1..n + 1 : g[i] = FlatStep(f, g, i)
                 /\ FlattenSeq(Cut(f, n + 1)) = g[n + 1]
    BY <1>1, <2>1
  <2>. DEFINE T == {i \in Nat : i + 1 \in 1..n => g[i + 1] = h[i + 1]}
  <2>4. 0 \in T
    <3>1. 0 + 1 \in 1..n /\ 0 + 1 \in 1..n + 1 /\ 0 + 1 = 1
      BY <1>3
    <3>2. g[0 + 1] = f[1] /\ h[0 + 1] = f[1]
      BY <2>2, <2>3, <3>1 DEF FlatStep
    <3>. QED
      BY <3>2
  <2>5. ASSUME NEW i \in Nat, i \in T PROVE i + 1 \in T
    <3>. SUFFICES ASSUME (i + 1) + 1 \in 1..n PROVE g[(i + 1) + 1] = h[(i + 1) + 1]
      OBVIOUS
    <3>1. i + 1 \in 1..n /\ (i + 1) + 1 \in 1..n + 1 /\ (i + 1) + 1 # 1 /\ ((i + 1) + 1) - 1 = i + 1
      OBVIOUS
    <3>2. g[i + 1] = h[i + 1]
      BY <2>5, <3>1
    <3>3. g[(i + 1) + 1] = g[i + 1] \o f[(i + 1) + 1] /\ h[(i + 1) + 1] = h[i + 1] \o f[(i + 1) + 1]
      BY <2>2, <2>3, <3>1 DEF FlatStep
    <3>. QED
      BY <3>2, <3>3
  <2>6. n - 1 \in T
    <3>1. n - 1 \in Nat
      BY <1>3
    <3>. HIDE DEF T
    <3>. QED
      BY <2>4, <2>5, <3>1, NatSetInduction
  <2>7. g[n] = h[n]
    <3>1. (n - 1) + 1 = n
      OBVIOUS
    <3>. QED
      BY <2>1, <2>6, <3>1
  <2>8. g[n + 1] = g[n] \o f[n + 1]
    BY <2>1, <2>3 DEF FlatStep
  <2>. QED
    BY <2>2, <2>3, <2>7, <2>8
<1>. QED
  BY <1>2, <1>3

LEMMA Flattens ==
    ASSUME NEW S, NEW f, NEW n \in Nat, \A r \in 1..n : f[r] \in Seq(S)
    PROVE  /\ FlattenSeq(Cut(f, 0)) = <<>>
           /\ FlattenSeq(Cut(f, n)) \in Seq(S)
           /\ n # 0 => FlattenSeq(Cut(f, n)) = FlattenSeq(Cut(f, n - 1)) \o f[n]
<1>1. FlattenSeq(Cut(f, 0)) = <<>>
  <2>1. \A r \in 1..0 : f[r] \in S
    OBVIOUS
  <2>2. Cut(f, 0) \in Seq(S) /\ Len(Cut(f, 0)) = 0
    BY <2>1, CutIs
  <2>3. Cut(f, 0) = <<>>
    BY <2>2, EmptySeq
  <2>. QED
    BY <2>2, <2>3, FlatIs
<1>2. ASSUME NEW m \in Nat, m + 1 \in 1..n, FlattenSeq(Cut(f, m)) \in Seq(S)
      PROVE  /\ FlattenSeq(Cut(f, m + 1)) = FlattenSeq(Cut(f, m)) \o f[m + 1]
             /\ FlattenSeq(Cut(f, m + 1)) \in Seq(S)
  <2>1. \A r \in 1..m + 1 : f[r] \in Seq(S)
    BY <1>2
  <2>2. f[m + 1] \in Seq(S)
    BY <1>2
  <2>3. FlattenSeq(Cut(f, m + 1)) = FlattenSeq(Cut(f, m)) \o f[m + 1]
    <3>1. CASE m # 0
      BY <2>1, <3>1, FlatCut
    <3>2. CASE m = 0
      <4>1. FlattenSeq(Cut(f, m + 1)) = f[m + 1]
        <5>1. FlattenSeq(Cut(f, 1)) = f[1]
          BY <2>1, FlatCut
        <5>2. m + 1 = 1
          BY <3>2
        <5>. QED
          BY <5>1, <5>2
      <4>2. <<>> \o f[m + 1] = f[m + 1]
        BY <2>2, ConcatEmptySeq
      <4>. QED
        BY <1>1, <3>2, <4>1, <4>2
    <3>. QED
      BY <3>1, <3>2
  <2>. QED
    BY <1>2, <2>2, <2>3, ConcatTyped
<1>. DEFINE T == {m \in Nat : m <= n => FlattenSeq(Cut(f, m)) \in Seq(S)}
<1>3. 0 \in T
  BY <1>1, EmptySeq
<1>4. ASSUME NEW m \in Nat, m \in T PROVE m + 1 \in T
  <2>. SUFFICES ASSUME m + 1 <= n PROVE FlattenSeq(Cut(f, m + 1)) \in Seq(S)
    OBVIOUS
  <2>1. m + 1 \in 1..n /\ m <= n
    OBVIOUS
  <2>. QED
    BY <1>2, <1>4, <2>1
<1>5. Nat \subseteq T
  <2>. HIDE DEF T
  <2>. QED
    BY <1>3, <1>4, NatSetInduction
<1>6. ASSUME n # 0 PROVE FlattenSeq(Cut(f, n)) = FlattenSeq(Cut(f, n - 1)) \o f[n]
  <2>1. n - 1 \in Nat /\ (n - 1) + 1 = n /\ n \in 1..n /\ n - 1 <= n
    BY <1>6
  <2>2. FlattenSeq(Cut(f, n - 1)) \in Seq(S)
    BY <1>5, <2>1
  <2>3. FlattenSeq(Cut(f, (n - 1) + 1)) = FlattenSeq(Cut(f, n - 1)) \o f[(n - 1) + 1]
    <3>1. (n - 1) + 1 \in 1..n
      BY <2>1
    <3>. QED
      BY <1>2, <2>1, <2>2, <3>1
  <2>. QED
    BY <2>1, <2>3
<1>7. FlattenSeq(Cut(f, n)) \in Seq(S)
  BY <1>5
<1>. HIDE DEF T
<1>. QED
  BY <1>1, <1>6, <1>7


LEMMA CutGrows ==
    ASSUME NEW S, NEW f, NEW n \in Nat, NEW m \in Nat, n <= m,
           \A r \in 1..m : f[r] \in Seq(S)
    PROVE  Starts(S, FlattenSeq(Cut(f, m)), FlattenSeq(Cut(f, n)))
<1>. DEFINE T == {l \in Nat : n + l <= m =>
                     Starts(S, FlattenSeq(Cut(f, n + l)), FlattenSeq(Cut(f, n)))}
<1>1. \A l \in 0..m : FlattenSeq(Cut(f, l)) \in Seq(S)
  <2>. SUFFICES ASSUME NEW l \in 0..m PROVE FlattenSeq(Cut(f, l)) \in Seq(S)
    OBVIOUS
  <2>1. l \in Nat /\ \A r \in 1..l : f[r] \in Seq(S)
    OBVIOUS
  <2>. QED
    BY <2>1, Flattens
<1>2. 0 \in T
  <2>1. FlattenSeq(Cut(f, n)) \o <<>> = FlattenSeq(Cut(f, n)) /\ <<>> \in Seq(S)
    BY <1>1, EmptySeq, ConcatEmptySeq
  <2>2. n + 0 = n
    OBVIOUS
  <2>. QED
    BY <2>1, <2>2 DEF Starts, Split
<1>3. ASSUME NEW l \in Nat, l \in T PROVE l + 1 \in T
  <2>. SUFFICES ASSUME n + (l + 1) <= m
                PROVE  Starts(S, FlattenSeq(Cut(f, n + (l + 1))), FlattenSeq(Cut(f, n)))
    OBVIOUS
  <2>1. PICK i \in Nat : i = n + (l + 1)
    OBVIOUS
  <2>2. i # 0 /\ i \in 1..m /\ i - 1 = n + l /\ n + l <= m /\ n + l \in 0..m /\ n \in 0..m
    BY <2>1
  <2>3. PICK rest \in Seq(S) : FlattenSeq(Cut(f, n + l)) = FlattenSeq(Cut(f, n)) \o rest
    BY <1>3, <2>2 DEF Starts, Split
  <2>4. FlattenSeq(Cut(f, i)) = FlattenSeq(Cut(f, n + l)) \o f[i]
    <3>1. \A r \in 1..i : f[r] \in Seq(S)
      BY <2>2
    <3>2. FlattenSeq(Cut(f, i)) = FlattenSeq(Cut(f, i - 1)) \o f[i]
      BY <2>2, <3>1, Flattens
    <3>. QED
      BY <2>2, <3>2
  <2>5. f[i] \in Seq(S) /\ rest \o f[i] \in Seq(S)
    BY <2>2, <2>3, ConcatTyped
  <2>6. FlattenSeq(Cut(f, i)) = FlattenSeq(Cut(f, n)) \o (rest \o f[i])
    <3>1. PICK x \in Seq(S) : x = FlattenSeq(Cut(f, n))
      BY <1>1, <2>2
    <3>2. PICK y \in Seq(S) : y = f[i]
      BY <2>5
    <3>3. (x \o rest) \o y = x \o (rest \o y)
      BY Associative
    <3>. QED
      BY <2>3, <2>4, <3>1, <3>2, <3>3
  <2>. QED
    BY <2>1, <2>5, <2>6 DEF Starts, Split
<1>4. m - n \in T
  <2>1. m - n \in Nat
    OBVIOUS
  <2>. HIDE DEF T
  <2>. QED
    BY <1>2, <1>3, <2>1, NatSetInduction
<1>. QED
  <2>1. n + (m - n) = m
    OBVIOUS
  <2>. QED
    BY <1>4, <2>1

-----------------------------------------------------------------------------
(***************************************************************************)
(* The frames for the first n requests in a stream of bytes.               *)
(***************************************************************************)
Frames(s) == [r \in Nat |-> Frame(ReqAt(s, r))]
Framing(s, n) == FlattenSeq(Cut(Frames(s), n))

LEMMA FrameTyped ==
    ASSUME NEW req \in Seq(ReqByte), Header(req) \in Headers
    PROVE  Frame(req) \in Seq(AnsByte)
BY PartTyped, ConcatTyped DEF Frame

LEMMA FramesTyped ==
    ASSUME NEW s \in Seq(ReqByte), WellHeaded(s), NEW n \in Nat, n * ReqLen <= Len(s)
    PROVE  \A r \in 1..n : Frames(s)[r] \in Seq(AnsByte)
<1>. SUFFICES ASSUME NEW r \in 1..n PROVE Frames(s)[r] \in Seq(AnsByte)
  OBVIOUS
<1>1. PICK q \in Nat : r = q + 1
  <2>1. r - 1 \in Nat /\ r = (r - 1) + 1
    OBVIOUS
  <2>. QED
    BY <2>1
<1>2. q * ReqLen + ReqLen <= Len(s)
  <2>1. q * ReqLen + ReqLen <= n * ReqLen
    BY <1>1, Place
  <2>2. q * ReqLen \in Nat /\ ReqLen \in Nat /\ n * ReqLen \in Nat /\ Len(s) \in Nat
    BY <1>1, Place, Elements
  <2>. QED
    BY <2>1, <2>2
<1>3. ReqAt(s, r) \in Seq(ReqByte) /\ Header(ReqAt(s, r)) \in Headers
  BY <1>1, <1>2, RequestAt
<1>. QED
  BY <1>3, FrameTyped DEF Frames

LEMMA FramingStays ==
    ASSUME NEW s \in Seq(ReqByte), NEW t \in Seq(ReqByte), Starts(ReqByte, t, s),
           NEW n \in Nat, n * ReqLen <= Len(s)
    PROVE  Framing(t, n) = Framing(s, n)
<1>1. ASSUME NEW r \in 1..n PROVE Frames(t)[r] = Frames(s)[r]
  <2>1. PICK q \in Nat : r = q + 1
    <3>1. r - 1 \in Nat /\ r = (r - 1) + 1
      OBVIOUS
    <3>. QED
      BY <3>1
  <2>2. q * ReqLen + ReqLen <= Len(s)
    <3>1. q * ReqLen + ReqLen <= n * ReqLen
      BY <2>1, Place
    <3>2. q * ReqLen \in Nat /\ ReqLen \in Nat /\ n * ReqLen \in Nat /\ Len(s) \in Nat
      BY <2>1, Place, Elements
    <3>. QED
      BY <3>1, <3>2
  <2>3. ReqAt(t, r) = ReqAt(s, r)
    BY <2>1, <2>2, RequestStays
  <2>. QED
    BY <2>3 DEF Frames
<1>2. Cut(Frames(t), n) = Cut(Frames(s), n)
  BY <1>1 DEF Cut
<1>. QED
  BY <1>2 DEF Framing

(***************************************************************************)
(* One frame more, and any number.                                         *)
(***************************************************************************)
LEMMA FramingNext ==
    ASSUME NEW s \in Seq(ReqByte), WellHeaded(s), NEW n \in Nat, n * ReqLen + ReqLen <= Len(s)
    PROVE  /\ Framing(s, n) \in Seq(AnsByte)
           /\ Framing(s, n + 1) = Framing(s, n) \o Frame(ReqAt(s, n + 1))
           /\ Framing(s, n + 1) \in Seq(AnsByte)
<1>1. (n + 1) * ReqLen <= Len(s)
  BY Place
<1>2. \A r \in 1..n + 1 : Frames(s)[r] \in Seq(AnsByte)
  BY <1>1, FramesTyped
<1>3. /\ n + 1 # 0 /\ (n + 1) - 1 = n /\ n + 1 \in Nat
      /\ \A r \in 1..n : Frames(s)[r] \in Seq(AnsByte)
  BY <1>2
<1>4. FlattenSeq(Cut(Frames(s), n)) \in Seq(AnsByte)
  BY <1>3, Flattens
<1>5. /\ FlattenSeq(Cut(Frames(s), n + 1)) \in Seq(AnsByte)
      /\ FlattenSeq(Cut(Frames(s), n + 1)) =
             FlattenSeq(Cut(Frames(s), (n + 1) - 1)) \o Frames(s)[n + 1]
  BY <1>2, <1>3, Flattens
<1>6. Frames(s)[n + 1] = Frame(ReqAt(s, n + 1))
  BY DEF Frames
<1>. QED
  BY <1>3, <1>4, <1>5, <1>6 DEF Framing


-----------------------------------------------------------------------------
(***************************************************************************)
(* What has been made of answers on a connection: the frames for the       *)
(* requests that handle has read, but for the PNG when a kid is between    *)
(* the two parts, and the beginning of them once the client is deleted.    *)
(***************************************************************************)
Between(c) == \E k \in Kids : pc[k] = "png" /\ Head(todo[k]) = c
FramedBy(c, n) ==
    /\ Len(eaten[c]) = n * ReqLen
    /\ Starts(AnsByte, Framing(sent[c], n), made[c])
    /\ phase[c] # "closed" =>
           /\ ~Between(c) => made[c] = Framing(sent[c], n)
           /\ Between(c) => Framing(sent[c], n) = made[c] \o Png(Asked(c))
FrameInv == \A c \in Conns : \E n \in Nat : FramedBy(c, n)

LEMMA SameFrames ==
    ASSUME NEW c \in Conns, NEW n \in Nat, FramedBy(c, n),
           eaten'[c] = eaten[c], made'[c] = made[c],
           Framing(sent'[c], n) = Framing(sent[c], n),
           phase'[c] # "closed" => phase[c] # "closed" /\ (Between(c)' <=> Between(c))
    PROVE  FramedBy(c, n)'
<1>1. Asked(c)' = Asked(c)
  BY DEF Asked
<1>2. /\ Len(eaten[c]) = n * ReqLen
      /\ Starts(AnsByte, Framing(sent[c], n), made[c])
      /\ phase[c] # "closed" =>
             /\ ~Between(c) => made[c] = Framing(sent[c], n)
             /\ Between(c) => Framing(sent[c], n) = made[c] \o Png(Asked(c))
  BY DEF FramedBy
<1>3. Len(eaten'[c]) = n * ReqLen /\ Starts(AnsByte, Framing(sent'[c], n), made'[c])
  BY <1>2
<1>4. phase'[c] # "closed" =>
          /\ ~Between(c)' => made'[c] = Framing(sent'[c], n)
          /\ Between(c)' => Framing(sent'[c], n) = made'[c] \o Png(Asked(c)')
  BY <1>1, <1>2
<1>. QED
  BY <1>3, <1>4, Zenon DEF FramedBy

LEMMA LoopFrames ==
    ASSUME TypeOK, OwnerInv, FrameInv, NEW k \in Kids, Loop(k)
    PROVE  FrameInv'
<1>. USE DEF procVars, peerVars, history
<1>. SUFFICES ASSUME NEW c \in Conns PROVE (\E n \in Nat : FramedBy(c, n))'
  BY DEF FrameInv
<1>1. PICK n \in Nat : FramedBy(c, n)
  BY DEF FrameInv
<1>2. UNCHANGED <<sent, eaten, made>>
  BY ZenonT(60) DEF Loop, Select, SelectFails, Accept, AcceptNone, Slurp, SlurpFails, NoSlurp,
            Flush, FlushFails, NoFlush, StartHandling, Handled, EndTurn
<1>3. Between(c)' <=> Between(c)
  <2>1. pc[k] # "png"
    <3>1. pc[k] \in {"select", "accept", "slurp", "flush", "handle"}
      BY ZenonT(60) DEF Loop, Select, SelectFails, Accept, AcceptNone, Slurp, SlurpFails,
                NoSlurp, Flush, FlushFails, NoFlush, StartHandling, Handled, EndTurn
    <3>. QED
      BY <3>1
  <2>2. pc'[k] # "png"
    BY LoopLeavesPng
  <2>3. /\ pc' = pc \/ \E x : pc' = [pc EXCEPT ![k] = x]
        /\ todo' = todo \/ \E x : todo' = [todo EXCEPT ![k] = x]
    BY ZenonT(60) DEF Loop, Select, SelectFails, Accept, AcceptNone, Slurp, SlurpFails, NoSlurp,
              Flush, FlushFails, NoFlush, StartHandling, Handled, EndTurn, Close
  <2>4. \A j \in Kids : j # k => pc'[j] = pc[j] /\ todo'[j] = todo[j]
    BY <2>3 DEF TypeOK
  <2>. QED
    BY <2>1, <2>2, <2>4 DEF Between
<1>4. phase'[c] # "closed" => phase[c] # "closed"
  <2>1. CASE Accept(k)
    <3>1. PICK e : e = Head(backlog) /\ backlog # <<>> /\ phase' = [phase EXCEPT ![e] = "open"]
      BY <2>1 DEF Accept
    <3>2. phase[e] = "queued"
      <4>1. backlog \in Seq(Conns)
        BY DEF TypeOK
      <4>2. e \in Conns /\ Len(backlog) \in Nat /\ Len(backlog) > 0
        BY <3>1, <4>1, HeadTail, Elements
      <4>3. e = backlog[1] /\ 1 \in 1..Len(backlog)
        BY <3>1, <4>1, <4>2
      <4>. QED
        BY <4>2, <4>3 DEF OwnerInv, QueuedOnce
    <3>. QED
      BY <3>1, <3>2 DEF TypeOK
  <2>2. CASE ~Accept(k)
    <3>1. phase' = phase \/ \E d : phase' = [phase EXCEPT ![d] = "closed"]
      BY <2>2, ZenonT(60) DEF Loop, Select, SelectFails, AcceptNone, Slurp, SlurpFails, NoSlurp,
              Flush, FlushFails, NoFlush, StartHandling, Handled, EndTurn, Close
    <3>. QED
      BY <3>1 DEF TypeOK
  <2>. QED
    BY <2>1, <2>2
<1>5. FramedBy(c, n)'
  <2>1. /\ eaten'[c] = eaten[c] /\ made'[c] = made[c]
        /\ Framing(sent'[c], n) = Framing(sent[c], n)
    BY <1>2
  <2>. QED
    BY <1>1, <1>3, <1>4, <2>1, SameFrames
<1>. QED
  BY <1>5

LEMMA PeerFrames ==
    ASSUME TypeOK, RequestStream, FrameInv, NEW c \in Conns, NEW answered, Peer(c, answered),
           TypeOK'
    PROVE  FrameInv'
<1>. USE DEF procVars, peerVars, history
<1>. SUFFICES ASSUME NEW d \in Conns PROVE (\E n \in Nat : FramedBy(d, n))'
  BY DEF FrameInv
<1>1. PICK n \in Nat : FramedBy(d, n)
  BY DEF FrameInv
<1>2. UNCHANGED <<pc, todo, eaten, made>>
  BY ZenonT(60) DEF Peer, Connect, Send, Receive, Finish, Vanish
<1>3. Between(d)' <=> Between(d)
  BY <1>2 DEF Between
<1>4. phase'[d] # "closed" => phase[d] # "closed"
  <2>1. CASE Connect(c)
    BY <2>1 DEF Connect, TypeOK
  <2>2. CASE ~Connect(c)
    <3>1. phase' = phase
      BY <2>2, ZenonT(60) DEF Peer, Send, Receive, Finish, Vanish
    <3>. QED
      BY <3>1
  <2>. QED
    BY <2>1, <2>2
<1>5. Framing(sent'[d], n) = Framing(sent[d], n)
  <2>1. CASE Send(c, answered)
    <3>1. sent' = sent \/ \E b : sent' = [sent EXCEPT ![c] = Append(sent[c], b)]
      BY <2>1 DEF Send
    <3>2. CASE sent'[d] = sent[d]
      BY <3>2
    <3>3. CASE sent'[d] # sent[d]
      <4>1. PICK b : sent'[d] = Append(sent[d], b)
        <5>1. sent \in [Conns -> Seq(ReqByte)]
          BY DEF TypeOK
        <5>2. PICK b : sent' = [sent EXCEPT ![c] = Append(sent[c], b)]
          BY <3>1, <3>3
        <5>3. d = c
          BY <3>3, <5>1, <5>2
        <5>4. sent'[c] = Append(sent[c], b)
          BY <5>1, <5>2
        <5>. QED
          BY <5>3, <5>4
      <4>2. PICK s : s = Append(sent[d], b)
        OBVIOUS
      <4>3. sent[d] \in Seq(ReqByte) /\ s \in Seq(ReqByte)
        <5>1. sent'[d] \in Seq(ReqByte)
          BY DEF TypeOK
        <5>. QED
          BY <4>1, <4>2, <5>1, Sizes
      <4>4. b \in ReqByte
        <5>1. sent[d] \in Seq(ReqByte \cup {b}) /\ b \in ReqByte \cup {b}
          <6>1. Seq(ReqByte) \subseteq Seq(ReqByte \cup {b})
            OBVIOUS
          <6>. QED
            BY <4>3, <6>1
        <5>2. Len(s) = Len(sent[d]) + 1 /\ s[Len(sent[d]) + 1] = b /\ Len(sent[d]) \in Nat
          BY <4>2, <5>1, AppendProperties, Elements
        <5>3. Len(s) \in 1..Len(s)
          BY <5>2
        <5>. QED
          BY <4>3, <5>2, <5>3, Elements
      <4>5. s = sent[d] \o <<b>> /\ <<b>> \in Seq(ReqByte)
        BY <4>2, <4>3, <4>4, AppendTyped
      <4>6. Starts(ReqByte, s, sent[d])
        BY <4>5 DEF Starts, Split
      <4>7. n * ReqLen <= Len(sent[d])
        BY <1>1, EatenWithin DEF FramedBy
      <4>8. Framing(s, n) = Framing(sent[d], n)
        BY <4>3, <4>6, <4>7, FramingStays
      <4>. QED
        BY <4>1, <4>2, <4>8
    <3>. QED
      BY <3>2, <3>3
  <2>2. CASE ~Send(c, answered)
    <3>1. sent' = sent
      BY <2>2, ZenonT(60) DEF Peer, Connect, Receive, Finish, Vanish
    <3>. QED
      BY <3>1
  <2>. QED
    BY <2>1, <2>2
<1>6. FramedBy(d, n)'
  <2>1. eaten'[d] = eaten[d] /\ made'[d] = made[d]
    BY <1>2
  <2>. QED
    BY <1>1, <1>3, <1>4, <1>5, <2>1, SameFrames
<1>. QED
  BY <1>6


(***************************************************************************)
(* Reading a request: its frame is the next.                               *)
(***************************************************************************)
LEMMA NextFrame ==
    ASSUME TypeOK, RequestStream, Aligned, NEW c \in Conns, CanRead(inp[c], ReqLen), Reads(c),
           NEW n \in Nat, Len(eaten[c]) = n * ReqLen, NEW req, req = Request(c)
    PROVE  /\ Len(eaten'[c]) = (n + 1) * ReqLen
           /\ Framing(sent[c], n) \in Seq(AnsByte)
           /\ Framing(sent[c], n + 1) = Framing(sent[c], n) \o Frame(req)
<1>1. /\ req \in Seq(ReqByte) /\ eaten'[c] \in Seq(ReqByte) /\ inp'[c] \in Seq(ReqByte)
      /\ Stream(sent[c], eaten'[c], inp'[c], up[c])
  BY Read DEF TypeOK
<1>2. sent[c] \in Seq(ReqByte) /\ up[c] \in Seq(ReqByte) /\ eaten[c] \in Seq(ReqByte)
  BY Sizes
<1>3. eaten'[c] = eaten[c] \o req
  BY DEF Reads, TypeOK
<1>4. Len(req) = ReqLen
  <2>1. inp[c] \in Seq(ReqByte) /\ ReqLen \in 0..Len(inp[c])
    BY Sizes, ServerAssumption DEF CanRead
  <2>. QED
    BY <2>1, TakeDrop DEF Request
<1>5. Starts(ReqByte, sent[c], eaten[c] \o req)
  <2>1. Starts(ReqByte, sent[c], eaten'[c])
    BY <1>1, <1>2, StartOfStream
  <2>. QED
    BY <1>3, <2>1
<1>6. /\ Len(eaten[c] \o req) = (n + 1) * ReqLen
      /\ ReqAt(sent[c], n + 1) = req /\ n * ReqLen + ReqLen <= Len(sent[c])
  <2>1. \A s, e, q \in Seq(ReqByte) :
            Len(e) = n * ReqLen /\ Len(q) = ReqLen /\ Starts(ReqByte, s, e \o q) =>
                /\ Len(e \o q) = (n + 1) * ReqLen
                /\ ReqAt(s, n + 1) = q /\ n * ReqLen + ReqLen <= Len(s)
    BY NextRequest, Zenon
  <2>. QED
    BY <1>1, <1>2, <1>4, <1>5, <2>1, Zenon
<1>7. WellHeaded(sent[c])
  BY DEF Aligned, WellHeaded
<1>. QED
  BY <1>2, <1>3, <1>6, <1>7, FramingNext

LEMMA HandleFrames ==
    ASSUME TypeOK, OwnerInv, RequestStream, Aligned, PngReady, FrameInv,
           NEW k \in Kids, Handle(k)
    PROVE  FrameInv'
<1>. USE DEF procVars, peerVars, history
<1>1. PICK c \in Conns : /\ c = Head(todo[k]) /\ todo[k] # <<>> /\ c \in Members(k)
                         /\ phase[c] = "open" /\ UNCHANGED sent
  BY Handling, Visited
<1>2. /\ pc' = pc \/ \E x : pc' = [pc EXCEPT ![k] = x]
      /\ todo' = todo \/ \E x : todo' = [todo EXCEPT ![k] = x]
      /\ phase' = phase \/ \E x : phase' = [phase EXCEPT ![c] = x]
      /\ made' = made \/ \E x : made' = [made EXCEPT ![c] = x]
      /\ eaten' = eaten \/ \E x : eaten' = [eaten EXCEPT ![c] = x]
  BY <1>1, ZenonT(60) DEF Handle, Refuse, ServeLength, LengthFails, ServePng, PngFails, PartFails,
            WritePart, Reads, Close
<1>3. /\ \A j \in Kids : j # k => pc'[j] = pc[j] /\ todo'[j] = todo[j]
      /\ \A d \in Conns : d # c => phase'[d] = phase[d] /\ made'[d] = made[d] /\ eaten'[d] = eaten[d]
  BY <1>2 DEF TypeOK
<1>4. \A j \in Kids : j # k /\ pc[j] = "png" => Head(todo[j]) # c
  <2>. SUFFICES ASSUME NEW j \in Kids, j # k, pc[j] = "png" PROVE Head(todo[j]) # c
    OBVIOUS
  <2>1. todo[j] # <<>>
    BY DEF PngReady
  <2>2. Head(todo[j]) \in Members(j)
    BY <2>1, Visited
  <2>3. c \notin Members(j)
    BY <1>1, Visited
  <2>. QED
    BY <2>2, <2>3
<1>5. Between(c) <=> pc[k] = "png"
  BY <1>1, <1>4 DEF Between
<1>6. ASSUME pc'[k] = "png"
      PROVE  ServeLength(k) /\ todo' = todo /\ phase' = phase
  <2>1. CASE ServeLength(k)
    <3>1. PICK next, part : next = "png" /\ WritePart(k, c, part, next)
      BY <1>1, <2>1 DEF ServeLength
    <3>2. pc' # [pc EXCEPT ![k] = "handle"]
      BY <1>6 DEF TypeOK
    <3>. QED
      BY <2>1, <3>1, <3>2, Zenon DEF WritePart
  <2>2. CASE Refuse(k)
    BY <1>6, <2>2 DEF Refuse, Pending
  <2>3. CASE LengthFails(k) \/ PngFails(k)
    <3>1. pc' = [pc EXCEPT ![k] = "handle"]
      BY <2>3, Zenon DEF LengthFails, PngFails, PartFails
    <3>. QED
      BY <1>6, <3>1 DEF TypeOK
  <2>4. CASE ServePng(k)
    <3>1. pc' = [pc EXCEPT ![k] = "handle"]
      BY <2>4, Zenon DEF ServePng, WritePart
    <3>. QED
      BY <1>6, <3>1 DEF TypeOK
  <2>. QED
    BY <2>1, <2>2, <2>3, <2>4 DEF Handle
<1>7. ASSUME NEW d \in Conns, d # c PROVE (\E n \in Nat : FramedBy(d, n))'
  <2>1. PICK n \in Nat : FramedBy(d, n)
    BY DEF FrameInv
  <2>2. pc'[k] = "png" => Head(todo'[k]) = c
    BY <1>1, <1>6
  <2>3. Between(d)' <=> Between(d)
    BY <1>1, <1>3, <1>7, <2>2 DEF Between
  <2>4. /\ eaten'[d] = eaten[d] /\ made'[d] = made[d] /\ phase'[d] = phase[d]
        /\ Framing(sent'[d], n) = Framing(sent[d], n)
    BY <1>1, <1>3, <1>7
  <2>5. FramedBy(d, n)'
    BY <2>1, <2>3, <2>4, SameFrames
  <2>. QED
    BY <2>5
<1>8. (\E n \in Nat : FramedBy(c, n))'
  <2>1. PICK n \in Nat : FramedBy(c, n)
    BY DEF FrameInv
  <2>2. /\ Len(eaten[c]) = n * ReqLen
        /\ ~Between(c) => made[c] = Framing(sent[c], n)
        /\ Between(c) => Framing(sent[c], n) = made[c] \o Png(Asked(c))
    BY <1>1, <2>1 DEF FramedBy
  <2>3. made[c] \in Seq(AnsByte) /\ made \in [Conns -> Seq(AnsByte)]
    BY Sizes DEF TypeOK
  <2>4. CASE Refuse(k) \/ LengthFails(k)
    <3>1. /\ pc[k] = "handle" /\ CanRead(inp[c], ReqLen) /\ Reads(c)
          /\ phase' = [phase EXCEPT ![c] = "closed"] /\ made' = made
      BY <1>1, <2>4, Zenon DEF Refuse, LengthFails, PartFails, Close, Pending
    <3>2. PICK req : req = Request(c)
      OBVIOUS
    <3>3. /\ Len(eaten'[c]) = (n + 1) * ReqLen
          /\ Framing(sent[c], n + 1) = made[c] \o Frame(req)
      BY <1>5, <2>2, <3>1, <3>2, NextFrame
    <3>4. Frame(req) \in Seq(AnsByte)
      BY <3>1, <3>2, Read, FrameTyped
    <3>5. phase'[c] = "closed"
      BY <3>1 DEF TypeOK
    <3>6. Starts(AnsByte, Framing(sent'[c], n + 1), made'[c])
      BY <1>1, <3>1, <3>3, <3>4 DEF Starts, Split
    <3>7. n + 1 \in Nat /\ FramedBy(c, n + 1)'
      BY <3>3, <3>5, <3>6 DEF FramedBy
    <3>. QED
      BY <3>7
  <2>5. CASE ServeLength(k)
    <3>1. PICK req : req = Request(c)
      OBVIOUS
    <3>2. /\ pc[k] = "handle" /\ CanRead(inp[c], ReqLen) /\ Reads(c)
          /\ WritePart(k, c, Length(req), "png")
      BY <1>1, <2>5, <3>1 DEF ServeLength, Pending
    <3>3. /\ Len(eaten'[c]) = (n + 1) * ReqLen
          /\ Framing(sent[c], n + 1) = made[c] \o Frame(req)
      BY <1>5, <2>2, <3>1, <3>2, NextFrame
    <3>4. /\ req \in Seq(ReqByte) /\ Header(req) \in Headers
          /\ Drop(eaten'[c], Len(eaten'[c]) - ReqLen) = req
      BY <3>1, <3>2, Read
    <3>5. PICK a \in Seq(AnsByte), b \in Seq(AnsByte) : a = Length(req) /\ b = Png(req)
      BY <3>4, PartTyped
    <3>6. made'[c] = made[c] \o a
      <4>1. made' = [made EXCEPT ![c] = made[c] \o a]
        BY <3>2, <3>5, Zenon DEF WritePart
      <4>. QED
        BY <2>3, <4>1
    <3>7. Framing(sent'[c], n + 1) = made'[c] \o b
      <4>1. (made[c] \o a) \o b = made[c] \o (a \o b)
        BY <2>3, Associative
      <4>. QED
        BY <1>1, <3>3, <3>5, <3>6, <4>1 DEF Frame
    <3>8. phase'[c] # "closed" => Between(c)'
      <4>1. \/ pc' = [pc EXCEPT ![k] = "png"]
            \/ phase' = [phase EXCEPT ![c] = "closed"]
        BY <3>2, Zenon DEF WritePart, Close
      <4>2. CASE phase' = [phase EXCEPT ![c] = "closed"]
        BY <4>2 DEF TypeOK
      <4>3. CASE pc' = [pc EXCEPT ![k] = "png"]
        <5>1. pc'[k] = "png"
          BY <4>3 DEF TypeOK
        <5>2. Head(todo'[k]) = c
          BY <1>1, <1>6, <5>1
        <5>. QED
          BY <5>1, <5>2 DEF Between
      <4>. QED
        BY <4>1, <4>2, <4>3
    <3>9. Asked(c)' = req
      BY <3>4 DEF Asked
    <3>10. Starts(AnsByte, Framing(sent'[c], n + 1), made'[c])
      BY <3>7 DEF Starts, Split
    <3>11. FramedBy(c, n + 1)'
      <4>1. Framing(sent'[c], n + 1) = made'[c] \o Png(Asked(c)')
        BY <3>5, <3>7, <3>9
      <4>. QED
        BY <3>3, <3>8, <3>10, <4>1, Zenon DEF FramedBy
    <3>12. n + 1 \in Nat
      OBVIOUS
    <3>. QED
      BY <3>11, <3>12
  <2>6. CASE ServePng(k)
    <3>1. PICK req : req = Asked(c)
      OBVIOUS
    <3>2. /\ pc[k] = "png" /\ WritePart(k, c, Png(req), "handle")
          /\ eaten' = eaten
      BY <1>1, <2>6, <3>1 DEF ServePng
    <3>3. made'[c] = made[c] \o Png(req)
      <4>1. made' = [made EXCEPT ![c] = made[c] \o Png(req)]
        BY <3>2, Zenon DEF WritePart
      <4>. QED
        BY <2>3, <4>1
    <3>4. made'[c] = Framing(sent'[c], n)
      BY <1>1, <1>5, <2>2, <3>1, <3>2, <3>3
    <3>5. ~Between(c)'
      <4>1. pc'[k] = "handle"
        <5>1. pc' = [pc EXCEPT ![k] = "handle"]
          BY <3>2, Zenon DEF WritePart
        <5>. QED
          BY <5>1 DEF TypeOK
      <4>. QED
        BY <1>3, <1>4, <4>1 DEF Between
    <3>6. Starts(AnsByte, Framing(sent'[c], n), made'[c])
      <4>1. Png(req) \in Seq(AnsByte)
        BY <1>1, <3>1, <3>2, PartTyped DEF PngReady, PngFits
      <4>2. made'[c] \in Seq(AnsByte)
        BY <2>3, <3>3, <4>1, ConcatTyped
      <4>3. made'[c] \o <<>> = made'[c] /\ <<>> \in Seq(AnsByte)
        BY <4>2, ConcatEmptySeq, EmptySeq
      <4>. QED
        BY <3>4, <4>3 DEF Starts, Split
    <3>7. Len(eaten'[c]) = n * ReqLen
      BY <2>2, <3>2
    <3>8. FramedBy(c, n)'
      BY <3>4, <3>5, <3>6, <3>7, Zenon DEF FramedBy
    <3>. QED
      BY <3>8
  <2>7. CASE PngFails(k)
    <3>1. phase' = [phase EXCEPT ![c] = "closed"] /\ eaten' = eaten /\ made' = made
      BY <1>1, <2>7, Zenon DEF PngFails, PartFails, Close
    <3>2. phase'[c] = "closed"
      BY <3>1 DEF TypeOK
    <3>3. FramedBy(c, n)'
      BY <1>1, <2>1, <3>1, <3>2, SameFrames
    <3>. QED
      BY <3>3
  <2>. QED
    BY <2>4, <2>5, <2>6, <2>7 DEF Handle
<1>9. \A d \in Conns : (\E n \in Nat : FramedBy(d, n))'
  BY <1>7, <1>8
<1>. QED
  BY <1>9 DEF FrameInv


LEMMA InitFrames == Init => FrameInv
<1>. SUFFICES ASSUME ServerInit, NEW c \in Conns PROVE \E n \in Nat : FramedBy(c, n)
  BY DEF Init, FrameInv
<1>1. /\ sent[c] = <<>> /\ eaten[c] = <<>> /\ made[c] = <<>> /\ ~Between(c)
  BY DEF ServerInit, Between
<1>2. Len(<<>>) = 0 * ReqLen
  BY ServerAssumption
<1>3. Framing(<<>>, 0) = <<>>
  <2>1. \A r \in 1..0 : Frames(<<>>)[r] \in Seq(AnsByte)
    OBVIOUS
  <2>2. FlattenSeq(Cut(Frames(<<>>), 0)) = <<>>
    BY <2>1, Flattens
  <2>. QED
    BY <2>2 DEF Framing
<1>4. Starts(AnsByte, <<>>, <<>>)
  <2>1. <<>> \o <<>> = <<>> /\ <<>> \in Seq(AnsByte)
    BY ConcatEmptySeq, EmptySeq
  <2>. QED
    BY <2>1 DEF Starts, Split
<1>5. FramedBy(c, 0)
  BY <1>1, <1>2, <1>3, <1>4 DEF FramedBy
<1>. QED
  BY <1>5

LEMMA FramesStep == TileInv /\ FrameInv /\ [Next]_vars => FrameInv'
<1>. SUFFICES ASSUME TileInv, FrameInv, [Next]_vars PROVE FrameInv'
  OBVIOUS
<1>1. TypeOK /\ OwnerInv /\ RequestStream /\ Aligned /\ PngReady
  BY DEF TileInv
<1>2. CASE UNCHANGED vars
  <2>1. UNCHANGED <<sent, eaten, made, phase, pc, todo>>
    BY <1>2 DEF vars, procVars, peerVars, history
  <2>2. ASSUME NEW c \in Conns, NEW n \in Nat, FramedBy(c, n) PROVE FramedBy(c, n)'
    <3>1. Between(c)' <=> Between(c)
      BY <2>1 DEF Between
    <3>. QED
      BY <2>1, <2>2, <3>1, SameFrames
  <2>. QED
    BY <2>2 DEF FrameInv
<1>3. ASSUME NEW k \in Kids, Loop(k) PROVE FrameInv'
  BY <1>1, <1>3, LoopFrames
<1>4. ASSUME NEW k \in Kids, Handle(k) PROVE FrameInv'
  BY <1>1, <1>4, HandleFrames
<1>5. ASSUME NEW c \in Conns, Peer(c, Answered(c)) PROVE FrameInv'
  BY <1>1, <1>5, PeerTyped, PeerFrames
<1>. QED
  BY <1>2, <1>3, <1>4, <1>5 DEF Next

LEMMA FramesMean == TileInv /\ FrameInv => Framed
<1>. SUFFICES ASSUME TileInv, FrameInv, NEW c \in Conns
              PROVE  IsPrefix(got[c], FlattenSeq([r \in 1..Len(asked[c]) |-> Frame(asked[c][r])]))
  BY DEF Framed
<1>1. TypeOK /\ RequestStream /\ Aligned /\ AnswerInv
  BY DEF TileInv
<1>2. PICK n \in Nat : Len(eaten[c]) = n * ReqLen /\ Starts(AnsByte, Framing(sent[c], n), made[c])
  BY DEF FrameInv, FramedBy
<1>3. PICK s \in Seq(ReqByte), l \in Nat, d \in Nat \ {0} :
          s = sent[c] /\ l = Len(s) /\ d = ReqLen
  BY <1>1, Sizes, Elements, ServerAssumption
<1>4. PICK m \in Nat : m = l \div d /\ m * ReqLen <= l /\ n <= m
  <2>1. PICK m \in Nat, x \in Nat : m = l \div d /\ x = l % d /\ l = d * m + x /\ x < d
    OBVIOUS
  <2>2. m * d = d * m /\ m * d \in Nat
    OBVIOUS
  <2>3. n * d <= l
    BY <1>1, <1>2, <1>3, EatenWithin
  <2>4. ASSUME m + 1 <= n PROVE FALSE
    <3>1. m * d + d <= n * d
      BY <1>3, <2>4, Place
    <3>2. n * d \in Nat
      OBVIOUS
    <3>. QED
      BY <2>1, <2>2, <2>3, <3>1, <3>2
  <2>5. m * d <= l /\ n <= m
    BY <2>1, <2>2, <2>4
  <2>. QED
    BY <1>3, <2>1, <2>5
<1>5. \A r \in 1..m : Frames(s)[r] \in Seq(AnsByte)
  <2>1. WellHeaded(s)
    BY <1>1, <1>3 DEF Aligned, WellHeaded
  <2>. QED
    BY <1>3, <1>4, <2>1, FramesTyped
<1>6. Framing(s, n) \in Seq(AnsByte) /\ Framing(s, m) \in Seq(AnsByte)
  <2>1. \A r \in 1..n : Frames(s)[r] \in Seq(AnsByte)
    BY <1>4, <1>5
  <2>. QED
    BY <1>5, <2>1, Flattens DEF Framing
<1>7. Starts(AnsByte, Framing(s, m), Framing(s, n))
  BY <1>4, <1>5, CutGrows DEF Framing
<1>8. Starts(AnsByte, Framing(s, m), got[c])
  <2>1. got[c] \in Seq(AnsByte) /\ made[c] \in Seq(AnsByte)
    BY <1>1, Sizes
  <2>2. Starts(AnsByte, made[c], got[c]) /\ Starts(AnsByte, Framing(s, n), made[c])
    BY <1>1, <1>2, <1>3 DEF AnswerInv, Answers
  <2>3. Starts(AnsByte, Framing(s, n), got[c])
    BY <1>6, <2>1, <2>2, StartsStarts
  <2>. QED
    BY <1>6, <1>7, <2>1, <2>3, StartsStarts
<1>9. IsPrefix(got[c], Framing(s, m))
  BY <1>1, <1>6, <1>8, Sizes, PrefixIs
<1>10. FlattenSeq([r \in 1..Len(asked[c]) |-> Frame(asked[c][r])]) = Framing(s, m)
  <2>1. PICK q : q = asked[c]
    OBVIOUS
  <2>2. q = [r \in 1..m |-> ReqAt(s, r)]
    BY <1>3, <1>4, <2>1 DEF asked, ReqAt
  <2>3. Len(q) = m
    BY <2>2
  <2>4. [r \in 1..Len(q) |-> Frame(q[r])] = Cut(Frames(s), m)
    BY <2>2, <2>3 DEF Cut, Frames
  <2>. QED
    BY <2>1, <2>4 DEF Framing
<1>. QED
  BY <1>9, <1>10

(***************************************************************************)
(* What a peer has received is at every moment the beginning of the frames *)
(* for its requests in their order, also after it was deleted between the  *)
(* two parts of a frame: for requests, PNGs and buffers of any size, which *)
(* arrive and leave in any pieces.                                         *)
(***************************************************************************)
THEOREM FramesArrive == Spec => []Framed
<1>1. Spec => []FrameInv
  BY InitFrames, FramesStep, TileInvAlways, PTL DEF Spec
<1>. QED
  BY <1>1, FramesMean, TileInvAlways, PTL

-----------------------------------------------------------------------------
(***************************************************************************)
(* The replies in frames: one for each, to the request it is the frame of. *)
(***************************************************************************)
LEMMA OneReply ==
    ASSUME NEW req \in Seq(ReqByte), Header(req) \in Headers
    PROVE  Frame(req) \in Seq(AnsByte) /\ Replies(Frame(req), FrameLens) = <<req>>
<1>1. PICK a \in Nat, n \in Nat : a = LenBytes /\ n + 1 = PngLen[Header(req)]
  <2>1. PngLen[Header(req)] \in Nat \ {0} /\ LenBytes \in Nat
    BY TileServerAssumption
  <2>2. PngLen[Header(req)] - 1 \in Nat
        /\ (PngLen[Header(req)] - 1) + 1 = PngLen[Header(req)]
    BY <2>1
  <2>. QED
    BY <2>1, <2>2
<1>2. PICK x \in Seq(AnsByte), y \in Seq(AnsByte) :
          /\ x = Length(req) /\ Len(x) = a /\ y = Png(req) /\ Len(y) = n + 1
          /\ \A j \in 1..a : x[j] = <<req, j>> /\ \A i \in 1..n + 1 : y[i] = <<req, a + i>>
  <2>1. /\ Length(req) \in Seq(AnsByte) /\ Len(Length(req)) = a
        /\ Png(req) \in Seq(AnsByte) /\ Len(Png(req)) = n + 1
    BY <1>1, PartTyped
  <2>2. \A j \in 1..a : Length(req)[j] = <<req, j>>
    BY <1>1 DEF Length
  <2>3. \A i \in 1..n + 1 : Png(req)[i] = <<req, a + i>>
    BY <1>1 DEF Png
  <2>. QED
    BY <2>1, <2>2, <2>3
<1>3. \A i \in 1..n + 1 : y[i] = <<req, a + i>>
  BY <1>1, <1>2 DEF Png
<1>4. FrameLens[Header(req)] = a + (n + 1)
  BY <1>1 DEF FrameLens
<1>5. Replies(x, FrameLens) = <<>>
  <2>1. \A j \in 1..a : j # a + (n + 1)
    OBVIOUS
  <2>2. \A j \in 1..Len(x) : ~LastByte(x[j], FrameLens)
    BY <1>2, <1>4, <2>1 DEF LastByte
  <2>. QED
    BY <2>2, RepliesNone
<1>6. Replies(y, FrameLens) = <<y[n + 1][1]>>
  <2>1. \A i \in 1..n : i \in 1..n + 1 /\ a + i # a + (n + 1)
    OBVIOUS
  <2>2. n + 1 \in 1..n + 1
    OBVIOUS
  <2>3. \A i \in 1..n : ~LastByte(y[i], FrameLens)
    BY <1>3, <1>4, <2>1 DEF LastByte
  <2>4. LastByte(y[n + 1], FrameLens)
    BY <1>3, <1>4, <2>2 DEF LastByte
  <2>. QED
    BY <1>2, <2>3, <2>4, RepliesOne
<1>7. y[n + 1][1] = req
  <2>1. n + 1 \in 1..n + 1
    OBVIOUS
  <2>. QED
    BY <1>3, <2>1
<1>8. Replies(x \o y, FrameLens) = <<req>>
  <2>1. Replies(x \o y, FrameLens) = Replies(x, FrameLens) \o Replies(y, FrameLens)
    BY RepliesConcat
  <2>2. <<req>> \in Seq(Seq(ReqByte))
    OBVIOUS
  <2>3. <<>> \o <<req>> = <<req>>
    BY <2>2, ConcatEmptySeq
  <2>. QED
    BY <1>5, <1>6, <1>7, <2>1, <2>3
<1>. QED
  BY <1>2, <1>8, ConcatTyped DEF Frame

LEMMA FramingReplies ==
    ASSUME NEW s \in Seq(ReqByte), WellHeaded(s), NEW n \in Nat, n * ReqLen <= Len(s)
    PROVE  /\ Framing(s, n) \in Seq(AnsByte) /\ Len(Replies(Framing(s, n), FrameLens)) = n
           /\ \A r \in Nat : r + 1 <= n =>
                  Replies(Framing(s, n), FrameLens)[r + 1] = ReqAt(s, r + 1)
<1>. DEFINE P(k) == /\ Framing(s, k) \in Seq(AnsByte)
                    /\ Len(Replies(Framing(s, k), FrameLens)) = k
                    /\ \A r \in Nat : r + 1 <= k =>
                           Replies(Framing(s, k), FrameLens)[r + 1] = ReqAt(s, r + 1)
            T == {k \in Nat : k * ReqLen <= Len(s) => P(k)}
<1>1. 0 \in T
  <2>1. Framing(s, 0) = <<>> /\ <<>> \in Seq(AnsByte) /\ Len(<<>>) = 0
    <3>1. \A r \in 1..0 : Frames(s)[r] \in Seq(AnsByte)
      OBVIOUS
    <3>. QED
      BY <3>1, Flattens, EmptySeq DEF Framing
  <2>2. Replies(<<>>, FrameLens) = <<>>
    BY RepliesEmpty
  <2>3. \A r \in Nat : ~(r + 1 <= 0)
    OBVIOUS
  <2>4. P(0)
    BY <2>1, <2>2, <2>3
  <2>. QED
    BY <2>4
<1>2. ASSUME NEW k \in Nat, k \in T PROVE k + 1 \in T
  <2>. SUFFICES ASSUME (k + 1) * ReqLen <= Len(s) PROVE P(k + 1)
    OBVIOUS
  <2>1. PICK m \in Nat, l \in Nat, z \in Nat :
            m = k * ReqLen /\ l = ReqLen /\ (k + 1) * ReqLen = m + l /\ z = Len(s)
    BY Place, Elements
  <2>2. k * ReqLen <= Len(s) /\ k * ReqLen + ReqLen <= Len(s)
    BY <2>1
  <2>3. P(k)
    BY <1>2, <2>2
  <2>4. PICK q \in Seq(ReqByte) : q = ReqAt(s, k + 1) /\ Header(q) \in Headers
    BY <2>2, RequestAt
  <2>5. PICK f \in Seq(AnsByte), e \in Seq(AnsByte), g \in Seq(AnsByte) :
            /\ f = Framing(s, k) /\ e = Frame(q) /\ g = Framing(s, k + 1) /\ g = f \o e
            /\ Replies(e, FrameLens) = <<q>>
    BY <2>2, <2>4, FramingNext, OneReply
  <2>6. PICK x \in Seq(Seq(ReqByte)) : /\ x = Replies(f, FrameLens) /\ Len(x) = k
            /\ \A r \in Nat : r + 1 <= k => x[r + 1] = ReqAt(s, r + 1)
    BY <2>3, <2>5, RepliesTyped
  <2>7. PICK y \in Seq(Seq(ReqByte)) : /\ y = Replies(g, FrameLens) /\ Len(y) = k + 1
                                       /\ y[k + 1] = q /\ \A i \in 1..k : y[i] = x[i]
    <3>1. Replies(g, FrameLens) = Append(x, q)
      <4>1. Replies(f \o e, FrameLens) = Replies(f, FrameLens) \o Replies(e, FrameLens)
        BY RepliesConcat
      <4>2. Append(x, q) = x \o <<q>>
        BY AppendTyped
      <4>. QED
        BY <2>5, <2>6, <4>1, <4>2
    <3>2. /\ Append(x, q) \in Seq(Seq(ReqByte)) /\ Len(Append(x, q)) = Len(x) + 1
          /\ \A i \in 1..Len(x) : Append(x, q)[i] = x[i]
          /\ Append(x, q)[Len(x) + 1] = q
      BY AppendProperties
    <3>. QED
      BY <2>6, <3>1, <3>2
  <2>8. \A r \in Nat : r + 1 <= k + 1 => y[r + 1] = ReqAt(s, r + 1)
    <3>. SUFFICES ASSUME NEW r \in Nat, r + 1 <= k + 1 PROVE y[r + 1] = ReqAt(s, r + 1)
      OBVIOUS
    <3>1. CASE r = k
      BY <2>4, <2>7, <3>1
    <3>2. CASE r # k
      <4>1. r + 1 <= k /\ r + 1 \in 1..k
        BY <3>2
      <4>. QED
        BY <2>6, <2>7, <4>1
    <3>. QED
      BY <3>1, <3>2
  <2>. QED
    BY <2>5, <2>7, <2>8
<1>3. n \in T
  <2>. HIDE DEF T
  <2>. QED
    BY <1>1, <1>2, NatSetInduction
<1>. QED
  BY <1>3

-----------------------------------------------------------------------------
LEMMA HandleAsks ==
    ASSUME TypeOK, OwnerInv, PngReady, AskInv, NEW k \in Kids, Handle(k)
    PROVE  AskInv' /\ Ending
<1>. USE DEF procVars, peerVars, history
<1>1. PICK c \in Conns : c = Head(todo[k]) /\ UNCHANGED <<sent, got, gone, fin>>
  BY Handling
<1>2. AskInv'
  BY <1>1 DEF AskInv, Numbered
<1>3. phase' = phase \/ phase' = [phase EXCEPT ![c] = "closed"]
  BY <1>1, ZenonT(60) DEF Handle, Refuse, ServeLength, LengthFails, ServePng, PngFails, PartFails,
            WritePart, Close
<1>. QED
  BY <1>1, <1>2, <1>3, SameAsks

LEMMA AsksStep == TileInv /\ AskInv /\ [Next]_vars => AskInv'
<1>. SUFFICES ASSUME TileInv, AskInv, [Next]_vars PROVE AskInv'
  OBVIOUS
<1>1. TypeOK /\ OwnerInv /\ PngReady
  BY DEF TileInv
<1>2. CASE UNCHANGED vars
  BY <1>2 DEF vars, peerVars, AskInv, Numbered
<1>. QED
  BY <1>1, <1>2, LoopAsks, HandleAsks, PeerAsks DEF Next

LEMMA ViewAlways == Spec => [](TileInv /\ FrameInv /\ AskInv)
<1>1. Init => AskInv
  BY InitAsks DEF Init
<1>2. Spec => []FrameInv
  BY InitFrames, FramesStep, TileInvAlways, PTL DEF Spec
<1>. QED
  BY <1>1, <1>2, AsksStep, TileInvAlways, PTL DEF Spec

(***************************************************************************)
(* A byte that reaches the peer is a reply or part of one.                 *)
(***************************************************************************)
LEMMA ByteArrives ==
    ASSUME TypeOK, RequestStream, Aligned, FrameInv, AskInv, AnswerInv', TypeOK',
           NEW c \in Conns, NEW b \in AnsByte, UNCHANGED <<asked, over, sent, made>>,
           got' = [got EXCEPT ![c] = Append(got[c], b)]
    PROVE  Abstract!Reply(c) \/ UNCHANGED Abstract!avars
<1>1. PICK g \in Seq(AnsByte), s \in Seq(ReqByte) : g = got[c] /\ s = sent[c]
  BY Sizes
<1>2. PICK x : x = Replies(g, FrameLens)
  OBVIOUS
<1>3. got'[c] = Append(g, b) /\ \A d \in Conns : d # c => got'[d] = got[d]
  BY <1>1 DEF TypeOK
<1>4. \A d \in Conns : replied'[d] = IF d = c THEN Replies(Append(g, b), FrameLens) ELSE replied[d]
  <2>1. Replies(got'[c], FrameLens) = Replies(Append(g, b), FrameLens)
    BY <1>3
  <2>2. \A d \in Conns : d # c => Replies(got'[d], FrameLens) = Replies(got[d], FrameLens)
    BY <1>3
  <2>. QED
    BY <2>1, <2>2 DEF replied
<1>5. replied = [d \in Conns |-> replied[d]] /\ replied' = [d \in Conns |-> replied'[d]]
      /\ replied[c] = x
  BY <1>1, <1>2 DEF replied
<1>6. CASE ~LastByte(b, FrameLens)
  <2>1. Replies(Append(g, b), FrameLens) = Replies(g, FrameLens)
    BY <1>6, RepliesAppend
  <2>2. \A d \in Conns : replied'[d] = replied[d]
    BY <1>2, <1>4, <1>5, <2>1
  <2>3. replied' = replied
    BY <1>5, <2>2
  <2>. QED
    BY <2>3 DEF Abstract!avars
<1>7. CASE LastByte(b, FrameLens)
  <2>1. PICK n \in Nat : /\ Len(eaten[c]) = n * ReqLen
                         /\ Starts(AnsByte, Framing(s, n), made[c])
    BY <1>1 DEF FrameInv, FramedBy
  <2>2. n * ReqLen <= Len(s)
    BY <1>1, <2>1, EatenWithin
  <2>3. PICK m \in Seq(AnsByte) :
            /\ m = Framing(s, n) /\ Len(Replies(m, FrameLens)) = n
            /\ \A r \in Nat : r + 1 <= n => Replies(m, FrameLens)[r + 1] = ReqAt(s, r + 1)
    <3>1. WellHeaded(s)
      BY <1>1 DEF Aligned, WellHeaded
    <3>. QED
      BY <2>2, <3>1, FramingReplies
  <2>4. Starts(AnsByte, m, Append(g, b))
    <3>1. Starts(AnsByte, made'[c], got'[c]) /\ got'[c] \in Seq(AnsByte) /\ made'[c] \in Seq(AnsByte)
      BY DEF AnswerInv, Answers, TypeOK
    <3>2. Starts(AnsByte, m, made'[c])
      BY <2>1, <2>3
    <3>3. Starts(AnsByte, m, got'[c])
      BY <3>1, <3>2, StartsStarts
    <3>. QED
      BY <1>3, <3>3
  <2>5. PICK l \in Nat : /\ l + 1 <= n /\ Len(x) = l
                         /\ Replies(m, FrameLens)[l + 1] = b[1]
                         /\ Replies(Append(g, b), FrameLens) = Append(x, b[1])
    <3>1. \E l \in Nat : /\ l + 1 <= n /\ Len(Replies(g, FrameLens)) = l
                         /\ Replies(m, FrameLens)[l + 1] = b[1]
                         /\ Replies(Append(g, b), FrameLens) = Append(Replies(g, FrameLens), b[1])
      <4>1. Len(Replies(m, FrameLens)) = n
        BY <2>3
      <4>. QED
        BY <1>7, <2>4, <4>1, ReplyNext
    <3>. QED
      BY <1>2, <3>1
  <2>6. b[1] = ReqAt(s, l + 1)
    BY <2>3, <2>5
  <2>7. asked[c] = Asks(s)
    BY <1>1 DEF asked, Asks, ReqAt
  <2>8. l < Len(Asks(s)) /\ Asks(s)[l + 1] = ReqAt(s, l + 1)
    BY <2>2, <2>5, AskedOf
  <2>9. b[1] \in Requests
    <3>1. Numbered(s) /\ Len(s) <= MaxRequests * ReqLen
      BY <1>1 DEF AskInv
    <3>2. ReqAt(s, l + 1) \in Requests
      BY <2>2, <2>5, <3>1, AskedOf
    <3>. QED
      BY <2>6, <3>2
  <2>10. replied' = [replied EXCEPT ![c] = Append(replied[c], b[1])]
    <3>1. PICK y : y = Append(x, b[1])
      OBVIOUS
    <3>2. \A d \in Conns : replied'[d] = IF d = c THEN y ELSE replied[d]
      BY <1>4, <2>5, <3>1
    <3>3. [replied EXCEPT ![c] = y] = [d \in Conns |-> IF d = c THEN y ELSE replied[d]]
      BY <1>5
    <3>. QED
      BY <1>5, <3>1, <3>2, <3>3
  <2>11. Len(replied[c]) < Len(asked[c]) /\ asked[c][Len(replied[c]) + 1] = b[1]
    BY <1>5, <2>5, <2>6, <2>7, <2>8
  <2>. QED
    BY <2>9, <2>10, <2>11 DEF Abstract!Reply, Abstract!Outstanding
<1>. QED
  BY <1>6, <1>7

LEMMA ViewOfEnding ==
    ASSUME Ending
    PROVE  [Abstract!Next]_(Abstract!avars)
<1>1. replied' = replied
  BY DEF Ending, replied
<1>2. CASE over' = over
  BY <1>1, <1>2 DEF Ending, Abstract!avars
<1>3. ASSUME NEW c \in Conns, ~over[c], over' = [over EXCEPT ![c] = TRUE]
      PROVE  Abstract!Next
  BY <1>1, <1>3 DEF Ending, Abstract!Next, Abstract!End
<1>. QED
  BY <1>2, <1>3 DEF Ending

(***************************************************************************)
(* The tile server answers requests: what a peer sends and receives on its *)
(* connection is a behaviour of RequestReply, which replies to every       *)
(* request once, in the order they were asked, until the connection is     *)
(* over; the two parts of a frame, the buffers and the other kids do not   *)
(* show.  This is the safety of ServesTilesFairly, for any sizes.          *)
(***************************************************************************)
THEOREM TilesServedInOrder == Spec => Abstract!Spec
<1>1. Init => Abstract!Init
  <2>. SUFFICES ASSUME ServerInit PROVE Abstract!Init
    BY DEF Init
  <2>1. asked = [c \in Conns |-> <<>>] /\ over = [c \in Conns |-> FALSE]
    BY InitAsks
  <2>2. replied = [c \in Conns |-> <<>>]
    BY RepliesEmpty DEF ServerInit, replied
  <2>. QED
    BY <2>1, <2>2 DEF Abstract!Init
<1>2. TileInv /\ TileInv' /\ FrameInv /\ AskInv /\ [Next]_vars => [Abstract!Next]_(Abstract!avars)
  <2>. SUFFICES ASSUME TileInv, TileInv', FrameInv, AskInv, [Next]_vars
                PROVE  [Abstract!Next]_(Abstract!avars)
    OBVIOUS
  <2>0. /\ TypeOK /\ OwnerInv /\ RequestStream /\ Aligned /\ PngReady
        /\ TypeOK' /\ AnswerInv'
    BY DEF TileInv
  <2>1. CASE UNCHANGED vars
    <3>1. asked' = asked /\ over' = over /\ replied' = replied
      BY <2>1 DEF vars, peerVars, asked, over, replied
    <3>. QED
      BY <3>1 DEF Abstract!avars
  <2>2. ASSUME NEW k \in Kids, Loop(k) \/ Handle(k)
        PROVE  [Abstract!Next]_(Abstract!avars)
    BY <2>0, <2>2, LoopAsks, HandleAsks, ViewOfEnding
  <2>3. ASSUME NEW c \in Conns, Peer(c, Answered(c))
        PROVE  [Abstract!Next]_(Abstract!avars)
    <3>1. \/ Asking(c) \/ Ending
          \/ /\ UNCHANGED <<asked, over, sent, made>>
             /\ \E b \in AnsByte : got' = [got EXCEPT ![c] = Append(got[c], b)]
      BY <2>0, <2>3, PeerAsks
    <3>2. CASE Asking(c)
      <4>1. replied' = replied
        BY <3>2 DEF Asking, replied
      <4>. QED
        BY <3>2, <4>1 DEF Asking, Abstract!Next, Abstract!Ask
    <3>3. CASE Ending
      BY <3>3, ViewOfEnding
    <3>4. CASE /\ UNCHANGED <<asked, over, sent, made>>
               /\ \E b \in AnsByte : got' = [got EXCEPT ![c] = Append(got[c], b)]
      <4>1. Abstract!Reply(c) \/ UNCHANGED Abstract!avars
        BY <2>0, <3>4, ByteArrives
      <4>. QED
        BY <4>1 DEF Abstract!Next
    <3>. QED
      BY <3>1, <3>2, <3>3, <3>4
  <2>. QED
    BY <2>1, <2>2, <2>3 DEF Next
<1>. QED
  BY <1>1, <1>2, ViewAlways, PTL DEF Spec, Abstract!Spec
=============================================================================
