------------------------------- MODULE Client -------------------------------
(***************************************************************************)
(* The two byte buffers of a Client (src/client.hh, src/client.cc): what   *)
(* each call leaves in inpbuf and outbuf, and what it hands to the socket. *)
(* A buffer is the sequence of the bytes held in it, so that its length is *)
(* inpbufk or outbufk; "room" is what the socket's send queue still takes. *)
(* The servers (Server, EGServer, TileServer) are built from these.        *)
(***************************************************************************)
EXTENDS Integers, Sequences

CONSTANTS InpBufN,   \* inpbufn, the capacity of inpbuf
          OutBufN    \* outbufn, the capacity of outbuf

ASSUME BufAssumption ==
    /\ InpBufN \in Nat \ {0}
    /\ OutBufN \in Nat \ {0}

Take(s, n) == SubSeq(s, 1, n)
Drop(s, n) == SubSeq(s, n + 1, Len(s))
Lesser(m, n) == IF m <= n THEN m ELSE n

NeedFlush(out) == out # <<>>
NeedSlurp(inp) == Len(inp) < InpBufN
\* Mutated form: can_write forgets the bytes to come.
CanWriteNow(out, len) == Len(out) <= OutBufN
CanWrite(out, len) == Len(out) + len <= OutBufN
CanRead(inp, len) == Len(inp) >= len

(***************************************************************************)
(* Client::read: the first len bytes are taken and the rest moved down.    *)
(***************************************************************************)
\* Mutated form: inpbufk = 0 where the rest should be moved down.
AfterReadAll(inp, len) == <<>>
AfterRead(inp, len) == Drop(inp, len)

(***************************************************************************)
(* The number of bytes ::read returns to slurp when avail are queued: as   *)
(* many as are queued and as inpbuf has room for.  Zero, as when the peer  *)
(* has finished, makes slurp fail.                                         *)
(***************************************************************************)
SlurpCount(inp, avail) == Lesser(avail, InpBufN - Len(inp))

(***************************************************************************)
(* Client::write of buf: behind a non-empty outbuf the bytes are appended  *)
(* or, when they do not fit, refused whole; with an empty outbuf as much   *)
(* as the socket takes is sent at once (none of it on EAGAIN) and the      *)
(* remainder is kept, or, when it is more than outbuf holds, the call      *)
(* fails after that part was sent.                                         *)
(***************************************************************************)
\* Mutated form: buf is not advanced past what was sent.
WrittenAgain(out, buf, room) ==
    LET n == Lesser(Len(buf), room) IN
    IF NeedFlush(out)
    THEN [ok |-> CanWrite(out, Len(buf)), sent |-> <<>>,
          out |-> IF CanWrite(out, Len(buf)) THEN out \o buf ELSE out]
    ELSE [ok |-> CanWrite(out, Len(buf) - n), sent |-> Take(buf, n),
          out |-> Take(buf, Len(buf) - n)]
\* Mutated form: the socket is tried first even behind a non-empty outbuf.
WrittenAhead(out, buf, room) ==
    LET n == Lesser(Len(buf), room) IN
    [ok |-> CanWrite(out, Len(buf) - n), sent |-> Take(buf, n), out |-> out \o Drop(buf, n)]
Written(out, buf, room) ==
    IF NeedFlush(out)
    THEN IF CanWrite(out, Len(buf))
         THEN [ok |-> TRUE,  sent |-> <<>>, out |-> out \o buf]
         ELSE [ok |-> FALSE, sent |-> <<>>, out |-> out]
    ELSE LET n == Lesser(Len(buf), room) IN
         IF CanWrite(out, Len(buf) - n)
         THEN [ok |-> TRUE,  sent |-> Take(buf, n), out |-> Drop(buf, n)]
         ELSE [ok |-> FALSE, sent |-> Take(buf, n), out |-> <<>>]
=============================================================================
