------------------------------- MODULE Server -------------------------------
(***************************************************************************)
(* The event loop of Server (src/server.cc): a parent forks Kids, every    *)
(* kid runs Server::main on the one listening socket, accepts connections  *)
(* into its own list of clients, and visits the list twice per turn: once  *)
(* to slurp and flush what select reported, once to handle requests.  What *)
(* handle does is left to the modules that extend this one (EGServer and   *)
(* TileServer), as it is a virtual function in the code.                   *)
(*                                                                         *)
(* The kernel's part is modelled as src/ uses it: a listen queue shared by *)
(* the kids, and per connection a receive queue "up", a send queue "down", *)
(* both of at most SockN bytes.  Peers send bytes of requests one at a     *)
(* time, so that a request may arrive in any pieces, read at their own     *)
(* pace, finish sending (fin) and vanish (gone).                           *)
(***************************************************************************)
EXTENDS Client, FiniteSets, SequencesExt

CONSTANTS Conns,         \* the connections peers may open
          Kids,          \* the forked server processes
          SockN,         \* bytes a kernel socket queue holds
          BacklogN,      \* length of the listen queue: listen(1) in main
          MaxRequests,   \* bound: the requests a peer sends on a connection
          Window,        \* bound: requests a peer has unanswered at a time
          ReqLen,        \* bytes of a request
          Headers,       \* the values peers put in a request's first field
          SelectFaults   \* whether ::select may fail, its sets left as asked

ASSUME ServerAssumption ==
    /\ SockN \in Nat \ {0}
    /\ BacklogN \in Nat \ {0}
    /\ MaxRequests \in Nat
    /\ Window \in Nat \ {0}
    /\ ReqLen \in Nat \ {0}
    /\ Headers \subseteq Int
    /\ SelectFaults \in BOOLEAN

VARIABLES
    backlog,   \* connections waiting in the listen queue
    phase,     \* of a connection: "idle", "queued", "open" or "closed"
    clients,   \* each kid's list of clients, in order of acceptance
    pc,        \* where each kid is in the body of Server::main
    todo,      \* the clients a kid has still to visit in its current pass
    lset,      \* whether the listening socket is in fdsets[0] after select
    rset,      \* the clients left in fdsets[0] by select
    wset,      \* the clients left in fdsets[1] by select
    failed,    \* history: the select of the turn, up to handle, failed
    inp, out,  \* inpbuf and outbuf of each client
    up, down,  \* the kernel's receive and send queues
    fin, gone, \* the peer has finished sending; the peer has vanished
    sent,      \* history: every byte the peer has sent
    eaten,     \* history: every byte handle has read from inpbuf
    made,      \* history: every byte handle has produced as an answer
    got        \* every byte the peer has received

procVars == <<pc, todo, lset, rset, wset, failed, clients>>
peerVars == <<fin, gone, sent, got>>
history  == <<eaten, made>>
vars == <<backlog, phase, procVars, inp, out, up, down, peerVars, history>>

(***************************************************************************)
(* A byte of a request is its number on the connection, its place in the   *)
(* request, and, in place 1, the header's value.  A byte of an answer is   *)
(* the request bytes it was computed from and its place in the answer.     *)
(***************************************************************************)
ReqByte == Nat \X Nat \X Int
AnsByte == Seq(ReqByte) \X Nat
Header(req) == req[1][3]

NextBytes(c) ==
    LET r == 1 + (Len(sent[c]) \div ReqLen)
        i == 1 + (Len(sent[c]) % ReqLen)
    IN  {<<r, i, h>> : h \in IF i = 1 THEN Headers ELSE {0}}

Unanswered(c, answered) == (Len(sent[c]) \div ReqLen) - answered

Members(k) == {clients[k][i] : i \in 1..Len(clients[k])}

ServerInit ==
    /\ backlog = <<>>
    /\ phase = [c \in Conns |-> "idle"]
    /\ clients = [k \in Kids |-> <<>>]
    /\ pc = [k \in Kids |-> "select"]
    /\ todo = [k \in Kids |-> <<>>]
    /\ failed = [k \in Kids |-> FALSE]
    /\ lset = [k \in Kids |-> FALSE]
    /\ rset = [k \in Kids |-> {}]
    /\ wset = [k \in Kids |-> {}]
    /\ inp = [c \in Conns |-> <<>>]
    /\ out = [c \in Conns |-> <<>>]
    /\ up = [c \in Conns |-> <<>>]
    /\ down = [c \in Conns |-> <<>>]
    /\ fin = [c \in Conns |-> FALSE]
    /\ gone = [c \in Conns |-> FALSE]
    /\ sent = [c \in Conns |-> <<>>]
    /\ eaten = [c \in Conns |-> <<>>]
    /\ made = [c \in Conns |-> <<>>]
    /\ got = [c \in Conns |-> <<>>]

-----------------------------------------------------------------------------
(* The peers. *)

Connect(c) ==
    /\ phase[c] = "idle"
    /\ Len(backlog) < BacklogN
    /\ phase' = [phase EXCEPT ![c] = "queued"]
    /\ backlog' = Append(backlog, c)
    /\ UNCHANGED <<procVars, inp, out, up, down, peerVars, history>>

(***************************************************************************)
(* answered is the number of answers the peer has received whole, which    *)
(* the modules with a handle define.                                       *)
(***************************************************************************)
Send(c, answered) ==
    /\ phase[c] \in {"queued", "open"}
    /\ ~fin[c]
    /\ Len(sent[c]) < MaxRequests * ReqLen
    /\ Len(sent[c]) % ReqLen = 0 => Unanswered(c, answered) < Window
    /\ Len(up[c]) < SockN
    /\ \E b \in NextBytes(c) :
          /\ sent' = [sent EXCEPT ![c] = Append(@, b)]
          /\ up' = [up EXCEPT ![c] = Append(@, b)]
    /\ UNCHANGED <<backlog, phase, procVars, inp, out, down, fin, gone, got, history>>

Receive(c) ==
    /\ ~gone[c]
    /\ down[c] # <<>>
    /\ got' = [got EXCEPT ![c] = Append(@, Head(down[c]))]
    /\ down' = [down EXCEPT ![c] = Tail(@)]
    /\ UNCHANGED <<backlog, phase, procVars, inp, out, up, fin, gone, sent, history>>

Finish(c) ==
    /\ phase[c] \in {"queued", "open"}
    /\ ~fin[c]
    /\ fin' = [fin EXCEPT ![c] = TRUE]
    /\ UNCHANGED <<backlog, phase, procVars, inp, out, up, down, gone, sent, got, history>>

Vanish(c) ==
    /\ phase[c] \in {"queued", "open"}
    /\ ~gone[c]
    /\ fin' = [fin EXCEPT ![c] = TRUE]
    /\ gone' = [gone EXCEPT ![c] = TRUE]
    /\ down' = [down EXCEPT ![c] = <<>>]
    /\ UNCHANGED <<backlog, phase, procVars, inp, out, up, sent, got, history>>

-----------------------------------------------------------------------------
(* One turn of Server::main in kid k. *)

Readable(c) == up[c] # <<>> \/ fin[c]
Writable(c) == Len(down[c]) < SockN \/ gone[c]
ToSlurp(k) == {c \in Members(k) : NeedSlurp(inp[c])}
\* Mutated form: select asks for no writable client.
ToFlushNone(k) == {}
ToFlush(k) == {c \in Members(k) : NeedFlush(out[c])}

(***************************************************************************)
(* Server::select: what it asks for and what ::select, which also returns  *)
(* empty sets after 50 ms, leaves of it.                                   *)
(***************************************************************************)
Select(k) ==
    /\ pc[k] = "select"
    /\ lset' = [lset EXCEPT ![k] = backlog # <<>>]
    /\ rset' = [rset EXCEPT ![k] = {c \in ToSlurp(k) : Readable(c)}]
    /\ wset' = [wset EXCEPT ![k] = {c \in ToFlush(k) : Writable(c)}]
    /\ pc' = [pc EXCEPT ![k] = "accept"]
    /\ UNCHANGED <<backlog, phase, todo, failed, clients, inp, out, up, down, peerVars, history>>

SelectFails(k) ==
    /\ SelectFaults
    /\ pc[k] = "select"
    /\ failed' = [failed EXCEPT ![k] = TRUE]
    /\ lset' = [lset EXCEPT ![k] = TRUE]
    /\ rset' = [rset EXCEPT ![k] = ToSlurp(k)]
    /\ wset' = [wset EXCEPT ![k] = ToFlush(k)]
    /\ pc' = [pc EXCEPT ![k] = "accept"]
    /\ UNCHANGED <<backlog, phase, todo, clients, inp, out, up, down, peerVars, history>>

Accept(k) ==
    /\ pc[k] = "accept"
    /\ lset[k]
    /\ backlog # <<>>
    /\ backlog' = Tail(backlog)
    /\ phase' = [phase EXCEPT ![Head(backlog)] = "open"]
    /\ clients' = [clients EXCEPT ![k] = Append(@, Head(backlog))]
    /\ UNCHANGED <<pc, todo, lset, rset, wset, failed, inp, out, up, down, peerVars, history>>

(***************************************************************************)
(* The listening socket was not ready, or ::accept found nothing: another  *)
(* kid may have taken the connection since select.                         *)
(***************************************************************************)
AcceptNone(k) ==
    /\ pc[k] = "accept"
    /\ ~lset[k] \/ backlog = <<>>
    /\ pc' = [pc EXCEPT ![k] = "slurp"]
    /\ todo' = [todo EXCEPT ![k] = clients[k]]
    /\ UNCHANGED <<backlog, phase, lset, rset, wset, failed, clients, inp, out, up, down, peerVars, history>>

(***************************************************************************)
(* The place in k's list of the client it visits: where ci points.         *)
(***************************************************************************)
Visiting(k) == Len(clients[k]) - Len(todo[k]) + 1

(***************************************************************************)
(* delete client: what is in outbuf is lost.  The kernel still delivers    *)
(* its send queue ("kept" is what the call before has left in it), unless  *)
(* bytes unread, or sent later, make it reset the connection.              *)
(***************************************************************************)
\* Mutated form: the deleted client stays in the list.
CloseKeeps(k, c, kept) ==
    /\ phase' = [phase EXCEPT ![c] = "closed"]
    /\ down' = [down EXCEPT ![c] = kept]
    /\ todo' = [todo EXCEPT ![k] = Tail(@)]
    /\ UNCHANGED clients
Close(k, c, kept) ==
    /\ phase' = [phase EXCEPT ![c] = "closed"]
    /\ clients' = [clients EXCEPT ![k] = RemoveAt(@, Visiting(k))]
    /\ todo' = [todo EXCEPT ![k] = Tail(@)]
    /\ \/ down' = [down EXCEPT ![c] = kept]
       \/ /\ up[c] # <<>> \/ ~fin[c]
          /\ down' = [down EXCEPT ![c] = <<>>]

Slurp(k) ==
    /\ pc[k] = "slurp"
    /\ todo[k] # <<>>
    /\ LET c == Head(todo[k])
           n == SlurpCount(inp[c], Len(up[c]))
       IN  /\ c \in rset[k]
           /\ n > 0
           /\ inp' = [inp EXCEPT ![c] = @ \o Take(up[c], n)]
           /\ up' = [up EXCEPT ![c] = Drop(@, n)]
    /\ pc' = [pc EXCEPT ![k] = "flush"]
    /\ UNCHANGED <<backlog, phase, todo, lset, rset, wset, failed, clients, out, down, peerVars, history>>

(***************************************************************************)
(* slurp fails on end of file, on an error after the peer has vanished,    *)
(* and on EAGAIN too, since it compares ::read's result with EAGAIN.       *)
(***************************************************************************)
\* Mutated form: end of file is taken for a read of no bytes.
SlurpGoesOn(k) ==
    /\ pc[k] = "slurp"
    /\ todo[k] # <<>>
    /\ Head(todo[k]) \in rset[k]
    /\ SlurpCount(inp[Head(todo[k])], Len(up[Head(todo[k])])) = 0
    /\ pc' = [pc EXCEPT ![k] = "flush"]
    /\ UNCHANGED <<backlog, phase, todo, lset, rset, wset, failed, clients, inp, out, up, down, peerVars, history>>
SlurpFails(k) ==
    /\ pc[k] = "slurp"
    /\ todo[k] # <<>>
    /\ LET c == Head(todo[k])
       IN  /\ c \in rset[k]
           /\ SlurpCount(inp[c], Len(up[c])) = 0 \/ gone[c]
           /\ Close(k, c, down[c])
    /\ UNCHANGED <<backlog, pc, lset, rset, wset, failed, inp, out, up, peerVars, history>>

NoSlurp(k) ==
    /\ pc[k] = "slurp"
    /\ todo[k] # <<>>
    /\ Head(todo[k]) \notin rset[k]
    /\ pc' = [pc EXCEPT ![k] = "flush"]
    /\ UNCHANGED <<backlog, phase, todo, lset, rset, wset, failed, clients, inp, out, up, down, peerVars, history>>

Flush(k) ==
    /\ pc[k] = "flush"
    /\ todo[k] # <<>>
    /\ LET c == Head(todo[k])
           n == Lesser(Len(out[c]), SockN - Len(down[c]))
       IN  /\ c \in wset[k]
           /\ n > 0
           /\ down' = [down EXCEPT ![c] = @ \o Take(out[c], n)]
           /\ out' = [out EXCEPT ![c] = Drop(@, n)]
    /\ pc' = [pc EXCEPT ![k] = "slurp"]
    /\ todo' = [todo EXCEPT ![k] = Tail(@)]
    /\ UNCHANGED <<backlog, phase, lset, rset, wset, failed, clients, inp, up, peerVars, history>>

\* Mutated form: a write of less than outbuf holds is taken for an error.
FlushWhole(k) ==
    /\ pc[k] = "flush"
    /\ todo[k] # <<>>
    /\ LET c == Head(todo[k])
       IN  /\ c \in wset[k]
           /\ Len(out[c]) > SockN - Len(down[c]) \/ gone[c]
           /\ Close(k, c, down[c])
    /\ pc' = [pc EXCEPT ![k] = "slurp"]
    /\ UNCHANGED <<backlog, lset, rset, wset, failed, inp, out, up, peerVars, history>>
FlushFails(k) ==
    /\ pc[k] = "flush"
    /\ todo[k] # <<>>
    /\ LET c == Head(todo[k])
       IN  /\ c \in wset[k]
           /\ Len(down[c]) = SockN \/ gone[c]
           /\ Close(k, c, down[c])
    /\ pc' = [pc EXCEPT ![k] = "slurp"]
    /\ UNCHANGED <<backlog, lset, rset, wset, failed, inp, out, up, peerVars, history>>

NoFlush(k) ==
    /\ pc[k] = "flush"
    /\ todo[k] # <<>>
    /\ Head(todo[k]) \notin wset[k]
    /\ pc' = [pc EXCEPT ![k] = "slurp"]
    /\ todo' = [todo EXCEPT ![k] = Tail(@)]
    /\ UNCHANGED <<backlog, phase, lset, rset, wset, failed, clients, inp, out, up, down, peerVars, history>>

StartHandling(k) ==
    /\ pc[k] = "slurp"
    /\ todo[k] = <<>>
    /\ pc' = [pc EXCEPT ![k] = "handle"]
    /\ todo' = [todo EXCEPT ![k] = clients[k]]
    /\ failed' = [failed EXCEPT ![k] = FALSE]
    /\ UNCHANGED <<backlog, phase, lset, rset, wset, clients, inp, out, up, down, peerVars, history>>

(***************************************************************************)
(* What the loops of both handles begin with: a whole request in inpbuf.   *)
(***************************************************************************)
Pending(k) ==
    /\ pc[k] = "handle"
    /\ todo[k] # <<>>
    /\ CanRead(inp[Head(todo[k])], ReqLen)

Request(c) == Take(inp[c], ReqLen)

(***************************************************************************)
(* handle has returned true for a client: fewer bytes than a request.      *)
(***************************************************************************)
Handled(k) ==
    /\ pc[k] = "handle"
    /\ todo[k] # <<>>
    /\ ~CanRead(inp[Head(todo[k])], ReqLen)
    /\ todo' = [todo EXCEPT ![k] = Tail(@)]
    /\ UNCHANGED <<backlog, phase, pc, lset, rset, wset, failed, clients, inp, out, up, down, peerVars, history>>

EndTurn(k) ==
    /\ pc[k] = "handle"
    /\ todo[k] = <<>>
    /\ pc' = [pc EXCEPT ![k] = "select"]
    /\ UNCHANGED <<backlog, phase, todo, lset, rset, wset, failed, clients, inp, out, up, down, peerVars, history>>

Loop(k) ==
    \/ Select(k) \/ SelectFails(k) \/ Accept(k) \/ AcceptNone(k)
    \/ Slurp(k) \/ SlurpFails(k) \/ NoSlurp(k)
    \/ Flush(k) \/ FlushFails(k) \/ NoFlush(k)
    \/ StartHandling(k) \/ Handled(k) \/ EndTurn(k)

Peer(c, answered) ==
    Connect(c) \/ Send(c, answered) \/ Receive(c) \/ Finish(c) \/ Vanish(c)

-----------------------------------------------------------------------------
(***************************************************************************)
(* Types, and the bounds of the buffers: the memcpy of Client::write and   *)
(* the read of Client::slurp stay inside outbuf and inpbuf whatever        *)
(* partial reads and writes came before.                                   *)
(***************************************************************************)
Bounded(buf, n) == \A c \in Conns : Len(buf[c]) <= n
TypeOK ==
    /\ backlog \in Seq(Conns)
    /\ phase \in [Conns -> {"idle", "queued", "open", "closed"}]
    /\ clients \in [Kids -> Seq(Conns)]
    /\ pc \in [Kids -> {"select", "accept", "slurp", "flush", "handle", "png"}]
    /\ todo \in [Kids -> Seq(Conns)]
    /\ \A k \in Kids : Len(todo[k]) <= Len(clients[k])
    /\ failed \in [Kids -> BOOLEAN]
    /\ lset \in [Kids -> BOOLEAN]
    /\ rset \in [Kids -> SUBSET Conns]
    /\ wset \in [Kids -> SUBSET Conns]
    /\ inp \in [Conns -> Seq(ReqByte)]
    /\ up \in [Conns -> Seq(ReqByte)]
    /\ sent \in [Conns -> Seq(ReqByte)]
    /\ eaten \in [Conns -> Seq(ReqByte)]
    /\ out \in [Conns -> Seq(AnsByte)]
    /\ down \in [Conns -> Seq(AnsByte)]
    /\ made \in [Conns -> Seq(AnsByte)]
    /\ got \in [Conns -> Seq(AnsByte)]
    /\ fin \in [Conns -> BOOLEAN]
    /\ gone \in [Conns -> BOOLEAN]
    /\ Bounded(inp, InpBufN) /\ Bounded(out, OutBufN)
    /\ Bounded(up, SockN) /\ Bounded(down, SockN)

(***************************************************************************)
(* The request stream: what handle has read, then inpbuf, then the socket, *)
(* are the bytes the peer sent: slurp and read lose, repeat and reorder    *)
(* nothing, in whatever pieces the bytes arrive.                           *)
(***************************************************************************)
RequestStream ==
    \A c \in Conns : sent[c] = eaten[c] \o inp[c] \o up[c]

(***************************************************************************)
(* The answer stream: while a connection is open, what the peer has read,  *)
(* then the socket, then outbuf, are the bytes of the answers; afterwards  *)
(* what has reached it is a prefix of them: partial writes and flushes     *)
(* lose nothing from the middle.                                           *)
(***************************************************************************)
AnswerStream ==
    \A c \in Conns :
        /\ phase[c] # "closed" /\ ~gone[c] => made[c] = got[c] \o down[c] \o out[c]
        /\ ~gone[c] => IsPrefix(got[c] \o down[c], made[c])
        /\ IsPrefix(got[c], made[c])

(***************************************************************************)
(* Every connection has one owner: it waits once in the listen queue, or   *)
(* is once in the list of one kid, or is in none: kids that wake for the   *)
(* same connection do not both serve it, and none serves a deleted client. *)
(* The clients still to visit are the end of the list: deleting one while  *)
(* the pass goes on neither skips a client nor visits one twice.           *)
(***************************************************************************)
QueuedOnce ==
    /\ \A i, j \in 1..Len(backlog) : backlog[i] = backlog[j] => i = j
    /\ \A c \in Conns : phase[c] = "queued" <=> \E i \in 1..Len(backlog) : backlog[i] = c
OwnedOnce ==
    /\ \A k, l \in Kids : \A i \in 1..Len(clients[k]), j \in 1..Len(clients[l]) :
          clients[k][i] = clients[l][j] => k = l /\ i = j
    /\ \A c \in Conns : phase[c] = "open" <=> \E k \in Kids : c \in Members(k)
VisitsRest ==
    \A k \in Kids : todo[k] = SubSeq(clients[k], Visiting(k), Len(clients[k]))
OneOwner == QueuedOnce /\ OwnedOnce /\ VisitsRest

(***************************************************************************)
(* The select of this turn has failed, and its kid slurps or flushes a     *)
(* client with nothing to read or no room to write.                        *)
(***************************************************************************)
Misled(c) ==
    \E k \in Kids :
        /\ failed[k] /\ c \in Members(k)
        /\ \/ pc[k] = "slurp" /\ up[c] = <<>>
           \/ pc[k] = "flush" /\ Len(down[c]) = SockN

(***************************************************************************)
(* A connection whose peer has finished or vanished is deleted in the end: *)
(* no kid keeps it, and its descriptor, for ever.                          *)
(***************************************************************************)
Reaped == \A c \in Conns : (phase[c] = "open" /\ fin[c]) ~> phase[c] = "closed"

(***************************************************************************)
(* What a peer has asked, whole requests only, and whether the connection  *)
(* is over, for RequestReply.                                              *)
(***************************************************************************)
Requests ==
    {[i \in 1..ReqLen |-> <<r, i, IF i = 1 THEN h ELSE 0>>] : r \in 1..MaxRequests, h \in Headers}
asked == [c \in Conns |->
             [r \in 1..(Len(sent[c]) \div ReqLen) |->
                 SubSeq(sent[c], (r - 1) * ReqLen + 1, r * ReqLen)]]
over == [c \in Conns |-> phase[c] = "closed" \/ gone[c]]

(***************************************************************************)
(* The requests whose answers are whole in a sequence of bytes: in place   *)
(* len of an answer, which depends on the header, is its last byte.        *)
(***************************************************************************)
LastByte(b, len) == b[2] = len[Header(b[1])]
Replies(s, len) ==
    LET upTo[i \in 0..Len(s)] ==
            IF i = 0 THEN <<>>
            ELSE IF LastByte(s[i], len) THEN Append(upTo[i - 1], s[i][1]) ELSE upTo[i - 1]
    IN  upTo[Len(s)]
=============================================================================
