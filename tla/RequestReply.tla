---------------------------- MODULE RequestReply ----------------------------
(***************************************************************************)
(* What a server promises the peer of a connection: requests are answered  *)
(* one by one, in the order they were sent, each with the answer computed  *)
(* from its own bytes, until one side ends the connection.  Answers that   *)
(* were on their way then may still arrive.                                *)
(***************************************************************************)
EXTENDS Sequences, Naturals

CONSTANTS Conns,      \* connections
          Requests,   \* what may be asked
          Valid       \* what is answered

VARIABLES asked,      \* the requests sent on each connection
          replied,    \* the requests whose answers have arrived
          over        \* whether one side has ended the connection

avars == <<asked, replied, over>>

Init ==
    /\ asked = [c \in Conns |-> <<>>]
    /\ replied = [c \in Conns |-> <<>>]
    /\ over = [c \in Conns |-> FALSE]

Outstanding(c) == Len(replied[c]) < Len(asked[c])

Ask(c) ==
    /\ ~over[c]
    /\ \E q \in Requests : asked' = [asked EXCEPT ![c] = Append(@, q)]
    /\ UNCHANGED <<replied, over>>

Reply(c) ==
    /\ Outstanding(c)
    /\ LET q == asked[c][Len(replied[c]) + 1]
       IN  /\ q \in Valid
           /\ replied' = [replied EXCEPT ![c] = Append(@, q)]
    /\ UNCHANGED <<asked, over>>

End(c) ==
    /\ ~over[c]
    /\ over' = [over EXCEPT ![c] = TRUE]
    /\ UNCHANGED <<asked, replied>>

Next == \E c \in Conns : Ask(c) \/ Reply(c) \/ End(c)

(***************************************************************************)
(* A request outstanding on a connection that is not over is answered, or  *)
(* the connection ends.                                                    *)
(***************************************************************************)
Progress(c) == Outstanding(c) /\ ~over[c] /\ (Reply(c) \/ End(c))

Spec == Init /\ [][Next]_avars
FairSpec == Spec /\ \A c \in Conns : WF_avars(Progress(c))
=============================================================================
