---------------------------- MODULE ServerProcs -----------------------------
(***************************************************************************)
(* The processes of a tileserver (Server::start, wait, stop and close in   *)
(* src/server.cc, called by the command in src/tewel.cc), composed with    *)
(* what its kids do in the tile directory: main forks them and waits for   *)
(* each, in the order it forked them; a kid runs until it is killed or     *)
(* fails.  TilePyramid's kids are the pids that main may get.              *)
(***************************************************************************)
EXTENDS TilePyramid, FiniteSets

CONSTANTS Count,     \* how many kids the command asks for
          Deaths,    \* bound: how many kids die
          Fails      \* bound: how many forks fail

ASSUME ProcsAssumption == Count \in Nat /\ Deaths \in Nat /\ Fails \in Nat

VARIABLES
    main,      \* main: "serves" (in start, then in wait), "ended" or "aborted"
    pids,      \* what start has pushed: {k} is the pid of k, {} is the -1 of a
               \* fork that failed
    waited,    \* how many of them wait has waited for
    proc,      \* each kid: "unborn", "runs", a "zombie" or "gone"
    fails      \* how many forks failed

procVars == <<main, pids, waited, proc, fails>>
allVars == <<vars, procVars>>

Dead == {k \in Kids : proc[k] = "zombie"}
Alive == {k \in Kids : proc[k] = "runs"}

ProcsInit ==
    /\ Init
    /\ main = "serves" /\ pids = <<>> /\ waited = 0 /\ fails = 0
    /\ proc = [k \in Kids |-> "unborn"]

Fork(k) ==
    /\ main = "serves" /\ Len(pids) < Count
    /\ proc[k] = "unborn"
    /\ proc' = [proc EXCEPT ![k] = "runs"]
    /\ pids' = Append(pids, {k})
    /\ UNCHANGED <<vars, main, waited, fails>>

ForkFails ==
    /\ main = "serves" /\ Len(pids) < Count
    /\ fails < Fails
    /\ fails' = fails + 1
    /\ pids' = Append(pids, {})
    /\ UNCHANGED <<vars, main, waited, proc>>

(***************************************************************************)
(* waitpid of the first pid that is left.  That of a failed fork stands    *)
(* for any kid: it returns one that is dead, and the assertion fails, or   *)
(* -1 as expected when there is no kid.                                    *)
(***************************************************************************)
Waiting == main = "serves" /\ Len(pids) = Count /\ waited < Count
\* Mutated form: the list is cleared after the first.
WaitOnce ==
    /\ Waiting
    /\ \E k \in pids[waited + 1] \cap Dead : proc' = [proc EXCEPT ![k] = "gone"]
    /\ waited' = Count
    /\ UNCHANGED <<vars, main, pids, fails>>
Wait ==
    /\ Waiting
    /\ \E k \in pids[waited + 1] \cap Dead : proc' = [proc EXCEPT ![k] = "gone"]
    /\ waited' = waited + 1
    /\ UNCHANGED <<vars, main, pids, fails>>
\* Mutated form: it waits for a kid also when there is none.
WaitForOne ==
    /\ Waiting /\ pids[waited + 1] = {}
    /\ Dead # {}
    /\ proc' = [k \in Kids |-> IF k \in Dead THEN "gone" ELSE proc[k]]
    /\ main' = "aborted"
    /\ UNCHANGED <<vars, waited, pids, fails>>
WaitForAny ==
    /\ Waiting /\ pids[waited + 1] = {}
    /\ \/ /\ Dead # {}
          /\ proc' = [k \in Kids |-> IF k \in Dead THEN "gone" ELSE proc[k]]
          /\ main' = "aborted"
          /\ UNCHANGED waited
       \/ /\ Dead \cup Alive = {}
          /\ waited' = waited + 1
          /\ UNCHANGED <<main, proc>>
    /\ UNCHANGED <<vars, pids, fails>>

(***************************************************************************)
(* The destructor closes the socket, and stop has no pids left to kill.    *)
(***************************************************************************)
Delete ==
    /\ main = "serves" /\ waited = Count
    /\ main' = "ended"
    /\ UNCHANGED <<vars, pids, waited, proc, fails>>

(***************************************************************************)
(* A kid dies, idle or amid a tile.  Nobody forks it again.                *)
(***************************************************************************)
Dies(k) ==
    /\ k \in Alive
    /\ Cardinality({j \in Kids : proc[j] \in {"zombie", "gone"}}) < Deaths
    /\ proc' = [proc EXCEPT ![k] = IF main = "serves" THEN "zombie" ELSE "gone"]
    /\ IF Idle(k) THEN UNCHANGED vars ELSE Kill(k)
    /\ UNCHANGED <<main, pids, waited, fails>>

Works(k) == k \in Alive /\ (TilePng(k) \/ TileRgb(k)) /\ UNCHANGED procVars

Command == ForkFails \/ Wait \/ WaitForAny \/ Delete \/ \E k \in Kids : Fork(k)
ProcsNext == Command \/ \E k \in Kids : Dies(k) \/ Works(k)

ProcsSpec == ProcsInit /\ [][ProcsNext]_allVars

-----------------------------------------------------------------------------
(***************************************************************************)
(* When the command returns, or fails on its assertion because a fork had  *)
(* failed, what it waited for is gone: an exit status of 0 says that no    *)
(* kid serves any more, or is left a zombie.  (An abort leaves the kids    *)
(* that live behind.)                                                      *)
(***************************************************************************)
EndsLast ==
    /\ main = "ended" => Alive \cup Dead = {}
    /\ main = "aborted" => fails > 0

(***************************************************************************)
(* The command does not outlive its kids: when all have died, in whatever  *)
(* order and before or after they were waited for, every waitpid that is   *)
(* left returns.  (Each step of Wait and WaitForAny is one of Count.)      *)
(***************************************************************************)
WaitsReturn == main = "serves" /\ Alive = {} => ENABLED Command
=============================================================================
