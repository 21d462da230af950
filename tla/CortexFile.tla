----------------------------- MODULE CortexFile -----------------------------
(***************************************************************************)
(* The cortex files of one chain and the processes that have them mapped:  *)
(* learners (learnfunc), readers (the synth command, a server's kid) and   *)
(* the commands unfreeze and reset.  What the header and the weights are   *)
(* worth (edit changes such values, stats keeps others) is left out.       *)
(*                                                                         *)
(* The mapping is MAP_SHARED: a store of one process is in the file, and   *)
(* in every other process's mapping, at once, and there is no lock.  What  *)
(* is stored at once is one field of the file's header, one segment's      *)
(* header, or the weights of one output channel of a layer: dek and enk    *)
(* copy these parts of a file one at a time, in no known order.            *)
(*                                                                         *)
(* A segment header is its freeze, the number of its first output channels *)
(* that are not to learn.  A channel's weights are the set of the learning *)
(* rounds whose gradients went into them; rounds are numbered as they are  *)
(* learned, by any learner.  (learn_conv3 moves weights by the mean of     *)
(* earlier gradients too, those of frozen channels not excepted.)          *)
(***************************************************************************)
EXTENDS Naturals, FiniteSets, FiniteSetsExt, Functions

CONSTANTS
    Learners, Readers, Tools,   \* processes
    N,                          \* cortexes in the chain
    L, C,                       \* layers of each, output channels with weights of each
    Conv,                       \* the layers <<p, y>> of type conv
    Freeze,                     \* what each layer was made with as freeze
    RepInt, StopRounds,         \* learnfunc's repint and stoprounds
    Commands,                   \* the tool commands that are run
    MaxLearned, MaxTools, MaxKills   \* bounds

ASSUME CortexFileAssumption ==
    /\ N \in Nat \ {0} /\ L \in Nat \ {0} /\ C \in Nat
    /\ Conv \subseteq (1..N) \X (1..L) /\ Freeze \in [(1..N) \X (1..L) -> Nat]
    /\ RepInt \in Nat \ {0} /\ StopRounds \in Nat
    /\ Commands \subseteq {"unfreeze", "reset"}
    /\ MaxLearned \in Nat /\ MaxTools \in Nat /\ MaxKills \in Nat
    /\ IsFiniteSet(Learners)
    /\ Learners \cap Readers = {} /\ Tools \cap (Learners \cup Readers) = {}

Cortexes == 1..N
Layers == 1..L
Parts == Layers \X (0..C)      \* <<y, 0>> is the segment header of layer y,
Weights == Layers \X (1..C)    \* <<y, c>> the weights of its output channel c
Procs == Learners \cup Readers \cup Tools

VARIABLES
    file,     \* each cortex file: head->rounds and the parts
    self,     \* each process: where it is and its Cortex objects
    learned,  \* how many rounds were learned so far
    kept,     \* the weights of the last save of the whole chain that was finished
    tools, kills   \* commands run, processes killed

vars == <<file, self, learned, kept, tools, kills>>

New(p) == [w \in Parts |-> IF w \in Weights THEN {} ELSE Freeze[p, w[1]]]
Nothing == [w \in Parts |-> IF w \in Weights THEN {} ELSE 0]

\* the weights w of cortex p do not learn: only conv honours its freeze
Frozen(p, w) == <<p, w[1]>> \in Conv /\ w[2] <= file[p].part[<<w[1], 0>>]

(***************************************************************************)
(* A process that does not run.  pc is its place, at the cortex it is at,  *)
(* left the parts that the copy it is in has still to do, mem the kbase of *)
(* each cortex, prep is_prep, fresh new_rounds.                            *)
(***************************************************************************)
Off == [pc     |-> "off", at |-> 1, left |-> Parts, prep |-> FALSE,
        mem    |-> [p \in Cortexes |-> Nothing],
        rounds |-> [p \in Cortexes |-> 0],
        fresh  |-> [p \in Cortexes |-> 0]]

Init ==
    /\ file = [p \in Cortexes |-> [rounds |-> 0, part |-> New(p)]]
    /\ self = [q \in Procs |-> Off]
    /\ learned = 0
    /\ kept = [p \in Cortexes |-> [w \in Weights |-> {}]]
    /\ tools = 0
    /\ kills = 0

\* s has copied part w: on to the next part, the next cortex, or out
Copied(s, w, again, out) ==
    IF s.left # {w} THEN [s EXCEPT !.left = @ \ {w}]
    ELSE IF s.at < N THEN [s EXCEPT !.left = Parts, !.at = @ + 1, !.pc = again]
    ELSE [s EXCEPT !.left = Parts, !.at = 1, !.pc = out]

Become(q, s) == self' = [self EXCEPT ![q] = s]

-----------------------------------------------------------------------------
(* Opening a chain: every file is opened, then every cortex prepared. *)

Start(q) ==
    /\ self[q].pc = "off"
    /\ Become(q, [Off EXCEPT !.pc = "open"])
    /\ UNCHANGED <<file, learned, kept, tools, kills>>

Open(q) ==
    LET s == self[q] IN
    /\ s.pc = "open"
    /\ Become(q, [s EXCEPT !.rounds[s.at] = file[s.at].rounds,
                           !.at = IF s.at < N THEN s.at + 1 ELSE 1,
                           !.pc = IF s.at < N THEN "open" ELSE "prepare"])
    /\ UNCHANGED <<file, learned, kept, tools, kills>>

\* Mutated form: kbase is made but nothing is copied into it.
TakenNothing(s, w) == s
\* one part of enk(base, basen, kbase)
Taken(s, w) == [s EXCEPT !.mem[s.at][w] = file[s.at].part[w]]

Prepare(q, w) ==
    LET s == self[q] IN
    /\ s.pc = "prepare" /\ w \in s.left
    /\ Become(q, [Copied(Taken(s, w), w, "prepare",
                         IF q \in Learners THEN "check" ELSE "run")
                  EXCEPT !.prep = TRUE])
    /\ UNCHANGED <<file, learned, kept, tools, kills>>

-----------------------------------------------------------------------------
(* learnfunc *)

\* the tests of stoprounds, before the loop and after a save; stoploss and reps,
\* tested at the same places, may end the loop too
Check(l) ==
    /\ self[l].pc = "check"
    /\ \/ self[l].rounds[N] < StopRounds /\ Become(l, [self[l] EXCEPT !.pc = "learn"])
       \/ Become(l, Off)
    /\ UNCHANGED <<file, learned, kept, tools, kills>>

(***************************************************************************)
(* One round: synth, target, learn of every cortex, whose stats count it.  *)
(* pipe_learn reads the headers in the file, not their copies: a channel   *)
(* learns unless the file says now that it is frozen.                      *)
(***************************************************************************)
\* Mutated form: a round starts from weights without the rounds before it.
TrainedAfresh(s, p, w, n) ==
    IF w \in Weights /\ ~Frozen(p, w) THEN {n} ELSE s.mem[p][w]
\* Mutated form: the channel after the last frozen one does not learn, and the
\* first frozen one does.
TrainedOff(s, p, w, n) ==
    IF w \in Weights /\ ~(w[2] > 1 /\ Frozen(p, <<w[1], w[2] - 1>>))
    THEN s.mem[p][w] \cup {n} ELSE s.mem[p][w]
Trained(s, p, w, n) ==
    IF w \in Weights /\ ~Frozen(p, w) THEN s.mem[p][w] \cup {n} ELSE s.mem[p][w]

SaveDue(rounds) == rounds % RepInt = 0

Learn(l) ==
    LET s == self[l]
        n == learned + 1 IN
    /\ s.pc = "learn"
    /\ learned < MaxLearned
    /\ learned' = n
    /\ Become(l, [s EXCEPT
          !.mem    = [p \in Cortexes |-> [w \in Parts |-> Trained(s, p, w, n)]],
          !.rounds = [p \in Cortexes |-> @[p] + 1],
          !.fresh  = [p \in Cortexes |-> @[p] + 1],
          !.pc     = IF SaveDue(s.rounds[N] + 1) THEN "count" ELSE "learn"])
    /\ UNCHANGED <<file, kept, tools, kills>>

-----------------------------------------------------------------------------
(* Cortex::save, for each cortex of the chain *)

\* Mutated form: new_rounds is not set back.
SaveCountAgain(q) ==
    LET s == self[q] IN
    /\ s.pc = "count"
    /\ Become(q, [s EXCEPT !.rounds[s.at] = file[s.at].rounds + s.fresh[s.at],
                           !.pc = "head"])
    /\ UNCHANGED <<file, learned, kept, tools, kills>>

\* Mutated form: new_rounds is set back first.
SaveCountLate(q) ==
    LET s == self[q] IN
    /\ s.pc = "count"
    /\ Become(q, [s EXCEPT !.rounds[s.at] = file[s.at].rounds,
                           !.fresh[s.at] = 0,
                           !.pc = "head"])
    /\ UNCHANGED <<file, learned, kept, tools, kills>>

\* rounds = ntohll(head->rounds) + new_rounds; new_rounds = 0
SaveCount(q) ==
    LET s == self[q] IN
    /\ s.pc = "count"
    /\ Become(q, [s EXCEPT !.rounds[s.at] = file[s.at].rounds + s.fresh[s.at],
                           !.fresh[s.at] = 0,
                           !.pc = "head"])
    /\ UNCHANGED <<file, learned, kept, tools, kills>>

\* head->rounds = htonll(rounds)
SaveHead(q) ==
    LET s == self[q] IN
    /\ s.pc = "head"
    /\ file' = [file EXCEPT ![s.at].rounds = s.rounds[s.at]]
    /\ Become(q, [s EXCEPT !.pc = "copy"])
    /\ UNCHANGED <<learned, kept, tools, kills>>

\* one part of dek(kbase, basen, base)
SavePart(q, w) ==
    LET s == self[q] IN
    /\ s.pc = "copy" /\ s.prep /\ w \in s.left
    /\ file' = [file EXCEPT ![s.at].part[w] = s.mem[s.at][w]]
    /\ Become(q, Copied(s, w, "count", "check"))
    /\ kept' = IF s.left = {w} /\ s.at = N
               THEN [p \in Cortexes |-> [z \in Weights |-> s.mem[p][z]]]
               ELSE kept
    /\ UNCHANGED <<learned, tools, kills>>

\* dek of a cortex that was never prepared copies from NULL: the process dies, or
\* the copy is refused and the command ends
SaveNothing(q) ==
    /\ self[q].pc = "copy" /\ ~self[q].prep
    /\ Become(q, Off)
    /\ UNCHANGED <<file, learned, kept, tools, kills>>

-----------------------------------------------------------------------------
(* The loop of the synth command, with reload=1 *)

Reload(r) ==
    /\ self[r].pc = "run"
    /\ Become(r, [self[r] EXCEPT !.pc = "load"])
    /\ UNCHANGED <<file, learned, kept, tools, kills>>

\* Mutated form: load copies the headers only.
LoadHeaders(r, w) ==
    LET s == self[r] IN
    /\ s.pc = "load" /\ w \in s.left
    /\ Become(r, Copied(IF w[2] = 0 THEN Taken(s, w) ELSE s, w, "load", "run"))
    /\ UNCHANGED <<file, learned, kept, tools, kills>>

LoadPart(r, w) ==
    LET s == self[r] IN
    /\ s.pc = "load" /\ w \in s.left
    /\ Become(r, Copied(Taken(s, w), w, "load", "run"))
    /\ UNCHANGED <<file, learned, kept, tools, kills>>

\* limit is reached, or the input ends
Finish(r) ==
    /\ self[r].pc = "run"
    /\ Become(r, Off)
    /\ UNCHANGED <<file, learned, kept, tools, kills>>

-----------------------------------------------------------------------------
(* The commands unfreeze and reset, on the cortex p *)

Command(t, name) ==
    /\ self[t].pc = "off" /\ name \in Commands
    /\ tools < MaxTools
    /\ tools' = tools + 1

FrozenNow(p) == {y \in Layers : file[p].part[<<y, 0>>] # 0}

\* Cortex::unfreeze, of the first or the last frozen layer; then the command's save
Unfreeze(t, p, last) ==
    LET thaw == IF last THEN Max(FrozenNow(p)) ELSE Min(FrozenNow(p)) IN
    /\ Command(t, "unfreeze")
    /\ file' = IF FrozenNow(p) = {} THEN file
               ELSE [file EXCEPT ![p].part[<<thaw, 0>>] = 0]
    /\ Become(t, [Off EXCEPT !.pc = "count", !.at = p])
    /\ UNCHANGED <<learned, kept, kills>>

\* head->rounds = 0; then Cortex::scram, which goes through the layers in order
Reset(t, p) ==
    /\ Command(t, "reset")
    /\ file' = [file EXCEPT ![p].rounds = 0]
    /\ Become(t, [Off EXCEPT !.pc = "scram", !.at = p])
    /\ UNCHANGED <<learned, kept, kills>>

\* the weights of one more channel of the first layer not yet scrambled; the
\* headers stay
ScramPart(t, w) ==
    LET s == self[t]
        left == s.left \cap Weights IN
    /\ s.pc = "scram" /\ w \in left
    /\ \A v \in left : w[1] <= v[1]
    /\ file' = [file EXCEPT ![s.at].part[w] = {}]
    /\ Become(t, [s EXCEPT !.left = @ \ {w}])
    /\ UNCHANGED <<learned, kept, tools, kills>>

ScramEnd(t) ==
    /\ self[t].pc = "scram" /\ self[t].left \cap Weights = {}
    /\ Become(t, Off)
    /\ UNCHANGED <<file, learned, kept, tools, kills>>

\* a process is killed; what it stored stays stored
Kill(q) ==
    /\ kills < MaxKills
    /\ self[q].pc # "off"
    /\ kills' = kills + 1
    /\ Become(q, Off)
    /\ UNCHANGED <<file, learned, kept, tools>>

-----------------------------------------------------------------------------
Save(q) == SaveCount(q) \/ SaveHead(q) \/ SaveNothing(q) \/ \E w \in Parts : SavePart(q, w)

Opening(q) == Open(q) \/ \E w \in Parts : Prepare(q, w)

LearnerStep(l) == Opening(l) \/ Check(l) \/ Learn(l) \/ Save(l)

ReaderStep(r) == Opening(r) \/ Reload(r) \/ \E w \in Parts : LoadPart(r, w)

Scram(t) == ScramEnd(t) \/ \E w \in Weights : ScramPart(t, w)

ToolStep(t) == Save(t) \/ Scram(t)

Next ==
    \/ \E q \in Learners \cup Readers : Start(q)
    \/ \E l \in Learners : LearnerStep(l)
    \/ \E r \in Readers : ReaderStep(r) \/ Finish(r)
    \/ \E t \in Tools : ToolStep(t)
    \/ \E t \in Tools, p \in Cortexes :
          Reset(t, p) \/ \E last \in BOOLEAN : Unfreeze(t, p, last)
    \/ \E q \in Procs : Kill(q)

Spec == Init /\ [][Next]_vars

(***************************************************************************)
(* Fairness: a learner and a reader that run keep running (no step of      *)
(* theirs waits for anybody), and so does a command.  Nobody has to start, *)
(* to finish early, to run a command or to be killed.  What readers come   *)
(* to needs no more than that they run themselves (ReaderSpec).            *)
(***************************************************************************)
ReaderSpec == Spec /\ \A r \in Readers : WF_vars(ReaderStep(r))

FairSpec ==
    /\ ReaderSpec
    /\ \A l \in Learners : WF_vars(LearnerStep(l))
    /\ \A t \in Tools : WF_vars(ToolStep(t))

-----------------------------------------------------------------------------
(***************************************************************************)
(* Rounds are never counted twice: what a file's header says and what the  *)
(* learners have still to add to it are together no more than the rounds   *)
(* that were learned, with several learners on the file, kills in the      *)
(* middle of a save, resets and unfreezes.                                 *)
(***************************************************************************)
Pending(p) == SumFunction([l \in Learners |-> self[l].fresh[p]])

RoundsNotOvercounted == \A p \in Cortexes : file[p].rounds + Pending(p) <= learned

(***************************************************************************)
(* A finished save is not lost again: with one learner, killed at any      *)
(* place, also in the middle of a later save, every channel of every file  *)
(* has at least the rounds of the last save that was finished.             *)
(***************************************************************************)
SavesKept ==
    \A p \in Cortexes, w \in Weights : kept[p][w] \subseteq file[p].part[w]

(***************************************************************************)
(* A reader's weights never get older: with one learner, no channel that a *)
(* running reader loads misses a round that the weights it replaces had,   *)
(* though the learner may be stopped, killed and started again, and though *)
(* loads and saves overlap.                                                *)
(***************************************************************************)
NeverOlder ==
    [][\A r \in Readers : self[r].pc \in {"run", "load"} /\ self'[r].pc # "off" =>
          \A p \in Cortexes, w \in Weights :
              self[r].mem[p][w] \subseteq self'[r].mem[p][w]]_vars

(***************************************************************************)
(* Frozen channels do not learn: what a learner has of a channel that the  *)
(* file says is frozen, and so what its next save will store, is what the  *)
(* file has, with one learner, though the layer may be unfrozen at any     *)
(* time and a save undoes that, and though the learner may be killed in    *)
(* the middle of it and start again.  Only while the save that puts back   *)
(* the frozen header has not yet come to the weights do they differ.       *)
(***************************************************************************)
PuttingBack(l, p, w) ==
    /\ self[l].pc = "copy" /\ self[l].at = p
    /\ <<w[1], 0>> \notin self[l].left /\ w \in self[l].left

FrozenUntrained ==
    \A l \in Learners, p \in Cortexes, w \in Weights :
        /\ self[l].pc \in {"check", "learn", "count", "head", "copy"}
        /\ Frozen(p, w) /\ ~PuttingBack(l, p, w)
        => self[l].mem[p][w] = file[p].part[w]

\* A save copies weights that prepare has put into kernel memory.
SavesArePrepared == \A q \in Procs : self[q].pc = "copy" => self[q].prep

(***************************************************************************)
(* A learner stops: the rounds get to StopRounds though several learners   *)
(* lose each other's increments by reading and writing head->rounds.       *)
(***************************************************************************)
LearnersStop == \A l \in Learners : self[l].pc = "learn" ~> self[l].pc = "off"

(***************************************************************************)
(* A reader that reloads gets the weights: when the learners have stopped  *)
(* for good, a running reader comes to hold, and then always holds, what   *)
(* the files hold.                                                         *)
(***************************************************************************)
ReadersCatchUp ==
    <>[](\A l \in Learners : self[l].pc = "off") =>
        \A r \in Readers :
            <>[](self[r].pc = "run" =>
                    \A p \in Cortexes : self[r].mem[p] = file[p].part)
=============================================================================
