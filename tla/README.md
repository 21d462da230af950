# A TLA+ verification project for tewel

`tewel` is a command-line program that builds, trains and runs small neural
synthesizers ("gens"), and that can serve them over TCP.  This directory holds
TLA+ models of it, the TLC configurations that check them, and TLAPS proofs.
Source paths below are relative to `src/`.

1. Inventory: the parts, and what is hard in them
2. Modules: what models what, and how the variables correspond to the code
3. Runs: what is model-checked, the bounds, the fairness
4. Proofs
5. What the work has shown about the code
6. What is not modelled; plan

## 1. Inventory

| part | source | state it keeps | operations | how it meets the others |
|---|---|---|---|---|
| client | `client.cc`, `client.hh` | a non-blocking socket, `inpbuf`, `outbuf` (10 MB each) and their fill counts | `read`, `slurp`, `flush`, `write`, `can_*`, `need_*` | owned by a server's `clients` list |
| server | `server.cc` | listening socket, `pids` of the kids; in each kid `clients`, three `fd_set`s | `open`, `bind`, `listen`, `start` (fork), `main` (the event loop), `accept`, `select`, `stop`, `wait`, `close` | `handle` and `prepare` are virtual; kids share the listening socket |
| egserver | `egserver.cc` | a `Chain` mapped read-only | `prepare`, `handle`, `extend` | a `handle` for fixed-length synthesis requests |
| tileserver | `tileserver.cc` | a directory of PNG tiles shared by all kids, a `Chain` | `tilefn`, `tile_rgb`, `put_tile`, `tile_png`, `handle` | a `handle` for 12-byte tile requests; missing tiles are synthesised from their parents |
| chain, paracortex | `chain.cc`, `paracortex.cc` | a list of Paracortexes, their kernel buffers | `push`, `prepare`, `synth(stop)`, `target`, `learn`, `load`, `save`, `rounds` | the servers and the learning commands drive a Chain; a Paracortex drives one or more Cortexes |
| cortex | `cortex.cc` | the mapped file (head, layer headers, weights), a copy of the weights in kernel memory, work buffers | `create`, `open`, `prepare`, `synth`, `learn`, `load`, `save`, `push`, `scram`, `unfreeze`, `close` | the file is `MAP_SHARED`: every process that opens it sees the others' saves |
| layer pipeline | `cortex.cc` `pipe_prep`, `pipe_synth`, `pipe_learn` | the shapes that pass from layer to layer | one case per layer type in each of the three | `prepare`, `synth` and `learn` of a cortex |
| kernels | `colonel-core.inc`, `colonel-common.inc`, `colonel-nocuda.cc`, `colonel-cuda.cu` | kernel memory | a `synth_` and one to three `learn_` kernels per layer type, one thread per cell or weight | called by the pipeline |
| learning commands | `tewel.cc` `learnfunc`, `learnhans`, `learn` | counters of the loop, host-side buffers | a round: pick, synth, target, learn, copies between cortexes | drive a Chain and up to four Cortexes more |
| kleption | `kleption.cc` | a sample source or sink: directory, picture, video, camera, raw data, random vectors | `load`, `unload`, `pick`, `find`, `place`, `pick_pair` | recursive: a directory holds kleptions; pictures go through picpipes |
| picpipes | `picpipes.cc` | a child process and a pipe | `Picreader` and `Picwriter` `open`, `close`, `read`, `write` | fork/exec of the readers and writers (`*.pl`) |
| rando | `rando.cc` | running mean and covariance of samples | `observe`, `generate`, `load`, `save` | kleption's RVG kind |
| camera, display | `camera.cc`, `display-sdl.cc`, `display-nosdl.cc` | mmapped V4L2 buffers; an SDL window | `open`, `prepare`, `read`, `close`; `update`, `done` | kleption's CAM and SDL kinds |
| server life cycle | `server.cc`, `tewel.cc` `server`, `tileserver` | `pids` | `start` forks, `wait` waits for each in turn, `stop`, `close` | its kids run `Server::main` |
| other commands | `tewel.cc`, `cmdline.cc` | command-line arguments | `make`, `spec`, `reset`, `synth`, ... | call everything above |
| utilities | `youtil.cc`, `random.cc` | none | `spit`, `slurp`, `parsekv`, PNG and PPM conversions, ... | used everywhere |

What is hard in it:

* **the servers**: several processes accept from one socket; requests arrive in
  arbitrary pieces; answers leave in partial writes behind a bounded buffer; a
  client may be deleted in each of three places of the loop; what `select` said
  is used later, after other clients were handled;
* **the tile directory**: kids check for a tile, synthesise it and publish it
  without a lock; they may be killed (signal 9) between any two steps;
* **the cortex file**: writers copy whole weight images into a shared mapping
  with no lock, while other processes load them;
* **the layer pipeline**: three functions must agree on every layer type's
  shapes, and the one that accepts a pipeline is not the one that asserts;
* **the kernels**: what a `synth_` kernel does with an index, two or three
  `learn_` kernels must undo; a wrong index does not crash, it learns worse;
* **the learning rounds**: one buffer per cortex serves forward and backward
  runs, and a discriminator is run backward twice on one forward run;
* **picture pipes**: children inherit each other's pipe ends, and closing waits
  for a child;
* **samples**: the end of a source, of a directory in it and of a file in that are
  told by one false return each that resets a counter, which unloading resets
  too; a sample's id is put together in one function and taken apart in another;
* **making a cortex**: a file is grown and then described, layer by layer, while
  other processes may open it; a make may be killed, refused or repeated;
* **the parent of a server**: it takes a failed fork for a kid, and its kids die in
  any order.

What makes each part correct:

* client/server: neither stream of a connection loses, repeats or reorders a
  byte; buffers are never overfilled; a connection has one owner; a client is
  deleted only for a cause, is answered, and is reaped when its peer ends;
* tile directory: a tile once published never changes, and was made from the
  published versions of its parents, across kills; four siblings that are made
  together are exactly a quad, and the file is there after `tile_rgb`;
* cortex file: a reader gets saved weights that never get older, finished saves
  are not lost, rounds are not counted twice, learners stop;
* pipeline: a pipeline that `pipe_prep` accepts is one that `pipe_synth` and
  `pipe_learn` run without an assertion, inside the buffer it measured;
* kernels: a gradient goes to the very cells and weights an output was made of;
* rounds: every layer runs on this round's samples, learns from its own
  output's gradient, and a round teaches each cortex what it should and no more;
* samples: a scan has every sample once a pass, in order; an id names one sample
  and crop, in the source as in the target;
* pipes: a run ends, but for one deadlock whose condition is known; every picture
  is delivered whole and in order;
* making: who opens a file has the first layers of one spec, and a finished make
  is whole;
* server's parent: it outlives its kids and returns when they are dead.

## 2. Modules

| module | models | extends |
|---|---|---|
| `Client` | what `read`, `slurp`, `flush`, `write` leave in the two buffers | |
| `Server` | `Server::main` in every kid, the kernel's queues and the peers, without `handle` | `Client` |
| `EGServer` | `Server` with `EGServer::handle` | `Server` |
| `TileServer` | `Server` with `TileServer::handle` | `Server` |
| `RequestReply` | the abstract service a peer sees; `EGServer` and `TileServer` implement it | |
| `TileGeometry` | the torus of tiles at each level: quads, parents, children | |
| `TilePyramid` | `tile_png`, `tile_rgb`, `put_tile` in all kids on one directory | `TileGeometry` |
| `ServerProcs` | `TilePyramid` with the parent that forks the kids and waits for them | `TilePyramid` |
| `CortexMake` | `create`, `open`, `push`, `scram` of makes on one file, and processes that open it meanwhile | |
| `PicPipes` | `Picreader` and `Picwriter`: pipes, who holds their ends, children | |
| `Kleption` | kinds, `load`, `unload`, `pick` and `find`, as operators on a tree of sources | |
| `Synth` | the `synth` command, and the pairs of `learnfunc`, with the children beside it | `PicPipes`, `Kleption` |
| `CortexFile` | the files of a chain mapped by learners, readers, and the `unfreeze` and `reset` commands | |
| `Pipeline` | the rules of `push`, `pipe_prep`, `pipe_synth`, `pipe_learn` for each layer type | |
| `Kernels` | which cells and weights each thread of a kernel uses | `Pipeline` |
| `Training` | the rounds of `learnfunc`, `learnhans`, `learn` over a chain, layer by layer | `Kernels` |
| `ServerProofs` | lemmas on the event loop, for any `handle` | `Server` |
| `EGServerProofs`, `TileServerProofs` | the theorems on the two servers | `EGServer`, `TileServer`, `ServerProofs` |
| `ServerProcsProofs` | the theorems on the tile directory, and on the processes | `ServerProcs` |
| `CortexFileProofs`, `CortexMakeProofs`, `TrainingProofs` | the theorems on the modules they are named for (`TrainingProofs`: on `Pipeline` too) | those modules |
| `SynthProofs` | the theorem on the ids of samples, and the lemmas on `Pick` and `Find` | `Synth` |
| `MCEGServer`, `MCTileServer`, `MCTilePyramid`, `MCServerProcs`, `MCCortexFile`, `MCCortexMake`, `MCSynth`, `MCTraining` | instances for TLC | |

Definitions that begin with "Mutated form" in their comment are plausible bugs.
Nothing uses them; each, put in place of the definition that follows it, breaks
the property that `PROJECT.json` names.

### Client, Server, EGServer, TileServer

A byte is modelled with its identity: a request byte is its request's number on
the connection, its place, and the header's value; an answer byte is the request
it was computed from and its place.  A buffer is the sequence of the bytes it
holds.  So the model sees every loss, repetition, reordering, and every mix of two
requests, while what the synthesis computes is left abstract (a function of the
request's bytes).

| variable | code |
|---|---|
| `backlog` | the kernel's listen queue, shared by the kids (`listen(1)`) |
| `clients[k]`, `todo[k]` | `Server::clients` and what the iterator `ci` has still to visit |
| `pc[k]` | the place in `Server::main`'s body: `select`, `accept` loop, `slurp` and `flush` of the first pass, `handle` of the second; `png` between the two writes of a frame |
| `lset`, `rset`, `wset` | `fdsets[0]` (listening socket, clients) and `fdsets[1]` after `select` |
| `failed[k]` | history: the `select` of the turn, up to its second pass, failed, and left the sets as they were asked |
| `inp`, `out` | `inpbuf[0..inpbufk)`, `outbuf[0..outbufk)` |
| `up`, `down` | the kernel's receive and send queues (external) |
| `fin`, `gone` | the peer has shut down its sending side; has vanished |
| `sent`, `eaten`, `made`, `got` | histories: bytes sent by the peer, read by `handle`, produced as answers, received by the peer |

Actions: `Select` and `SelectFails` are `Server::select`; `Accept`/`AcceptNone` an
iteration of `while (accept())`; `Slurp`/`SlurpFails`/`NoSlurp` and
`Flush`/`FlushFails`/`NoFlush` the two halves of the first pass for one client;
`StartHandling`, `Handled`, `EndTurn` and the server's own `Handle` the second pass.
`EGServer`'s `Serve`/`ServeFails`/`Reject` are one iteration of the loop in its
`handle`.  `TileServer`'s handle checks that a frame fits, and writes the length
and the PNG in two calls: `Refuse`, `ServeLength`/`LengthFails`,
`ServePng`/`PngFails`.  Peers act between any two steps.  `Close` is
`delete client; clients.erase(ci++)`; a closed socket's send queue is still
delivered unless the kernel resets the connection.

`RequestReply` says what a peer may expect: requests are answered one by one in
their order, each from its own bytes, until one side ends the connection.  The
refinement maps `asked`, `replied` and `over` from `sent`, `got`, `phase` and `gone`.

### TileGeometry, TilePyramid

A tile is `<<x, y, z>>`; `Side[z]` is the level's width (a power of two; the
proofs need only that it doubles).  `tile_rgb`'s arithmetic on unsigned numbers is
followed step by step: where the code masks by the level's width (`tilefn`), the
model takes the remainder, and where it does not (134-141) it does not.

| variable | code |
|---|---|
| `file` | the directory: for each tile the picture in its file, or none |
| `job[k]` | the tile `tile_png` of a kid is called for; whether it has called `tile_rgb` |
| `calls[k]` | the kid's stack of calls of `tile_rgb`: the tile, the parents' pictures got so far, the quad synthesised, the next tile to put |
| `synths` | history: every synthesis, its quad and what it was made from |
| `killed[k]` | how often a kid was killed (bounded) |

A picture is known by the synthesis it came from and its place in it, since a
chain may add noise and two syntheses of one quad then differ.  `put_tile`'s look
and its `spit` (write apart, rename) are two steps, `Put` and `Publish`.

`ServerProcs` adds the parent: `main` (in `start` and then in `wait`, ended or
aborted), `pids` (with the -1 of a failed fork), `waited` (how far `wait` has got)
and `proc[k]`, a kid's life as the kernel knows it.  A kid that dies amid a tile is
`TilePyramid`'s `Kill`.

### CortexMake, CortexFile

`CortexMake` has one file: whether it is there, its `Head` (not yet written, good, or
zeros) and per layer whose header it has (or zeros) and whether its weights are
zero, drawn by `scram` or learned from zeros.  `at[p]` is where a make or a user is,
`basen[p]` the size it works with, `pos[p]` the layer it is at in a walk, `kbase[u]` a
user's copy.  `create`, the write of the `Head`, `fstat`, the checks of `open`, each
`ftruncate`, each header and each layer of `scram`, `prepare` and `save` are steps of
their own, and a process may be killed between any two.  A layer that lies beyond
the file's end is SIGBUS, one whose header is zeros an assertion.  A file that is
whole is `CortexFile`'s:

| variable | code |
|---|---|
| `file[p]` | the cortex files: `head->rounds` and the parts: per layer its segment header, which is its `freeze`, and per output channel its weights |
| `self[q]` | a process: its place, the parts left of the copy it is in, `is_prep`, `kbase`, the rounds it has read and `new_rounds` |
| `learned`, `kept` | histories: the rounds learned by anybody; the weights of the last finished save |

`freeze` is the number of a layer's first output channels that are not to learn,
and only `conv` passes it on to its kernels.  A channel's weights are the set of the
rounds whose gradients went into them, so a lost or repeated round, old weights and
a mix of saves can all be told.  `save` is `SaveCount` (read `head->rounds`, add
`new_rounds` and clear it), `SaveHead` (write `head->rounds`), and one `SavePart` per header
and per channel in any order, for `dek` is one copy of the whole file, headers and
weights, which others see, and a kill cuts off, at any place; `load` and `prepare` copy
a part a step too, and `reset`'s `scram` draws the channels of one layer after another's.
The values in the header that `edit` changes and `stats` keeps are left out, and so is
that `learn_conv3` goes on moving a channel's weights by the mean of earlier gradients,
those of frozen channels not excepted (`colonel-core.inc:1070-1084`).

### PicPipes, Kleption, Synth

| variable | code |
|---|---|
| `fp`, `child` | the `fp` and `pid` of the one `Picreader` ("in") and `Picwriter` ("out") that may be open |
| `readers`, `writers` | which processes hold each end of each pipe (external): `fork` copies all that `main` holds |
| `data`, `buf`, `pend` | what is in a pipe; in the `FILE` of the `Picwriter`; on its way from there |
| `left`, `got` | what the reader's child has yet to write, what the writer's has read |
| `scene` | the command line: source, sink and options; fixed in the initial state |
| `todo` | `main`'s calls, in order; a `load` or `place` puts its own before the rest |
| `kl`, `tkl` | the loaded nodes and the `idi` of every node of the source, and of the target |
| `line`, `frames`, `have`, `dat` | the place in a list of ids; VID's count; how much of a picture is read; the frame in `dat` |
| `hand`, `disk`, `log` | the sample picked last and its id; what sinks wrote, by name; history of what was placed or paired |

A picture goes through a pipe in `Parts`, the last of which waits in the `FILE`'s
buffer for the next write or `fclose`.  End of file and SIGPIPE follow from who
holds an end.  A tree of sources is a function from paths to leaves; `Pick` is the
recursion of `pick`, with its second try in the next sub, as a recursive function
on the loaded nodes and counters, and returns what it read so that `Synth` makes the
children for it.  An id is the path and the numbers that `sprintf` prints; `Find`
walks down it.

### Pipeline, Kernels, Training

`Pipeline` has for each layer type what each of the three functions asserts of
it (`PrepAccepts`, `SynthAccepts`, `LearnAccepts`, `BackAccepts`) and the shape it hands
on (`PrepShape`, `SynthShape`, `LearnShape`), each worked out as that function does.
`PushAccepts` and `Pushed` are what `make` turns a spec line into.  The three lists of
exceptions, `Refused`, `ScalesDown` and `Unlearnable`, name the layers on which the
functions do not agree.

`Kernels` has every `synth_` and `learn_` kernel as a bag of products: for one
output cell, the input cells and the weights they are multiplied by; for one
input cell or weight, the output cells whose gradients it gathers and what they
are multiplied by.  Numbers are symbols otherwise.  Inputs have signs and an
order, on which relu, abs, clamp and smax branch.  Each thread writes one cell,
so the order of threads (backwards in `colonel-nocuda.cc`) does not matter; medi,
where it does, is left out.

`Training` runs the commands.

| variable | code |
|---|---|
| `setup` | the command, the chain and its members, every cortex's layers, the sample size |
| `ctx[c]` | a `Cortex`: `iwh`, `owh`, `kbufn`, the regions of `kbuf`, `kout`, the `pushbuf` stack, `dw` (what was added to each layer's gradient), `rounds` |
| `host` | buffers outside of cortexes: a Paracortex's `_kinp` and `_kout`, the command's `ktmp` and `ktgt` |
| `walk` | the walk of `pipe_prep`, `pipe_synth` or `pipe_learn` that is under way: layer, offsets, shape, and (for the recursion of `pipe_learn`) its frames |
| `todo` | the calls left of the preparation or of this round, in order |
| `iter`, `rep` | rounds and saves so far |
| `updated`, `verdict` | history: what each layer's last update was made of; where the program died |

A region of a buffer holds per channel where its value came from: which of this
round's or an earlier round's samples, which layer put it out, and whether it is
that output, a gradient towards one of the losses, or the mask that `synth_smax`
leaves.  A read at an offset where no region of that size begins is `Junk`.  So
a wrong offset, a stale buffer, a gradient used as an input and a lesson taught
twice can all be told.

The loops are lists of calls, in the order of the source; `ForMembers` is the
`for` over a Paracortex's members with its running channel offset.

## 3. Runs

| run | instance | shows |
|---|---|---|
| `pieces` | `EGServer`: 2 kids, 1 connection, 3 pipelined requests of 2 bytes, buffers of 3, queues of 2, answers of 3 bytes and of 1, headers 0, -4 and an invalid one, selects that fail, symmetric | `TypeOK` with the buffers' bounds, `RequestStream`, `AnswerStream`, `OneOwner`, `DeletedForCause` |
| `live` | 1 kid, 2 connections, 2 requests each, window and outbuf of 2, queue of 1, fair | `OneOwner`, `Reaped`, `RequestReply` with its fairness |
| `frames` | `TileServer`: 1 kid, 1 connection, 3 requests, lengths of 2 bytes, PNGs of 1 or 2, outbuf of 5, queue of 2, fair | `Framed`, `FrameFinished`, `RequestReply` with its fairness |
| `tiles_one` | `TilePyramid`: 1 kid, levels 0-2, three tiles whose quads overlap and wrap, 2 kills, fair | `FromPublished`, `CallsFit`, `NeverAborts`, `Frozen`, `Served` |
| `tiles_procs` | `ServerProcs`: 2 kids on one directory, levels 0-1, the four tiles of a quad, a fork that may fail, both may die, symmetric | `OncePerKid`, `EndsLast`, `WaitsReturn` |
| `cortex_one` | `CortexFile`: 1 learner, 1 reader that reloads, an unfreeze, 1 kill, a `conv` layer of 2 channels, of which 1 is frozen, a save every round, up to 3 rounds, readers fair | `SavesKept`, `FrozenUntrained`, `NeverOlder`, `ReadersCatchUp` |
| `cortex_many` | 2 learners, a reset, 1 kill, a header and a frozen channel, a save every round, `stoprounds` 3, fair | `RoundsNotOvercounted`, `LearnersStop` |
| `unfreeze` | the unfreeze command alone | a finding: `SavesArePrepared` is violated |
| `cortex_make` | `CortexMake`: 2 makes, with and without `clobber`, 1 user, specs of 3 layers, 1 kill, symmetric makes | `WholeChains` |
| `synth` | `Synth`: about 500 scenes, pictures of 2 parts, pipes of 2, 1 child that dies, fair | `ScanOrder`, `Delivered`, `IdsNameSamples`, `StuckWhenCutShort`, `EndsUnlessStuck` |
| `training` | `Training`: 3742 set-ups, 2 rounds, GPU | `PreparedPipesRun`, `RunPipesLearn`, `BuffersHold`, `RunsOnThisRound`, `GradientsGoHome`, `RoundsTeach`, and of the kernels `KernelsStayInside`, `KernelsTeach`, `ForwardExact` |
| `training_cpu` | one chain of one cortex on CPU kernels | a finding: `ChainsSynthesize` is violated |

`KernelsTeach`, `ForwardExact` and `WholeChains` are conjunctions of named parts.

### Bounds

*Servers.*  The buffers, queues and requests are shrunk until each can be full,
partly full and empty independently, and so that their sizes are not multiples
of each other: a request may straddle two slurps, an answer may be larger than
the send queue, a second answer may or may not fit behind the first.  Three
requests are enough for a request to be handled while another is partly read and
the answer of a third partly sent.  Two kids race for the connection in `pieces`;
two connections in `live` make a kid erase one from the list while it walks to the
other.  `MaxRequests`, `Window` (unanswered requests of a peer) and `BacklogN` are bounds
of the peers and the kernel.  `SelectFaults` (a `select` that fails, and whose result
`server.cc:249` ignores) is on in `pieces`, where some turns fail and others do not, and
`failed` tells them apart; the theorems hold with it.

*Tiles.*  Three levels are the least in which a quad's parents have parents of
their own that are shared, and in which tiles at the edge wrap to tiles of
another quad.  Two kills let a kid die in a quad and again while it repairs it.
In `tiles_procs` two kids want tiles of the one quad, which is when their puts race;
both may die, in either order, before `wait` has got to them, and one fork may fail.
It has two levels, since two kids on three have some two million states; the
recursion over three is in `tiles_one`.

*Cortex files.*  A header and two channels, one of them frozen, make a save and a
load tear between header and weights and between weights, and are the cases of
`freeze`; the learner's next save undoes the unfreeze.  A learner that stops after a
round and is started again, or goes on since the command wrote an old count back,
makes several saves, which the reader's loads overlap.  Chains of several
layers and files are in the theorems only.  Two learners are enough to overwrite each
other's counts, and three rounds to stop at make them go back for more after they
did.  `MaxLearned` bounds the rounds; in `cortex_many` no behaviour gets to it, so that
it is `stoprounds` that stops the learners, though the reset sets the count back once;
its one channel is frozen, for neither property is about weights.  Three layers of a spec let a
user open a file after the first, and again between a later grow and its header;
two makes are what `O_EXCL` and `clobber` are about; a kill may hit any process in any
of its steps.

*Synth.*  Videos of 0 to 4 frames against limits from none to 5, repeated or not:
the source ends before, at and after the limit, within a pass and across passes,
with more to come than a pipe holds and with less.  Two parts are the least for
which a picture can be cut, and a pipe of two for which the reader's child can
block.  The trees have pictures, nested directories and raw files of two samples,
so that a sub ends at the end of its own list while its parent goes on.  All kinds
of sink, plain and piped.  Pairs are of sources that match and of two that do not.
One child may die.

*Training.*  All pipes of one or two layers from a list of spec lines of nearly
every layer type, with and without named sizes, for samples of 1 or 4 channels
and 2x2 or 4x2 pixels; all of one layer at 3x4 with 3 channels (so that width,
height, channels and filter sides differ); five shapes of chain (one or two
members, one or two Paracortexes) under `learnhans`, with and without `cnd`, and
`learn`.  Two rounds show what a round leaves to the next.  Width 2 under a filter
of radius 2 is the largest radius the wrap-around admits.  Two inputs, one all
alive and one of mixed signs with equal maxima, take each branch of relu, abs,
clamp and smax.  A pipe runs deterministically, so each set-up is one path.

Deadlock is not checked where the system may really stop: when a command has
ended (`CortexFile`, `CortexMake`, `ServerProcs`, `Synth`, `Training`).

### Fairness

`EGServer`, `TileServer`: each kid keeps running (`while (1)`, and `select` has a 50 ms
timeout), hence weak fairness of a kid's next step; a peer that has not vanished
keeps reading (`Receive`), without which no server could deliver.  No peer must
connect, send or finish.

`TilePyramid`: every kid inside `tile_png` keeps running; nobody must ask.  The random
order of the parents needs no fairness: every order ends.  `ServerProcs` has no
fairness: that `wait` returns is stated as the readiness of its `waitpid`
(`WaitsReturn`), of which it makes `Count`.

`CortexFile`: a running learner, reader or command keeps running, since none of
their steps waits for anybody (`FairSpec`); `cortex_one` assumes it of readers only
(`ReaderSpec`).  Nobody must start, finish early or be killed.
`ReadersCatchUp` speaks of behaviours in which the learners have stopped for good.

`Synth`: weak fairness of `main`, of the reader's child and of the writer's child, three
processes the kernel schedules.  A child's read, write and exit are its own steps;
that external readers and writers make them is assumed, as by anyone who runs
them.  Nobody has to close the display, and no child has to die.

`CortexMake`, `Training`: none; they have no liveness property.

## 4. Proofs

All are proved from the modules' named assumptions only, for every value of the
constants: any number of processes, any sizes, any number of kills.  Where a theorem
has a hypothesis of its own, it is named in the theorem and explained here.

### The servers

The lemmas of `ServerProofs` are about the steps of the loop and of the peers, and leave
`handle` open; each server's module adds its own `handle` and joins them.

* `TypeCorrect` (`EGServerProofs`): `Spec => []TypeOK`, with failing selects: types, and
  that `inpbuf`, `outbuf` and the kernel's queues never exceed their capacity.  `TypeOK`
  is inductive: `slurp` asks for no more than fits, `write` appends only what fits.
* `RequestStreamKept`: `Spec => []RequestStream`.  Inductive together with `TypeOK`: every
  step moves bytes between neighbouring parts of `eaten \o inp \o up` or appends to both
  sides; concatenation is associative.
* `OwnersKept`: `Spec => []OneOwner`.  `OneOwner` says nothing of what a kid has still to
  visit when it is between passes, where a client it accepts must not be behind its visits;
  `OwnerInv` adds that `todo` is then empty, and else the end of `clients`.
* `AnswerStreamKept`: `Spec => []AnswerStream`.  `AnswerInv` has three parts, each for less of
  the connection left: `got \o down \o out` are the answers while it is open, `got \o down`
  a beginning of them after it was closed, and `got` after its peer vanished.  It rests on
  `OwnerInv`: a client is closed once, and only while it is open.
* `NeverDeletedWithoutCause`: `Spec => DeletedForCause`.  It needs `ToldInv`: what a `select` that
  worked has told a kid of a client still holds at that client's turn, since the
  bytes are taken by nobody else, and a peer only adds to them.
* `TileServerServes`, `FramesFinished` (`TileServerProofs`): the four properties above for the
  tile server's `handle`, and `Spec => FrameFinished`.  The inductive invariant adds
  `Aligned` (`handle` has eaten whole requests, so that an `inpbuf` begins with a header) and
  `PngReady` (between the two writes the PNG of the last request eaten fits).
* `FramesArrive`: `Spec => []Framed`.  `FrameInv` says what `made` is, which `Framed` does not
  mention: on an open connection the frames for the requests eaten, but for the
  PNG when a kid is between the two writes, and a beginning of them on a closed one.
  The rest is `AnswerStream`, and that the frames for the requests eaten are the first of
  those for the requests sent, since `eaten` is the beginning of `sent` and a request
  stays where it is in a stream that grows.
* `RequestsServedInOrder` (`EGServerProofs`), `TilesServedInOrder` (`TileServerProofs`):
  `Spec => Abstract!Spec`, the safety of `ServesRequestsFairly` and `ServesTilesFairly`, also
  with failing selects.  A byte sent that ends a request is an `Ask`, one received that
  ends an answer a `Reply`, a close or a vanished peer an `End`; every other step is a
  stutter.  `AskInv` says which bytes a peer sends, so that whole requests are in `Requests`,
  and `ReplyInv` that the replies in `made` are the first `n` requests sent, `n` being those
  `eaten` (for the tile server `FrameInv` gives that, with `FramingReplies`).  A `Reply` is then
  the next request: `got` with the byte is a beginning of `made`, and the replies in a
  sequence are those in its parts, one after the other (`RepliesConcat`).

### The tile directory

* `QuadsAlwaysFit` (`ServerProcsProofs`): at every level, for any number of them, the
  quads partition the torus, each tile is in the quad that `tile_rgb` computes for
  it, and the tile above it is one of the quad's parents.  The two axes are
  independent and alike, so the argument is made once, along one axis, on
  remainders of a width that doubles.
* `CallsAlwaysFit`, `TilePngNeverAborts`: the assertions of `tile_rgb`, `put_tile` and
  `tile_png` hold for any number of kids, levels and kills and any files, of tiles
  asked for with `z < 32` (`handle` passes the peer's `z` on as it came, see 6).
  `NeverAborts` alone is not inductive: that the file is there when
  `tile_rgb` has returned rests on what every earlier put of that call left.  The
  invariant `Inv` adds: root's file is there, a call past its look is not for
  root, of a call that is putting the tiles before `next` have their files, and a
  kid's outermost call is for the tile its `tile_png` was asked for.  It is kept
  because no step removes a file.  `CallsAlwaysFit` uses `QuadsAlwaysFit`.
* `EachQuadOncePerKid`: `Spec => []OncePerKid`.  `OnceInv` adds, for a kid that was not killed,
  that a quad it has made and is not putting now has all of its four files, and that
  it has not made those it is getting the parents of; the calls on its stack are each
  for a level above that of the call they are made for.
* `PublishedStays` (`Spec => Frozen`) and `MadeFromPublished` (`Spec => []FromPublished`), both
  under `OneKid`.  The hypothesis is needed: with two kids and a chain that adds noise a
  later `spit` replaces what an earlier one published, and the code promises no more.
  `OneInv` says that the pictures a call has got are those in the parents' files, that
  the tile a call is for is missing until that call puts it, and that every file is
  one of a synthesis of its quad, made from the parents' files.
* `ProcsImplementPyramid`: `ProcsSpec => Spec`; every step of the kids and
  their parent is a step of `TilePyramid` or a stutter.  All theorems above hold of the
  processes thereby; `ProcsSynthesiseOnce` is `OncePerKid` for them.
* `MainEndsLast`: `ProcsSpec => []EndsLast`.  `ProcsInv` says that, while `main` serves, the
  pid of every kid that lives or is a zombie is among those `wait` has not got to yet.

### Cortex files

* `SavesAlwaysKept`, `ReadersNeverGetOlder`, `FrozenChannelsUntrained` (`CortexFileProofs`) under `OneLearner`
  and `NoReset`.  Both hypotheses are needed: two learners overwrite each other's
  weights, and `reset` throws them away; neither is hindered by the code.  Readers,
  `unfreeze`, kills and restarts may be any.  The invariant bounds every copy by what
  it was made from: a learner that is past its copy of a part has at least what
  the file has, a reader at most; so a save, in any order of headers and channels and
  cut off anywhere, only adds to a file.  Of a channel that its file
  says is frozen a learner has exactly the file's weights: no round adds to them,
  an `unfreeze` only ends that, and the one step that makes a channel frozen again is
  that of a save which puts back its header.  From then on until that save has
  come to the channel they may differ (`Behind`), which is `PuttingBack`, the exception that
  `FrozenUntrained` names.
* `RoundsNeverOvercounted`: `Spec => []RoundsNotOvercounted`, for any learners, resets,
  unfreezes and kills.  `RoundsNotOvercounted` speaks of the file and of all rounds ever learned;
  a save takes from the learner's own counter, and a process writes back a header
  that it loaded.  `Counted` therefore adds, of every process: the rounds in the header it
  holds, with what it has still to add, are not more than the rounds learned.
  Those are a sum over the learners, of which a step changes one term; the model
  assumes that the learners are finitely many (`CortexFileAssumption`).
* `MakesWholeChains` (`CortexMakeProofs`): `Spec => []WholeChains`, for any number of makes and users,
  specs of any length and any kills.  The inductive invariant says that, unless
  the file was clobbered under a process, it is untouched or of one make: `Making`
  has what is in the file at each place of that make, `Using` what a user has at
  each of its places.  A user that is past `open` without being early came
  when no make was under way, which is why its copy is scrammed; an early user has
  a beginning of the make's layers, for they stay as they are while more are pushed.

### The pipeline and the learning commands

* `LayerAgrees` (`TrainingProofs`): a layer of any type, size and channels that `pipe_prep`
  takes, `pipe_synth` and `pipe_learn` take as well at the shape it measured, but for
  the layers `Refused` and `ScalesDown` name.  A case for each type.
* `PreparedRun`, `RunLearn`, `BuffersAlwaysHold`: `Spec => []PreparedPipesRun`, `[]RunPipesLearn` and
  `[]BuffersHold`, for every command, chain, pipe and sample size of `SetupOK`, and any
  number of rounds.  `LayerAgrees` is about one layer at one shape; that every walk is at
  that shape, and every call at the right time, is what `TrainingInv` adds:
  - a `Laid` sequence of places (shape, offset in `kbuf`, offset in `dw`) says what
    `pipe_prep` has found of the layers it has been through, and `PreparedAs` that `iw`,
    `ow`, `kbufn` and `dwn` are those of the whole pipe.  A walk of `pipe_synth` is at such a
    place, or, past a layer that scales down, nowhere further; one of `pipe_learn`,
    with the frames of its recursion, is at such a place too;
  - `Serves` says of the calls in `todo` what each needs (a prepare its source's size, a
    synth a prepared Cortex, a learn one that has run too), what it gives the later
    ones, and that at their end there is what the next round needs.  It is proved of
    every list of calls the commands make, from lists that are put together
    (`ForMembers` over the members of every Paracortex, in any number);
  - `RunsOK`: a Cortex that has run has been through all its layers, so that each is
    one `pipe_synth` accepts; that is why `pipe_learn` may only fail for the lack of a kernel.

### Sources of samples

* `IdsAlwaysName`: `Spec => []IdsNameSamples`, for any trees, traversals, lists of ids and limits of
  `SceneAssumption`.  It is about what `pick` and `find` compute, two recursions over
  a tree of any depth and width:
  - both go to a longer path at each call, and no path is as long as the number of
    nodes (`PathsAreShort`, since every beginning of a path is a node).  So that the functions
    exist, and what is said of them, is proved by induction over how far a node is
    from that depth (`PickExists`, `PickAllGood`, `FindExists`, `FindLeads`);
  - `GoodPick` says what `pick` returns from a node: a sample whose name is the path to
    the node and the id's, whose `v` is that of a raw file, and counters that are still
    in range (`States`).  That they are is needed for it: the next `pick` uses
    a directory's `idi` as an index, and a sub may give way to the next in the
    same call (`ThroughGood`);
  - `FindIsGood`: what `find` finds for an id is what the id names, except that a picture
    ignores the `v`; with `VOfRaw` of the sample in hand, and since no raw file is paired
    with a picture, the pairs agree;
  - `SynthInv`: those, and that `main` has only calls before it that belong to its command.
* `AlwaysDelivered`: `Spec => []Delivered`, for any sources, sinks and options, any `Parts`, `PipeN` and
  `MaxDeaths`.  `DeliverInv` says at each call of `main` what is under way: `Stage` has a case for
  each place in the sequence of open, write, push, close and reap that `place` and the
  end of the command make, with the calls still to come.  In all of them `Sent`, what the
  writer's child has got, then what is in the pipe, then what `main` is pushing, then the part
  that stays in the buffer, is what the Picwriter was given (`Due`), in order.  `main`
  lets the pipe go when nothing is under way but in the pipe, and a child that ends has
  read that; so what `got` has when the child is reaped, and goes to `disk`, is all of it.
  `Stored` and `Appended` say it of the pictures and samples before.  `PipesTyped` and `MainTyped`
  are the types, which the sequences need.
* `StuckExactly`: `Spec => []StuckWhenCutShort`, as generally.  Both directions need to know what
  the reader's child has still to hand over, and who holds the read end of its pipe:
  - `VidInv`, of a video that becomes a video through pipes (`Both`): at each call of `main`,
    `First(r)` (the parts read, in the pipe and with the child are those of `r` more
    pictures, and a writer's child has the read end too), or `Spent` (the child has
    written all), or `Again` (a later pass, whose read end only `main` has).  `Spent` and
    `Again` imply that nothing is cut short.  Where `main` reaps the reader after the limit ended
    the first pass, `Hanging` has the count; if it is more than a pipe holds,
    neither child can make a step that matters, and `main` none.  At the other calls
    after that close nothing was cut short (`AtEnd`);
  - `PicInv`, of a tree: what was opened is read to its end before any other call, so a
    reader that is reaped has nothing left; `FitWord` says of calls that every open
    is followed by its read, and that lists of calls made of such lists are such;
  - `PlainInv`, `PairInv`: a plain video has no child, and the commands that learn have no
    sink and so no writer's child.
* `SceneAssumption` is what the code asserts or cannot be otherwise: the command is one of the
  two that are modelled, its limit a number; a directory has files
  (`kleption.cc:513`), a raw file has samples (`kleption.cc:974`), the names in a path lead to it.
  Two files of a pair have names that end alike, which is what their kind is made
  from.  An id in a list that was made for a picture has no `v`.

### Sums, frames, replies

`RoundsNotOvercounted` adds with the community modules' `SumFunction`, `Framed` joins with their
`FlattenSeq`, and `Replies` collects the answers that are whole; all are recursive functions.  What they compute is proved from their
definitions by induction over sets of numbers (`NatSetInduction`, which follows from the
library's theorem that inclusion of finite sets is well-founded): first that the
function exists, then for example that a sum whose one term changes, changes by as much
(`SumChanges`), and that a sequence's flattened beginnings grow by an element at a time
(`FlatCut`, `Flattens`, `CutGrows`).

### Only model-checked

* Liveness (`Reaped`, `ServesRequestsFairly`, `ServesTilesFairly`, `Served`, `LearnersStop`,
  `ReadersCatchUp`, `EndsUnlessStuck`) and `WaitsReturn`, which speaks of `ENABLED`: beyond the
  prover.  Of the fair `RequestReply` that TLC checks, the safety is proved and the fairness
  is not.
* `RunsOnThisRound`, `GradientsGoHome`, `RoundsTeach` follow a value from where it was made
  through every later call of a round; the invariant would be the contents of all
  buffers at every place of every list of calls.  They are checked on every shape of
  chain that has a copy of its own in the code.
* `KernelsStayInside`, `KernelsTeach`, `ForwardExact` compare bags of products that recursive
  functions collect: induction over data.
* `ScanOrder` of `Synth`: it counts the samples before one in the order of names, which a
  proof would have to do for every tree.

## 5. What the work has shown about the code

Findings (a run has the counterexample):

* `unfreeze`: the command opens a cortex and saves it without `prepare`; `save` copies
  the weights from a null `kbase`, and the command dies after it changed the header.
* `training_cpu`: a chain hands its first Paracortex no input; one with a single
  member copies from it, which on the CPU kernels is `memcpy` from NULL.  This is
  why the run `training` is on a GPU.

Servers:

* `slurp` and `flush` compare the *result* of `read`/`write` with `EAGAIN`
  (`client.cc:27`, `:45`); `write` compares `errno` (`:75`).  Any `EAGAIN` in the first
  two deletes the client.  `DeletedForCause` shows that this cannot happen while
  `select` works: in a turn whose `select` worked, also in a run in which others fail, no
  client is deleted for want of bytes or of room.  A `select` that failed in the same
  turn and tells of a client that is not ready is one of the causes that it names
  (`Misled`), and without it the property is false.
* A peer that half-closes its connection after its requests is deleted at the 0
  that `slurp` gets, and loses the answers still in `outbuf`.
* Requests longer than `inpbufn` can never be read; `EGAssumption` excludes them.
* `stop` of -4..0 indexes `ctxv` from its end without a check against the chain's
  length (`egserver.cc:77-80`).  The model assumes a chain of at least five.
* `Server::extend` and `EGServer::extend` are never called, so `reload=` does nothing.
* `start` keeps the -1 of a failed fork as a pid.  `wait` then asks for any kid: it
  reaps one that is dead and aborts, and the kids that live go on without a parent;
  `stop` would `kill(-1)`.  (It runs only with an empty list.)
* A kid that died is not replaced, and is a zombie until the kids forked before it
  have died.
* Each request's `buf` and `rgb` are not freed (`egserver.cc:83`).

Tiles: with two kids and a chain that adds noise, both may find a tile missing and
the later `spit` replaces what the earlier one published; `Frozen` and `FromPublished`
are stated for one kid for that reason.  No document promises more.

Cortex files:

* Several learners on one file overwrite each other's weights and counts, and
  their saves may mix channel by channel.  What holds is that rounds are never
  over-counted and that the learners stop.
* A kill inside `save` leaves weights of two saves, and a count ahead of them.
* A running learner's next save undoes an `unfreeze`, for it writes back the
  layer headers it loaded.  While it runs it does obey the file's header.  As `dek` may put
  back the header that says frozen before the weights that learned meanwhile, those
  change under it (`PuttingBack`), and a kill between the two leaves the old
  weights.  A channel that is frozen again goes on moving by the mean of its last
  gradients (`learn_conv3`).
* A make that is killed between `create` and the write of the `Head`, or between a
  `ftruncate` and the header after it, leaves a file that never opens again, and that
  `make` refuses without `clobber`.
* A spec error half way leaves a shorter chain, which opens, with weights of zero.
* Who opens a file before its make is done has loaded zeros, and its first save
  writes what it learned from them over what `scram` drew.
* `make clobber=1` empties a file under those who have it mapped: they die of SIGBUS,
  or their saves mix two specs.  `WholeChains` leaves this case out.
* `open` maps a page more than `close` unmaps: it counts the `Head` twice (`cortex.cc:1900`).

Sources, sinks, pipes:

* `synth` with a `limit` from a video to a video hangs if more is left of the source
  than a pipe holds: the reader is closed first and its child waits to write,
  without a SIGPIPE, for the writer's child inherited the read end; that child
  waits for the end of its own pipe, which `main` would close next.  This is so in
  the first pass only; a reader opened after the writer is not inherited.
  `StuckWhenCutShort` has the condition, `CutShort`, and that it is exact; `StuckExactly` proves it.
* `assert:(!fp)` (`picpipes.cc:172`, `:205`) is a label and a statement, not an assertion.
* A reader's child that dies between two pictures is taken for the end of the
  source, and one of a writer that dies at the end for a finished file.  (Between
  the parts of a picture it is an assertion or a SIGPIPE.)
* `load` of a picture ignores what `read` returns (`kleption.cc:523`).
* `lowmem` with a scan reads each picture twice and leaves it loaded, for the `pick`
  that says it is through loads it again; `find` never unloads.
* `pick` takes a byte v to (0.5 + v)/256, `find` to v/255.  In the raw kinds `find`
  asserts that nothing has to be cropped, where `pick` crops: the pairs `<<Deep(1),
  Deep(0)>>` of the run abort on a target that does.
* `place` into a directory drops the last part of an id, so that the samples of a raw
  file, and the crops of a picture, all go to one name.  `Delivered` counts the last.
* An RVG sink that has seen one pixel aborts in its destructor.
* `srctrav=refs` without `srcrefs` reads from a null `refreader`.
* `cam`'s check of channels compares the height (`kleption.cc:443`).

Pipeline and kernels:

* `pipe_prep` takes layers that `pipe_synth` does not: `mean` and `smax` whose channels
  do not divide, `ups`/`dns` with a `dim` other than 1 or 2, a line that names `ih`
  without `oh` (`if (vih) assert(voh == oh)`, `cortex.cc:1299`).
* A `scal` that scales down shifts by a negative count in `pipe_synth`
  (`cortex.cc:858-860`).
* The assertion on `ih` of a `dns` in `pipe_learn` parses as a test of `ih` against a
  truth value.
* `crop`, `blur`, `tlab`, `flab` cannot be learned (`assert(0)`), nor `medi` on a CPU; a
  command finds out when the first gradient gets there.
* `synth_smax` leaves weights in its input.  An `enc` that begins with `smax` therefore
  gives `inf`, which copies that input afterwards (`tewel.cc:412`), a mask.
* Preconditions that nothing asserts (`Sane`): a filter's radius is at most the
  picture's side (less, if channels are frozen), `freeze` at most `ic`, `popp`'s `oc`
  at most its `ic`.  Beyond them kernels read cells outside of their layer.
* `norm` does not teach its factors (`#if 0`), `cent` passes the gradient on as it
  is, `inrf` takes the slope at the gradient: `InexactLayers`.

## 6. What is not modelled; plan

Floating point (the values a layer computes, Adam's update, Rando's statistics,
`normalize`, the head and tail operations) is out of TLA+'s reach.  Devices (V4L2,
SDL) behave as their drivers do.  Formatting, conversions and the parsing of options
have no behaviour of their own worth a model; neither have the commands that are a
straight line from options to one call (`spec`, `edit`, `bless`, ...).  Sources that
make their samples up (RND, RVG) or film them (CAM) have no end and no order, and
only their kinds would be left of them.  The heap is not modelled: no property is
about leaks or double frees.  The GPU's blocks and grids are not modelled; what
would need them is `medi`, whose `learn_median` overwrites cells that threads of other
blocks still read (`colonel-core.inc:1630`).  An `egserver` on a chain of fewer than five
parts indexes before its start; `EGAssumption` excludes it.  A tile server aborts a
request's kid on a `z` of 32 or more: `assert(z < 32)` (`tileserver.cc:240`) is on the
number in the request's header, which `handle` does not look at (269-277).  `TilePyramid` and
`TileServer` take it for a precondition and ask for tiles with a smaller `z` only.
`load` of a picture takes no notice that a child wrote nothing (`kleption.cc:523`) and dies
later, at an error about the size or at `pick`'s `assert(dat)`; `ReadEof` lets it die at the
read, for nothing that others do comes between, and leaves out that it may end well
when the size happens to fit and the scan ends first.

Still to be modelled, as far as it is worth it: `medi` as a kernel of blocks;
several cortexes that are unprepared and prepared again at another size.

Still to be proved, as far as it can be: that `ups` and `dns`, and the kernels that
permute cells, are inverse bijections of indices for every size; the order of a scan.
