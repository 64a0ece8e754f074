# rkvc: TLA+ models, model checking and proofs

This directory holds a TLA+ development of the codec SDK in `src/`: modules
translated from the source, TLC configurations that check them on small
instances, and proofs for every value of the constants. Line numbers below are
those of the sources named; `PROJECT.json` maps each definition to its lines.

## 1. The system

A program makes a *context*, loads plug-ins and models into it, describes a
*request* (decode, encode, transcode or upscale, with endpoints), and creates a
*session*. The session plans a line of steps, builds a graph of nodes from the
best candidates, opens it, and runs one thread per node with bounded queues
between them. The application pushes frames and pulls frames, or the endpoints
are files.

| component | state | operations | interacts with |
|---|---|---|---|
| bounded queue (`core/include/rkvc/queue.hpp`) | items, end flag, end status, mutex, two condition variables | push, try_push, pop, try_pop, close, cancel | every pair of neighbouring threads |
| executor (`core/src/executor.cpp`) | threads, `active_`, first error | launch, worker, fail, wait, shutdown | queues, nodes, session |
| session (`core/src/session.cpp`) | plan, graph, executor, input and output queue, `started_`, `closed_` | create, start, push, push_eos, pull, try_pull, wait, close | planner, graph, executor |
| graph (`core/src/graph.cpp`) | nodes, edges, resolved ports | build, open, close_nodes; the queue adapters; the download bridge | registry, nodes, specifications |
| plan (`core/src/graph.cpp`, `context.cpp`) | steps, candidates, current candidate, fallbacks | plan, advance | registry, session |
| specifications (`core/src/spec.cpp`) | none | unify, is_linear, eff_stride, min_size | graph |
| file endpoints (`core/src/fileio.cpp`) | the file | open, process, close | executor |
| registry, context, plug-ins (`registry.cpp`, `context.cpp`, `plugin.cpp`) | factories, models, capabilities, library handles | add, candidates, load_plugin, add_model, probe | planner |
| model store (`model.cpp`, `c_api.cpp`) | models with their payloads | load_model_dir, register | context, mlvc |
| frames (`frame.cpp`) | shared buffers | alloc, share, map | every node |
| mlvc codec (`codecs/mlvc`) | two reference frames per side, rate controller, range coder, container | encode, decode, force key frame, demux | model store, NPU |
| h264h265 (`codecs/h264h265`) | MPP context, group of buffers, frames and packets due | process, flush | MPP |
| av1 (`codecs/av1`) | SVT context, packets due | process, flush | SVT |
| super-resolution (`codecs/sr`) | model instance | process | NPU |
| program stream (`codecs/pspack`) | bytes not yet consumed, sniffed codec | mux, demux | files, decoders |
| C interface, command line (`c_api.cpp`, `cli`) | handles | conversions around the above | application |

### What is hard, and what makes each part correct

* **Queue.** Four condition-variable calls (`notify_one` per item and per
  place, `notify_all` at the end) shared by blocking and non-blocking calls. No
  item may be lost or duplicated, the limit is kept, the first end is final and
  comes after all items, and no thread sleeps while its condition holds.
* **Executor and running session.** A failing worker records its error,
  unlocks, and then cancels queue after queue while its neighbours keep popping,
  pushing, flushing and failing themselves; `close()` does the same from another
  thread. An error must never surface as a clean end of stream, the reader must
  always be told an end, the end it is told must be the one `wait()` returns, and
  `close()` must return although nobody pulls.
* **Planner and graph.** Building and opening can fail at any node; the step
  that failed must be the one that moves to its next candidate, nothing may stay
  open, and the loops must end. Splicing a bridge changes positions.
* **Negotiation.** Fields are wildcards one by one; what two ports agree on
  must admit what both admit, and a bridge must not be put where none is needed.
* **Codecs.** mlvc's two sides must hold the same reference pictures under
  drops, long-term references and refreshes; demuxers must find records across
  arbitrary cuts; MPP and SVT must be drained and flushed without losing what is
  due, and retries must meet their deadline.

The hazards of `PROJECT.json` name each of these at its line.

## 2. The modules

```
BoundedQueue ── QueueMonitor ── QueueMonitorProofs
      │              └────────┐
      └──── Pipeline ───┬─ Stream (abstract)
                ├── PipelineProofs
                └── BlockedEmit
Specs ──┬── Negotiation
        └── Planner ──┬── PlannerProofs
                      └── MCPlanner (candidate lists for TLC)
Mlvc ── MlvcProofs
Pipeline, Stream ── MCPipeline (two sessions in one run)
BoundedQueue ── MppDecoder, MppEncoder, SvtEncoder ── Transcode ── Stream
                                                          └── TranscodeProofs
Negotiation, Context, RangeCoder ── PartsProofs
ProgramStream ── ProgramStreamProofs
PixelLayouts ── PixelLayoutProofs
Negotiation, Context, ProgramStream, RangeCoder, PixelLayouts ── MCParts
```

**`BoundedQueue`** is the queue as operators on one record `[buf, end,
status]`. Every method holds the mutex from first to last access, so one call is
one step of the modules that use it and a blocking call is a guard. `Capacity`
keeps the constructor's rule that 0 means 1. `End` is the sticky end that
`close` and `cancel` share; `Cancel` ignores Ok, Again and Eof as the code does.

**`QueueMonitor`** takes that guard apart: threads are inside a call, awake or
asleep; `notify_one` wakes any one sleeper of its condition variable, sleepers
may wake spuriously, and a woken thread may find another faster. It justifies
the guards of `Pipeline`.

**`Pipeline`** is a running session. Queue 0 is the session's input, queue `w`
the edge into node `w`, queue `NodeCount` the output. Each worker has a program
point: `pop` (executor.cpp:119), `work` (inside `process`), `flush`, `fail`
(before the lock), `cancel` (between the unlock and the end of the loop, with
the next queue in `cursor`), `endout` (the sink ends the output queue), `leave`
(the guard object), `done`. `fail()` is deliberately split where the code
releases its lock and between two cancels; `shutdown()` is split between any two
cancels (input, output, then the edges) and joins afterwards. The endpoint adapters and the
file endpoints are nodes 0 and `NodeCount - 1`; a codec in between is the
contract of `node.hpp`: it takes a frame, may keep `Lookahead` of them, emits in
order, may fail, and emits the rest in `flush`. What a node may report is up to its
role (`Reports`): a codec any error, the file source that it got no memory, the file
sink a frame it cannot read or write. A read that fails is no error of the file source:
`PopEnd` is a queue that has ended or, by `ReadFails`, a file taken for read to its end as `fileio.cpp:66-74` does. So what a session has
`Accepted` is what was pushed, or what its source has read. Frames are numbers in order of
acceptance, so order and completeness are arithmetic.

**`BlockedEmit`** is `Pipeline` with sleepers: where `Emit` waits in its guard, a worker
whose next edge is full first goes to sleep in `push` (`Sleep`), and later wakes to a place or
to the end of the edge (`Wake`). `dropped` remembers the finished frames that were refused
after a wait which began before anything had failed. It serves finding 1 only.

**`Stream`** is what a user of a session or a queue relies on: frames leave in
the order accepted, only a status in `Cutting` may end the stream early, and
what the reader is told as the end is final. `Pipeline` implements it with
`Cutting` the errors, `QueueMonitor` with `Cutting` empty (even a cancelled queue
gives out all it accepted). The refinement mapping takes `accepted` from
`Accepted`, `sealed` from the end of queue 0 or from the file source's having met the end, and the outcome from `pull()` for a
frame sink and from `wait()` for a file sink.

**`Specs`** has `unify`, the bridge test, the bridge's ports and its
`configure`. The four dimensions behave alike and are one function. **`Negotiation`** settles one
edge for every pair of ports and compares the result with a reference that does
not mention merging: `Fits(frame, port)`.

**`Planner`** has `Plan::advance`, `Graph::build` with its four passes in order
(nodes and arity, edges, configure, bind_model, each with the position it
blames), `Graph::open` node by node, the roll-back, and the fallback loops of
`Session::create` and `Session::start`. A candidate is a record of its ports,
the formats it takes and what each call may return; `open` may fail one time and
succeed the next. Building touches no device, so it is one step. A bridge gives
the nodes behind it positions of their own, one more than the plan's.

**`Mlvc`** is the neural codec from end to end. The encoder's `process`
(encoder.cpp) is `DropFrame`, `CodeFrame` or `EncodeFails`: the frame type from
`cur_frame_idx`, `iframe_period` and `force_idr`, the mark and the recovery, the
drop of a plain P frame when the controller asks for it (and quality 0 when the
frame must not be dropped), the rung, the two reference slots `encRefs`, the
record. The controller itself is external: it asks for any quality or a drop,
and `pending` is its `have_pending_`. `log` is the stream; `Arrive` gives the decoder
any number of further units of it, so it is cut at every place, and `damaged`
names a record (or the header) that arrives with an impossible size. The
decoder's loop (decoder.cpp:454) is one action per pass: malformed, not enough,
`lazy_init`, repeat, decode, fail. A feature is named by the record that made it:
`Picture` gives that name only if the decoder used the reference and the quality of the
encoder, and `Drift` otherwise, so "the pictures are the same" can be said
without pictures. `trail` is a history: the encoder's slots after each record.

**`MppDecoder`**, **`MppEncoder`** and **`SvtEncoder`** are the codec nodes that
drive a device, each with the worker that runs it. A worker's program point says
which loop of the source it is in: for the decoder `put` (decoder.cpp:252, the
retry of a packet), `full` (the drain between two tries), `drain` and `flush`;
for the MPP encoder `code` (the packets of the last picture, encoder.cpp:388) and
`eos`; for SVT `drain` and `flush`. MPP is external: it takes a packet or is full,
announces the geometry once, keeps pictures back, decodes into any buffer that no
MPP frame refers to, splits a picture into packets, and may stop for good between
any two of these. SVT is external as well, but it is software with threads of its own.
`naps` counts the sleeps of the put's ten seconds; the deadline is set anew
whenever a drain emitted something (decoder.cpp:285-302). The encoder's one
output buffer is `outBuf`: what a packet carries is read from it when the packet
is emitted, not when MPP made it. Where a call fails, the error and the state it
leaves behind are those of the code, a buffer group without an encoder included
(encoder.cpp:231-241).

**`Transcode`** puts the decoder and one of the encoders on the two sides of an
edge, as the graph of a transcode does. `open` may refuse either of them; when
both are open the workers run, and the session may be closed at any point: output
first, then the edge, then, when both workers have left, the nodes. It implements
`Stream` with the pictures' numbers as frames.

**`Context`** is a context from its first scan on: the directories in their order,
the entries of each in any order (`unread`), `load_plugin` with its checks, the
model store, and the plan of a request. A library is what `dlopen` and the
descriptor come to (a status) and the ids of its factories; `Stage`, `Serves` and
`Rank` are the `stage`, `matches` and `priority + score` of the shipped factories.
`Plan` gives what `Planner` takes: the ranked candidates of every step.

**`ProgramStream`** is the muxer and the demuxer of `ps.cpp` on bytes with the
code's own header lengths. `Scan` is one round of the loop in `Demux::next`, by the start
code that is next: `AtPack`, `AtHeader` (system header and map), `AtPes` with `Packet`, or one that is passed
over; the round goes on at another position, waits with a cursor, hands out a frame or fails.
`NextCall` drops what was read before and runs the rounds (`Rounds`, a recursive function: every round gets
further, so there are no more than bytes). Bytes whose value nothing depends on are `Filler`.

**`RangeCoder`** is `rans.cpp` with the widths as parameters: tables and their
acceptance, the symbol's reciprocal, shift and bias as the encoder computes them, the
renormalisation, escapes with their digits and the count of digits, and the decoder with
its limit of digits and its check of the end. The two variants differ in the widths and
in how many units the state is flushed to. The loops are recursive functions over the numbers
up to their bound (`Sums`, `Put`, `Read`, `Got`), or choose the first number of rounds at which
the loop's condition fails (`Renorm`, `Refill`, `DigitCount`).

**`PixelLayouts`** describes a kernel as the set of its stores, pairs of a
destination and a source index, with the vector and the scalar part of each loop; the
8x8 transposition is its three rounds of exchanges. Half-precision numbers keep eleven
significant bits (`Half`).

**`MCParts`** runs `Negotiation` and the four last modules side by side: a behaviour picks one
of the five (`part`) and the others stay as they are. They share no state; one run
checks them all.

The definitions whose comment begins with "A fault" (`LastErrorWins`, `RollBackKeepsFirst`, ...) are
plausible bugs of the definition that follows them. Each property of a passing
run is known to fail when one of them is put in the place of that definition.

## 3. What the runs show

| run | instance | states | shows |
|---|---|---|---|
| PipelineSafety | 4 nodes, edges of 1 place, 1 frame, both codecs may fail with one of two errors, close at any time | 1.1 M | `IInv`, `EofMeansComplete`, `ReaderNotStranded`, `WaitAgreesWithPull`, `LastEdgeDrained`, `EndIsFinal`, refinement of `Stream` |
| PipelineSessions | 3 nodes, edges of 2, lookahead 1, fair threads; *file*: file to file, 2 frames, reading and writing may fail; *live*: 3 frames, the codec may fail | 0.4 M | `SessionsEofIsComplete` (a clean end only when all that was read or pushed has gone through), `SessionsCarryStream` (refinement of `Stream`), `LiveReaderIsTold`, `CloseReturns` |
| PipelineCancelRace | `BlockedEmit`: 4 nodes, the first of two codecs may fail, edges of 1, 3 frames | | `ProcessedFramesDelivered` is violated: finding 1 |
| QueueMonitor | 2 producers, 3 consumers, 2 places, 4 items, one error and one ignored status to cancel with, fair threads | 1.7 k | no lost wakeup (`ItemHasTaker`, `PlaceHasFiller`), calls return, refinement of `Stream` |
| Transcode | 3 access units, edge of 1, 1 packet in MPP's input, 1 picture kept back, 2 buffers, pictures in 1 or 2 packets, any device call may fail, MPP may stop, close at any time, both encoders | 0.5 M | `ChainCarriesStream` (refinement of `Stream`), `CallsReturn` |
| DecoderReuse | the same | | `PictureIntact` is violated: finding 5 |
| Parts | *negotiation*: 2 formats, 2 domains, 2 layouts, 2 dimensions of 3 values; *context*: 8 libraries in 2 directories, 5 bundles, 6 requests; *stream*: up to 3 units of 2 codecs, pieces of 1, 2 and 29 bytes, joined at 3 places; *entropy*: both variants, 2 tables, up to 3 values of 6 with 3 indices; *pixels*: 4 tensors, 4 blockings, 4 pictures, 2 cores, 3 latents | 0.3 M | `MergeAdmitsBoth`, `RefusedOnConflict`, `PlanIgnoresListing`, `FactoriesStayLoaded`, `FramesAreThoseMuxed`, `RoundTrip`, `TensorsKeepElements`, `PicturesKeepSamples` |
| NegotiationBridge | with the unknown format | | `BridgeOnlyOnConflict` is violated: finding 2 |
| PlannerFallback | every ranking of up to 3 decoders and up to 3 of 6 encoders (host, device, open ports; failing in create, bind_model, open), limit of 3 fallbacks | 79 k | `NoNodeLeftOpen`, `StartedLineAgrees`, `FailedStepAdvances`, `UnbridgedFailureFallsBack`, `SessionReturns` |
| PlannerBridgeFallback | the same lines, limit of 8 | | `OpenFailureFallsBack` is violated: finding 3 |
| Mlvc | 4 frames, rungs 10, 20, 40 against 10, 20, 30, long-term period 3, key frames forced or every 3 frames | 1.0 M | `SameReferences`, `PicturesAreThoseCoded`, `WholeRecordsAreRead`, `KeyFramesAreEntryPoints`, `RecoveryUsesLastMark` |
| MlvcDropReport | the same | | `EveryFrameIsReported` is violated: finding 4 |

**Why the bounds are enough.** The races of `fail()` and `shutdown()` are
between two workers and the closer, so four nodes give two codecs that fail at
once, an endpoint on either side, and an edge on either side of each codec.
One frame already fills an edge of one place; `PipelineSessions` has the longer
streams, deeper edges and held-back frames, and the proofs lift what can be
proved to all values. In `QueueMonitor` a lost wakeup needs a sleeper and a
faster thread on the same side plus one on the other, hence three consumers.
`PlannerFallback` lets both steps fall back twice and the limit be met; a longer ranking only repeats a step. The negotiation of `Parts` has for each field
an equal, an unequal and (dimensions) a wildcard value.
`Mlvc` has a mark, a drop and a recovery after a key frame, or a key frame between
mark and recovery, in its four frames; a header, a record and a payload of two units
each can be cut inside and at both ends; the rungs include one the decoder lacks and
one the encoder lacks. Its proofs are for any period, rungs and length.
In `Transcode` three pictures fill the edge, the input of MPP and a place in between;
with two buffers and one picture kept back a buffer is reused while its picture waits on the edge;
two packets per picture give an output buffer that is still due when the next picture could come.
In `Parts` the pieces cut every header of the program stream at every place (pieces of 1 and 2), or deliver packs
with the head of the next (29); the places to join are the start, the middle of a pack and the middle of a packet.
The coder's widths (units of 3 and 6 bits, 3 symbol bits, 2 bypass bits, escapes of 6 bits) keep the
relations of the real ones that the code depends on: a state of lower bound plus unit, a
state of 4 or of 2 units, symbols of frequency one, an escape of the greatest number of digits and a digit count
that is itself the largest digit. The tensors have widths and channel counts on both sides of a vector of 8 and of
a block; the pictures odd and even sides, planar and interleaved chroma, and padded rows.

**Deadlock** is not checked in any run: a session stops when it is closed, a
queue when its items are used up, an edge when it is settled, a codec when the bound of frames is reached or a
side has failed. That nothing stops
where it should not is what the liveness properties say.

**Fairness.** `PipelineSessions` assumes weak fairness of each worker and of
`close()`: the operating system runs every thread that can run, a mutex is
granted, and a node's call returns. Nothing is assumed of the application's
pushes, of `start` or of `close` being called. `LiveReaderIsTold` assumes a reader
that keeps pulling, in its own statement, because a frame-sink session asks for
one (`docs/architecture.md:21`); `CloseReturns` does not. `QueueMonitor` assumes
that a thread awake inside a call gets the mutex, and neither that calls are made
nor that wakeups are spurious. `PlannerFallback` assumes that `create` and `start`
run on their caller's thread. `Transcode` assumes that the workers and the closing
thread run and that SVT does its work; nothing is assumed of MPP, which may stop for
good at any point, and nothing of when or whether `close` is called.

## 4. Findings

1. **A processed frame can be lost to a racing cancel** (`executor.cpp:79`). The
   comment above it promises that the two phases of `fail()` never lose fully
   processed frames. They do protect what is already in the last edge
   (`LastEdgeDrained` holds), but a codec that waits in `emit` for room in the last
   edge is given the error when that edge is cancelled, and its finished frame
   is dropped. In the run the second codec sleeps in `push` on the full last edge, with
   nothing failed; the first fails and cancels the edges; the second wakes and is refused.
2. **A bridge is spliced in where negotiation would have succeeded**
   (`graph.cpp:340`). A consumer that leaves its format open has domain Host by
   default and unifies with the probe; `unify()` itself would have accepted the
   edge. The bridge then resolves its output port to the unknown format and its
   `configure` refuses, so `build` fails. Sessions of the MPP decoder into an
   open output format, or into an encoder with an open input port, are refused.
3. **Behind a bridge the wrong step falls back** (`session.cpp:68`). `Graph` reports
   positions in the graph, `Plan::advance` takes plan steps. The encoder behind a
   bridge is looked up one step too far, at the sink, and `start()` gives up
   although the encoder has a further candidate. Without a bridge
   (`UnbridgedFailureFallsBack`) the property holds.
4. **Dropped frames are not reported to the rate controller** (`encoder.cpp:292`).
   `ratectl.hpp:33` says that they pass `payload_bits` 0 to `update()`, and the
   controller's tests do so; the encoder returns without the call, so the record's
   header is not counted and the planned excess is not carried on.
5. **A decoded picture can be overwritten while it waits** (h264h265
   `decoder.cpp:139`). The frame on the edge holds a dup of the buffer's descriptor,
   and the MPP frame is given back right after the emit. The dup keeps the memory, but no
   reference that MPP counts: the buffer returns to its group, and the next picture may be
   decoded into it before the neighbour has read the first. `frame.hpp:40` promises
   that a borrowed payload outlives its frame. The run needs two buffers and three
   pictures; with more buffers it needs a deeper edge or a slower reader.

Some remarks that no run states. `unify()` drops the dimensions of a side whose
format is unknown (`spec.cpp:97`), although `spec.hpp:47` speaks of a field-level
merge; so `Parts` and the theorem below are about known formats. The
fallback never backtracks: an edge that cannot be negotiated is blamed on its
consumer (`graph.cpp:495`), so a decoder with a better successor is not replaced
when its consumer has no further candidate, although `graph.hpp:18` says
"backtracking fallback". Two libraries of one directory that share an id: which of them is
refused is up to `readdir` (`PlanIgnoresListing` leaves such directories out). A refused
`add_model_dir` keeps the models before the refused one (`c_api.cpp:244`). A node
that wants a model and is given no id gets the first one registered, whatever its role
(`graph.cpp:512`).

## 5. What is proved

The proofs hold for any number of nodes, threads, frames, places, formats, sizes
and candidates, from the named assumptions in the modules. Two of these carry
weight in `Pipeline`: `NodeContract` (a node never reports Again or Eof from `process` or
`flush`; `fail()` ignores both, so such a node would end its thread silently) and
finiteness of the sets of threads. `Transcode` has `BoundsAssumption`, `Context`
`IdsAssumption` and `SearchPathAssumption`, and `PixelLayouts` `ShapesAssumption`: numbers are natural, ids are
among those listed, shapes are not empty, and a block size is at most the 16 of `choff` (`pixel.cpp:299`). `Planner` has `LinesAssumption`: every step of a
plan has a candidate (`Context::plan` refuses a request otherwise) and an endpoint
adapter is the only one of its step; TLC evaluates it for the lines of the runs.
`RangeCoder` has `WidthsAssumption`, `TablesAssumption`, `ValuesAssumption` and `EscapesFit`: a state
has room for its units, and a symbol or a raw digit has no more bits than the lower bound (23 or 31); an
escape has no more digits than the decoder takes, `32 / bypass_bits` (`rans.cpp:467`). The codec uses 16 and
2 bits (`codec.cpp:57`), for which both hold of every 32-bit escape. `create()` admits more than the
theorem assumes. With 24 to 30 symbol bits in the byte variant the lower bound is no multiple of the total
any more, and a symbol can leave the state below it: at 24 bits, one symbol of frequency 1 at
start 0 leaves state 0, which `open()` refuses. And with digit widths that do not divide 32 the encoder writes
the largest escapes with one digit more than the decoder takes.
`ProgramStream` has `StreamAssumption` (a packet's length fits its two bytes; `kPesChunk` is 60000) and
`UnitsAssumption`. A receiver from the start of the stream needs nothing of the units but that they are bytes. One
that joins within a packet looks for start codes in the rest of it, so for joins elsewhere the start codes within a
fragment are assumed to be those of NAL units, whose first byte has its highest bit clear, counting
the two zeros that end a packet's header without a time stamp. A fragment that begins with 1 and a byte from 0x80 up breaks
that: a receiver that joined within this header would take it for a packet. Whoever read the header before is not
affected.

| theorem | says |
|---|---|
| `PipelineProofs!Invariance` | `Spec => []IInv` |
| `PipelineProofs!TypeCorrect` | types and bounds of all variables |
| `PipelineProofs!DeliveryOrder` | frames come out in the order accepted, without gaps |
| `PipelineProofs!EofIsComplete` | Eof at the output means that all accepted frames (pushed, or read from the file) are there and no node has reported an error, file sinks included |
| `PipelineProofs!ReaderGetsEnd` | when all workers have left, the output queue has ended |
| `PipelineProofs!FirstEndWins` | ends and the first error are final |
| `PipelineProofs!WaitAndPullAgree` | without a file sink and without `close`, `pull` ends with what `wait` returns |
| `PipelineProofs!LastEdgeIsDrained` | without a file sink and without `close`, a failure drops nothing that had reached the last edge |
| `PipelineProofs!SessionIsAStream` | a session with any endpoints implements `Stream` |
| `QueueMonitorProofs!Invariance`, `NoLostItem`, `NoLostPlace` | no lost wakeup |
| `QueueMonitorProofs!QueueIsAStream` | the monitor implements `Stream` with nothing that may cut it short |
| `PartsProofs!AgreementAdmitsBoth`, `RefusalOnConflictOnly` | `unify` is the meet of two ports of known format; refusal means conflict |
| `PlannerProofs!NothingLeftOpen` | no device stays open behind a failed start |
| `PlannerProofs!TypeCorrect` | choices within the lists, fallbacks within the limit, only nodes of the graph open |
| `PlannerProofs!StartedLine` | the edges of a running session carry what both ends asked for |
| `PlannerProofs!NoneIsPassedOver` | without a bridge, `start` gives up only when the failed step has no other candidate or the limit is met |
| `PlannerProofs!HostLineAdvances` | in a line of four steps fed from host memory, the candidate given up is the one that failed |
| `TranscodeProofs!TranscodeIsAStream` | a transcode by MPP, into either encoder, implements `Stream`: the pictures are written in order, and a clean end follows all of them |
| `PartsProofs!CtxInvariance` | `CtxSpec => []CtxInv`: the registry holds the factories of the open libraries, ids distinct; in orderly directories these libraries are the ones that count |
| `PartsProofs!LibrariesOutliveFactories` | a registered factory belongs to a library that is open |
| `PartsProofs!ListingDoesNotMatter` | a plan's candidates are those that serve the request, best first, in whatever order `readdir` lists the directories |
| `PixelLayoutProofs!TensorsSurviveTheKernels` | the tensor kernels keep every element, with and without vectors, for tensors, blocks and strides of any size and block sizes up to 16 (`pixel.cpp:299`), and the two passes' scales are those of their hyper-latents |
| `PixelLayoutProofs!PicturesSurviveTheKernels` | a picture with even sides survives the way to the network and back, the super-resolution input has every sample at its phase, and each sample gets the residual of the pixels it covers |
| `PartsProofs!LosslessCoder` | the entropy coder is lossless in both variants: values, escapes and values without a distribution come back in order, no call fails, the end check included, and the state keeps to its interval |
| `ProgramStreamProofs!StreamIsLossless` | the demuxer gives out the units that were muxed and that begin after the join, whole, in order, once each, with their time stamps, whatever the pieces; it never fails |
| `MlvcProofs!TypeCorrect` | types of both sides; a long-term reference exactly where `have_ltr` is set |
| `MlvcProofs!ReferencesAgree`, `PicturesAgree` | the decoder follows the encoder, record by record |
| `MlvcProofs!EntryPoints`, `RecoveryIsSound` | key frames are entry points; a recovery uses the last mark |
| `MlvcProofs!Demuxed` | records are read whole, and all that are complete |

**Pipeline's argument.** None of the three main properties is inductive.
`EofMeansComplete` needs to know why queue `NodeCount` could end with Eof: its
sink closed it after a flush, which it entered because queue `NodeCount - 1` had ended
with Eof and was empty, and so on back to the input. `EofChain` states that for
every queue: it ended with Eof only if every worker before it has left with status
Eof and everything accepted has passed. `Conservation` (what entered a queue is
what left it plus what is in it; the same for a node) turns "empty" into "all of
it has passed". `ErrorHasOrigin` then excludes a recorded error: some worker would
have left with that error instead of Eof. `ReaderNotStranded` needs `WorkerAt` (a sink that has
left has ended the output queue) and `ActiveCount` (the counter is the number of threads that
have not left). Order comes from `Contents`: the k-th item of a queue or node is the k-th
after those already taken. The proof splits `IInv` in a data part
(`DataInv`) and a control part (`ControlInv`), with one lemma per action for each.

**QueueMonitor's argument.** "Each item has an awake taker, or nobody sleeps" is
inductive together with its counterpart for places: a wakeup hands one awake
thread to each new item, a thread that finishes takes one item and one awake thread away,
and a thread falls asleep only when there is no item.

**The end of a session.** Which error ends the output queue is a race between the
workers' cancels, the sink's own end and the first error that is recorded. `OpenInv` follows it
while nobody closes: the first error is the only status any cancel uses (`CancelsAgree`), so
every queue that is cancelled has that status (`EndsAgree`); the output queue is ended by
its sink and nothing else (`OutputLast`), with the end that the sink has found at its edge
(`SinkAgrees`), and the sink finds it only when the edge is empty (`SinkDrained`). Both theorems exclude a file
sink, which has no reader and may fail itself. `close` breaks the invariant, and it may: it ends the
output first. For the refinement, `CarryInv` adds to `IInv` that a worker past the lock of `fail()` has an
error on record (`FailureRecorded`) and that a sink which left while none is recorded has
passed on the whole of its edge (`CleanExit`); each action then is a step of `Stream` or a stutter. The monitor's refinement
needs the count of items in every state (`Accounted`) and that a caller is told an end only when the queue has
one and is empty (`ToldTheEnd`).

**Negotiation's argument.** `unify`'s result is characterised by `Fits` field by field.

**Planner's argument.** The open nodes are exactly those before `next` while opening, all when
started, none otherwise (`OpenPrefix`). `BuiltSound` says that the graph at hand had no fault when it was
built, which is what makes a started line agree: a bridged edge has the ports of the two nodes themselves, as the
bridge's are unknown, and an edge without a bridge has one merged port. The order of faults has a least
element because checks and places are numbers (`FirstFaultIn`). A failed position is the step's
unless a bridge comes before it. `HostLineAdvances` uses that a plan has at most four steps (`Context::plan`):
the only bridge that could come before a step with alternatives is the one between the two in the middle,
and it moves the second of them to where the sink would be, which has no alternative. So the fallback can miss a
candidate (finding 3) but does not replace a wrong one. This needs a source in host memory; with a
source of Dmabuf frames a bridge behind it would move the first step to the place of the second.

**Mlvc's argument.** The decoder may be any number of records behind, so equality of
the slots now is not inductive. `HistoryOK` keeps the encoder's slots after every
record and says (`Fits`) that each pair came from the one before by what the record says: its
flags, its reference and its quality, which is one of the encoder's rungs. One step of the
decoder then takes it from one pair of the history to the next (`PictureOK`), provided
that its rung is the record's: that is where `RungsAgree` enters, because a
single-rung decoder takes any record. `SlotsOK`, about the same history, gives the
two properties of key frames and recoveries; `EndsGrow` (records lie one behind
the other) those of the demuxer.

**Transcode's argument.** The pictures are in a row of places: delivered, inside the encoder,
on the edge, in the decoder's hand, ready in MPP, kept back by MPP, in MPP's input, not yet put.
`Places` says that each place holds the numbers behind those of the place after it, `Follows`
the same for the edge, `MppOrder` and `SvtOrder` for the encoders. The end of the stream travels behind the last
picture, and `Marks` says that it overtakes nothing and that the geometry comes
before the first picture. All this is `Carrying`, and it holds while the reader has not been told
an end: an error, or `close`, leaves the places in disorder, so afterwards `Control` is all that is
known, and it is enough, because a worker that has left delivers nothing. The one picture inside the
MPP encoder is the subtle case: what is written is the content of `outBuf`, so the invariant has to say
that no further picture is coded before the last packet of this one is out.

**Context's argument.** `Registry` says that the factories are those of the open libraries, with distinct
ids; `Scanning` says which libraries are open: among the directories read so far those that count, that is, are
accepted by themselves and have no id that is built in or belongs to one of an earlier
directory. `Counts` is recursive over the search path, and
that such a function exists is proved by the least directory at which it would not. Within a
directory the order is open, which is why `Orderly` leaves out directories with two libraries of
one id. A list of candidates is the sorting of a set (`Sorted`): "has n - 1 before it" is one to one because
rank and id order the candidates strictly, ids being distinct.

**The pixels' argument.** A layout is a number in mixed radix, so it is one to one, digit by digit, and
what a buffer holds after a kernel follows from its stores (`MovedEach`). The
transposition of eight vectors is followed by bits: each of its three rounds exchanges one bit of the row with
one of the lane (`Once`, `Twice`), so row and lane have changed places in the end. With that the
stores of the vector loop and of its tail are, as a set, those of the scalar loop. Depth to space
takes a channel apart into a phase and a channel of the output, and the block
kernel reads a channel where its block has it. A latent's hyper-index is in range for every
geometry that is accepted, and is the same for the latents of one 4 by 4 square.

Pictures are kept the same way. A sample is a channel, a row and a column; its places in the planes, in the
network's layouts, in an NV12 picture and in the phases are numbers in mixed radix again
(`SpotOneToOne`, `DotOneToOne`, `PhaseOneToOne`), so each kernel's stores name each place once, or, where
samples are averaged, once for each source. A byte survives half precision (`ByteSurvives`) because its
fraction is in units of 1/2^k with 2^k >= 1024: the two roundings together are off by less than a
half. `Sum` recurses over a set; that the function it chooses exists, and that a sum of naturals
is one, is shown by the smallest set where it would not be (`SumsExist`, `SumNatural`), which needs only that
the naturals have a least element. The mean of one source is that source
(`MeanOfOne`), the residual of a chroma sample is the mean of four different ones (`FourDiffer`,
`MeanOfFour`), and every place of the super-resolution input belongs to some pixel
(`PhaseCovers`), so none is left blank. The inductive invariant `PicInv` says for each layout what the buffer holds,
sample by sample; the property alone says nothing of the layouts in between.

**The range coder's argument** goes from the inside to the outside. Multiplication by the reciprocal and shift is
division by the frequency for every state below the limit (`ReciprocalDivides`, `SymbolStacks`), as the
reciprocal is rounded up by less than a frequency and has one bit more than the state. The units that leave in
`Renorm` are the digits of the old state, and `Refill` stops after exactly as many, because every shorter
prefix is below the lower bound and the old state was not (`UnitsReturn`, `RenormReturns`). Together: `advance` undoes
`put_sym` and `put_raw`, whatever was pushed before (`SymbolReturns`, `DigitReturns`). A count of
digits ends with the only digit that is not the largest, so the decoder finds both the count and the digits,
which assemble to the escape (`BypassReturns`); the sentinel's interval, the sign and the offset give the
value (`ValueReturns`); flush and open give the state (`StateReturns`). `RoundTrip` alone is not inductive, since
it says nothing of the units in between. `RcInv` has a history `h` of the encoder's states, one per value
(`Trail`), and the decoder with k values received stands at the k-th of them from the end; so after the
last value it stands where the encoder began, which is what `check_eof` asks. The history is
stated with the coder's operators, which depend on `coder`; `At(c)` instantiates the module for a
constant coder, so that they are the same before and after a step (`Steady`). Induction is by the least
number at which a set would fail (`Induction`), and recursive functions exist by the same argument
(`Recursion`).

**The program stream's argument** goes along the wire. A fragment carries its headers and its bytes
(`FragmentIs`, `Carries`), and packet n of unit k has its pack at `Base(k, n)`, its packet header at `Pes(k, n)` and its end at
`Ends(k, n)` (`PacketsAre`). A start code lies at the head of a header, or in what a joiner finds of
a packet that had begun before (`HeaderCodes`, `BodyCodes`). So from any position near packet (k, n) the first start code in
sight is one of that packet's headers or one that `next()` passes over (`FirstCode`). `FramesAreThoseMuxed` is not
inductive: it says nothing of the bytes kept, the cursor and the unit in progress. `Reading` relates the demuxer to a place of the
wire: the buffer holds the bytes from `o + 1` to `got`, the position is near packet (k, n), the open unit is
the beginning of the one that packet belongs to or follows, the frames handed out are the units before that since the join, and a
map that went by was read. A round keeps `Reading` and gets further, waits for the end of packet (k, n), or hands out
a frame (`PackGives`, `SystemGives`, `MapGives`, `AtPesGives`, `StrayGives`, `NothingGives`, together `ScanGives`). A position
cannot get past the buffer, so a call comes to an answer within its rounds (`NextGives`). Forgetting what was read
and appending bytes keep `Reading` as well (`TrimmedReads`, `ArrivedReads`), and a join establishes it (`JoinReads`).
The invariant `PsInv` says so of every state, and when the demuxer waits, that packet (k, n) is incomplete, from which the number of frames
follows (`LaterUnseen`, `SeenFrom`).

**Only model-checked:**

* liveness (`LiveReaderIsTold`, `CloseReturns`, `CallsReturn`, `SessionReturns`, `ItemsAreTaken`,
  `PlacesAreFilled`, `EndedCallsReturn`) and `ENABLED`, which the prover does not handle;
* `SessionsEofIsComplete` and `SessionsCarryStream` as such: they are `Pipeline`'s theorems (`EofIsComplete`,
  `SessionIsAStream`) for the two sessions of `MCPipeline`, and the theorems hold for any session.

## 6. What is not modelled, and why

* `wait()` before `start()` (returns Ok at once) and pulling from a session that
  is closed without having been started (nobody ends the output queue, a pull
  waits on): the second behaviour is in `Pipeline`, no property forbids it.
* That a file was not read to its end: the session ends with Ok (`fileio.cpp:66-74`), `Pipeline` has
  that (`ReadFails`), and no property is about the rest of the file, as nothing in the process
  tells the two apart. `fclose` of the sink is ignored by the code (`fileio.cpp:189`).
* A program stream whose sender switches codec. `emit_au()` labels a unit with the map in force when
  it is handed out (`ps.cpp:417`), which is after the next key frame's headers; the streams of
  `ProgramStream`, and `StreamIsLossless`, are of one codec.
* A second `start()` after a rebuild that failed opens the old graph although the
  plan has moved on; `Planner` has this behaviour (`idle` again, with `built` behind
  `index`).
* Values of pictures and tensors beyond where they go, `eff_stride` and `min_size`, reference counting
  of frames (`std::shared_ptr`), the copy of the download bridge, logging and diagnostics text.
* The NPU runtime, MPP and SVT themselves; they are external, and modelled by what
  the nodes may see of them. The files of `npu_rknn.cpp` and `rknn_live.cpp` are calls into
  the runtime, one after the other.
* Floating point: the rate controller's bucket and model (`ratectl.cpp`), the bicubic weights and
  the rounding of half-precision values; the integer widths of the range coder are kept in their proportions.
* Reading tables and patches (`pmf.cpp`, `qptab.cpp`, `qppatch.cpp`), SHA-256 and the bytes of the
  mlvc container: parsing of fixed layouts without state.
* `probe_device`: what it finds is one choice (`device`) in `Context`. Paths, suffixes and
  the ABI fields of a descriptor are the status of a library.
* The C interface's structure checks and conversions of enumerations; `valid` of a request in `Context` stands for
  `Request::validate`. Regions of interest are read by the encoder as data.
* The command line, exporters, benchmarks (`tools/`), examples and packaging.

## 7. Plan

Modelled first, because every session runs through it: the queue, the executor with its session,
negotiation, and the planner; then the neural codec's references and its demuxer. Modelled
since: the device codecs and a transcode of them, context, plug-ins and model store, the program stream, the range
coder and the pixel layouts. Open, in this order:

1. **Rate control** over an abstract number type with the order and signs of the code's sums.
2. **Frames**: regions, buffer sizes and strides against what the download bridge copies.
