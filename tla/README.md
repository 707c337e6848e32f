# Verification of the LoRa cloud-RAN base band unit

The program receives LoRa frames with several remote radio heads (RRHs) and decodes them on a central
server, the base band unit (BBU). This directory holds TLA+ models of the parts that make the system a
distributed one, TLC configurations that check them on small instances, and proofs of the most important
invariants for every size of the system.

Contents: [1 The system](#1-the-system) · [2 Modules](#2-modules) · [3 From code to model](#3-from-code-to-model) ·
[4 Runs](#4-runs) · [5 Bounds](#5-bounds) · [6 Fairness and assumptions](#6-fairness-and-assumptions) ·
[7 Proofs](#7-proofs) · [8 What the code does not keep](#8-what-the-code-does-not-keep) ·
[9 Not modelled](#9-not-modelled) · [10 Plan](#10-plan)

## 1 The system

```
 RRH  frame detector -> rrh_zmq_sink --PUSH samples--> lora_rx_buffer --PUB samples--> worker_zmq_source
                             ^                            ^      |                       |  lora_frame_sync
                             | DEALER                     |DEALER| NEW_FRAME             |  zmq_dealer_sink
                             v ROUTER frontend_rrh        v ROUTER frontend_buffer       |     | symbols (IPC)
                            +--------------------------- broker ---------------+  ROUTER |     v
                            |  work list, worker pools, buffers, stops         |<--------+  rx_combining
                            +--------------------------------------------------+  backend   decoding chain
                                                                     ^----- DEMOD_DONE ---- worker_zmq_sink -> application
```

| Component | State | Operations | Hard behaviour | What makes it correct |
|---|---|---|---|---|
| **broker** (`framework/bbu/broker.cpp`), one thread | work list, pools of idle workers, RRH and buffer lists, streams in progress, flags of a half-read request | new RRH, buffer ready, new frame (combine or new work; worker idle or to be spawned), worker ready, end of synchronization, end of demodulation, replies, keep-alive | a request is read in two parts with other messages in between; a work can end by its demodulator, by its workers giving up, or both at once; idle workers are forgotten and asked again | flags agree with the socket; no worker serves two works; nobody works for a work that has ended; every request gets a worker |
| **lora_rx_buffer**, a thread per RRH | sample queue, number of workers waited for, state of registration | register, message of the RRH (headers, samples, heartbeat), reply of the broker, time-out | several frames wait at once; replies and headers in any order; queue cleaned while full | no sample goes out before its listeners are there; none twice or out of order; it does not end or starve while it waits |
| **rrh_zmq_sink**, in the RRH | frame list per channel, address of its buffer | ask for a buffer, stop a channel, detection, time-out of a frame | a stop crosses a new detection; a stop could arrive first | it stops when nobody needs a channel; the first message it reads is its address |
| **worker_zmq_source** (synchronization worker) | idle or working, current job | job, keep-alive, end of work, giving up, samples | its messages have several parts read in different turns; the end it is told and the end it decides cross | one right to a job at a time; an end is for its own work |
| **lora_frame_sync** | state, counters of repetitions, tag that is held, position in the input | tag, window of DETECT, end of repetitions, synchronization or rejection, output | counters are kept over calls and works; a tag may come between any two steps; the position moves in jumps | it looks for the preamble where the repetitions were; it never gets stuck; its output is a stream of whole symbols with one tag per work |
| **zmq_dealer_sink** | stream of symbols of a job | start of a frame, next symbols | streams go on after the work has ended | a stream goes to the demodulator of its job |
| **rx_combining** (demodulation worker) | streams of the work, symbols output, decoded header, clock | message of a stream, no message, header decoded, end of a work | three asynchronous sides: streams, decoder, broker; leftovers of former works; the state is kept from work to work | symbols of different streams are in step; the frame has the announced length and ends; the next work starts clean |
| **decoding chain** (`gr-lora_sdr`: header_decoder, dewhitening, crc_verif), **worker_zmq_sink** | position in the frame, bytes collected, last tag | items or a tag in the input, invalid header, frame complete, report | four threads cut the stream where they like; tags travel with items; state is kept from frame to frame | each frame is reported once, with its own bytes, and leaves nothing behind |
| **coding** (`gr-lora_sdr`: Hamming code, interleaver, Gray mapping), transmitter and receiver | none | encode, interleave, map and back | index arithmetic modulo block sizes, tables cut by the code rate | what is sent is received, also with one symbol wrong |
| **clocks** (frame detector, rrh_zmq_sink, worker_zmq_source) | time of the next sample in each of the three | time tag of the radio, pulse per second, resync to the local clock, tag of a frame, window of samples | one clock is set from another at arbitrary offsets; the radio loses samples; the detector's clock jumps to the local one | samples of a frame are kept, and timed right, but for what was lost and the jumps of the detector's clock |
| application, RRH process, radio front end, test aids, Python tooling | | | | device access, output and generated code: section 9 |

The components share no memory: they interact through ZeroMQ sockets, and inside a worker through GNU Radio
buffers and messages. The only callbacks are GNU Radio message handlers (`frame_info_handler`).

## 2 Modules

| Module | What it is |
|---|---|
| `Sockets` | the pipes and every message type; extended by all components of the system model |
| `Broker` | `broker::run`: one action per message it can handle |
| `RxBufferGate` | a buffer as the rest of the system sees it: registered or not, how many workers it waits for |
| `RrhSink` | `rrh_zmq_sink` and the detections of its RRH |
| `SyncWorker` | `worker_zmq_source`, and the stream that it feeds |
| `DemodWorker` | a demodulation worker as the broker sees it |
| `Bbu` | all of them composed; fairness |
| `BbuProperties`, `MCBbu` | what the system promises; instances for TLC |
| `BbuProofs` | proofs about `Bbu` in every instance: types and attribution; workers and their works; RRHs and buffers |
| `ApartProofs` | proofs about `Bbu` while no two frames are combined: requests, works and streams are counted exactly |
| `RxBuffer`, `MCRxBuffer` | `lora_rx_buffer` in detail, its promises, its refinement of `RxBufferGate` |
| `FrameSync`, `FrameSyncProperties` | `lora_frame_sync` in detail, reading the samples of several works; its promises, its refinement of `SymbolStream` |
| `SymbolStream` | abstract specification of the stream a demodulation worker gets from one synchronization worker |
| `FrameSyncProofs` | proofs about `FrameSync`, its refinement among them |
| `SampleClock` | the three clocks between radio and synchronization worker, and what is dropped by them |
| `SampleClockProofs` | proofs about these clocks |
| `RxCombining` | `rx_combining` in detail, with the streams that feed it and the chain behind it |
| `FrameOutput` | abstract specification of what leaves `rx_combining` |
| `CombiningProperties`, `MCCombining` | its promises, its refinement of `FrameOutput`, fairness; instances |
| `CombiningProofs` | proofs about `RxCombining`, the refinement among them |
| `RxBufferProofs` | proofs about `RxBuffer` |
| `QueueLemmas` | lemmas on sequences used as queues, for all of these |
| `DecodingChain`, `DecodingProperties` | the blocks behind the Hamming decoder with their buffers and tags; its promises, its refinement of `PayloadDelivery` |
| `PayloadDelivery` | abstract specification of what is reported of the frames |
| `Coding` | Hamming code, interleaver and Gray mapping of both sides, as functions |
| `BlockTransmission` | a block on its way from transmitter to receiver |
| `DecodingProofs` | proofs about `Coding` and `DecodingChain`, the refinement of the chain among them |

Four abstractions are checked rather than believed: the gate of the system model is implemented by the
detailed buffer (`ImplementsGate`), the output of the detailed combiner implements `FrameOutput`
(`FramesInOrder`, proved for every instance), the reports of the decoding chain implement `PayloadDelivery`
(`DeliversPayloads`, proved for frames without surplus nibbles), and the output of the frame synchronizer implements `SymbolStream` (`OutputIsStream`, proved
for every instance), which is what `RxCombining` lets its senders do (`StartStream`, `ContinueStream`). `DemodWorker` is smaller than either: it says that a demodulator serves a
work at a time.

How the parts meet: `Bbu` composes the processes; `RxBuffer`, `FrameSync`, `RxCombining` and `DecodingChain` are the
stations of a frame, each with the least it needs to know of the one before it. `FrameSync` hands
`SymbolStream` to `RxCombining`, which hands `FrameOutput` to `DecodingChain`, whose `BeginFrame` and `NextBlock`
deliver frames one after the other and a payload only when the header is known; its report is the
`DEMOD_DONE` of `DemodWorker`.

## 3 From code to model

`PROJECT.json` maps each definition to its lines; here is how to read them side by side.

**Sockets.** A DEALER/ROUTER or PUSH/PULL pair is one FIFO queue per peer and direction, and a multi-part
message one element of it, because ZeroMQ delivers it whole. A program that reads only some parts of a
message keeps that fact in a variable: `pending` of the broker is a request whose last part, the publishing
address, is still in the socket.

**Broker.** A turn of the loop polls and then serves at most one message of each socket. Each action is the
handling of one message. This loses nothing: a message may arrive after the poll, so any message can be next.
`RrhRequest` models `broker.cpp` 251-263 and, when the poll saw only the RRH, also the keep-alive branch
(520-534) that the same turn runs. A frame request is `ServeFrame` (idle worker), `SpawnForFrame` (none: the
request is left half read) and `FinishAttribution` (the other half). `EndWork` is 440-498: the workers get
DONE, the streams are struck off, RRHs nobody listens to get a stop. The list `worker_id` of a work is a bag
of workers, because the code only counts in it.

**Half-read messages of a worker.** A working `worker_zmq_source` reads one frame of a message per turn.
`SyncEndOfWork` is the case in which samples are there when the delimiter is read; `SyncLosesFraming` is the
other, after which the worker waits in `recv` for ever.

**Buffer.** `RxBuffer` follows one turn of `run()`: `PollMessage` (the poll and the first frames of a message),
`ReadHeader` once per header, `QueueSamples` or `SkipHeartbeat`, and the reply of the broker that the *same*
poll saw (`reply_polled`). `PollReply` is a turn without a message, `Terminate` the time-out.

**lora_frame_sync.** Time is counted in symbols. `pos` is the symbol at `in[m_buffer_read_offset]`, `written` the
end of the input, `tags[w]` the first symbol of work `w`. What moves by less than a symbol (`k_hat`, STO, SFO
corrections) and `m_current_time` are left out, and all works have one spreading factor, the largest, for which
`forecast` asks for the fewest symbols. Which bin a window has is chance: `Repeated` or `NotRepeated`.
One iteration of the loop of DETECT (536-651) is one action; `windows` is how many are left in the call. It may
be interrupted in the model by more input, which no iteration looks at. The tag code (445-528) runs first in
a call: `FlushToTag` is the return at 453-463, `StartFrame` the rest. After it DETECT runs in the same call,
which is why `StartFrame` sets `windows`. `TagsInWindow` starts behind the margin, as line 446 does, so the branch
465-480 is dead. Two places of the code become nothing: line 515 cannot hold after `forecast`, and
`frame_info_handler` is connected to no port, so `m_symb_numb` stays 0 and a frame ends with the next tag only.
`ToFirstCandidate` is cut at 0 because GNU Radio ignores negative consumption. `max_idx` is a local of the
code, kept for a property.

**rx_combining.** `WorkOnMessage(s)` and `WorkOnNothing` are one call of `general_work` with and without
a message; `ReceiveMessage` is the part up to line 554 and `Combine` the rest. A sample is represented by
`<<worker, work, number>>`, which is all the properties tell apart: the arithmetic on samples, probabilities
and LLRs is element by element. `rrh_local_id` (line 342) is not initialised; where the code uses it without
having set it, the model chooses any stream. Freeing the worker (58-83) is its own action because other
threads run before the poll that follows it.

**Decoding chain.** One action per call of a block. A call takes what is in its input, up to the next tag,
and how much that is depends on the interleaving of the four threads. A nibble is its place in its frame, a byte
its two nibbles and the place in the whitening sequence that was used for it: enough to say whether
an application gets the bytes that were sent, without computing them. A header is what was sent, or garbled
(`GarbledHeaders`); a garbled header with a valid checksum is not told apart by the code and not modelled.

**Coding.** Words are functions from bit positions to bits, in the order of the code (`int2bool` puts the most
significant bit first). `Codeword`, `Interleave` and `gray_demap` are the transmitter, `GrayWord`, `Deinterleave`,
`HardNibble` and `SoftNibble` the receiver; `BlockTransmission` connects them as `lora_sdr_lora_tx.py` and
the flow graph of the demodulation worker do. Soft decisions take LLRs whose sign is the demapped bit and
whose size is chosen per symbol, because computing LLRs of samples is not modelled.

**Clocks.** `SampleClock` counts time in half symbols. A sample is the true time it was taken at, which no code
knows; the clocks of detector, sink and worker are what the code makes of it. `Detect` is one step of the
detector, in the order of lines 175-267: a time tag of the radio, if there is one, sets the clock to the true time or, if
its time is no unix time (185), to the local clock (`RadioTimes`); a pulse per second (PPS) puts off the resync from the second one on
(`LastResync`); when none came for `RESYNC_PERIOD` samples (229) the clock becomes the local one (`CurrentTimes`). The
local clock is read when the sample is handled, so it differs from the time of the sample by one of `LocalOffsets`. What a
PPS corrects is far shorter than half a symbol and left out. `SinkWork(n, stop)` one call of the sink with `n` samples, with or without a stop of the broker before
it, `ReadSamples` one message in the worker. A lost sample is the external `Overflow`. The loop of the sink over the tags of a
window is the set `accepted`: a tag belongs to it if it is late enough after every frame of the list and after those
of the set that come before it, which leaves one choice.

**Mistakes on purpose.** A definition whose name ends in `_Broken` is a plausible wrong form of the definition
after it. No action uses it. It documents which property notices which mistake (`mutants` in `PROJECT.json`).

## 4 Runs

| Run | Configuration | States | Shows |
|---|---|---|---|
| isolated | one RRH, three detections (two frames and an echo), two synchronization and three demodulation workers | 540,352 | every safety property of works that are not combined, work ids wrapping, a stop that crosses the next detection |
| combining | two RRHs hear one frame | 309,248 | the properties about several RRHs: orphans, matching of buffers, stops, and that buffers and requests are served |
| rx_buffer | three frames, five messages of samples, heartbeats | 33,489 | the buffer's promises, and that it implements the gate |
| rx_combining | two works, of two and of three streams | 88,391 | the combiner's promises, and that it implements `FrameOutput` |
| frame_sync | two works whose samples end anywhere | 316,524 | the promises of `lora_frame_sync`, that it implements `SymbolStream`, that it catches up |
| decoding | four frames of different shape, each valid or garbled | 1,064 | the decoding chain delivers the right bytes, leaves nothing and never gets stuck |
| block_transmission | blocks of all code rates, full and reduced, one symbol disturbed | 3,480 | coding and decoding fit together |
| sample_clock | seven ticks, one lost sample, a local clock that is early or late | 1,156,033 | samples are timed right, and those of a frame kept, within the errors of the clocks |
| lost_request, lost_framing, missed_tag, sample_time | | | one counterexample each: section 8 |

Properties of the system (`BbuProperties`, each with the lines it is about):

- `AttributionAligned`: the flags `continue_worker_attr` and `wait_sync_worker_spawn` agree with what was read of
  a request. They live across turns in which READY, DONE, keep-alive and RRH messages are served.
- `DemodExclusive`: a demodulator is in the pool once or in one work, and was spawned.
- `OneTokenPerWorker`: a synchronization worker has one right to a job, wherever it is just now: a READY on the
  way, a place in the pool, a job or keep-alive on the way, or work. Giving up, end of work and keep-alive all
  touch it.
- `NoOrphanJob`: who works for a work is in its list, or has its DONE ahead.
- `BufferForEachRrh`, `AddressFirst`: RRHs and buffers are matched by order of arrival only; still each RRH gets
  one of its own, and reads its address before any stop.
- `WaitingIsOutstanding`, `SyncCountIsExact`, `DoneIsForThisWork`, `StreamingHasReason` (frames apart only): counters
  equal what they count, no worker is stopped for another work although the id is not compared, and an RRH that streams a
  channel nobody needs has a stop on the way. Of combined frames none of the four is said; section 8 has what happens.
- `RequestsServed`, `RrhsGetBuffers`: progress, although requests are read in halves and workers forgotten. The two
  ways in which a request does get lost are the runs lost_request and lost_framing; `RequestsServed` says that there is no third.

Of the buffer (`MCRxBuffer`): `ListenersFirst`, `GapsOnlyAtAnnouncements`, `NeverGivesUpWaiting`, `QueueDrains`.
Of the frame synchronizer (`FrameSyncProperties`): `RepetitionsCounted` (counter, flag and list of the repetitions
agree over calls, tags and rejections), `ReadsInMargin` (neither SYNC nor the output reads behind the margin of
the input), `HeaderHasTag` (no frame without the tag of its work), `StrongestIsCandidate` (the strongest
repetition is one of the places where SYNC looks for the preamble), `OutputIsStream`, `CatchesUp`.
Of the combiner (`CombiningProperties`): `StreamsInStep` (only the same symbol of the same work is added up),
`FrameEnds` (of a frame longer than its header), `ClockRunsForStreams`, `FramesInOrder`, `WorksFinish`.
Of the decoding chain (`DecodingProperties`): `DeliversPayloads` (each frame is reported once, in order, with its own
bytes, each whitened with its own place of the sequence), `NothingLeft` (a reported frame leaves nothing that the
next could meet), `FramesReported`.
Of a block (`BlockTransmission`): `OneSymbolCorrected` (hard decisions survive one wrong symbol at 4/7 and 4/8),
`OneSymbolOutvoted` (soft ones too, unless the receiver trusts it more than two right ones), `ShiftCostsOneBit` (the
neighbouring bin costs one bit, and none at reduced rate).
Of the clocks (`SampleClock`), with `behind` and `ahead` the worst errors of the detector's clock so far and `slip` the
largest distance between an accepted tag and the first of its window: `StampsLate` (a message is timed too early by `lost + behind`
at most, too late by `lost + ahead + slip` at most), `FrameKept` (nothing of a frame is dropped as too early but for
`lost + behind + ahead`: a resync between the tag of a frame and the tag that times its samples can cost as many). Each bound is
reached: with one less in any of its terms TLC finds a counterexample. `FirstSampleTimed`, what a comment says, does
not hold (`sample_time`, section 8): this is the `slip`.

`CHECK_DEADLOCK FALSE` is given where the instance really comes to rest: detections and frames are finite, so
the system ends idle. The combining runs need no such line: a call of `general_work` without input is a step.

## 5 Bounds

- `SyncWorkers`, `DemodWorkers` bound how many threads the broker spawns: a request that needs one more waits.
  Two synchronization workers are enough for an idle one, a busy one and one being spawned to differ;
  the instance with frames apart has three demodulators so that every work may get a fresh one.
- `WORK_ID_RANGE` is 2^16 in the code and 2 to 4 here. 3 with three works, and 2 with two, make ids wrap within
  a run. A wrap that meets a work 2^16 younger is not an aim of the runs.
- `Detections` and `Times` say which frames exist: close enough to be combined, too far apart, and an echo
  within `NEW_FRAME_MIN_DELAY`. Of `FramesEcho` the echo comes 2 ticks after its frame (`NEW_FRAME_MIN_DELAY` is 3)
  and is still further away than `MAX_DELAY_TO_COMBINE`, 1. So it is in the code: `MAX_DELAY_TO_COMBINE` is 0.1 s, and the 80
  symbols of `NEW_FRAME_MIN_DELAY` last longer than that from SF 8 on. With three detections and three work ids
  the run `isolated` satisfies `RequestsApart`, the hypothesis of `ApartProofs`.
- Buffer: `MaxFrames = 3` overlapping frames, `MaxMessages = 5`, `PullLimit = 2` messages under way. The cleaning
  of the queue needs two queued messages and one announcement; two frames can wait at once.
- Frame synchronizer: two works of up to `MaxSymbols = 9` symbols, 2 symbols of preamble, 3 repetitions asked for
  and 3 more accepted, 3 candidates, against 8, 6, 9 and 5 in the code. The small numbers keep the relation of
  the large ones, `m_n_sync_candidates - 1 + SFD_SYMBOLS <= m_buffer_read_offset`, which the module assumes.
  Nine symbols are enough for repetitions, a rejection, a second search, a synchronization and an output within
  one work, and for the position to overtake the end of a work. `MaxOutput = 2` makes outputs end before the
  input does, and the other way round.
- Combiner: `Sf = 9` and a payload of one byte with CRC give a frame of 13 symbols, 8 of the header and one
  block of 5. Messages of 5 symbols (`Chunks`) fall on neither border. `MaxSymbols` and `QueueLimit = 2` leave
  two messages of each stream behind when a work ends.
- Decoding chain: `MixedFrames` has a header without room for payload (SF 7), a payload that fills the header block,
  one of several blocks with CRC and one without; each of them may also have a garbled header that announces less
  or more than there is. Buffers are not bounded; a frame is short.
- Block: `Sf = 7`, every code rate, reduced and not where the code has both; `SampleBlocks` puts every nibble at every
  place, `SampleShifts` has the neighbouring bins and shifts that change many bits, and one symbol is
  disturbed (`MaxDisturbed`). For hard decisions `DecodingProofs` goes beyond these samples.
- Clocks: windows of 2 and 3 samples, detections 3 apart, a time-out of 4, up to time `MaxTime = 7`, one sample lost
  (`MaxLost`), two messages under way (`MaxQueue`), a resync after more than 3 samples (`RESYNC_PERIOD`; a minute of them
  in the code), a local clock that is 1 early or 2 late (`LocalOffsets`). Two tags fit in a window, a frame times out, a stop
  comes in between, a work begins in a later message than its announcement, and the clock jumps in the middle of a stream. In
  `sample_time` the local clock is right and nothing is lost, so that what is left is the sink's own doing.

## 6 Fairness and assumptions

**System** (`Bbu!Fairness`). The broker serves each socket that has a message in every turn and ZeroMQ serves the
peers of a ROUTER in turn: weak fairness of each kind of service per peer. The run combining checks its safety
properties under the same `FairSpec`, which allows the same states. Threads that were created start,
constructors go on, an idle worker reads. Nothing is assumed of detections, of frames being found or decoded,
or of samples running out; so the progress proved here does not lean on radio conditions.

**Buffer** (`MCRxBuffer!Fairness`). A turn that reads a heartbeat skips the broker's reply. Heartbeats are
`BUFFER_HEARTBEAT` apart, so turns without one come again and again: strong fairness of `PollReply`.

**Frame synchronizer** (`FairSpec`). GNU Radio calls a block again and again while `forecast` is satisfied: weak
fairness of `general_work`. `CatchesUp` is stated for behaviours in which works are `Apart`: when a work begins,
the block has no repetitions left over from the one before, and works are at least a preamble long. Both are
needed, see section 8.

**Decoding chain** (`FairSpec`). The scheduler of GNU Radio calls each block again while its input has something
for it: weak fairness of the work of each block, and of the arrival of frames.

**Combiner.** Two assumptions on timing are the constant `Assumed`:
- `"wait"`: `RRH_WAIT_MS` is long enough for all streams of a work. Without it a late stream is possible and
  `LateStream.cfg` shows what then happens (section 8).
- `"first"`: a message has its tag at the beginning of its samples. The code computes the offset of a tag and
  does not use it (398); without the assumption the tail of the former stream is taken for the frame.

`FrameEnds` and `ClockRunsForStreams` also hold without either (checked by hand with
`Assumed = {}` and an instance of two streams; it is not one of the runs). `WorksFinish` is stated for behaviours in
which `rx_combining` has let go of a work before the first message of the next one comes (`Prompt`). The code
does not wait for that, `DEMOD_DONE` takes another path than the header does; it relies on the broker, a worker
and a new frame taking longer than two threads of one process.

## 7 Proofs

The theorems hold for any sets of RRHs, buffers, workers, channels, spreading factors and detections, for
any `WORK_ID_RANGE`, margins and delays, any number of works, streams, symbols, frames and messages. They use the
assumptions named in the modules (`SocketsAssumption`, `BrokerAssumption`, `RrhAssumption`, `RxBufferAssumption`,
`ClockAssumption`, `CombiningAssumption`, `FrameSyncAssumption`, `ChainAssumption`), which TLC evaluates in every run of their module. The
theorems of `ApartProofs` have one hypothesis more, `RequestsApart`, those of `CombiningProofs` `InTime`, some of
them `LongFrames` too, and those about the decoding chain `NoSurplus`; all four are explained below.

| Theorem | Module | Says |
|---|---|---|
| `TypeCorrect` | `BbuProofs` | every variable and every message under way keeps its type |
| `AddressComesFirst` | `BbuProofs` | an RRH reads the address of its buffer before any stop |
| `AttributionStaysAligned` | `BbuProofs` | flags, half-read request and pool agree |
| `DemodsExclusive` | `BbuProofs` | no demodulator serves two works |
| `TokensCounted` | `BbuProofs` | a synchronization worker has one right to a job at a time |
| `NoWorkerOrphaned` | `BbuProofs` | who works for a work that has ended has its DONE ahead |
| `BuffersServed` | `BbuProofs` | each RRH has a buffer of its own, and there is an RRH for each buffer that registers |
| `AttributionsFinish` | `ApartProofs` | when a worker comes for a half-read request, its work is in the list |
| `SyncsCounted` | `ApartProofs` | `sync_worker_cnt` is the number of workers with the job, at work or reporting its end |
| `OwnDones` | `ApartProofs` | a `DONE` that a worker acts on is for its own work |
| `StreamsHaveReason` | `ApartProofs` | an RRH that streams a channel has a reason to, or a stop on the way |
| `WaitingCounted` | `ApartProofs` | the workers a buffer waits for are its requests under way |
| `BufferTypeCorrect` | `RxBufferProofs` | types of `lora_rx_buffer` |
| `ListenersComeFirst` | `RxBufferProofs` | no sample is published before the workers of all frames announced so far listen |
| `GapsAreAnnounced` | `RxBufferProofs` | samples leave the buffer in order, none twice, and gaps end at an announcement |
| `GivesUpForNobody` | `RxBufferProofs` | the buffer does not time out while a worker is awaited |
| `StampsAreLate` | `SampleClockProofs` | time stamps are wrong by the samples lost, the worst single error of the detector's clock and the slip at most |
| `FramesAreKept` | `SampleClockProofs` | no sample of a frame is dropped as too early, but for those lost and for jumps of the detector's clock |
| `SyncTypeCorrect`, `RepetitionsStayCounted`, `ReadsStayInMargin`, `HeadersHaveTags` | `FrameSyncProofs` | the invariants of `lora_frame_sync` |
| `StrongestStaysCandidate` | `FrameSyncProofs` | the strongest repetition is one of the places where SYNC looks |
| `ImplementsStream` | `FrameSyncProofs` | `lora_frame_sync` implements `SymbolStream` |
| `FramesEnd` | `CombiningProofs` | a frame longer than its header gets no symbol too many, whatever frames come before |
| `ClockIsRight` | `CombiningProofs` | the time of the first stream is kept exactly while there are streams, for frames of any length |
| `CombiningTypeCorrect`, `StreamsStayInStep` | `CombiningProofs` | the other invariants of `rx_combining`, for frames longer than their headers |
| `ImplementsFrameOutput` | `CombiningProofs` | `rx_combining` implements `FrameOutput`, for such frames |
| `OneSymbolHarmless` | `DecodingProofs` | one wrong symbol leaves a block unharmed at 4/7 and 4/8, for every block size and content |
| `NothingIsLeft` | `DecodingProofs` | a frame that has been reported leaves nothing in the decoding chain |
| `ChainDelivers` | `DecodingProofs` | the decoding chain implements `PayloadDelivery` |
| `FewHaveSurplus` | `DecodingProofs` | frames with a CRC, or of three bytes or more, satisfy `NoSurplus` |

*Type correctness* is not inductive by itself. `BufferGranted` takes the first message of the RRH's pipe for an
address; were it a stop, `m_buffer_addr` would get the value of a field that is not there. So the inductive
invariant is `TypeInv == TypeOK /\ AddressFirst`. `AddressFirst` in turn needs its second conjunct (an RRH
that is in `m_buffer_list` and has no address yet has a message under way): the broker sends stops only to RRHs
in that list, so a stop can only be put *behind* an address. `BbuProofs` first gives the types of the helpers
(pipes, work list, counters), then one lemma per action, then `AddressFirst` per action, and joins them.

*AttributionAligned* is inductive on top of the types, up to one point: the pool may only be emptied while no
half-read request relies on it. That is the guard `pending = <<>>` of `KeepWorkersAlive` in `RrhRequest`
and `SomethingToServe` in `KeepAlive`.

*DemodExclusive* speaks of addresses only. Its proof forgets everything else of a work: `Apart(P, A, n)`
relates the pool, the addresses in use and the number of addresses given out. It is kept by the four moves
the broker makes with addresses (reuse, spawn, end with and without return to the pool), and every
step of the system is one of these or leaves the three alone.

*OneTokenPerWorker* counts over a queue to the broker, the pool and a queue to the worker. Counting sets of places
is not what an SMT solver does well, so `TokenInv` says the same without numbers: the places of a READY, the places
in the pool and the places of jobs and keep-alives are sets of at most one element each, no two of them are
occupied, and none is while the worker works or has not started. A worker sends READY only when it holds nothing (start,
keep-alive taken, end of its work), the broker puts a worker into the pool for a READY and takes it out for a job
or a keep-alive. With that the conjunction is inductive, and the lemmas say how appending, taking the first and
removing move a set of places.

*NoOrphanJob* is nearly inductive; `OrphanInv` says it with places. An end of a work sends DONE to all on its list, behind any
job that is on its way (a pipe is a queue), so a promise is a place behind the job. A worker that takes a message out of its queue
either takes up a job, whose DONE is still behind it, or drops what it had in hand; and the list of workers of a work
only grows while the work lives. Ids that wrap do no harm: one more live work with an id keeps a promise, it does not break one.

*BufferForEachRrh* follows from `KnownInv`. A buffer is known to the broker (in `m_buffer_list`), or it has
nothing but its READY on the way (`RegistrationInv`). There are as many threads as RRHs that wait and RRHs that are served
(`Counted`), so a READY that is still to come means that somebody waits. An RRH asks once and is in one of the two
lists only (`AskedOnce`). Works, requests, jobs and replies name known buffers (`NamesKnown`), and an
RRH is told of its own buffer only (`GrantsKept`).

*Frames apart.* `RequestsApart` says that detections are further apart than `MAX_DELAY_TO_COMBINE`, and that there are no
more of them than work ids (2^16 in the code). It is the case in which nothing is combined. Section 8 shows that without the
first half the five properties fail (`lost_request`, `DoubleCount`, `OlderWork`); the second keeps a work id from
being given twice, which would make the ends of two works the same message. `ApartInv` says where things are:
- `FrameOnce`: a frame is on its way to its buffer, or asked for, or a work, once in all, and nowhere before it is detected. So
  `should_combine` finds no work for it, and a request becomes a new work at the end of the list.
- `Fresh`, `Distinct`: there are as many ids to come as detections that are open, no worker has heard of one to come, and no two
  works of the list have the same.
- `WorksInv`: the work of a half-read request is the last of the list and no worker has heard of it (`Waiting`); hence no report
  of a worker can end it, and `back()` is that work. Every other work is `Served`: one worker alone has its job,
  works on it or reports its end.
- `WorkerInv`: a worker has one work at most, and a DONE in its queue is for the work it has, or for a job that is in front of it.

`AttributionFinishes`, `SyncCountIsExact` and `DoneIsForThisWork` follow. `StreamingHasReason` adds `StreamInv`: whoever streams
has a use on its way through the queues, or a stop; the step that matters is `EndWork`, where the last use goes and the number
of stops the code computes must not be 0. `WaitingIsOutstanding` adds `WaitInv`: the counter of a buffer is the sum of its places
in four kinds of queues and `pending`. Each step of the system moves a request from one place to the next; the
answer goes to the right buffer because a job carries it.

*FrameSync.* One inductive invariant, `FrameSyncProofs!Inv`, holds the four properties. `ReadsInMargin` follows from
the bound on the repetitions. `HeaderHasTag` is the one that needs more: a synchronization without a tag would
need repetitions before the first tag, and a window repeats only within a work (`MayRepeat`). So `Inv` also
says that before the first tag is taken no tag has been passed and nothing has been counted
(`NothingBeforeTag`); that in turn needs the loop of DETECT to stay inside the input it started with
(`LoopInInput`), because a tag that is written during the loop is at or behind its end, and the tags to be in order
(`TagsOrdered`).

*StrongestIsCandidate* relates a list filled over several calls to the position in the last of them. `WindowsFollow`
says that any two repetitions of one work are as far apart in the input as in the list, and the next window as far behind
the last; a tag in between moves them apart but makes them of two works. `StrongestPlaced` keeps the consequence
in SYNC, where the position has moved by the end of the repetitions: if all are of one work, the strongest is the start of a
candidate.

*ImplementsStream* is the step simulation: `SfoCompensation` maps to `NextFrame` or `MoreSymbols`, every other action
to a stutter. The new frame is of a later work than the last one, because the works of all frames so far are behind
the position (`WorksBehind`) and the tag that is held was at the position when it was taken (`TagIsNew`). A frame
goes on without a gap because between two outputs the position moves only if there is a tag (`NoGap`), and with
a tag there is no output before the next frame begins.

*The buffer.* `ListenersFirst` needs the meaning of the counter: `m_waiting_for_worker` is the number of frames that
have been asked for and have no listener yet, plus the replies under way (`Counted`). It needs that each frame is asked for once (`AskedOnce`), that messages
come in order (`InOrder`) and that a message announces its frame with its last header (`AllWellFormed`). With
the counter at 0, everybody who was announced before a message in the queue listens.
`GapsAreAnnounced` adds where the buffer is in the stream: messages up to some `n` have been read and all later ones
are still in the socket (`ReadUpTo`), the queue is the end of what has been read (`Joins`), because cleaning drops
from its front only, and if something is missing between what was published and the queue, an announcement at or
behind the beginning of the queue was the reason.

*The clocks.* `StampsLate` compares the clock of the sink with the true time of a sample; as an invariant that would not do,
because the sink counts samples and each lost one seems to put it further off, and so does each jump of the detector's
clock. `ClockInv` compares everything with the number of a sample, in the order in which samples leave the radio. The true
time of a sample is its number and the samples lost before it (`SamplesNumbered`). `Near(x, y, e, l)` says that `x` is early
by `e` and late by `l` at most: a tag is near the time of its sample, for `behind` and `ahead` (`TagsRight`); so are the
times in the list of the sink (`FramesRight`). The clock of the sink, while it streams, is near the number of its next sample
(`SinkCounts`), for `MostEarly` and `MostLate`; the slip is where the distance of two tags in a window goes. So
every message is right for each of its samples up to the errors so far *in all* (`Stamped`), however long a
stream lasts: a new setting replaces the error of the one before and adds nothing to it. Since `lost`, `behind`, `ahead` and `slip` only
grow (`Grow`), what was near stays near, which is one lemma per part. A worker that drops whole messages
has put the time in its tag that its samples are wanted from, and the first it puts out is not earlier (`WorkerCounts`).
Which tags are accepted does not matter for any of this; they are described as a set, and not one after the other.
TLC checked `ClockInv` in the run's instance before it was proved. What is proved is no claim that the local clock is good: if
it is an hour off, so may the times be, and the worker then drops what the difference of two settings makes it drop.

*The combiner.* `InTime` says what all its proofs assume: the two assumptions on timing of section 6 and at most
`MAX_COMBINED_RRH` streams per work. `LongFrames` says that no header announces just the eight symbols it stands in. That is not
the code's doing: after such a frame `rx_combining` goes on without end (section 8), whatever comes next is not in step, and
what is said of streams and of `FrameOutput` is false. `FramesEnd` and `ClockIsRight` do without it. Their invariant is
`IInv \/ Overrun`: the handler of a header that announces eight symbols leads from `IInv` to `Overrun`, where the
symbols output have passed the length already, no header is to come and no step leads out again (`OverrunStays`). With
`LongFrames` the handler cannot do so (`LongHeader`), and `IInv` alone is invariant (`Invariant`). `IInv` says where each symbol is: what a socket holds of a
stream is one run of symbols after the other (`Contiguous`), up to what the worker sent last; the first message of the
current work in a socket goes on exactly where `rx_samples` of its stream end (`InStep`); a tag is under way
once, and only until its work is finished (`Tags`); a frame has the streams of its work (`Succession`); and until the
header is handled no symbol behind it is output (`Life`, `Decoded`). The leftovers of former works are then older than the
work of every stream being combined, and are dropped by the check of the tag or with the clearing of sockets.
`FrameOutput` is implemented by the same invariant: its `output` has of each frame the work, the number of symbols
that are out, and what has been told of its header.

*One symbol.* Interleaver and deinterleaver are inverse for each block size (`(i - k - 1) % s` and `(i - j - 1) % s`
undo each other), so a symbol that changes touches bit `i` of each code word only. Then one lemma per position of
a wrong bit says what its syndrome is, and that the nibble comes out right.

*The decoding chain.* `NothingLeft` and `DeliversPayloads` need to know where each nibble of the frame is. `ChainInv`
has two cases. Between frames everything is empty and no block of the last frame is to come (`Idle`). Within a
frame (`Busy`) either the header is still to be read (`HeaderComes`), or it was invalid and what stands for the
frame is in one of three buffers (`Garbage`), or the frame is cut into consecutive slices (`PayloadComes`): what
has been passed on and what has not (`PassedOn`), the bytes dewhitened so far and the nibbles that wait for
another (`Dewhitened`), the bytes collected, and those in front of `crc_verif` (`Collecting`, `Collected`). Each call
of a block moves a cut and nothing else, however much of its input it takes. TLC checked `ChainInv` on the frames
of the run before it was proved.
The hypothesis `NoSurplus` says that the symbols of the header hold no more nibbles than a frame has. Without it the
theorems are false; `SurplusNibbles` of section 8 shows it. `FewHaveSurplus` says how little it excludes: a byte without
CRC from SF 10 on, and two bytes without CRC at SF 12. The run `decoding` satisfies it.

Only model-checked:
- liveness (`RequestsServed`, `RrhsGetBuffers`, `QueueDrains`, `WorksFinish`, `CatchesUp`, `FramesReported`), which is
  beyond the prover;
- what is computed by folds over data, which the prover cannot unfold for any length: `ImplementsGate` (the abstract pipe
  is a selection from the sequence of requests), and `OneSymbolCorrected`, `OneSymbolOutvoted` and `ShiftCostsOneBit` of
  `BlockTransmission` (the Gray mapping and the sums of soft decisions). Of the first of these three `OneSymbolHarmless` proves the part behind the Gray mapping.

## 8 What the code does not keep

Four runs end with a counterexample to something the repository says of itself:

| Run | Where | What happens |
|---|---|---|
| lost_request | `broker.cpp:379` | a request that waited for a worker goes to the last work, or to `back()` of an empty list |
| lost_framing | `worker_zmq_source_impl.cc:268` | delimiter read in one turn, DONE taken for a delimiter later: the worker hangs |
| missed_tag | `lora_frame_sync_impl.cc:446` | the position overtakes the end of the input; the tag of the next work is written behind it and never seen |
| sample_time | `rrh_zmq_sink_impl.cc:203` | the time of the window is counted back from the accepted tag `i` by the offset of tag 0; when tag 0 was rejected as a second detection, the "time of first sample" (273) is too late, in this message and the following ones |

Five more configurations do so when they are run by hand, with `tlc -config <name>.cfg <module>`:

| Configuration | Module | Where | What happens |
|---|---|---|---|
| `DoubleCount` | `MCBbu` | `broker.cpp:316` | a combined frame is counted twice; if nobody decodes the work it never ends |
| `OlderWork` | `MCBbu` | `broker.cpp:372`, `379` | a frame is combined with a work that is not the last of the list, but its job is one for the last work: the RRH streams, and nobody asks for its samples or stops it before the older work ends |
| `LateStream` | `MCCombining` | `rx_combining_impl.cc:553` | samples of a rejected stream are stored in another one |
| `HeaderOnly` | `MCCombining` | `rx_combining_impl.cc:753` | a frame of eight symbols never ends |
| `SurplusNibbles` | `DecodingProperties` | `header_decoder_impl.cc:181` | the nibbles behind a payload that is shorter than the block of the header are passed on too; dewhitening leaves them in its input, and the next frame is not found behind them (one byte without CRC at SF 10) |

`DoubleCount` is why `SyncCountIsExact` is stated for frames apart: combining increments `sync_worker_cnt` twice.
`OlderWork` is why `StreamingHasReason` is: TLC refutes it there, with two RRHs, one of which detects twice.
`HeaderOnly` is why `FrameEnds` is stated for frames longer than their headers.
`WaitingIsOutstanding` is stated for frames apart because the reply of a worker goes to the last buffer of the
last work; that this is the right one while frames are combined depends on the order of requests. For frames apart
`ApartProofs` proves both, for any number of them.

Seen while modelling, without a run of their own because no text of the repository says otherwise:

- `broker.cpp:440`. A work that all its workers gave up ends without its demodulator going back to the pool.
  The demodulator runs on and is never used again.
- `broker.cpp:100`. Frames of two channels of one RRH at the same time become one work with two streams of
  that RRH.
- `lora_frame_sync_impl.cc:500`. A new tag sets the state to DETECT and keeps the repetitions counted so far. If
  there are enough, the first window of the new work that is none ends them, and SYNC looks for a preamble that
  is not there. If moreover the strongest of them was one of the first three, nothing is consumed; the next call finds
  the same tag again, goes to DETECT and then to SYNC once more, for ever. `Apart` excludes it.
- `lora_frame_sync_impl.cc:536`. The loop bound is unsigned. When the next tag is less than seven symbols away it
  wraps and the loop leaves the input (state `"OVERRUN"`, where the model ends); with exactly seven the call makes no
  progress. `Apart` excludes it for `CatchesUp`; the safety properties include it up to that moment.
- `lora_sdr_lora_tx.py:72`. `set_cr` changes three blocks of the transmitter one after the other, and a frame may be
  between them.
- `add_crc_impl.cc:124`. Of a payload of one byte the byte before it is read.
- `lora_frame_sync_impl.cc:106`. `forecast` guarantees eight symbols after the position at SF 12. SYNC reads up to
  17.25 symbols less the number of repetitions.

## 9 Not modelled

- **Signal processing**: what is computed of samples; whether a window of the detector holds a preamble. In
  `FrameSync`: positions within a symbol, works of different spreading factors, the time of a frame. `preamb_info` and
  `m_preamble_found`, shared by two threads without a lock, are not modelled. Computing LLRs is not modelled;
  `BlockTransmission` chooses them.
- **Values**: the whitening sequence and the CRC polynomial. The places of bytes in them are in `DecodingChain`.
- **Implicit headers**: the demodulation worker is built with explicit ones.
- **Transmitter** beyond coding: framing, tags, modulator. It is a test aid of this system.
- **Clock of several channels** (`rrh_zmq_sink_impl.cc:281`): `SampleClock` has one channel.
- **Corrections of the clock at a PPS** (`lora_frame_detector_single_sf_impl.cc:207-218`): parts of a second's drift, far below
  the tick of `SampleClock`. That a PPS puts off the resync is modelled, and so is the resync.
- **Limits beyond small instances**: the reuse of IPC names after `MAX_IPC_FILES` and of argument slots after
  `MAX_THREADS`, the output buffer of `rx_combining`, the high-water mark of a pipe with `SNDTIMEO` 0.
- **Topics** of the PUB/SUB sockets: subscriptions are never removed, and channel 0 makes an empty topic.
- `kill_worker`, the empty message and `m_need_new_socket`: nobody in the repository triggers them.
- **Clocks**: a keep-alive, giving up and the end of a wait may happen at any time they are enabled.
- Legacy worker, performance measurement, application, RRH process, device access, FFT: output, glue or vendored
  code without state of this system.
- **Python**. The program is C++. Nearly all Python of the repository is what `gr_modtool` puts into every
  out-of-tree module: readers of doxygen's XML generated from a schema, scripts that copy comments into bindings, and
  the bindings. Nothing of it runs in the system. Of the Python files only `lora_sdr_lora_tx.py`
  is modelled, as the order in which `BlockTransmission` connects the transmitter.

## 10 Plan

The plan's core, the stations of a frame and their abstractions, is done. Of the safety properties that the runs check all
are theorems but those listed at the end of section 7. What is left, in order of importance:

1. `SyncWorker` at the level of message frames, so that giving up inside `SyncLosesFraming` becomes several
   steps, and an abstract specification of worker assignment (a request, one work, one worker) that `Bbu`
   implements for frames apart; `ApartInv` has what its proof needs.
2. `OneSymbolCorrected` for all symbols, with the Gray mapping written as a function of positions.
3. The counters of the detector, to take the place of `Detections` in `RrhSink` and of the choice in `SampleClock`.
4. Topics and channel 0; limits of pipes with `SNDTIMEO` 0, which need a model of messages that arrive in part.
5. `SampleClock` with two channels.
