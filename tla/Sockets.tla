------------------------------ MODULE Sockets ------------------------------
(***************************************************************************)
(* The ZeroMQ pipes between the processes and threads of the base band     *)
(* unit and its remote radio heads (RRHs).  Every component module of the  *)
(* project EXTENDS this one and reads or writes its own ends of the pipes. *)
(*                                                                         *)
(* A DEALER-ROUTER or PUSH-PULL pair is one FIFO queue per peer and        *)
(* direction.  ZeroMQ delivers a multi-part message as a whole or not at   *)
(* all, so one element of a queue is one whole message; a component that   *)
(* has read only some frames of a message keeps that fact in a variable of *)
(* its own.  A ROUTER reads its peers' queues in any order.                *)
(***************************************************************************)
EXTENDS Integers, Sequences

CONSTANTS
  Rrhs,            \* the remote radio heads
  Buffers,         \* threads running a lora_rx_buffer, numbered as spawned
  SyncWorkers,     \* threads running a sync worker, numbered as spawned
  DemodWorkers,    \* IPC indices of the demodulation workers' addresses
  Channels,        \* carrier frequencies
  Sfs,             \* spreading factors
  Times,           \* arrival times of frames, in ticks
  WORK_ID_RANGE    \* size of the type of a work id: 2^16 in the code

ASSUME SocketsAssumption ==
  /\ Buffers \subseteq Nat
  /\ SyncWorkers \subseteq Nat
  /\ DemodWorkers \subseteq Nat
  /\ Times \subseteq Nat
  /\ WORK_ID_RANGE \in Nat \ {0}

VARIABLES
  rrhToBroker,     \* RRH -> frontend_rrh
  brokerToRrh,     \* frontend_rrh -> RRH
  rrhToBuffer,     \* RRH PUSH socket -> PULL socket of its buffer
  bufferToBroker,  \* buffer -> frontend_buffer
  brokerToBuffer,  \* frontend_buffer -> buffer
  syncToBroker,    \* sync worker -> backend
  brokerToSync,    \* backend -> sync worker
  demodToBroker    \* demodulation worker -> backend

sockets == <<rrhToBroker, brokerToRrh, rrhToBuffer, bufferToBroker,
             brokerToBuffer, syncToBroker, brokerToSync, demodToBroker>>

WorkIds == 0 .. (WORK_ID_RANGE - 1)

(* What the detector knows of a frame and the broker acts upon.            *)
Frame == [channel : Channels, sf : Sfs, time : Times]

(***************************************************************************)
(* Messages, one record type per direction of a pipe.                      *)
(***************************************************************************)
NewBuffer == [type |-> "NEW_BUFFER"]

BufferAddr(b) == [type |-> "ADDR", buffer |-> b]
Stop(c)       == [type |-> "STOP", channel |-> c]
RrhMessage    == [type : {"ADDR"}, buffer : Buffers]
                   \cup [type : {"STOP"}, channel : Channels]

BufferReady  == [type |-> "READY"]
NewFrame(f)  == [type |-> "NEW_FRAME", frame |-> f]
BufferRequest == [type : {"READY"}] \cup [type : {"NEW_FRAME"}, frame : Frame]

Ready           == [type |-> "READY"]
SyncDone(id)    == [type |-> "SYNC_DONE", work_id |-> id]
Subscribed(b)   == [type |-> "SUBSCRIBED", buffer |-> b]
SyncMessage == [type : {"READY"}] \cup [type : {"SYNC_DONE"}, work_id : WorkIds]
                 \cup [type : {"SUBSCRIBED"}, buffer : Buffers]

DemodDone(id) == [type |-> "DEMOD_DONE", work_id |-> id]
DemodMessage  == [type : {"DEMOD_DONE"}, work_id : WorkIds]

(* Job: [buffer to answer][""][work id, demodulator][buffer publishing].   *)
Ack      == [type |-> "ACK"]
Done(id) == [type |-> "DONE", work_id |-> id]
Job(id, addr, client, pub) ==
  [type |-> "JOB", work_id |-> id, demod |-> addr, client |-> client, pub |-> pub]
JobMessage == [type : {"JOB"}, work_id : WorkIds, demod : DemodWorkers,
               client : Buffers, pub : Buffers]
WorkerMessage == [type : {"ACK"}] \cup [type : {"DONE"}, work_id : WorkIds] \cup JobMessage

SocketsTypeOK ==
  /\ rrhToBroker    \in [Rrhs -> Seq([type : {"NEW_BUFFER"}])]
  /\ brokerToRrh    \in [Rrhs -> Seq(RrhMessage)]
  /\ rrhToBuffer    \in [Buffers -> Seq(Frame)]
  /\ bufferToBroker \in [Buffers -> Seq(BufferRequest)]
  /\ brokerToBuffer \in [Buffers -> Seq({"ACK", "SUBSCRIBED"})]
  /\ syncToBroker   \in [SyncWorkers -> Seq(SyncMessage)]
  /\ brokerToSync   \in [SyncWorkers -> Seq(WorkerMessage)]
  /\ demodToBroker  \in [DemodWorkers -> Seq(DemodMessage)]

SocketsInit ==
  /\ rrhToBroker    = [r \in Rrhs |-> <<>>]
  /\ brokerToRrh    = [r \in Rrhs |-> <<>>]
  /\ rrhToBuffer    = [b \in Buffers |-> <<>>]
  /\ bufferToBroker = [b \in Buffers |-> <<>>]
  /\ brokerToBuffer = [b \in Buffers |-> <<>>]
  /\ syncToBroker   = [w \in SyncWorkers |-> <<>>]
  /\ brokerToSync   = [w \in SyncWorkers |-> <<>>]
  /\ demodToBroker  = [a \in DemodWorkers |-> <<>>]

(* m is appended to the queue of peer p, or the head of it is consumed.    *)
Send(pipe, p, m) == [pipe EXCEPT ![p] = Append(@, m)]
Receive(pipe, p) == [pipe EXCEPT ![p] = Tail(@)]
=============================================================================
