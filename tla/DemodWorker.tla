---------------------------- MODULE DemodWorker ----------------------------
(***************************************************************************)
(* The demodulation workers, as far as works are concerned: rx_combining   *)
(* takes the streams of one work at a time, and worker_zmq_sink at the end *)
(* of the flow graph reports the work done.  A stream is delivered over    *)
(* IPC in the step in which the synchronizer finds its frame.              *)
(***************************************************************************)
EXTENDS SyncWorker

VARIABLE
  combining      \* works whose streams rx_combining has accepted (at most one)

DemodTypeOK == combining \in [DemodWorkers -> SUBSET WorkIds]

DemodInit == combining = [a \in DemodWorkers |-> {}]

(* The synchronizer of worker w finds the frame: the stream's header tag   *)
(* reaches rx_combining, which takes it as a new work if it has none, adds *)
(* or drops it if it is for the work at hand, and drops it otherwise.      *)
FrameFound(w) ==
  \E info \in stream[w] :
    /\ stream' = [stream EXCEPT ![w] = {}]
    /\ combining' = [combining EXCEPT ![info.demod] = IF @ = {} THEN {info.work_id} ELSE @]
    /\ UNCHANGED <<m_state, m_work_info, m_is_new_work, sockets>>

(* The payload, or an invalid header, is out: the broker is told and       *)
(* rx_combining is free for the next stream.                               *)
FrameDecoded(a) ==
  \E id \in combining[a] :
    /\ combining' = [combining EXCEPT ![a] = {}]
    /\ demodToBroker' = Send(demodToBroker, a, DemodDone(id))
    /\ UNCHANGED <<syncVars, rrhToBroker, brokerToRrh, rrhToBuffer,
                   bufferToBroker, brokerToBuffer, syncToBroker, brokerToSync>>
=============================================================================
