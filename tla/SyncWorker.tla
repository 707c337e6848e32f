----------------------------- MODULE SyncWorker -----------------------------
(***************************************************************************)
(* The synchronization workers: worker_zmq_source (jobs in, samples in),   *)
(* the frame synchronizer behind it, and zmq_dealer_sink (stream out to    *)
(* the work's demodulation worker).                                        *)
(*                                                                         *)
(* A message of the broker is [""][DONE][id], [""][ACK] or                 *)
(* [""][client][""][job][publisher].  An idle worker reads a whole message. *)
(* A working one reads ONE frame per turn of its loop: first the empty     *)
(* delimiter, which it drops, and only on the next turn DONE and the id.   *)
(* What it does in between decides how the message is understood.          *)
(***************************************************************************)
EXTENDS Sockets

VARIABLES
  m_state,        \* of worker_zmq_source
  m_work_info,    \* work, demodulation worker and publisher of the last job
  m_is_new_work,  \* no sample of the job has been output yet
  stream          \* job whose samples are in the worker's flow graph and whose
                  \* frame may still be found (at most one)

syncVars == <<m_state, m_work_info, m_is_new_work, stream>>

(* BLOCKED: the worker has lost the framing of its broker socket and sends *)
(* nothing any more.                                                       *)
SyncStates == {"NOT_STARTED", "IDLE", "WORKING", "BLOCKED"}
Work_info  == [work_id : WorkIds, demod : DemodWorkers, pub : Buffers]

SyncTypeOK ==
  /\ m_state \in [SyncWorkers -> SyncStates]
  /\ m_work_info \in [SyncWorkers -> SUBSET Work_info]
  /\ m_is_new_work \in [SyncWorkers -> BOOLEAN]
  /\ stream \in [SyncWorkers -> SUBSET Work_info]

SyncInit ==
  /\ m_state = [w \in SyncWorkers |-> "NOT_STARTED"]
  /\ m_work_info = [w \in SyncWorkers |-> {}]
  /\ m_is_new_work = [w \in SyncWorkers |-> FALSE]
  /\ stream = [w \in SyncWorkers |-> {}]

(* Only the worker's pipe to the broker changes.                           *)
SendsToBroker(w, messages) ==
  /\ syncToBroker' = [syncToBroker EXCEPT ![w] = @ \o messages]
  /\ UNCHANGED <<rrhToBroker, brokerToRrh, rrhToBuffer, bufferToBroker,
                 brokerToBuffer, demodToBroker>>

(* The constructor, in the thread the broker created for worker w.         *)
SyncStart(w) ==
  /\ m_state[w] = "NOT_STARTED"
  /\ m_state' = [m_state EXCEPT ![w] = "IDLE"]
  /\ SendsToBroker(w, <<Ready>>)
  /\ UNCHANGED <<m_work_info, m_is_new_work, stream, brokerToSync>>

(* IDLE: one message of the broker.                                        *)
Idle(w) == m_state[w] = "IDLE" /\ brokerToSync[w] # <<>>

SyncAck(w) ==
  /\ Idle(w) /\ Head(brokerToSync[w]).type = "ACK"
  /\ brokerToSync' = Receive(brokerToSync, w)
  /\ SendsToBroker(w, <<Ready>>)
  /\ UNCHANGED syncVars

(* DONE for a work the worker gave up before: nothing to do.               *)
SyncLateDone(w) ==
  /\ Idle(w) /\ Head(brokerToSync[w]).type = "DONE"
  /\ brokerToSync' = Receive(brokerToSync, w)
  /\ SendsToBroker(w, <<>>)
  /\ UNCHANGED syncVars

SyncJob(w) ==
  LET job == Head(brokerToSync[w])
  IN /\ Idle(w) /\ job.type = "JOB"
     /\ brokerToSync' = Receive(brokerToSync, w)
     /\ m_work_info' = [m_work_info EXCEPT ![w] = {[work_id |-> job.work_id,
                                                    demod |-> job.demod,
                                                    pub |-> job.pub]}]
     /\ m_state' = [m_state EXCEPT ![w] = "WORKING"]
     /\ SendsToBroker(w, <<Subscribed(job.client)>>)
     /\ m_is_new_work' = [m_is_new_work EXCEPT ![w] = TRUE]
     /\ UNCHANGED <<stream>>

(* WORKING, a message has come, and there are samples to go on with when   *)
(* its delimiter is read: DONE is read next.  Its work id is not compared  *)
(* with that of the job.                                                   *)
Told(w) == /\ m_state[w] = "WORKING"
           /\ brokerToSync[w] # <<>> /\ Head(brokerToSync[w]).type = "DONE"
           /\ brokerToSync' = Receive(brokerToSync, w)

ReportSilent_Broken(info) == <<Ready>>

Report_Broken(info) == <<Ready, SyncDone(info.work_id)>>

(* Giving a work up: the broker is told, and told that the worker is idle. *)
Report(info) == <<SyncDone(info.work_id), Ready>>

SyncEndOfWork(w) ==
  /\ Told(w)
  /\ m_state' = [m_state EXCEPT ![w] = "IDLE"]
  /\ SendsToBroker(w, <<Ready>>)
  /\ UNCHANGED <<m_work_info, m_is_new_work, stream>>

(* WORKING, a message has come and no samples are there when its delimiter *)
(* is read: the end of the poll is taken for its timeout and the work is   *)
(* given up.  The worker, IDLE now, takes "DONE" for a delimiter and the   *)
(* work id for a client address, and waits inside recv for the rest of a   *)
(* job.  What later messages put there is no address to connect to.        *)
SyncLosesFraming(w) ==
  /\ Told(w)
  /\ m_state' = [m_state EXCEPT ![w] = "BLOCKED"]
  /\ \E info \in m_work_info[w] : SendsToBroker(w, Report(info))
  /\ UNCHANGED <<m_work_info, m_is_new_work, stream>>

(* WORKING: no samples for 4 s although all earlier ones are consumed, or  *)
(* no preamble in the first 200 * 4096 samples.                            *)
SyncGiveUp(w) ==
  /\ m_state[w] = "WORKING"
  /\ m_state' = [m_state EXCEPT ![w] = "IDLE"]
  /\ \E info \in m_work_info[w] : SendsToBroker(w, Report(info))
  /\ UNCHANGED <<m_work_info, m_is_new_work, stream, brokerToSync>>

(* WORKING: the first samples of the work enter the flow graph; that its    *)
(* buffer publishes is for the composition to say.                         *)
SyncFirstSamples(w) ==
  /\ m_state[w] = "WORKING"
  /\ m_is_new_work[w]
  /\ m_is_new_work' = [m_is_new_work EXCEPT ![w] = FALSE]
  /\ stream' = [stream EXCEPT ![w] = m_work_info[w]]
  /\ UNCHANGED <<m_state, m_work_info, sockets>>

SyncNext(w) ==
  \/ SyncAck(w) \/ SyncLateDone(w) \/ SyncJob(w) \/ SyncEndOfWork(w)
  \/ SyncLosesFraming(w) \/ SyncGiveUp(w)
=============================================================================
