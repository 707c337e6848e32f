-------------------------------- MODULE Bbu --------------------------------
(***************************************************************************)
(* The whole system: RRHs, buffers, the broker, synchronization workers    *)
(* and demodulation workers, running concurrently and joined by the pipes  *)
(* of Sockets.                                                             *)
(***************************************************************************)
EXTENDS Broker, RxBufferGate, RrhSink, DemodWorker

vars == <<sockets, brokerVars, bufferVars, rrhVars, syncVars, combining>>

TypeOK ==
  /\ SocketsTypeOK /\ BrokerTypeOK /\ BufferTypeOK
  /\ RrhTypeOK /\ SyncTypeOK /\ DemodTypeOK

Init ==
  /\ SocketsInit /\ BrokerInit /\ BufferInit /\ RrhInit /\ SyncInit /\ DemodInit

BrokerStep == BrokerNext /\ UNCHANGED <<bufferVars, rrhVars, syncVars, combining>>

(* The threads the broker has created start to run.                        *)
StartBuffer(b) == /\ b < buffer_threads
                  /\ BufferStart(b)
                  /\ UNCHANGED <<brokerVars, rrhVars, syncVars, combining>>

StartSync(w) == /\ w < m_sync_thread_spawned
                /\ SyncStart(w)
                /\ UNCHANGED <<brokerVars, bufferVars, rrhVars, combining>>

BufferStep(b) == BufferNext(b) /\ UNCHANGED <<brokerVars, rrhVars, syncVars, combining>>

RrhStarts(r) == /\ RequestBuffer(r) \/ BufferGranted(r)
                /\ UNCHANGED <<brokerVars, bufferVars, syncVars, combining>>

RrhStep(r) == /\ RrhStops(r) \/ RrhDetects(r)
              /\ UNCHANGED <<brokerVars, bufferVars, syncVars, combining>>

(* A worker can only read what its buffer publishes after it subscribed.    *)
(* That it reads late makes no difference: what follows from a frame in    *)
(* the samples is a later step anyway.                                     *)
SyncStep(w) == /\ \/ SyncNext(w)
                  \/ /\ \A info \in m_work_info[w] : Publishes(info.pub)
                     /\ SyncFirstSamples(w)
               /\ UNCHANGED <<brokerVars, bufferVars, rrhVars, combining>>

DemodStep == /\ \/ \E w \in SyncWorkers : FrameFound(w)
                \/ \E a \in DemodWorkers : FrameDecoded(a)
             /\ UNCHANGED <<brokerVars, bufferVars, rrhVars>>

Next ==
  \/ BrokerStep
  \/ \E b \in Buffers : StartBuffer(b) \/ BufferStep(b)
  \/ \E w \in SyncWorkers : StartSync(w) \/ SyncStep(w)
  \/ \E r \in Rrhs : RrhStarts(r) \/ RrhStep(r)
  \/ DemodStep

Spec == Init /\ [][Next]_vars

(***************************************************************************)
(* Every thread runs on.  In one turn of its loop the broker serves each   *)
(* socket that has a message, and a ROUTER serves its peers in turn, so a  *)
(* message that stays is served.  The constructors of RRHs and buffers and *)
(* the threads the broker creates go on, and a buffer and an idle worker   *)
(* read what they are sent.  Nothing is assumed of detections, of frames   *)
(* being found or decoded, or of a worker's samples running out.           *)
(***************************************************************************)
Serves(A) == A /\ UNCHANGED <<bufferVars, rrhVars, syncVars, combining>>

Fairness ==
  /\ WF_vars(Serves(FrontendRrh))
  /\ WF_vars(Serves(FrontendBuffer))
  /\ \A w \in SyncWorkers :
       /\ WF_vars(Serves(WorkerReady(w) \/ ForwardReply(w) \/ WorkerSyncDone(w)))
       /\ WF_vars(StartSync(w))
       /\ WF_vars((SyncAck(w) \/ SyncLateDone(w) \/ SyncJob(w)) /\ SyncStep(w))
  /\ \A a \in DemodWorkers : WF_vars(Serves(WorkerDemodDone(a)))
  /\ \A b \in Buffers : WF_vars(StartBuffer(b)) /\ WF_vars(BufferStep(b))
  /\ \A r \in Rrhs : WF_vars(RrhStarts(r))

FairSpec == Spec /\ Fairness
=============================================================================
