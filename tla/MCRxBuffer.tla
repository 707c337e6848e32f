----------------------------- MODULE MCRxBuffer ----------------------------
(***************************************************************************)
(* What a receive buffer promises, and that it implements RxBufferGate.    *)
(***************************************************************************)
EXTENDS RxBuffer

AnnouncedBy(id) == {announcing[i] : i \in 1..id} \ {CONTINUE_FRAME}

(* Samples go out only when the worker of every frame they may belong to   *)
(* listens: nobody subscribes to what has been published.                  *)
ListenersFirst ==
  \A i \in DOMAIN published : AnnouncedBy(published[i]) \subseteq listening

(* Workers get the messages in order and none twice, and of those that are *)
(* missing between two that came, a later announcement of a frame has      *)
(* cleaned the queue.                                                      *)
GapsOnlyAtAnnouncements ==
  \A i \in 1..(Len(published) - 1) :
    /\ published[i] < published[i + 1]
    /\ published[i + 1] > published[i] + 1
         => \E id \in published[i + 1]..Len(announcing) : IsNewFrame(announcing[id])

(* A buffer that waits for a worker has samples in its queue and does not  *)
(* run into its time-out: its frames never lose it.                        *)
NeverGivesUpWaiting ==
  buffer_state = "TERMINATED" => m_waiting_for_worker = 0

(* The gate of the model of the whole system.                              *)
FramesOf(hs) == SelectSeq(hs, IsNewFrame)
HeadersUnderWay == [i \in DOMAIN m_pull_socket |-> m_pull_socket[i].headers]

Gate == INSTANCE RxBufferGate WITH
  Buffers <- {0}, Rrhs <- {}, SyncWorkers <- {}, DemodWorkers <- {}, Channels <- {},
  Sfs <- {}, Times <- {}, WORK_ID_RANGE <- 1,
  rrhToBroker <- <<>>, brokerToRrh <- <<>>, syncToBroker <- <<>>, brokerToSync <- <<>>,
  demodToBroker <- <<>>,
  rrhToBuffer <- [b \in {0} |-> FramesOf(m_msg_buff.headers \o FlattenSeq(HeadersUnderWay))],
  bufferToBroker <- [b \in {0} |-> requests],
  brokerToBuffer <- [b \in {0} |-> replies],
  buffer_state <- [b \in {0} |-> IF buffer_state \in {"NOT_STARTED", "REGISTERING"}
                                 THEN buffer_state ELSE "RUNNING"],
  m_waiting_for_worker <- [b \in {0} |-> m_waiting_for_worker]

(* Every step of the thread is one of the gate's, or none that it shows,   *)
(* and samples are published only where the gate lets them.                *)
ImplementsGate ==
  /\ Gate!BufferInit
  /\ [][ /\ BufferStep => \/ Gate!BufferStart(0) \/ Gate!BufferNext(0)
                          \/ UNCHANGED <<Gate!bufferVars, Gate!sockets>>
         /\ published' # published => Gate!Publishes(0)' ]_vars

(***************************************************************************)
(* The thread runs on, and for every request a worker gets to listen.      *)
(* A turn with a heartbeat leaves the broker's reply unread; heartbeats    *)
(* are BUFFER_HEARTBEAT apart, so turns without one come again and again,  *)
(* and one of them reads the reply: strong fairness.                       *)
(***************************************************************************)
Fairness ==
  /\ WF_vars(Register) /\ WF_vars(Registered) /\ WF_vars(PollMessage)
  /\ WF_vars(ReadHeader) /\ WF_vars(QueueSamples) /\ WF_vars(SkipHeartbeat)
  /\ SF_vars(PollReply)
  /\ WF_vars(BrokerTakesRequest) /\ WF_vars(WorkerListens)

FairSpec == Spec /\ Fairness

(* Samples do not stay in the queue: every frame that is announced gets a  *)
(* listening worker and an open gate, heartbeats notwithstanding.          *)
QueueDrains == m_pub_message_queue # <<>> ~> m_pub_message_queue = <<>>
=============================================================================
