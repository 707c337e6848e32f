----------------------------- MODULE RxBuffer ------------------------------
(***************************************************************************)
(* A lora_rx_buffer in detail, with the RRH that pushes samples to it and  *)
(* the broker that finds it workers.  Between two polls the thread reads   *)
(* the headers of one message of the RRH, asks for a worker for each new   *)
(* frame, queues the samples, takes one reply of the broker and publishes  *)
(* the queue when it waits for no worker.  It implements RxBufferGate.     *)
(*                                                                         *)
(* Frames and sample messages are numbered in the order in which the RRH   *)
(* sends them.  A header is the number of the frame it announces, or       *)
(* CONTINUE_FRAME; a message without headers is a heartbeat.               *)
(* m_need_new_socket is FALSE for good once the constructor has ended.     *)
(***************************************************************************)
EXTENDS Integers, SequencesExt

CONSTANTS MaxFrames,    \* bound: frames that the RRH announces
          MaxMessages,  \* bound: messages of samples
          PullLimit     \* bound: messages under way to the buffer

ASSUME RxBufferAssumption ==
  MaxFrames \in Nat /\ MaxMessages \in Nat /\ PullLimit \in Nat

VARIABLES
  buffer_state,         \* where the thread is
  m_waiting_for_worker,
  m_pub_message_queue,
  m_msg_buff,           \* message whose headers are being read
  reply_polled,         \* revents of the broker's socket
  published,            \* messages sent to the workers
  m_pull_socket,        \* from the RRH
  requests, replies,    \* to and from the broker
  m_frame_list,         \* frames the RRH is streaming, all of one channel
  announcing,           \* for each message, the frame announced by it, or none
  served, listening     \* frames that the broker took, whose worker listens

threadVars == <<buffer_state, m_waiting_for_worker, m_pub_message_queue,
                m_msg_buff, reply_polled, published>>
rrhVars == <<m_frame_list, announcing>>
brokerVars == <<served, listening>>
vars == <<threadVars, m_pull_socket, requests, replies, rrhVars, brokerVars>>

CONTINUE_FRAME == 0
IsNewFrame(header) == header # CONTINUE_FRAME
Message(hs, id) == [headers |-> hs, id |-> id]
Heartbeat == Message(<<>>, 0)

Ready == [type |-> "READY"]
NewFrame(f) == [type |-> "NEW_FRAME", frame |-> f]

Frames == 1..MaxFrames
Announced == {f \in Frames : \E i \in DOMAIN announcing : announcing[i] = f}

TypeOK ==
  /\ buffer_state \in {"NOT_STARTED", "REGISTERING", "POLL", "HEADERS", "TERMINATED"}
  /\ m_waiting_for_worker \in 0..MaxFrames
  /\ m_pub_message_queue \in Seq(1..MaxMessages) /\ published \in Seq(1..MaxMessages)
  /\ m_msg_buff.headers \in Seq(0..MaxFrames) /\ m_msg_buff.id \in 0..MaxMessages
  /\ reply_polled \in BOOLEAN
  /\ \A i \in DOMAIN m_pull_socket : m_pull_socket[i].headers \in Seq(0..MaxFrames)
  /\ \A i \in DOMAIN requests : requests[i] = Ready \/ requests[i].frame \in Frames
  /\ replies \in Seq({"ACK", "SUBSCRIBED"})
  /\ m_frame_list \in 0..MaxFrames /\ announcing \in Seq(0..MaxFrames)
  /\ served \subseteq Frames /\ listening \subseteq Frames

Init ==
  /\ buffer_state = "NOT_STARTED" /\ m_waiting_for_worker = 0
  /\ m_pub_message_queue = <<>> /\ published = <<>>
  /\ m_msg_buff = Heartbeat /\ reply_polled = FALSE
  /\ m_pull_socket = <<>> /\ requests = <<>> /\ replies = <<>>
  /\ m_frame_list = 0 /\ announcing = <<>>
  /\ served = {} /\ listening = {}

-----------------------------------------------------------------------------
(* The RRH: each turn of rrh_zmq_sink sends the headers of all frames in   *)
(* its list and the samples; a detected frame is in the list from then on. *)

Connected == buffer_state # "NOT_STARTED" /\ ~Contains(requests, Ready)

Push(m) == /\ Connected /\ Len(m_pull_socket) < PullLimit
           /\ m_pull_socket' = Append(m_pull_socket, m)

RrhStreams(new) ==
  /\ Len(announcing) < MaxMessages
  /\ m_frame_list + Len(new) > 0
  /\ Push(Message([i \in 1..m_frame_list |-> CONTINUE_FRAME] \o new, Len(announcing) + 1))
  /\ announcing' = Append(announcing, IF new = <<>> THEN CONTINUE_FRAME ELSE new[1])
  /\ m_frame_list' = m_frame_list + Len(new)
  /\ UNCHANGED <<threadVars, requests, replies, brokerVars>>

RrhDetects == \E f \in Frames : f = Cardinality(Announced) + 1 /\ RrhStreams(<<f>>)

(* The broker told it that nobody needs the channel any more.              *)
RrhEndsStream ==
  /\ m_frame_list > 0 /\ listening = Announced
  /\ m_frame_list' = 0
  /\ UNCHANGED <<threadVars, m_pull_socket, requests, replies, announcing, brokerVars>>

(* Heartbeats are seconds apart: the buffer has handled the one before.    *)
RrhHeartbeat ==
  /\ ~Contains(m_pull_socket, Heartbeat)
  /\ buffer_state = "HEADERS" => m_msg_buff # Heartbeat
  /\ Push(Heartbeat)
  /\ UNCHANGED <<threadVars, requests, replies, rrhVars, brokerVars>>

-----------------------------------------------------------------------------
(* The broker: registers the buffer, finds a worker for each request, and  *)
(* passes the worker's reply on.                                           *)

BrokerTakesRequest ==
  /\ requests # <<>>
  /\ requests' = Tail(requests)
  /\ IF Head(requests) = Ready
     THEN replies' = Append(replies, "ACK") /\ UNCHANGED served
     ELSE served' = served \cup {Head(requests).frame} /\ UNCHANGED replies
  /\ UNCHANGED <<threadVars, m_pull_socket, rrhVars, listening>>

WorkerListens ==
  /\ \E f \in served \ listening : listening' = listening \cup {f}
  /\ replies' = Append(replies, "SUBSCRIBED")
  /\ UNCHANGED <<threadVars, m_pull_socket, requests, rrhVars, served>>

-----------------------------------------------------------------------------
(* The constructor.                                                        *)

Register ==
  /\ buffer_state = "NOT_STARTED"
  /\ buffer_state' = "REGISTERING"
  /\ requests' = Append(requests, Ready)
  /\ UNCHANGED <<m_waiting_for_worker, m_pub_message_queue, m_msg_buff, reply_polled,
                 published, m_pull_socket, replies, rrhVars, brokerVars>>

Registered ==
  /\ buffer_state = "REGISTERING" /\ replies # <<>>
  /\ buffer_state' = "POLL"
  /\ replies' = Tail(replies)
  /\ UNCHANGED <<m_waiting_for_worker, m_pub_message_queue, m_msg_buff, reply_polled,
                 published, m_pull_socket, requests, rrhVars, brokerVars>>

(* run(): a message of the RRH has come, and maybe a reply of the broker.  *)
PollMessage ==
  /\ buffer_state = "POLL" /\ m_pull_socket # <<>>
  /\ m_msg_buff' = Head(m_pull_socket)
  /\ m_pull_socket' = Tail(m_pull_socket)
  /\ reply_polled' = (replies # <<>>)
  /\ buffer_state' = "HEADERS"
  /\ UNCHANGED <<m_waiting_for_worker, m_pub_message_queue, published, requests, replies,
                 rrhVars, brokerVars>>

(* The loop counts up to a size that shrinks with every message it pops.   *)
Cleaned(q) == SubSeq(q, (Len(q) + 1) \div 2 + 1, Len(q))

ReadHeader ==
  /\ buffer_state = "HEADERS" /\ m_msg_buff.headers # <<>>
  /\ m_msg_buff' = [m_msg_buff EXCEPT !.headers = Tail(@)]
  /\ LET header == Head(m_msg_buff.headers) IN
       IF IsNewFrame(header)
       THEN /\ m_pub_message_queue' = Cleaned(m_pub_message_queue)
            /\ requests' = Append(requests, NewFrame(header))
            /\ m_waiting_for_worker' = m_waiting_for_worker + 1
       ELSE UNCHANGED <<m_pub_message_queue, requests, m_waiting_for_worker>>
  /\ UNCHANGED <<buffer_state, reply_polled, published, m_pull_socket, replies,
                 rrhVars, brokerVars>>

(* The rest of a turn of the loop: a reply of the broker, if there was one *)
(* when the sockets were polled, and the samples in the queue.             *)
WaitingAfter_Broken(reply) == m_waiting_for_worker - 1

WaitingAfterAck_Broken(reply) ==
  IF reply /\ Head(replies) = "ACK" THEN m_waiting_for_worker - 1 ELSE m_waiting_for_worker

WaitingAfter(reply) ==
  IF reply /\ Head(replies) = "SUBSCRIBED" THEN m_waiting_for_worker - 1
  ELSE m_waiting_for_worker

GateOpen_Broken == m_waiting_for_worker' <= 1

GateOpen == m_waiting_for_worker' = 0

(* The queue leaves by its front, message by message.                      *)
Sent_Broken(queue) == [i \in DOMAIN queue |-> Last(queue)]

Sent(queue) == queue

ReplyAndPublish(reply, queue) ==
  /\ m_waiting_for_worker' = WaitingAfter(reply)
  /\ replies' = IF reply THEN Tail(replies) ELSE replies
  /\ IF GateOpen
     THEN published' = published \o Sent(queue) /\ m_pub_message_queue' = <<>>
     ELSE m_pub_message_queue' = queue /\ UNCHANGED published

QueueSamples ==
  /\ buffer_state = "HEADERS" /\ m_msg_buff.headers = <<>> /\ m_msg_buff.id # 0
  /\ buffer_state' = "POLL"
  /\ m_msg_buff' = Heartbeat
  /\ ReplyAndPublish(reply_polled, Append(m_pub_message_queue, m_msg_buff.id))
  /\ UNCHANGED <<reply_polled, m_pull_socket, requests, rrhVars, brokerVars>>

(* The turn ends at once.                                                  *)
SkipHeartbeat ==
  /\ buffer_state = "HEADERS" /\ m_msg_buff = Heartbeat
  /\ buffer_state' = "POLL"
  /\ UNCHANGED <<m_waiting_for_worker, m_pub_message_queue, m_msg_buff, reply_polled,
                 published, m_pull_socket, requests, replies, rrhVars, brokerVars>>

(* No message of the RRH.                                                  *)
PollReply ==
  /\ buffer_state = "POLL" /\ m_pull_socket = <<>> /\ replies # <<>>
  /\ ReplyAndPublish(TRUE, m_pub_message_queue)
  /\ UNCHANGED <<buffer_state, m_msg_buff, reply_polled, m_pull_socket, requests,
                 rrhVars, brokerVars>>

(* Neither, for TIMEOUT; with samples in the queue it polls on.            *)
MayTerminate_Broken == TRUE

MayTerminate == m_pub_message_queue = <<>>

Terminate ==
  /\ buffer_state = "POLL" /\ m_pull_socket = <<>> /\ replies = <<>>
  /\ MayTerminate
  /\ buffer_state' = "TERMINATED"
  /\ UNCHANGED <<m_waiting_for_worker, m_pub_message_queue, m_msg_buff, reply_polled,
                 published, m_pull_socket, requests, replies, rrhVars, brokerVars>>

BufferStep ==
  \/ Register \/ Registered \/ PollMessage \/ ReadHeader \/ QueueSamples
  \/ SkipHeartbeat \/ PollReply \/ Terminate

Environment ==
  \/ RrhDetects \/ RrhStreams(<<>>) \/ RrhEndsStream \/ RrhHeartbeat
  \/ BrokerTakesRequest \/ WorkerListens

Next == BufferStep \/ Environment

Spec == Init /\ [][Next]_vars
=============================================================================
