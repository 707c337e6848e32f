--------------------------- MODULE RxBufferProofs --------------------------
(***************************************************************************)
(* Of a receive buffer, for any number of frames and of messages: what it  *)
(* publishes is in order, with gaps only where a frame is announced, and   *)
(* is heard by the workers of all frames announced until then; and it does *)
(* not time out while it waits for one.                                    *)
(***************************************************************************)
EXTENDS MCRxBuffer, QueueLemmas, FiniteSetTheorems

Messages == [headers : Seq(0..MaxFrames), id : 0..MaxMessages]
Requests == {Ready} \cup {NewFrame(f) : f \in Frames}

Shape ==
  /\ buffer_state \in {"NOT_STARTED", "REGISTERING", "POLL", "HEADERS", "TERMINATED"}
  /\ m_waiting_for_worker \in Nat
  /\ m_pub_message_queue \in Seq(1..MaxMessages) /\ published \in Seq(1..MaxMessages)
  /\ m_msg_buff \in Messages /\ reply_polled \in BOOLEAN
  /\ m_pull_socket \in Seq(Messages) /\ requests \in Seq(Requests)
  /\ replies \in Seq({"ACK", "SUBSCRIBED"})
  /\ m_frame_list \in Nat /\ announcing \in Seq(0..MaxFrames)
  /\ served \subseteq Frames /\ listening \subseteq served

(* Where the thread is, and what it may find in its sockets there.         *)
Phase ==
  /\ buffer_state = "NOT_STARTED" => requests = <<>> /\ replies = <<>>
  /\ buffer_state = "REGISTERING" =>
       \/ requests = <<Ready>> /\ replies = <<>>
       \/ requests = <<>> /\ replies = <<"ACK">>
  /\ buffer_state \in {"NOT_STARTED", "REGISTERING"} =>
       m_waiting_for_worker = 0 /\ served = {} /\ m_pub_message_queue = <<>>
  /\ buffer_state \in {"POLL", "HEADERS", "TERMINATED"} =>
       /\ \A i \in DOMAIN requests : requests[i] # Ready
       /\ \A i \in DOMAIN replies : replies[i] = "SUBSCRIBED"
  /\ buffer_state = "HEADERS" /\ reply_polled => replies # <<>>
  /\ buffer_state # "HEADERS" => m_msg_buff = Heartbeat

(* The frames for which a worker was asked.                                *)
Requested == served \cup {f \in Frames : \E i \in DOMAIN requests : requests[i] = NewFrame(f)}

(* The counter is the number of workers that do not listen yet, and of     *)
(* those whose word is still to be read.                                   *)
Counted ==
  buffer_state \in {"POLL", "HEADERS", "TERMINATED"} =>
    /\ m_waiting_for_worker = Cardinality(Requested \ listening) + Len(replies)
    /\ Len(replies) <= Cardinality(listening)

(* Frames are announced one after the other, each once.                    *)
InTurn ==
  /\ \E k \in 0..MaxFrames : Announced = 1..k /\ m_frame_list <= k
  /\ \A i, j \in DOMAIN announcing :
       announcing[i] = announcing[j] /\ IsNewFrame(announcing[i]) => i = j

(* Of the headers of a message only the last announces a frame, if any.    *)
WellFormed(m) ==
  m.headers # <<>> =>
    /\ m.id \in DOMAIN announcing
    /\ m.headers[Len(m.headers)] = announcing[m.id]
    /\ \A i \in 1..(Len(m.headers) - 1) : m.headers[i] = CONTINUE_FRAME

AllWellFormed ==
  /\ WellFormed(m_msg_buff)
  /\ \A i \in DOMAIN m_pull_socket :
       WellFormed(m_pull_socket[i]) /\ (m_pull_socket[i].headers = <<>> => m_pull_socket[i].id = 0)

(* Messages are read in the order in which they were sent.                 *)
Before(a, b) == a # 0 /\ b # 0 => a < b

InOrder ==
  /\ m_msg_buff.id \in 0..Len(announcing)
  /\ \A i \in DOMAIN m_pull_socket :
       Before(m_msg_buff.id, m_pull_socket[i].id) /\ m_pull_socket[i].id <= Len(announcing)
  /\ \A i, j \in DOMAIN m_pull_socket :
       i < j => Before(m_pull_socket[i].id, m_pull_socket[j].id)
  /\ \A q \in DOMAIN m_pub_message_queue :
       /\ m_pub_message_queue[q] <= Len(announcing)
       /\ Before(m_pub_message_queue[q], m_msg_buff.id)
       /\ \A i \in DOMAIN m_pull_socket : Before(m_pub_message_queue[q], m_pull_socket[i].id)
  /\ \A p \in DOMAIN published : published[p] <= Len(announcing)

(* A message whose announcement is still to be read.                       *)
Pending(id) ==
  \/ m_msg_buff.id = id /\ m_msg_buff.headers # <<>>
  \/ \E i \in DOMAIN m_pull_socket : m_pull_socket[i].id = id

AskedOnce ==
  /\ Requested \subseteq Announced
  /\ \A id \in DOMAIN announcing :
       IsNewFrame(announcing[id]) => (announcing[id] \in Requested <=> ~Pending(id))

(* Who waits has samples in the queue, or will have after this turn.       *)
WaitsWithSamples ==
  m_waiting_for_worker > 0 => m_pub_message_queue # <<>> \/ m_msg_buff.id # 0

IInv ==
  /\ Shape /\ Phase /\ Counted /\ InTurn /\ AllWellFormed /\ InOrder /\ AskedOnce
  /\ WaitsWithSamples /\ ListenersFirst /\ NeverGivesUpWaiting

-----------------------------------------------------------------------------
(* READY is no request for a worker, and those are told apart by frame.    *)
LEMMA RequestKinds ==
  /\ \A f \in Frames : NewFrame(f) # Ready /\ NewFrame(f).frame = f
  /\ \A f, g \in Frames : NewFrame(f) = NewFrame(g) => f = g
  /\ \A r \in Requests : r # Ready => r.frame \in Frames /\ r = NewFrame(r.frame)
<1>1. \A f \in Frames : NewFrame(f) # Ready /\ NewFrame(f).frame = f
  <2>1. \A f \in Frames : NewFrame(f).type = "NEW_FRAME" /\ Ready.type = "READY" /\ NewFrame(f).frame = f
    BY DEF NewFrame, Ready
  <2> QED  BY <2>1
<1>2. \A f, g \in Frames : NewFrame(f) = NewFrame(g) => f = g
  BY <1>1
<1>3. \A r \in Requests : r # Ready => r.frame \in Frames /\ r = NewFrame(r.frame)
  BY <1>1 DEF Requests
<1> QED  BY <1>1, <1>2, <1>3

(* Sets of frames are finite, and their size follows their elements.       *)
LEMMA FrameSets ==
  /\ \A S \in SUBSET Frames : IsFiniteSet(S) /\ Cardinality(S) \in 0..MaxFrames
  /\ \A S \in SUBSET Frames : Cardinality(S) = 0 <=> S = {}
  /\ \A S \in SUBSET Frames, f \in Frames :
       /\ f \notin S => Cardinality(S \cup {f}) = Cardinality(S) + 1
       /\ f \in S => Cardinality(S \ {f}) = Cardinality(S) - 1
<1>1. IsFiniteSet(Frames) /\ Cardinality(Frames) = MaxFrames
  BY FS_Interval, RxBufferAssumption DEF Frames
<1>2. \A S \in SUBSET Frames : IsFiniteSet(S) /\ Cardinality(S) <= MaxFrames /\ Cardinality(S) \in Nat
  BY <1>1, FS_Subset, FS_CardinalityType
<1>3. \A S \in SUBSET Frames : Cardinality(S) = 0 <=> S = {}
  BY <1>2, FS_EmptySet
<1>4. \A S \in SUBSET Frames, f \in Frames : f \notin S => Cardinality(S \cup {f}) = Cardinality(S) + 1
  BY <1>2, FS_AddElement
<1>5. \A S \in SUBSET Frames, f \in Frames : f \in S => Cardinality(S \ {f}) = Cardinality(S) - 1
  BY <1>2, FS_RemoveElement
<1> QED  BY <1>2, <1>3, <1>4, <1>5, RxBufferAssumption

(* What is left of the queue when a frame is announced was in it, in the   *)
(* same order.                                                             *)
LEMMA CleanedIsPart ==
  ASSUME NEW S, NEW q \in Seq(S)
  PROVE  /\ Cleaned(q) \in Seq(S)
         /\ \A i \in DOMAIN Cleaned(q) : \E j \in DOMAIN q : Cleaned(q)[i] = q[j]
<1> DEFINE m == (Len(q) + 1) \div 2 + 1
<1>1. m \in 1..(Len(q) + 1) /\ Len(q) \in Nat
  OBVIOUS
<1>2. CASE m <= Len(q)
  <2>1. \A i \in m..Len(q) : q[i] \in S
    BY <1>1
  <2>2. /\ SubSeq(q, m, Len(q)) \in Seq(S)
        /\ Len(SubSeq(q, m, Len(q))) = (Len(q) - m) + 1
        /\ \A i \in 1..((Len(q) - m) + 1) : SubSeq(q, m, Len(q))[i] = q[(m + i) - 1]
    BY <1>1, <1>2, <2>1, SubSeqProperties
  <2> QED  BY <1>1, <1>2, <2>2 DEF Cleaned
<1>3. CASE m > Len(q)
  BY <1>1, <1>3 DEF Cleaned
<1> QED  BY <1>1, <1>2, <1>3

(* A heartbeat is a message without headers and samples.                   *)
LEMMA HeartbeatIsEmpty ==
  Heartbeat \in Messages /\ Heartbeat.headers = <<>> /\ Heartbeat.id = 0
BY RxBufferAssumption DEF Heartbeat, Message, Messages

(* The invariant holds when the buffer starts.                             *)
LEMMA InitInv == Init => IInv
<1> SUFFICES ASSUME Init PROVE IInv  OBVIOUS
<1> USE DEF Init
<1>1. Shape
  <2>1. <<>> \in Seq(1..MaxMessages) /\ <<>> \in Seq(Messages) /\ <<>> \in Seq(Requests)
        /\ <<>> \in Seq({"ACK", "SUBSCRIBED"}) /\ <<>> \in Seq(0..MaxFrames)
    OBVIOUS
  <2> QED  BY <2>1, HeartbeatIsEmpty DEF Shape
<1>2. Phase
  BY DEF Phase
<1>3. Counted
  BY DEF Counted
<1>4. InTurn
  <2>1. Announced = 1..0
    BY DEF Announced
  <2> QED  BY <2>1, RxBufferAssumption DEF InTurn
<1>5. AllWellFormed /\ InOrder /\ WaitsWithSamples
  BY DEF AllWellFormed, WellFormed, InOrder, WaitsWithSamples, Heartbeat, Message
<1>6. AskedOnce
  BY DEF AskedOnce, Requested
<1>7. ListenersFirst /\ NeverGivesUpWaiting
  BY DEF ListenersFirst, NeverGivesUpWaiting
<1> QED  BY <1>1, <1>2, <1>3, <1>4, <1>5, <1>6, <1>7 DEF IInv

-----------------------------------------------------------------------------
(* What the RRH does.                                                      *)

(* A message of samples, with the announcement of the next frame or not.   *)
LEMMA StreamsKeeps ==
  ASSUME IInv, NEW new, RrhStreams(new),
         new = <<>> \/ \E f \in Frames : new = <<f>> /\ f = Cardinality(Announced) + 1
  PROVE  IInv'
<1> DEFINE n == Len(announcing) + 1
           h == IF new = <<>> THEN CONTINUE_FRAME ELSE new[1]
           hs == [i \in 1..m_frame_list |-> CONTINUE_FRAME] \o new
           m == Message(hs, n)
<1> USE RxBufferAssumption
<1>1. /\ Shape /\ Phase /\ Counted /\ InTurn /\ AllWellFormed /\ InOrder /\ AskedOnce
      /\ WaitsWithSamples /\ ListenersFirst /\ NeverGivesUpWaiting
  BY DEF IInv
<1>2. /\ announcing' = Append(announcing, h)
      /\ m_frame_list' = m_frame_list + Len(new)
      /\ m_frame_list + Len(new) > 0
      /\ Len(announcing) < MaxMessages
      /\ m_pull_socket' = Append(m_pull_socket, m)
      /\ buffer_state # "NOT_STARTED"
  BY DEF RrhStreams, Push, Connected
<1>3. /\ UNCHANGED <<buffer_state, m_waiting_for_worker, m_pub_message_queue, m_msg_buff>>
      /\ UNCHANGED <<reply_polled, published, requests, replies, served, listening>>
  BY DEF RrhStreams, threadVars, brokerVars
<1>4. h \in 0..MaxFrames /\ n \in 1..MaxMessages /\ new \in Seq(0..MaxFrames)
  <2>1. n \in 1..MaxMessages
    BY <1>1, <1>2 DEF Shape
  <2>2. CASE new = <<>>
    BY <2>1, <2>2 DEF CONTINUE_FRAME
  <2>3. CASE \E f \in Frames : new = <<f>>
    <3>1. PICK f \in Frames : new = <<f>>
      BY <2>3
    <3> QED  BY <2>1, <3>1 DEF Frames
  <2> QED  BY <2>2, <2>3
<1>5. /\ announcing' \in Seq(0..MaxFrames) /\ Len(announcing') = n /\ announcing'[n] = h
      /\ \A i \in DOMAIN announcing : announcing'[i] = announcing[i] /\ i \in DOMAIN announcing'
      /\ DOMAIN announcing' = DOMAIN announcing \cup {n} /\ n \notin DOMAIN announcing
  <2> HIDE DEF h
  <2>1. announcing \in Seq(0..MaxFrames)
    BY <1>1 DEF Shape
  <2>2. announcing' = Append(announcing, h) /\ h \in 0..MaxFrames
    BY <1>2, <1>4
  <2>3. announcing' \in Seq(0..MaxFrames) /\ Len(announcing') = Len(announcing) + 1
    BY <2>1, <2>2
  <2>4. announcing'[Len(announcing) + 1] = h
    BY <2>1, <2>2
  <2>5. \A i \in 1..Len(announcing) : announcing'[i] = announcing[i]
    BY <2>1, <2>2
  <2>6. Len(announcing) \in Nat /\ DOMAIN announcing = 1..Len(announcing)
        /\ DOMAIN announcing' = 1..(Len(announcing) + 1)
    BY <2>1, <2>3
  <2> QED  BY <2>3, <2>4, <2>5, <2>6
<1>6. hs \in Seq(0..MaxFrames) /\ hs # <<>> /\ hs[Len(hs)] = h
      /\ \A i \in 1..(Len(hs) - 1) : hs[i] = CONTINUE_FRAME
  <2> DEFINE front == [i \in 1..m_frame_list |-> CONTINUE_FRAME]
  <2>1. front \in Seq(0..MaxFrames) /\ Len(front) = m_frame_list /\ m_frame_list \in Nat
    BY <1>1 DEF Shape, CONTINUE_FRAME
  <2>2. CASE new = <<>>
    <3>1. hs = front
      BY <2>1, <2>2, ConcatEmptySeq
    <3>2. m_frame_list > 0
      BY <1>2, <2>1, <2>2
    <3> QED  BY <2>1, <2>2, <3>1, <3>2
  <2>3. CASE \E f \in Frames : new = <<f>>
    <3>1. PICK f \in Frames : new = <<f>>
      BY <2>3
    <3>2. hs = Append(front, f) /\ h = f
      BY <2>1, <3>1 DEF Frames
    <3> QED  BY <2>1, <3>1, <3>2 DEF Frames
  <2> QED  BY <2>2, <2>3
<1>7. m \in Messages /\ m.headers = hs /\ m.id = n
  <2> HIDE DEF n, hs
  <2> QED  BY <1>4, <1>6 DEF Message, Messages
<1>8. /\ m_pull_socket' \in Seq(Messages) /\ Len(m_pull_socket') = Len(m_pull_socket) + 1
      /\ m_pull_socket'[Len(m_pull_socket) + 1] = m
      /\ \A i \in DOMAIN m_pull_socket : m_pull_socket'[i] = m_pull_socket[i]
      /\ DOMAIN m_pull_socket' = DOMAIN m_pull_socket \cup {Len(m_pull_socket) + 1}
      /\ Len(m_pull_socket) \in Nat /\ DOMAIN m_pull_socket = 1..Len(m_pull_socket)
  BY <1>1, <1>2, <1>7 DEF Shape
<1> HIDE DEF m, h, hs, n
<1>10. Shape'
  <2>1. announcing' \in Seq(0..MaxFrames) /\ m_pull_socket' \in Seq(Messages)
    BY <1>5, <1>8
  <2>2. m_frame_list' \in Nat
    <3>1. m_frame_list \in Nat /\ Len(new) \in Nat
      BY <1>1, <1>4 DEF Shape
    <3> QED  BY <1>2, <3>1
  <2> QED  BY <1>1, <1>3, <2>1, <2>2 DEF Shape
<1>11. Phase'
  BY <1>1, <1>3 DEF Phase
<1>12. Requested' = Requested /\ Counted'
  BY <1>1, <1>3 DEF Requested, Counted
<1>13. InTurn' /\ Announced \subseteq Announced' /\ (IsNewFrame(h) => h \notin Announced)
  <2>1. PICK k \in 0..MaxFrames : Announced = 1..k /\ m_frame_list <= k
    BY <1>1 DEF InTurn
  <2>2. CASE new = <<>>
    <3>1. h = 0 /\ m_frame_list' = m_frame_list
      BY <1>1, <1>2, <2>2 DEF h, CONTINUE_FRAME, Shape
    <3>2. Announced' = Announced
      BY <1>5, <3>1 DEF Announced, Frames
    <3> QED  BY <1>1, <1>5, <2>1, <3>1, <3>2 DEF InTurn, IsNewFrame, CONTINUE_FRAME
  <2>3. CASE \E f \in Frames : new = <<f>> /\ f = Cardinality(Announced) + 1
    <3>1. h = k + 1 /\ h \in Frames /\ m_frame_list' = m_frame_list + 1
      <4>1. Cardinality(1..k) = k
        BY FS_Interval
      <4>2. PICK f \in Frames : new = <<f>> /\ f = Cardinality(Announced) + 1
        BY <2>3
      <4> QED  BY <1>2, <2>1, <4>1, <4>2 DEF h
    <3>2. Announced' = Announced \cup {h}
      BY <1>5, <3>1 DEF Announced, Frames
    <3>3. Announced' = 1..(k + 1) /\ k + 1 \in 0..MaxFrames /\ h \notin Announced
      BY <2>1, <3>1, <3>2 DEF Frames
    <3>4. \A i \in DOMAIN announcing : announcing[i] # h
      BY <3>1, <3>3 DEF Announced
    <3> QED
      <4>1. \A i, j \in DOMAIN announcing' :
              announcing'[i] = announcing'[j] /\ IsNewFrame(announcing'[i]) => i = j
        BY <1>1, <1>5, <3>4 DEF InTurn
      <4>2. m_frame_list' <= k + 1
        BY <1>1, <2>1, <3>1 DEF Shape
      <4>3. Announced' = 1..(k + 1)
        BY <3>2, <3>3
      <4>4. InTurn'
        BY <3>3, <4>1, <4>2, <4>3 DEF InTurn
      <4> QED  BY <3>2, <3>3, <4>4
  <2> QED  BY <2>2, <2>3, <1>1
<1>14. AllWellFormed'
  <2> DEFINE Sound(x) ==
        x.headers # <<>> =>
          /\ x.id \in DOMAIN announcing'
          /\ x.headers[Len(x.headers)] = announcing'[x.id]
          /\ \A i \in 1..(Len(x.headers) - 1) : x.headers[i] = CONTINUE_FRAME
  <2>1. Sound(m)
    BY <1>5, <1>6, <1>7
  <2>2. \A x : WellFormed(x) => Sound(x)
    BY <1>5 DEF WellFormed
  <2>3. Sound(m_msg_buff) /\ \A i \in DOMAIN m_pull_socket' : Sound(m_pull_socket'[i])
    BY <1>1, <1>8, <2>1, <2>2 DEF AllWellFormed
  <2>4. \A i \in DOMAIN m_pull_socket' :
          m_pull_socket'[i].headers = <<>> => m_pull_socket'[i].id = 0
    BY <1>1, <1>6, <1>7, <1>8 DEF AllWellFormed
  <2> QED  BY <1>3, <2>3, <2>4 DEF AllWellFormed, WellFormed
<1>15. InOrder'
  <2>1. \A i \in DOMAIN m_pull_socket : m_pull_socket[i] \in Messages
    BY <1>1 DEF Shape
  <2> QED
    <3>1. n = Len(announcing) + 1 /\ Len(announcing) \in Nat
      BY <1>1 DEF n, Shape
    <3>2. m_msg_buff.id \in 0..Len(announcing')
      BY <1>1, <1>3, <1>5, <3>1 DEF InOrder
    <3>3. \A i \in DOMAIN m_pull_socket' :
            Before(m_msg_buff.id, m_pull_socket'[i].id) /\ m_pull_socket'[i].id <= Len(announcing')
      <4>1. Before(m_msg_buff.id, n)
        BY <1>1, <3>1 DEF InOrder, Before
      <4>2. \A i \in DOMAIN m_pull_socket : m_pull_socket[i].id \in 0..Len(announcing)
        BY <1>1, <2>1, <3>1 DEF InOrder, Messages
      <4> QED  BY <1>1, <1>5, <1>7, <1>8, <3>1, <4>1, <4>2 DEF InOrder
    <3>4. \A i, j \in DOMAIN m_pull_socket' :
            i < j => Before(m_pull_socket'[i].id, m_pull_socket'[j].id)
      <4>1. \A i \in DOMAIN m_pull_socket : Before(m_pull_socket[i].id, n)
        BY <1>1, <2>1, <3>1 DEF InOrder, Before, Messages
      <4> QED  BY <1>1, <1>7, <1>8, <4>1 DEF InOrder
    <3>5. \A q \in DOMAIN m_pub_message_queue :
            /\ m_pub_message_queue[q] <= Len(announcing')
            /\ Before(m_pub_message_queue[q], m_msg_buff.id)
            /\ \A i \in DOMAIN m_pull_socket' : Before(m_pub_message_queue[q], m_pull_socket'[i].id)
      <4>1. \A q \in DOMAIN m_pub_message_queue : m_pub_message_queue[q] \in Nat
        BY <1>1 DEF Shape
      <4> QED  BY SMTT(30), <1>1, <1>5, <1>7, <1>8, <2>1, <3>1, <4>1 DEF InOrder, Before, Messages
    <3>6. \A p \in DOMAIN published : published[p] <= Len(announcing')
      <4>1. \A p \in DOMAIN published : published[p] \in Nat
        BY <1>1 DEF Shape
      <4> QED  BY <1>1, <1>5, <3>1, <4>1 DEF InOrder
    <3> QED  BY <1>3, <3>2, <3>3, <3>4, <3>5, <3>6 DEF InOrder, Before
<1>16. AskedOnce'
  <2>1. Requested \subseteq Announced
    BY <1>1 DEF AskedOnce
  <2>2. Requested' \subseteq Announced'
    BY <1>12, <1>13, <2>1
  <2>3. \A id : id = n => Pending(id)'
    <3>1. Len(m_pull_socket) + 1 \in DOMAIN m_pull_socket'
          /\ m_pull_socket'[Len(m_pull_socket) + 1].id = n
      BY <1>7, <1>8
    <3> QED  BY <3>1 DEF Pending
  <2>4. \A id \in DOMAIN announcing : Pending(id)' <=> Pending(id)
    <3>1. \A id \in DOMAIN announcing : id # n
      BY <1>5
    <3>2. \A i \in DOMAIN m_pull_socket :
            i \in DOMAIN m_pull_socket' /\ m_pull_socket'[i] = m_pull_socket[i]
      BY <1>8
    <3>3. \A i \in DOMAIN m_pull_socket' :
            i \in DOMAIN m_pull_socket \/ m_pull_socket'[i].id = n
      BY <1>7, <1>8
    <3> QED  BY <1>3, <3>1, <3>2, <3>3 DEF Pending
  <2>5. ASSUME NEW id \in DOMAIN announcing', IsNewFrame(announcing'[id])
        PROVE  announcing'[id] \in Requested' <=> ~Pending(id)'
    <3>1. CASE id = n
      <4>1. IsNewFrame(h) /\ announcing'[id] = h
        BY <1>5, <2>5, <3>1
      <4>2. h \notin Requested'
        BY <1>12, <1>13, <2>1, <4>1
      <4>3. Pending(id)'
        BY <2>3, <3>1
      <4> QED  BY <4>1, <4>2, <4>3
    <3>2. CASE id # n
      <4>1. id \in DOMAIN announcing /\ announcing'[id] = announcing[id]
        BY <1>5, <2>5, <3>2
      <4>2. announcing[id] \in Requested <=> ~Pending(id)
        BY <1>1, <2>5, <4>1 DEF AskedOnce
      <4> QED  BY <1>12, <2>4, <4>1, <4>2
    <3> QED  BY <3>1, <3>2
  <2> QED  BY <2>2, <2>5 DEF AskedOnce
<1>17. WaitsWithSamples' /\ NeverGivesUpWaiting'
  BY <1>1, <1>3 DEF WaitsWithSamples, NeverGivesUpWaiting
<1>18. ListenersFirst'
  <2>1. \A p \in DOMAIN published : 1..published[p] \subseteq DOMAIN announcing
    BY <1>1 DEF InOrder, Shape
  <2>2. \A p \in DOMAIN published : AnnouncedBy(published[p])' = AnnouncedBy(published[p])
    BY <1>3, <1>5, <2>1 DEF AnnouncedBy
  <2> QED  BY <1>1, <1>3, <2>2 DEF ListenersFirst
<1> QED
  BY <1>10, <1>11, <1>12, <1>13, <1>14, <1>15, <1>16, <1>17, <1>18 DEF IInv

(* The end of a stream changes the list of the RRH only.                   *)
LEMMA EndsStreamKeeps == IInv /\ RrhEndsStream => IInv'
<1> SUFFICES ASSUME IInv, RrhEndsStream PROVE IInv'  OBVIOUS
<1> USE DEF IInv
<1>1. /\ m_frame_list' = 0 /\ UNCHANGED <<m_pull_socket, requests, replies, announcing>>
      /\ UNCHANGED <<buffer_state, m_waiting_for_worker, m_pub_message_queue, m_msg_buff>>
      /\ UNCHANGED <<reply_polled, published, served, listening>>
  BY DEF RrhEndsStream, threadVars, brokerVars
<1>2. Shape' /\ Phase'
  BY <1>1 DEF Shape, Phase
<1>3. Requested' = Requested /\ Announced' = Announced
  BY <1>1 DEF Requested, Announced
<1>4. Counted' /\ InTurn'
  BY <1>1, <1>3 DEF Counted, InTurn
<1>5. AllWellFormed' /\ InOrder'
  BY <1>1 DEF AllWellFormed, WellFormed, InOrder, Before
<1>6. AskedOnce'
  BY <1>1, <1>3 DEF AskedOnce, Pending
<1>7. WaitsWithSamples' /\ ListenersFirst' /\ NeverGivesUpWaiting'
  BY <1>1 DEF WaitsWithSamples, ListenersFirst, AnnouncedBy, NeverGivesUpWaiting
<1> QED  BY <1>2, <1>4, <1>5, <1>6, <1>7

(* A heartbeat has no place in the order of the messages.                  *)
LEMMA HeartbeatKeeps == IInv /\ RrhHeartbeat => IInv'
<1> SUFFICES ASSUME IInv, RrhHeartbeat PROVE IInv'  OBVIOUS
<1> USE DEF IInv
<1>1. /\ m_pull_socket' = Append(m_pull_socket, Heartbeat)
      /\ UNCHANGED <<m_frame_list, requests, replies, announcing>>
      /\ UNCHANGED <<buffer_state, m_waiting_for_worker, m_pub_message_queue, m_msg_buff>>
      /\ UNCHANGED <<reply_polled, published, served, listening>>
  BY DEF RrhHeartbeat, Push, threadVars, brokerVars, rrhVars
<1>2. /\ m_pull_socket' \in Seq(Messages)
      /\ m_pull_socket'[Len(m_pull_socket) + 1] = Heartbeat
      /\ \A i \in DOMAIN m_pull_socket : m_pull_socket'[i] = m_pull_socket[i]
      /\ DOMAIN m_pull_socket' = DOMAIN m_pull_socket \cup {Len(m_pull_socket) + 1}
  BY <1>1, HeartbeatIsEmpty DEF Shape
<1>3. Shape' /\ Phase'
  BY <1>1, <1>2 DEF Shape, Phase
<1>4. Requested' = Requested /\ Announced' = Announced
  BY <1>1 DEF Requested, Announced
<1>5. Counted' /\ InTurn'
  BY <1>1, <1>4 DEF Counted, InTurn
<1>6. AllWellFormed'
  BY <1>1, <1>2, HeartbeatIsEmpty DEF AllWellFormed, WellFormed
<1>7. InOrder'
  <2>1. \A a : Before(a, Heartbeat.id) /\ Before(Heartbeat.id, a)
    BY HeartbeatIsEmpty DEF Before
  <2>2. Heartbeat.id <= Len(announcing)
    BY HeartbeatIsEmpty DEF Shape
  <2>3. \A i \in DOMAIN m_pull_socket' :
          Before(m_msg_buff.id, m_pull_socket'[i].id) /\ m_pull_socket'[i].id <= Len(announcing)
    BY <1>2, <2>1, <2>2 DEF InOrder
  <2>4. \A i, j \in DOMAIN m_pull_socket' :
          i < j => Before(m_pull_socket'[i].id, m_pull_socket'[j].id)
    BY <1>2, <2>1 DEF InOrder
  <2>5. \A q \in DOMAIN m_pub_message_queue, i \in DOMAIN m_pull_socket' :
          Before(m_pub_message_queue[q], m_pull_socket'[i].id)
    BY <1>2, <2>1 DEF InOrder
  <2> QED  BY <1>1, <2>3, <2>4, <2>5 DEF InOrder, Before
<1>8. AskedOnce'
  <2>1. \A id \in DOMAIN announcing : id # Heartbeat.id
    BY HeartbeatIsEmpty DEF Shape
  <2> QED  BY <1>1, <1>2, <1>4, <2>1 DEF AskedOnce, Pending
<1>9. WaitsWithSamples' /\ ListenersFirst' /\ NeverGivesUpWaiting'
  BY <1>1 DEF WaitsWithSamples, ListenersFirst, AnnouncedBy, NeverGivesUpWaiting
<1> QED  BY <1>3, <1>5, <1>6, <1>7, <1>8, <1>9

-----------------------------------------------------------------------------
(* What the broker does.                                                   *)

(* A request that the broker takes stays requested.                        *)
LEMMA TakesRequestKeeps == IInv /\ BrokerTakesRequest => IInv'
<1> SUFFICES ASSUME IInv, BrokerTakesRequest PROVE IInv'  OBVIOUS
<1> USE DEF IInv
<1>1. /\ requests # <<>> /\ requests' = Tail(requests)
      /\ UNCHANGED <<m_frame_list, m_pull_socket, announcing, listening>>
      /\ UNCHANGED <<buffer_state, m_waiting_for_worker, m_pub_message_queue, m_msg_buff>>
      /\ UNCHANGED <<reply_polled, published>>
  BY DEF BrokerTakesRequest, threadVars, rrhVars
<1>2. /\ requests' \in Seq(Requests) /\ Len(requests') = Len(requests) - 1
      /\ \A i \in DOMAIN requests' : requests'[i] = requests[i + 1] /\ i + 1 \in DOMAIN requests
      /\ \A i \in DOMAIN requests : i # 1 => i - 1 \in DOMAIN requests'
                                           /\ requests'[i - 1] = requests[i]
      /\ Head(requests) = requests[1] /\ Head(requests) \in Requests /\ 1 \in DOMAIN requests
  BY <1>1 DEF Shape
<1>3. /\ Shape' /\ Phase' /\ Requested' = Requested
      /\ buffer_state \in {"POLL", "HEADERS", "TERMINATED"} => replies' = replies
  <2>1. CASE Head(requests) = Ready
    <3>1. replies' = Append(replies, "ACK") /\ served' = served
      BY <2>1 DEF BrokerTakesRequest
    <3>2. buffer_state = "REGISTERING" /\ requests = <<Ready>> /\ replies = <<>>
      BY <1>1, <1>2, <2>1 DEF Phase, Shape
    <3>3. requests' = <<>> /\ replies' = <<"ACK">> /\ replies' \in Seq({"ACK", "SUBSCRIBED"})
      BY <1>1, <3>1, <3>2
    <3>4. Shape' /\ Phase'
      BY <1>1, <1>2, <3>1, <3>2, <3>3 DEF Shape, Phase
    <3>5. \A i \in DOMAIN requests, f \in Frames : requests[i] # NewFrame(f)
      BY <3>2, RequestKinds
    <3>6. Requested' = Requested
      BY <3>1, <3>3, <3>5 DEF Requested
    <3> QED  BY <3>2, <3>4, <3>6
  <2>2. CASE Head(requests) # Ready
    <3>1. replies' = replies /\ served' = served \cup {Head(requests).frame}
      BY <2>2 DEF BrokerTakesRequest
    <3>2. PICK g \in Frames : Head(requests) = NewFrame(g) /\ Head(requests).frame = g
      BY <1>2, <2>2, RequestKinds
    <3>3. buffer_state \in {"POLL", "HEADERS", "TERMINATED"}
      BY <1>1, <1>2, <2>2 DEF Phase, Shape
    <3>4. Shape' /\ Phase'
      BY <1>1, <1>2, <3>1, <3>2, <3>3 DEF Shape, Phase
    <3>5. \A f \in Frames : (\E i \in DOMAIN requests : requests[i] = NewFrame(f))
                           <=> f = g \/ \E i \in DOMAIN requests' : requests'[i] = NewFrame(f)
      BY <1>2, <3>2, RequestKinds
    <3>6. Requested' = Requested
      BY <3>1, <3>2, <3>5 DEF Requested
    <3> QED  BY <3>1, <3>4, <3>6
  <2> QED  BY <2>1, <2>2
<1>4. Counted'
  BY <1>1, <1>3 DEF Counted
<1>5. InTurn' /\ Announced' = Announced
  BY <1>1 DEF InTurn, Announced
<1>6. AllWellFormed' /\ InOrder'
  BY <1>1 DEF AllWellFormed, WellFormed, InOrder, Before
<1>7. AskedOnce'
  BY <1>1, <1>3, <1>5 DEF AskedOnce, Pending
<1>8. WaitsWithSamples' /\ ListenersFirst' /\ NeverGivesUpWaiting'
  BY <1>1 DEF WaitsWithSamples, ListenersFirst, AnnouncedBy, NeverGivesUpWaiting
<1> QED  BY <1>3, <1>4, <1>5, <1>6, <1>7, <1>8

(* A worker that begins to listen is one less to wait for, and one reply   *)
(* more to read.                                                           *)
LEMMA WorkerListensKeeps == IInv /\ WorkerListens => IInv'
<1> SUFFICES ASSUME IInv, WorkerListens PROVE IInv'  OBVIOUS
<1> USE DEF IInv
<1>1. PICK f \in served \ listening : listening' = listening \cup {f}
  BY DEF WorkerListens
<1>2. /\ replies' = Append(replies, "SUBSCRIBED")
      /\ UNCHANGED <<m_frame_list, m_pull_socket, announcing, served, requests>>
      /\ UNCHANGED <<buffer_state, m_waiting_for_worker, m_pub_message_queue, m_msg_buff>>
      /\ UNCHANGED <<reply_polled, published>>
  BY DEF WorkerListens, threadVars, rrhVars
<1>3. /\ replies' \in Seq({"ACK", "SUBSCRIBED"}) /\ Len(replies') = Len(replies) + 1
      /\ \A i \in DOMAIN replies : replies'[i] = replies[i]
      /\ replies'[Len(replies) + 1] = "SUBSCRIBED" /\ replies' # <<>>
      /\ DOMAIN replies' = DOMAIN replies \cup {Len(replies) + 1} /\ Len(replies) \in Nat
  BY <1>2, Appended DEF Shape
<1>4. buffer_state \in {"POLL", "HEADERS", "TERMINATED"}
  BY <1>1 DEF Phase, Shape
<1>5. Shape' /\ Phase'
  <2>1. Shape'
    BY <1>1, <1>2, <1>3 DEF Shape
  <2>2. \A i \in DOMAIN replies' : replies'[i] = "SUBSCRIBED"
    BY <1>3, <1>4 DEF Phase
  <2> QED  BY <1>2, <1>3, <1>4, <2>1, <2>2 DEF Phase
<1>6. Requested' = Requested /\ Requested \subseteq Frames /\ f \in Requested /\ f \in Frames
  BY <1>1, <1>2 DEF Requested, Shape
<1>7. Counted'
  <2>1. Requested \ listening' = (Requested \ listening) \ {f}
    BY <1>1
  <2>2. Cardinality(Requested \ listening') = Cardinality(Requested \ listening) - 1
    BY <1>1, <1>6, <2>1, FrameSets
  <2>3. Cardinality(listening') = Cardinality(listening) + 1
    BY <1>1, <1>6, FrameSets DEF Shape
  <2>4. Cardinality(listening) \in Nat /\ Cardinality(Requested \ listening) \in Nat
    BY <1>6, FrameSets, RxBufferAssumption DEF Shape
  <2> QED  BY SMTT(30), <1>2, <1>3, <1>4, <1>6, <2>2, <2>3, <2>4 DEF Counted, Shape
<1>8. InTurn' /\ Announced' = Announced
  BY <1>2 DEF InTurn, Announced
<1>9. AllWellFormed' /\ InOrder'
  BY <1>2 DEF AllWellFormed, WellFormed, InOrder, Before
<1>10. AskedOnce'
  BY <1>2, <1>6, <1>8 DEF AskedOnce, Pending
<1>11. WaitsWithSamples' /\ NeverGivesUpWaiting'
  BY <1>2 DEF WaitsWithSamples, NeverGivesUpWaiting
<1>12. ListenersFirst'
  <2>1. \A i \in DOMAIN published : AnnouncedBy(published[i]) \subseteq listening'
    BY <1>1 DEF ListenersFirst
  <2> QED  BY <1>2, <2>1 DEF ListenersFirst, AnnouncedBy
<1> QED  BY <1>5, <1>7, <1>8, <1>9, <1>10, <1>11, <1>12

-----------------------------------------------------------------------------
(* What the thread does.                                                   *)

(* The constructor announces the buffer to the broker.                     *)
LEMMA RegisterKeeps == IInv /\ Register => IInv'
<1> SUFFICES ASSUME IInv, Register PROVE IInv'  OBVIOUS
<1> USE DEF IInv
<1>1. /\ buffer_state = "NOT_STARTED" /\ buffer_state' = "REGISTERING"
      /\ requests' = Append(requests, Ready)
      /\ UNCHANGED <<m_frame_list, m_pull_socket, announcing, served, listening, replies>>
      /\ UNCHANGED <<m_waiting_for_worker, m_pub_message_queue, m_msg_buff>>
      /\ UNCHANGED <<reply_polled, published>>
  BY DEF Register, rrhVars, brokerVars
<1>2. requests = <<>> /\ requests' = <<Ready>> /\ requests' \in Seq(Requests)
  BY <1>1 DEF Phase, Requests
<1>3. Shape' /\ Phase'
  BY <1>1, <1>2 DEF Shape, Phase
<1>4. Requested' = Requested
  BY <1>1, <1>2, RequestKinds DEF Requested
<1>5. Counted' /\ InTurn' /\ Announced' = Announced
  BY <1>1 DEF Counted, InTurn, Announced
<1>6. AllWellFormed' /\ InOrder'
  BY <1>1 DEF AllWellFormed, WellFormed, InOrder, Before
<1>7. AskedOnce'
  BY <1>1, <1>4, <1>5 DEF AskedOnce, Pending
<1>8. WaitsWithSamples' /\ ListenersFirst' /\ NeverGivesUpWaiting'
  BY <1>1 DEF WaitsWithSamples, ListenersFirst, AnnouncedBy, NeverGivesUpWaiting
<1> QED  BY <1>3, <1>5, <1>6, <1>7, <1>8

(* The broker has answered; nothing was asked for until here.              *)
LEMMA RegisteredKeeps == IInv /\ Registered => IInv'
<1> SUFFICES ASSUME IInv, Registered PROVE IInv'  OBVIOUS
<1> USE DEF IInv
<1>1. /\ buffer_state = "REGISTERING" /\ buffer_state' = "POLL"
      /\ replies # <<>> /\ replies' = Tail(replies)
      /\ UNCHANGED <<m_frame_list, m_pull_socket, announcing, served, listening, requests>>
      /\ UNCHANGED <<m_waiting_for_worker, m_pub_message_queue, m_msg_buff>>
      /\ UNCHANGED <<reply_polled, published>>
  BY DEF Registered, rrhVars, brokerVars
<1>2. requests = <<>> /\ replies = <<"ACK">>
  BY <1>1 DEF Phase
<1>3. replies' = <<>>
  BY <1>1, <1>2
<1>4. Shape' /\ Phase'
  BY <1>1, <1>2, <1>3 DEF Shape, Phase
<1>5. Requested = {} /\ Requested' = {} /\ listening = {} /\ m_waiting_for_worker = 0
  BY <1>1, <1>2 DEF Requested, Phase, Shape
<1>6. Counted'
  <2>1. Requested' \ listening' = {} /\ Cardinality(Requested' \ listening') = 0
    BY <1>1, <1>5, FS_EmptySet
  <2>2. Cardinality(listening') = 0 /\ Len(replies') = 0
    BY <1>1, <1>3, <1>5, FS_EmptySet
  <2> QED  BY <1>1, <1>5, <2>1, <2>2 DEF Counted
<1>7. InTurn' /\ Announced' = Announced
  BY <1>1 DEF InTurn, Announced
<1>8. AllWellFormed' /\ InOrder'
  BY <1>1 DEF AllWellFormed, WellFormed, InOrder, Before
<1>9. AskedOnce'
  BY <1>1, <1>5, <1>7 DEF AskedOnce, Pending
<1>10. WaitsWithSamples' /\ ListenersFirst' /\ NeverGivesUpWaiting'
  BY <1>1 DEF WaitsWithSamples, ListenersFirst, AnnouncedBy, NeverGivesUpWaiting
<1> QED  BY <1>4, <1>6, <1>7, <1>8, <1>9, <1>10

(* The message read next is the earliest of those under way.               *)
LEMMA PollMessageKeeps == IInv /\ PollMessage => IInv'
<1> SUFFICES ASSUME IInv, PollMessage PROVE IInv'  OBVIOUS
<1> USE DEF IInv
<1>1. /\ buffer_state = "POLL" /\ buffer_state' = "HEADERS"
      /\ m_pull_socket # <<>> /\ m_msg_buff' = Head(m_pull_socket)
      /\ m_pull_socket' = Tail(m_pull_socket) /\ reply_polled' = (replies # <<>>)
      /\ UNCHANGED <<m_frame_list, announcing, served, listening, requests, replies>>
      /\ UNCHANGED <<m_waiting_for_worker, m_pub_message_queue, published>>
  BY DEF PollMessage, rrhVars, brokerVars
<1>2. /\ m_pull_socket' \in Seq(Messages)
      /\ \A i \in DOMAIN m_pull_socket' : /\ i \in Nat /\ i + 1 \in DOMAIN m_pull_socket
                                         /\ m_pull_socket'[i] = m_pull_socket[i + 1]
      /\ \A i \in DOMAIN m_pull_socket :
           i # 1 => i - 1 \in DOMAIN m_pull_socket' /\ m_pull_socket'[i - 1] = m_pull_socket[i]
      /\ m_msg_buff' = m_pull_socket[1] /\ 1 \in DOMAIN m_pull_socket
  <2>1. m_pull_socket \in Seq(Messages)
    BY DEF Shape
  <2> QED  BY <1>1, <2>1, Shifted
<1>3. \A i \in DOMAIN m_pull_socket : i \in Nat /\ m_pull_socket[i] \in Messages
  BY DEF Shape
<1>4. m_msg_buff = Heartbeat
  BY <1>1 DEF Phase
<1>5. Shape' /\ Phase'
  <2>1. reply_polled' \in BOOLEAN /\ (reply_polled' => replies # <<>>)
    BY <1>1
  <2>2. m_msg_buff' \in Messages /\ m_pull_socket' \in Seq(Messages)
    BY <1>2, <1>3
  <2>3. Shape'
    BY <1>1, <2>1, <2>2 DEF Shape
  <2> QED  BY <1>1, <2>1, <2>3 DEF Phase
<1>6. Requested' = Requested /\ Announced' = Announced
  BY <1>1 DEF Requested, Announced
<1>7. Counted' /\ InTurn'
  BY <1>1, <1>6 DEF Counted, InTurn
<1>8. AllWellFormed'
  BY <1>1, <1>2 DEF AllWellFormed, WellFormed
<1>9. InOrder'
  <2>1. m_msg_buff'.id \in 0..Len(announcing)
    BY <1>2, <1>3 DEF InOrder, Messages, Shape
  <2>2. \A i \in DOMAIN m_pull_socket' :
          /\ Before(m_msg_buff'.id, m_pull_socket'[i].id)
          /\ m_pull_socket'[i].id <= Len(announcing)
    <3>1. \A i \in DOMAIN m_pull_socket' : i + 1 \in DOMAIN m_pull_socket /\ 1 < i + 1
      BY <1>2, <1>3
    <3> QED  BY <1>2, <3>1 DEF InOrder
  <2>3. \A i, j \in DOMAIN m_pull_socket' :
          i < j => Before(m_pull_socket'[i].id, m_pull_socket'[j].id)
    BY <1>2 DEF InOrder
  <2>4. \A q \in DOMAIN m_pub_message_queue :
          /\ Before(m_pub_message_queue[q], m_msg_buff'.id)
          /\ \A i \in DOMAIN m_pull_socket' : Before(m_pub_message_queue[q], m_pull_socket'[i].id)
    BY <1>2 DEF InOrder
  <2> QED  BY <1>1, <2>1, <2>2, <2>3, <2>4 DEF InOrder, Before
<1>10. AskedOnce'
  <2>1. ASSUME NEW id \in DOMAIN announcing PROVE Pending(id)' <=> Pending(id)
    <3>1. id # 0 /\ m_msg_buff.headers = <<>>
      BY <1>4, HeartbeatIsEmpty DEF Shape
    <3>2. m_msg_buff'.id = id => m_msg_buff'.headers # <<>>
      BY <1>2, <3>1 DEF AllWellFormed
    <3> QED  BY <1>2, <3>1, <3>2 DEF Pending
  <2> QED  BY <1>1, <1>6, <2>1 DEF AskedOnce
<1>11. WaitsWithSamples'
  BY <1>1, <1>4, HeartbeatIsEmpty DEF WaitsWithSamples
<1>12. ListenersFirst' /\ NeverGivesUpWaiting'
  BY <1>1 DEF ListenersFirst, AnnouncedBy, NeverGivesUpWaiting
<1> QED  BY <1>5, <1>7, <1>8, <1>9, <1>10, <1>11, <1>12

(* A turn with a heartbeat ends without anything done.                     *)
LEMMA SkipHeartbeatKeeps == IInv /\ SkipHeartbeat => IInv'
<1> SUFFICES ASSUME IInv, SkipHeartbeat PROVE IInv'  OBVIOUS
<1> USE DEF IInv
<1>1. /\ buffer_state = "HEADERS" /\ buffer_state' = "POLL" /\ m_msg_buff = Heartbeat
      /\ UNCHANGED <<m_frame_list, announcing, served, listening, requests, replies>>
      /\ UNCHANGED <<m_waiting_for_worker, m_pub_message_queue, published, m_pull_socket>>
      /\ UNCHANGED <<m_msg_buff, reply_polled>>
  BY DEF SkipHeartbeat, rrhVars, brokerVars
<1>2. Shape' /\ Phase'
  BY <1>1 DEF Shape, Phase
<1>3. Requested' = Requested /\ Announced' = Announced
  BY <1>1 DEF Requested, Announced
<1>4. Counted' /\ InTurn' /\ AskedOnce'
  BY <1>1, <1>3 DEF Counted, InTurn, AskedOnce, Pending
<1>5. AllWellFormed' /\ InOrder'
  BY <1>1 DEF AllWellFormed, WellFormed, InOrder, Before
<1>6. WaitsWithSamples' /\ ListenersFirst' /\ NeverGivesUpWaiting'
  BY <1>1 DEF WaitsWithSamples, ListenersFirst, AnnouncedBy, NeverGivesUpWaiting
<1> QED  BY <1>2, <1>4, <1>5, <1>6

(* A buffer that times out has an empty queue, so it waits for nobody.     *)
LEMMA TerminateKeeps == IInv /\ Terminate => IInv'
<1> SUFFICES ASSUME IInv, Terminate PROVE IInv'  OBVIOUS
<1> USE DEF IInv
<1>1. /\ buffer_state = "POLL" /\ buffer_state' = "TERMINATED" /\ m_pub_message_queue = <<>>
      /\ UNCHANGED <<m_frame_list, announcing, served, listening, requests, replies>>
      /\ UNCHANGED <<m_waiting_for_worker, m_pub_message_queue, published, m_pull_socket>>
      /\ UNCHANGED <<m_msg_buff, reply_polled>>
  BY DEF Terminate, MayTerminate, rrhVars, brokerVars
<1>2. Shape' /\ Phase'
  BY <1>1 DEF Shape, Phase
<1>3. Requested' = Requested /\ Announced' = Announced
  BY <1>1 DEF Requested, Announced
<1>4. Counted' /\ InTurn' /\ AskedOnce'
  BY <1>1, <1>3 DEF Counted, InTurn, AskedOnce, Pending
<1>5. AllWellFormed' /\ InOrder'
  BY <1>1 DEF AllWellFormed, WellFormed, InOrder, Before
<1>6. WaitsWithSamples' /\ ListenersFirst'
  BY <1>1 DEF WaitsWithSamples, ListenersFirst, AnnouncedBy
<1>7. NeverGivesUpWaiting'
  BY <1>1, HeartbeatIsEmpty DEF WaitsWithSamples, NeverGivesUpWaiting, Phase, Shape
<1> QED  BY <1>2, <1>4, <1>5, <1>6, <1>7

(* A new frame is asked for when its announcement is read, and only then.  *)
LEMMA ReadHeaderKeeps == IInv /\ ReadHeader => IInv'
<1> SUFFICES ASSUME IInv, ReadHeader PROVE IInv'  OBVIOUS
<1> DEFINE hs == m_msg_buff.headers
           id == m_msg_buff.id
           header == Head(m_msg_buff.headers)
<1> USE DEF IInv
<1>1. /\ buffer_state = "HEADERS" /\ hs # <<>>
      /\ m_msg_buff' = [m_msg_buff EXCEPT !.headers = Tail(@)]
      /\ UNCHANGED <<m_frame_list, announcing, served, listening, replies>>
      /\ UNCHANGED <<buffer_state, reply_polled, published, m_pull_socket>>
  BY DEF ReadHeader, rrhVars, brokerVars
<1>2. hs \in Seq(0..MaxFrames) /\ id \in 0..MaxMessages
  BY DEF Shape, Messages
<1>3. /\ m_msg_buff' \in Messages /\ m_msg_buff'.id = id /\ m_msg_buff'.headers = Tail(hs)
      /\ header = hs[1] /\ header \in 0..MaxFrames
      /\ Len(hs) \in Nat /\ Len(hs) >= 1 /\ Len(Tail(hs)) = Len(hs) - 1
      /\ Tail(hs) = <<>> <=> Len(hs) = 1
  <2>1. /\ Tail(hs) \in Seq(0..MaxFrames) /\ Len(Tail(hs)) = Len(hs) - 1
        /\ Head(hs) = hs[1] /\ hs[1] \in 0..MaxFrames
        /\ Len(hs) \in Nat /\ Len(hs) >= 1 /\ (Tail(hs) = <<>> <=> Len(hs) = 1)
    <3> HIDE DEF hs
    <3> QED  BY <1>1, <1>2, Shifted
  <2>2. /\ m_msg_buff' \in Messages /\ m_msg_buff'.id = id /\ m_msg_buff'.headers = Tail(hs)
    <3>1. m_msg_buff \in Messages
      BY DEF Shape
    <3> QED  BY <1>1, <2>1, <3>1 DEF Messages
  <2> QED  BY <2>1, <2>2
<1>4. /\ id \in DOMAIN announcing /\ id # 0 /\ hs[Len(hs)] = announcing[id]
      /\ \A i \in 1..(Len(hs) - 1) : hs[i] = CONTINUE_FRAME
  BY <1>1 DEF AllWellFormed, WellFormed, Shape
<1>5. AllWellFormed'
  <2>1. WellFormed(m_msg_buff)'
    <3> SUFFICES ASSUME Tail(hs) # <<>>
                 PROVE  /\ Tail(hs)[Len(Tail(hs))] = announcing[id]
                        /\ \A i \in 1..(Len(Tail(hs)) - 1) : Tail(hs)[i] = CONTINUE_FRAME
      BY <1>1, <1>3, <1>4 DEF WellFormed
    <3> QED  BY SMTT(30), <1>1, <1>2, <1>4
  <2> QED  BY <1>1, <2>1 DEF AllWellFormed, WellFormed
<1>6. InTurn' /\ Announced' = Announced /\ listening \subseteq Requested /\ Requested \subseteq Frames
  BY <1>1 DEF InTurn, Announced, Requested, Shape
<1>7. ListenersFirst' /\ NeverGivesUpWaiting' /\ WaitsWithSamples'
  BY <1>1, <1>3, <1>4 DEF ListenersFirst, AnnouncedBy, NeverGivesUpWaiting, WaitsWithSamples
<1>8. CASE ~IsNewFrame(header)
  <2>1. UNCHANGED <<m_pub_message_queue, requests, m_waiting_for_worker>>
    BY <1>8 DEF ReadHeader
  <2>2. Shape' /\ Phase' /\ Requested' = Requested
    BY <1>1, <1>3, <2>1 DEF Shape, Phase, Requested
  <2>3. Counted'
    BY <1>1, <2>1, <2>2 DEF Counted
  <2>4. InOrder'
    BY <1>1, <1>3, <2>1 DEF InOrder, Before
  <2>5. AskedOnce'
    <3>1. Len(hs) = 1 => announcing[id] = header
      BY <1>3, <1>4
    <3>2. Len(hs) # 1 => Tail(hs) # <<>>
      BY <1>3
    <3>3. \A j \in DOMAIN announcing : IsNewFrame(announcing[j]) => (Pending(j)' <=> Pending(j))
      BY <1>1, <1>3, <1>8, <3>1, <3>2 DEF Pending
    <3> QED  BY <1>1, <1>6, <2>2, <3>3 DEF AskedOnce
  <2> QED  BY <1>5, <1>6, <1>7, <2>2, <2>3, <2>4, <2>5
<1>9. CASE IsNewFrame(header)
  <2>1. /\ m_pub_message_queue' = Cleaned(m_pub_message_queue)
        /\ requests' = Append(requests, NewFrame(header))
        /\ m_waiting_for_worker' = m_waiting_for_worker + 1
    BY <1>9 DEF ReadHeader
  <2>2. Len(hs) = 1 /\ Tail(hs) = <<>> /\ header = announcing[id] /\ header \in Frames
    <3>1. Len(hs) = 1
      <4>1. ~(1 \in 1..(Len(hs) - 1))
        BY <1>3, <1>4, <1>9 DEF IsNewFrame
      <4> HIDE DEF hs
      <4> QED  BY <1>3, <4>1
    <3>2. Tail(hs) = <<>>
      BY <1>3, <3>1
    <3> QED  BY <1>3, <1>4, <1>9, <3>1, <3>2 DEF IsNewFrame, CONTINUE_FRAME, Frames
  <2>3. Pending(id) /\ header \notin Requested
    BY <1>1, <1>4, <1>9, <2>2 DEF Pending, AskedOnce
  <2>4. NewFrame(header) \in Requests /\ NewFrame(header) # Ready
    BY <2>2, RequestKinds DEF Requests
  <2>5. /\ requests' \in Seq(Requests) /\ requests'[Len(requests) + 1] = NewFrame(header)
        /\ \A i \in DOMAIN requests : requests'[i] = requests[i]
        /\ DOMAIN requests' = DOMAIN requests \cup {Len(requests) + 1}
    <3>1. requests \in Seq(Requests)
      BY DEF Shape
    <3> QED  BY <2>1, <2>4, <3>1, Appended
  <2>6. /\ m_pub_message_queue' \in Seq(1..MaxMessages)
        /\ \A i \in DOMAIN m_pub_message_queue' : \E j \in DOMAIN m_pub_message_queue :
             m_pub_message_queue'[i] = m_pub_message_queue[j]
    BY <2>1, CleanedIsPart DEF Shape
  <2>7. Shape' /\ Phase'
    <3>1. Shape'
      <4>1. m_waiting_for_worker' \in Nat
        BY <2>1 DEF Shape
      <4>2. reply_polled' \in BOOLEAN
        BY <1>1 DEF Shape
      <4>3. /\ buffer_state' = "HEADERS" /\ published' \in Seq(1..MaxMessages)
            /\ m_pull_socket' \in Seq(Messages) /\ replies' \in Seq({"ACK", "SUBSCRIBED"})
            /\ m_frame_list' \in Nat /\ announcing' \in Seq(0..MaxFrames)
            /\ served' \subseteq Frames /\ listening' \subseteq served'
        BY <1>1 DEF Shape
      <4> QED  BY <1>3, <2>5, <2>6, <4>1, <4>2, <4>3 DEF Shape
    <3>2. \A i \in DOMAIN requests' : requests'[i] # Ready
      BY <1>1, <2>4, <2>5 DEF Phase
    <3> QED  BY <1>1, <3>1, <3>2 DEF Phase
  <2>8. Requested' = Requested \cup {header}
    BY <1>1, <2>2, <2>5, RequestKinds DEF Requested
  <2>9. Counted'
    <3>1. header \notin Requested \ listening /\ header \notin listening
      BY <1>6, <2>3
    <3>2. Requested' \ listening = (Requested \ listening) \cup {header}
      BY <2>8, <3>1
    <3>3. Cardinality(Requested' \ listening) = Cardinality(Requested \ listening) + 1
      BY <1>6, <2>2, <3>1, <3>2, FrameSets
    <3>4. Cardinality(Requested \ listening) \in Nat /\ Len(replies) \in Nat
      BY <1>6, FrameSets, RxBufferAssumption DEF Shape
    <3> QED  BY <1>1, <2>1, <3>3, <3>4 DEF Counted
  <2>10. InOrder'
    <3>1. \A q \in DOMAIN m_pub_message_queue' :
            /\ m_pub_message_queue'[q] <= Len(announcing)
            /\ Before(m_pub_message_queue'[q], id)
            /\ \A i \in DOMAIN m_pull_socket : Before(m_pub_message_queue'[q], m_pull_socket[i].id)
      BY <2>6 DEF InOrder
    <3> QED  BY <1>1, <1>3, <3>1 DEF InOrder, Before
  <2>11. AskedOnce'
    <3>1. \A i \in DOMAIN m_pull_socket : m_pull_socket[i].id # id
      BY <1>2, <1>4 DEF InOrder, Before
    <3>2. ~Pending(id)' /\ \A j \in DOMAIN announcing : j # id => (Pending(j)' <=> Pending(j))
      BY <1>1, <1>3, <2>2, <3>1 DEF Pending
    <3>3. \A j \in DOMAIN announcing : IsNewFrame(announcing[j]) /\ j # id => announcing[j] # header
      BY <1>4, <2>2 DEF InTurn
    <3>4. header \in Announced
      BY <1>4, <2>2 DEF Announced
    <3> QED  BY <1>1, <1>6, <2>2, <2>8, <3>2, <3>3, <3>4 DEF AskedOnce
  <2> QED  BY <1>5, <1>6, <1>7, <2>7, <2>9, <2>10, <2>11
<1> QED  BY <1>8, <1>9

(* The rest of a turn: a reply is one worker less to wait for, and the     *)
(* gate opens when all that were asked for listen.  Of the samples in the  *)
(* queue no announcement is left to be read.                               *)
LEMMA PublishKeeps ==
  ASSUME IInv, NEW reply \in BOOLEAN, NEW queue \in Seq(1..MaxMessages),
         ReplyAndPublish(reply, queue), reply => replies # <<>>,
         buffer_state \in {"POLL", "HEADERS"}, buffer_state' = "POLL",
         m_msg_buff.headers = <<>>, m_msg_buff' = Heartbeat, reply_polled' = reply_polled,
         UNCHANGED <<m_pull_socket, requests, m_frame_list, announcing, served, listening>>,
         \A q \in DOMAIN queue :
           /\ queue[q] <= Len(announcing)
           /\ \A i \in DOMAIN m_pull_socket : Before(queue[q], m_pull_socket[i].id),
         m_waiting_for_worker > 0 => queue # <<>>
  PROVE  IInv'
<1> USE DEF IInv
<1>1. /\ m_waiting_for_worker' = WaitingAfter(reply)
      /\ replies' = IF reply THEN Tail(replies) ELSE replies
      /\ m_waiting_for_worker' = 0 =>
           published' = published \o queue /\ m_pub_message_queue' = <<>>
      /\ m_waiting_for_worker' # 0 =>
           m_pub_message_queue' = queue /\ published' = published
  BY DEF ReplyAndPublish, GateOpen, Sent
<1>2. /\ m_waiting_for_worker \in Nat /\ replies \in Seq({"ACK", "SUBSCRIBED"})
      /\ published \in Seq(1..MaxMessages) /\ announcing \in Seq(0..MaxFrames)
      /\ m_pull_socket \in Seq(Messages)
  BY DEF Shape
<1>3. Requested' = Requested /\ Announced' = Announced /\ Requested \subseteq Frames
      /\ listening \subseteq Frames
  BY DEF Requested, Announced, Shape
<1>4. /\ replies' \in Seq({"ACK", "SUBSCRIBED"})
      /\ \A i \in DOMAIN replies' : replies'[i] = "SUBSCRIBED"
      /\ Len(replies') = IF reply THEN Len(replies) - 1 ELSE Len(replies)
      /\ reply => Head(replies) = "SUBSCRIBED" /\ Len(replies) > 0
  <2>1. \A i \in DOMAIN replies : replies[i] = "SUBSCRIBED"
    BY DEF Phase
  <2>2. CASE reply
    BY <1>1, <1>2, <2>1, <2>2, Shifted
  <2>3. CASE ~reply
    BY <1>1, <1>2, <2>1, <2>3
  <2> QED  BY <2>2, <2>3
<1>5. /\ m_waiting_for_worker' = Cardinality(Requested \ listening) + Len(replies')
      /\ Len(replies') <= Cardinality(listening)
      /\ m_waiting_for_worker' \in Nat /\ m_waiting_for_worker' <= m_waiting_for_worker
      /\ m_waiting_for_worker' = 0 => Requested \subseteq listening
  <2>1. /\ m_waiting_for_worker = Cardinality(Requested \ listening) + Len(replies)
        /\ Len(replies) <= Cardinality(listening)
    BY DEF Counted
  <2>2. m_waiting_for_worker' = IF reply THEN m_waiting_for_worker - 1 ELSE m_waiting_for_worker
    BY <1>1, <1>4 DEF WaitingAfter
  <2>3. /\ Cardinality(Requested \ listening) \in Nat /\ Cardinality(listening) \in Nat
        /\ Len(replies) \in Nat /\ Len(replies') \in Nat
    BY <1>2, <1>3, <1>4, FrameSets, RxBufferAssumption
  <2>4. m_waiting_for_worker' = Cardinality(Requested \ listening) + Len(replies')
    BY <1>4, <2>1, <2>2, <2>3
  <2>5. m_waiting_for_worker' = 0 => Cardinality(Requested \ listening) = 0
    BY <2>3, <2>4
  <2>6. m_waiting_for_worker' = 0 => Requested \ listening = {}
    BY <1>3, <2>5, FrameSets
  <2>7. Len(replies') <= Cardinality(listening)
    BY <1>4, <2>1, <2>3
  <2>8. m_waiting_for_worker' \in Nat
    BY <2>3, <2>4
  <2>9. m_waiting_for_worker' <= m_waiting_for_worker
    BY <1>2, <2>2
  <2> QED  BY <2>4, <2>6, <2>7, <2>8, <2>9
<1>6. /\ published' \in Seq(1..MaxMessages)
      /\ \A p \in DOMAIN published' :
           \/ \E i \in DOMAIN published : published'[p] = published[i]
           \/ /\ m_waiting_for_worker' = 0
              /\ \E q \in DOMAIN queue : published'[p] = queue[q]
  <2>1. CASE m_waiting_for_worker' = 0
    <3>1. /\ published \o queue \in Seq(1..MaxMessages)
          /\ Len(published \o queue) = Len(published) + Len(queue)
          /\ \A i \in 1..(Len(published) + Len(queue)) :
               (published \o queue)[i] = IF i <= Len(published) THEN published[i]
                                        ELSE queue[i - Len(published)]
      BY <1>2, ConcatProperties
    <3>2. Len(published) \in Nat /\ Len(queue) \in Nat
      BY <1>2
    <3>3. \A i \in 1..(Len(published) + Len(queue)) :
            \/ i \in DOMAIN published
            \/ ~(i <= Len(published)) /\ i - Len(published) \in DOMAIN queue
      BY <1>2, <3>2
    <3>4. published' = published \o queue
      BY <1>1, <2>1
    <3>5. DOMAIN published = 1..Len(published)
          /\ DOMAIN (published \o queue) = 1..(Len(published) + Len(queue))
      BY <1>2, <3>1
    <3>6. \A p \in DOMAIN (published \o queue) :
            \/ \E i \in DOMAIN published : (published \o queue)[p] = published[i]
            \/ \E q \in DOMAIN queue : (published \o queue)[p] = queue[q]
      <4> SUFFICES ASSUME NEW p \in DOMAIN (published \o queue)
                   PROVE  \/ \E i \in DOMAIN published : (published \o queue)[p] = published[i]
                          \/ \E q \in DOMAIN queue : (published \o queue)[p] = queue[q]
        OBVIOUS
      <4>1. CASE p \in DOMAIN published
        BY <3>1, <3>2, <3>5, <4>1
      <4>2. CASE p \notin DOMAIN published
        BY <3>1, <3>3, <3>5, <4>2
      <4> QED  BY <4>1, <4>2
    <3> QED  BY <2>1, <3>1, <3>4, <3>6
  <2>2. CASE m_waiting_for_worker' # 0
    BY <1>1, <1>2, <2>2
  <2> QED  BY <2>1, <2>2
<1>7. /\ m_pub_message_queue' \in Seq(1..MaxMessages)
      /\ m_pub_message_queue' = <<>> \/ m_pub_message_queue' = queue
  <2>1. <<>> \in Seq(1..MaxMessages)
    OBVIOUS
  <2> QED  BY <1>1, <2>1
<1>8. Shape'
  BY <1>4, <1>5, <1>6, <1>7, HeartbeatIsEmpty DEF Shape
<1>9. Phase'
  BY <1>4 DEF Phase
<1>10. Counted'
  BY <1>3, <1>5 DEF Counted
<1>11. InTurn'
  BY <1>3 DEF InTurn
<1>12. AllWellFormed'
  BY HeartbeatIsEmpty DEF AllWellFormed, WellFormed
<1>13. InOrder'
  <2>1. \A a : Before(a, Heartbeat.id) /\ Before(Heartbeat.id, a)
    BY HeartbeatIsEmpty DEF Before
  <2>2. \A p \in DOMAIN published' : published'[p] <= Len(announcing)
    BY <1>6 DEF InOrder
  <2>3. \A q \in DOMAIN m_pub_message_queue' :
          /\ m_pub_message_queue'[q] <= Len(announcing)
          /\ \A i \in DOMAIN m_pull_socket : Before(m_pub_message_queue'[q], m_pull_socket[i].id)
    BY <1>7
  <2>4. Heartbeat.id \in 0..Len(announcing)
    BY <1>2, HeartbeatIsEmpty
  <2> QED  BY <2>1, <2>2, <2>3, <2>4 DEF InOrder, Before
<1>14. AskedOnce'
  BY <1>3, HeartbeatIsEmpty DEF AskedOnce, Pending
<1>15. WaitsWithSamples' /\ NeverGivesUpWaiting'
  BY <1>1, <1>2, <1>5 DEF WaitsWithSamples, NeverGivesUpWaiting
<1>16. ListenersFirst'
  <2>1. \A q \in DOMAIN queue : AnnouncedBy(queue[q]) \subseteq Requested
    <3> SUFFICES ASSUME NEW q \in DOMAIN queue, NEW i \in 1..queue[q], IsNewFrame(announcing[i])
                 PROVE  announcing[i] \in Requested
      BY DEF AnnouncedBy, IsNewFrame
    <3>1. queue[q] \in 1..MaxMessages /\ queue[q] <= Len(announcing) /\ Len(announcing) \in Nat
      <4>1. queue[q] \in 1..MaxMessages
        BY Element
      <4> QED  BY <1>2, <4>1
    <3>2. i \in 1..Len(announcing) /\ i <= queue[q] /\ queue[q] # 0 /\ i # 0
      BY <3>1, RxBufferAssumption
    <3>3. i \in DOMAIN announcing
      BY <1>2, <3>2
    <3>4. \A j \in DOMAIN m_pull_socket : m_pull_socket[j].id # i
      BY <3>1, <3>2 DEF Before
    <3> QED  BY <3>3, <3>4 DEF AskedOnce, Pending
  <2>2. \A p \in DOMAIN published' : AnnouncedBy(published'[p]) \subseteq listening
    BY <1>5, <1>6, <2>1 DEF ListenersFirst
  <2> QED  BY <2>2 DEF ListenersFirst, AnnouncedBy
<1> QED  BY <1>8, <1>9, <1>10, <1>11, <1>12, <1>13, <1>14, <1>15, <1>16

(* The samples of a message go behind those that wait.                     *)
LEMMA QueueSamplesKeeps == IInv /\ QueueSamples => IInv'
<1> SUFFICES ASSUME IInv, QueueSamples PROVE IInv'  OBVIOUS
<1> DEFINE queue == Append(m_pub_message_queue, m_msg_buff.id)
<1>1. /\ buffer_state = "HEADERS" /\ m_msg_buff.headers = <<>> /\ m_msg_buff.id # 0
      /\ buffer_state' = "POLL" /\ m_msg_buff' = Heartbeat /\ reply_polled' = reply_polled
      /\ ReplyAndPublish(reply_polled, queue)
      /\ UNCHANGED <<m_pull_socket, requests, m_frame_list, announcing, served, listening>>
  BY DEF QueueSamples, rrhVars, brokerVars
<1>2. /\ Shape /\ Phase /\ InOrder
  BY DEF IInv
<1>3. reply_polled \in BOOLEAN /\ (reply_polled => replies # <<>>)
  BY <1>1, <1>2 DEF Shape, Phase
<1>4. m_pub_message_queue \in Seq(1..MaxMessages) /\ m_msg_buff.id \in 1..MaxMessages
  BY <1>1, <1>2, RxBufferAssumption DEF Shape, Messages
<1>5. /\ queue \in Seq(1..MaxMessages) /\ queue # <<>>
      /\ \A q \in DOMAIN m_pub_message_queue : queue[q] = m_pub_message_queue[q]
      /\ queue[Len(m_pub_message_queue) + 1] = m_msg_buff.id
      /\ DOMAIN queue = DOMAIN m_pub_message_queue \cup {Len(m_pub_message_queue) + 1}
  BY <1>4
<1>6. \A q \in DOMAIN queue :
        /\ queue[q] <= Len(announcing)
        /\ \A i \in DOMAIN m_pull_socket : Before(queue[q], m_pull_socket[i].id)
  BY <1>2, <1>5 DEF InOrder, Shape
<1> HIDE DEF queue
<1> QED  BY <1>1, <1>3, <1>5, <1>6, PublishKeeps

(* Without a message of the RRH a reply is read all the same.              *)
LEMMA PollReplyKeeps == IInv /\ PollReply => IInv'
<1> SUFFICES ASSUME IInv, PollReply PROVE IInv'  OBVIOUS
<1>1. /\ buffer_state = "POLL" /\ replies # <<>> /\ buffer_state' = buffer_state
      /\ m_msg_buff' = m_msg_buff /\ reply_polled' = reply_polled
      /\ ReplyAndPublish(TRUE, m_pub_message_queue)
      /\ UNCHANGED <<m_pull_socket, requests, m_frame_list, announcing, served, listening>>
  BY DEF PollReply, rrhVars, brokerVars
<1>2. m_pub_message_queue \in Seq(1..MaxMessages) /\ m_msg_buff = Heartbeat
  BY <1>1 DEF IInv, Shape, Phase
<1>3. /\ \A q \in DOMAIN m_pub_message_queue :
           /\ m_pub_message_queue[q] <= Len(announcing)
           /\ \A i \in DOMAIN m_pull_socket : Before(m_pub_message_queue[q], m_pull_socket[i].id)
      /\ m_waiting_for_worker > 0 => m_pub_message_queue # <<>>
  BY <1>2, HeartbeatIsEmpty DEF IInv, InOrder, WaitsWithSamples
<1> QED  BY <1>1, <1>2, <1>3, HeartbeatIsEmpty, PublishKeeps

(* Nothing happens.                                                        *)
LEMMA StutterKeeps == IInv /\ UNCHANGED vars => IInv'
<1> SUFFICES ASSUME IInv, UNCHANGED vars PROVE IInv'  OBVIOUS
<1> USE DEF IInv
<1>1. /\ UNCHANGED <<m_frame_list, announcing, served, listening, requests, replies>>
      /\ UNCHANGED <<m_waiting_for_worker, m_pub_message_queue, published, m_pull_socket>>
      /\ UNCHANGED <<m_msg_buff, reply_polled, buffer_state>>
  BY DEF vars, threadVars, rrhVars, brokerVars
<1>2. Shape' /\ Phase'
  BY <1>1 DEF Shape, Phase
<1>3. Requested' = Requested /\ Announced' = Announced
  BY <1>1 DEF Requested, Announced
<1>4. Counted' /\ InTurn' /\ AskedOnce'
  BY <1>1, <1>3 DEF Counted, InTurn, AskedOnce, Pending
<1>5. AllWellFormed' /\ InOrder'
  BY <1>1 DEF AllWellFormed, WellFormed, InOrder, Before
<1>6. WaitsWithSamples' /\ ListenersFirst' /\ NeverGivesUpWaiting'
  BY <1>1 DEF WaitsWithSamples, ListenersFirst, AnnouncedBy, NeverGivesUpWaiting
<1> QED  BY <1>2, <1>4, <1>5, <1>6

-----------------------------------------------------------------------------
(* The invariant holds of every step of the buffer, the RRH and the broker.*)
LEMMA Invariance == Spec => []IInv
<1>1. Init => IInv
  BY InitInv
<1>2. IInv /\ [Next]_vars => IInv'
  <2> SUFFICES ASSUME IInv, [Next]_vars PROVE IInv'  OBVIOUS
  <2>1. CASE RrhDetects
    <3>1. PICK f \in Frames : f = Cardinality(Announced) + 1 /\ RrhStreams(<<f>>)
      BY <2>1 DEF RrhDetects
    <3> QED  BY <3>1, StreamsKeeps
  <2>2. CASE RrhStreams(<<>>)
    BY <2>2, StreamsKeeps
  <2>3. CASE RrhEndsStream
    BY <2>3, EndsStreamKeeps
  <2>4. CASE RrhHeartbeat
    BY <2>4, HeartbeatKeeps
  <2>5. CASE BrokerTakesRequest
    BY <2>5, TakesRequestKeeps
  <2>6. CASE WorkerListens
    BY <2>6, WorkerListensKeeps
  <2>7. CASE Register
    BY <2>7, RegisterKeeps
  <2>8. CASE Registered
    BY <2>8, RegisteredKeeps
  <2>9. CASE PollMessage
    BY <2>9, PollMessageKeeps
  <2>10. CASE ReadHeader
    BY <2>10, ReadHeaderKeeps
  <2>11. CASE QueueSamples
    BY <2>11, QueueSamplesKeeps
  <2>12. CASE SkipHeartbeat
    BY <2>12, SkipHeartbeatKeeps
  <2>13. CASE PollReply
    BY <2>13, PollReplyKeeps
  <2>14. CASE Terminate
    BY <2>14, TerminateKeeps
  <2>15. CASE UNCHANGED vars
    BY <2>15, StutterKeeps
  <2> QED
    BY <2>1, <2>2, <2>3, <2>4, <2>5, <2>6, <2>7, <2>8, <2>9, <2>10, <2>11, <2>12,
       <2>13, <2>14, <2>15 DEF Next, BufferStep, Environment
<1> QED  BY <1>1, <1>2, PTL DEF Spec

(* Every variable keeps its type; the counter stays within the number of   *)
(* frames, because it counts each frame at most once.                      *)
THEOREM BufferTypeCorrect == Spec => []TypeOK
<1>1. IInv => TypeOK
  <2> SUFFICES ASSUME IInv PROVE TypeOK  OBVIOUS
  <2> USE DEF IInv
  <2>1. m_waiting_for_worker \in 0..MaxFrames
    <3>1. CASE buffer_state \in {"POLL", "HEADERS", "TERMINATED"}
      <4> DEFINE R == Requested
                 D == R \ listening
      <4>1. listening \subseteq R /\ R \subseteq Frames
        BY DEF Shape, Requested
      <4>2. /\ IsFiniteSet(D) /\ IsFiniteSet(listening) /\ Cardinality(R) \in 0..MaxFrames
            /\ Cardinality(D) \in Nat /\ Cardinality(listening) \in Nat
        BY <4>1, FrameSets, RxBufferAssumption
      <4>3. D \cap listening = {} /\ R = D \cup listening
        BY <4>1
      <4> HIDE DEF R, D
      <4>4. Cardinality(R) = Cardinality(D) + Cardinality(listening)
        BY <4>2, <4>3, FS_Union, FS_EmptySet
      <4>5. /\ m_waiting_for_worker = Cardinality(D) + Len(replies)
            /\ Len(replies) <= Cardinality(listening) /\ m_waiting_for_worker \in Nat
            /\ Len(replies) \in Nat
        BY <3>1 DEF Counted, Shape, R, D
      <4> QED  BY <4>2, <4>4, <4>5, RxBufferAssumption
    <3>2. CASE buffer_state \in {"NOT_STARTED", "REGISTERING"}
      BY <3>2, RxBufferAssumption DEF Phase
    <3> QED  BY <3>1, <3>2 DEF Shape
  <2>2. m_frame_list \in 0..MaxFrames
    BY RxBufferAssumption DEF InTurn, Shape
  <2>3. /\ m_msg_buff.headers \in Seq(0..MaxFrames) /\ m_msg_buff.id \in 0..MaxMessages
        /\ \A i \in DOMAIN m_pull_socket : m_pull_socket[i].headers \in Seq(0..MaxFrames)
    <3>1. m_pull_socket \in Seq(Messages) /\ m_msg_buff \in Messages
      BY DEF Shape
    <3>2. \A i \in DOMAIN m_pull_socket : m_pull_socket[i] \in Messages
      BY <3>1, Element
    <3> QED  BY <3>1, <3>2 DEF Messages
  <2>4. \A i \in DOMAIN requests : requests[i] = Ready \/ requests[i].frame \in Frames
    BY RequestKinds DEF Shape
  <2>5. reply_polled \in BOOLEAN
    BY DEF Shape
  <2> QED  BY <2>1, <2>2, <2>3, <2>4, <2>5 DEF TypeOK, Shape
<1> QED  BY <1>1, Invariance, PTL

(* Samples go out only when the workers of all frames announced with them  *)
(* or before listen: the counter of the run loop is enough, however the    *)
(* messages of RRH, broker and workers interleave.                         *)
THEOREM ListenersComeFirst == Spec => []ListenersFirst
<1>1. IInv => ListenersFirst
  BY DEF IInv
<1> QED  BY <1>1, Invariance, PTL

(* The buffer does not time out while a frame waits for its worker.        *)
THEOREM GivesUpForNobody == Spec => []NeverGivesUpWaiting
<1>1. IInv => NeverGivesUpWaiting
  BY DEF IInv
<1> QED  BY <1>1, Invariance, PTL

-----------------------------------------------------------------------------
(* The order of what is published, and its gaps.                           *)

LastOf(p) == p[Len(p)]

(* What may be missing between two messages that are published.            *)
Explained(a, b) ==
  b > a + 1 => \E id \in b..Len(announcing) : IsNewFrame(announcing[id])

(* Messages up to n have been read, and all later ones are still to come.  *)
ReadUpTo(n) ==
  /\ n \in 0..Len(announcing)
  /\ m_msg_buff.id # 0 => m_msg_buff.id = n + 1
  /\ \A i \in DOMAIN m_pull_socket : m_pull_socket[i].id # 0 => m_pull_socket[i].id > n
  /\ \A k \in (n + 1)..Len(announcing) :
       k = m_msg_buff.id \/ \E i \in DOMAIN m_pull_socket : m_pull_socket[i].id = k

(* The queue is the end of what has been read, and follows what has been   *)
(* published; it has been cleaned for a message at or behind its end.      *)
Joins(n, queue, p) ==
  /\ Len(queue) <= n
  /\ \A i \in DOMAIN queue : queue[i] = n - Len(queue) + i
  /\ p # <<>> => /\ LastOf(p) <= n - Len(queue)
                 /\ queue # <<>> => Explained(LastOf(p), n - Len(queue) + 1)

UpToDate(n, queue, p) ==
  queue = <<>> /\ p # <<>> =>
    \/ LastOf(p) = n
    \/ m_msg_buff.id # 0 /\ IsNewFrame(announcing[m_msg_buff.id])

Chained ==
  \E n \in Nat : /\ ReadUpTo(n) /\ Joins(n, m_pub_message_queue, published)
                 /\ UpToDate(n, m_pub_message_queue, published)

OrderInv == Chained /\ GapsOnlyAtAnnouncements

(* The types that the lemmas on the order need.                            *)
LEMMA OrderTyped ==
  ASSUME IInv
  PROVE  /\ announcing \in Seq(0..MaxFrames) /\ Len(announcing) \in Nat
         /\ DOMAIN announcing = 1..Len(announcing)
         /\ m_msg_buff \in Messages /\ m_msg_buff.id \in Nat
         /\ m_pull_socket \in Seq(Messages)
         /\ \A i \in DOMAIN m_pull_socket : m_pull_socket[i].id \in Nat
         /\ m_pub_message_queue \in Seq(1..MaxMessages) /\ Len(m_pub_message_queue) \in Nat
         /\ DOMAIN m_pub_message_queue = 1..Len(m_pub_message_queue)
         /\ published \in Seq(1..MaxMessages) /\ Len(published) \in Nat
         /\ DOMAIN published = 1..Len(published)
         /\ \A i \in 1..Len(published) : published[i] \in Nat /\ published[i] >= 1
<1>1. Shape
  BY DEF IInv
<1>2. \A m \in Messages : m.id \in Nat
  BY RxBufferAssumption DEF Messages
<1>3. \A i \in DOMAIN m_pull_socket : m_pull_socket[i] \in Messages
  BY <1>1 DEF Shape
<1>4. \A i \in 1..Len(published) : published[i] \in Nat /\ published[i] >= 1
  <2>1. published \in Seq(1..MaxMessages)
    BY <1>1 DEF Shape
  <2>2. \A i \in DOMAIN published : published[i] \in 1..MaxMessages
    BY <2>1, Element
  <2> QED  BY <2>1, <2>2, RxBufferAssumption
<1> QED  BY <1>1, <1>2, <1>3, <1>4 DEF Shape

(* An explanation stays one when more messages are announced.              *)
LEMMA StillExplained ==
  ASSUME IInv, Len(announcing') \in Nat, Len(announcing) <= Len(announcing'),
         \A i \in 1..Len(announcing) : announcing'[i] = announcing[i]
  PROVE  \A a, b \in Nat : Explained(a, b) /\ b >= 1 => Explained(a, b)'
<1> SUFFICES ASSUME NEW a \in Nat, NEW b \in Nat, Explained(a, b), b >= 1, b > a + 1
             PROVE  \E id \in b..Len(announcing') : IsNewFrame(announcing'[id])
  BY DEF Explained
<1>1. PICK id \in b..Len(announcing) : IsNewFrame(announcing[id])
  BY DEF Explained
<1>2. id \in 1..Len(announcing) /\ id \in b..Len(announcing')
  BY <1>1, OrderTyped
<1> QED  BY <1>1, <1>2

(* Nothing of the order is changed.                                        *)
LEMMA OrderUntouched ==
  ASSUME OrderInv, m_msg_buff'.id = m_msg_buff.id,
         UNCHANGED <<announcing, m_pull_socket, m_pub_message_queue, published>>
  PROVE  OrderInv'
<1>1. GapsOnlyAtAnnouncements'
  BY DEF OrderInv, GapsOnlyAtAnnouncements
<1>2. PICK n \in Nat : /\ ReadUpTo(n) /\ Joins(n, m_pub_message_queue, published)
                       /\ UpToDate(n, m_pub_message_queue, published)
  BY DEF OrderInv, Chained
<1>3. ReadUpTo(n)'
  BY <1>2 DEF ReadUpTo
<1>4. Joins(n, m_pub_message_queue, published)'
  BY <1>2 DEF Joins, Explained
<1>5. UpToDate(n, m_pub_message_queue, published)'
  BY <1>2 DEF UpToDate
<1> QED  BY <1>1, <1>3, <1>4, <1>5 DEF OrderInv, Chained

(* A message of the RRH is one more that is to come.                       *)
LEMMA StreamsInOrder ==
  ASSUME IInv, OrderInv, NEW new, RrhStreams(new),
         new = <<>> \/ \E f \in Frames : new = <<f>>
  PROVE  OrderInv'
<1> DEFINE h == IF new = <<>> THEN CONTINUE_FRAME ELSE new[1]
           m == Message([i \in 1..m_frame_list |-> CONTINUE_FRAME] \o new, Len(announcing) + 1)
<1>1. /\ announcing' = Append(announcing, h) /\ m_pull_socket' = Append(m_pull_socket, m)
      /\ UNCHANGED <<m_pub_message_queue, m_msg_buff, published>>
  BY DEF RrhStreams, Push, threadVars
<1>2. h \in 0..MaxFrames /\ m.id = Len(announcing) + 1
  BY RxBufferAssumption DEF CONTINUE_FRAME, Frames, Message
<1> HIDE DEF h, m
<1>3. /\ Len(announcing') = Len(announcing) + 1
      /\ \A i \in 1..Len(announcing) : announcing'[i] = announcing[i]
  BY <1>1, <1>2, OrderTyped, Appended
<1>4. /\ m_pull_socket'[Len(m_pull_socket) + 1] = m
      /\ \A i \in DOMAIN m_pull_socket : m_pull_socket'[i] = m_pull_socket[i]
      /\ DOMAIN m_pull_socket' = DOMAIN m_pull_socket \cup {Len(m_pull_socket) + 1}
  BY <1>1, OrderTyped
<1>5. \A a, b \in Nat : Explained(a, b) /\ b >= 1 => Explained(a, b)'
  BY <1>3, OrderTyped, StillExplained
<1>6. PICK n \in Nat : /\ ReadUpTo(n) /\ Joins(n, m_pub_message_queue, published)
                       /\ UpToDate(n, m_pub_message_queue, published)
  BY DEF OrderInv, Chained
<1>7. ReadUpTo(n)'
  <2>1. n \in 0..Len(announcing) /\ n \in 0..Len(announcing')
    BY <1>3, <1>6, OrderTyped DEF ReadUpTo
  <2>2. \A i \in DOMAIN m_pull_socket' : m_pull_socket'[i].id # 0 => m_pull_socket'[i].id > n
    BY <1>2, <1>4, <1>6, <2>1, OrderTyped DEF ReadUpTo
  <2>3. ASSUME NEW k \in (n + 1)..Len(announcing')
        PROVE  k = m_msg_buff'.id \/ \E i \in DOMAIN m_pull_socket' : m_pull_socket'[i].id = k
    <3>1. CASE k = Len(announcing) + 1
      BY <1>2, <1>4, <3>1
    <3>2. CASE k # Len(announcing) + 1
      <4>1. k \in (n + 1)..Len(announcing)
        BY <1>3, <3>2, OrderTyped
      <4> QED  BY <1>1, <1>4, <1>6, <4>1 DEF ReadUpTo
    <3> QED  BY <3>1, <3>2
  <2> QED  BY <1>1, <1>6, <2>1, <2>2, <2>3 DEF ReadUpTo
<1>8. Joins(n, m_pub_message_queue, published)'
  <2>1. CASE published # <<>> /\ m_pub_message_queue # <<>>
    <3>1. LastOf(published) \in Nat /\ n - Len(m_pub_message_queue) + 1 \in Nat
          /\ n - Len(m_pub_message_queue) + 1 >= 1
      BY <1>6, <2>1, OrderTyped DEF LastOf, Joins
    <3> DEFINE a == LastOf(published)
               b == n - Len(m_pub_message_queue) + 1
    <3>2. Explained(a, b)
      BY <1>6, <2>1 DEF Joins
    <3>3. a' = a /\ b' = b
      BY <1>1 DEF LastOf
    <3>4. \A c, d \in Nat : c = a /\ d = b => Explained(c, d)'
      BY <1>5, <3>1, <3>2
    <3>5. Explained(a, b)'
      BY <3>1, <3>3, <3>4 DEF Explained
    <3> QED  BY <1>1, <1>6, <3>5 DEF Joins, LastOf
  <2>2. CASE published = <<>> \/ m_pub_message_queue = <<>>
    BY <1>1, <1>6, <2>2 DEF Joins, LastOf
  <2> QED  BY <2>1, <2>2
<1>9. UpToDate(n, m_pub_message_queue, published)'
  <2>1. m_msg_buff.id # 0 => m_msg_buff.id \in 1..Len(announcing)
    BY OrderTyped DEF IInv, InOrder
  <2> QED  BY <1>1, <1>3, <1>6, <2>1 DEF UpToDate, LastOf
<1>10. GapsOnlyAtAnnouncements'
  <2> SUFFICES ASSUME NEW i \in 1..(Len(published) - 1)
               PROVE  /\ published[i] < published[i + 1]
                      /\ \A a, b \in Nat : a = published[i] /\ b = published[i + 1] => Explained(a, b)'
    <3>1. \A i \in 1..(Len(published) - 1) : published[i] \in Nat /\ published[i + 1] \in Nat
      BY OrderTyped
    <3> QED  BY <1>1, <3>1 DEF GapsOnlyAtAnnouncements, Explained
  <2>1. published[i] \in Nat /\ published[i + 1] \in Nat /\ published[i + 1] >= 1
    <3>1. i \in 1..Len(published) /\ i + 1 \in 1..Len(published)
      BY OrderTyped
    <3> QED  BY <3>1, OrderTyped
  <2>2. published[i] < published[i + 1] /\ Explained(published[i], published[i + 1])
    BY DEF OrderInv, GapsOnlyAtAnnouncements, Explained
  <2> QED  BY <1>5, <2>1, <2>2
<1> QED  BY <1>7, <1>8, <1>9, <1>10 DEF OrderInv, Chained

(* A heartbeat is no message of samples.                                   *)
LEMMA HeartbeatInOrder == ASSUME IInv, OrderInv, RrhHeartbeat PROVE OrderInv'
<1>1. /\ m_pull_socket' = Append(m_pull_socket, Heartbeat)
      /\ UNCHANGED <<announcing, m_msg_buff, m_pub_message_queue, published>>
  BY DEF RrhHeartbeat, Push, threadVars, rrhVars
<1>2. /\ m_pull_socket'[Len(m_pull_socket) + 1].id = 0
      /\ \A i \in DOMAIN m_pull_socket : m_pull_socket'[i] = m_pull_socket[i]
      /\ DOMAIN m_pull_socket' = DOMAIN m_pull_socket \cup {Len(m_pull_socket) + 1}
  BY <1>1, OrderTyped, HeartbeatIsEmpty
<1>3. GapsOnlyAtAnnouncements'
  BY <1>1 DEF OrderInv, GapsOnlyAtAnnouncements
<1>4. PICK n \in Nat : /\ ReadUpTo(n) /\ Joins(n, m_pub_message_queue, published)
                       /\ UpToDate(n, m_pub_message_queue, published)
  BY DEF OrderInv, Chained
<1>5. ReadUpTo(n)'
  BY <1>1, <1>2, <1>4 DEF ReadUpTo
<1>6. Joins(n, m_pub_message_queue, published)'
  BY <1>1, <1>4 DEF Joins, Explained
<1>7. UpToDate(n, m_pub_message_queue, published)'
  BY <1>1, <1>4 DEF UpToDate
<1> QED  BY <1>3, <1>5, <1>6, <1>7 DEF OrderInv, Chained

(* The message that is read is the next one, or a heartbeat.               *)
LEMMA PollMessageInOrder == ASSUME IInv, OrderInv, PollMessage PROVE OrderInv'
<1>1. /\ m_pull_socket # <<>> /\ m_msg_buff' = Head(m_pull_socket)
      /\ m_pull_socket' = Tail(m_pull_socket) /\ m_msg_buff.id = 0
      /\ UNCHANGED <<announcing, m_pub_message_queue, published>>
  BY HeartbeatIsEmpty DEF PollMessage, rrhVars, IInv, Phase
<1>2. /\ \A i \in DOMAIN m_pull_socket' : /\ i \in Nat /\ i + 1 \in DOMAIN m_pull_socket
                                         /\ m_pull_socket'[i] = m_pull_socket[i + 1]
      /\ \A i \in DOMAIN m_pull_socket :
           i # 1 => i - 1 \in DOMAIN m_pull_socket' /\ m_pull_socket'[i - 1] = m_pull_socket[i]
      /\ m_msg_buff' = m_pull_socket[1] /\ 1 \in DOMAIN m_pull_socket
  BY <1>1, OrderTyped, Shifted
<1>3. PICK n \in Nat : /\ ReadUpTo(n) /\ Joins(n, m_pub_message_queue, published)
                       /\ UpToDate(n, m_pub_message_queue, published)
  BY DEF OrderInv, Chained
<1>4. \A k \in (n + 1)..Len(announcing) : \E i \in DOMAIN m_pull_socket : m_pull_socket[i].id = k
  BY <1>1, <1>3, OrderTyped DEF ReadUpTo
<1>5. m_msg_buff'.id # 0 => m_msg_buff'.id = n + 1
  <2> SUFFICES ASSUME m_pull_socket[1].id # 0 PROVE m_pull_socket[1].id = n + 1
    BY <1>2
  <2>1. m_pull_socket[1].id \in Nat /\ m_pull_socket[1].id > n /\ m_pull_socket[1].id <= Len(announcing)
    BY <1>2, <1>3, OrderTyped DEF ReadUpTo, IInv, InOrder
  <2>2. n + 1 \in (n + 1)..Len(announcing)
    BY <2>1, OrderTyped
  <2>3. PICK i \in DOMAIN m_pull_socket : m_pull_socket[i].id = n + 1
    BY <1>4, <2>2
  <2>4. i # 1 => m_pull_socket[1].id < n + 1
    <3>1. i \in Nat /\ i >= 1
      BY OrderTyped
    <3>2. i # 1 => Before(m_pull_socket[1].id, m_pull_socket[i].id)
      BY <1>2, <3>1 DEF IInv, InOrder
    <3> QED  BY <2>3, <3>2 DEF Before
  <2> QED  BY <2>1, <2>3, <2>4
<1>6. ReadUpTo(n)'
  <2>1. \A i \in DOMAIN m_pull_socket' : m_pull_socket'[i].id # 0 => m_pull_socket'[i].id > n
    BY <1>2, <1>3 DEF ReadUpTo
  <2>2. ASSUME NEW k \in (n + 1)..Len(announcing)
        PROVE  k = m_msg_buff'.id \/ \E i \in DOMAIN m_pull_socket' : m_pull_socket'[i].id = k
    <3>1. PICK i \in DOMAIN m_pull_socket : m_pull_socket[i].id = k
      BY <1>4
    <3> QED  BY <1>2, <3>1
  <2> QED  BY <1>1, <1>3, <1>5, <2>1, <2>2 DEF ReadUpTo
<1>7. Joins(n, m_pub_message_queue, published)'
  BY <1>1, <1>3 DEF Joins, Explained
<1>8. UpToDate(n, m_pub_message_queue, published)'
  BY <1>1, <1>3 DEF UpToDate
<1>9. GapsOnlyAtAnnouncements'
  BY <1>1 DEF OrderInv, GapsOnlyAtAnnouncements
<1> QED  BY <1>6, <1>7, <1>8, <1>9 DEF OrderInv, Chained

(* Cleaning the queue leaves its end.                                      *)
LEMMA CleanedIsEnd ==
  ASSUME NEW S, NEW q \in Seq(S)
  PROVE  /\ Len(Cleaned(q)) \in Nat /\ Len(Cleaned(q)) <= Len(q)
         /\ q # <<>> => Len(Cleaned(q)) < Len(q)
         /\ DOMAIN Cleaned(q) = 1..Len(Cleaned(q))
         /\ \A i \in 1..Len(Cleaned(q)) : Cleaned(q)[i] = q[Len(q) - Len(Cleaned(q)) + i]
                                          /\ Len(q) - Len(Cleaned(q)) + i \in 1..Len(q)
<1> DEFINE m == (Len(q) + 1) \div 2 + 1
<1>1. /\ m \in 1..(Len(q) + 1) /\ Len(q) \in Nat /\ (q # <<>> => m > 1)
      /\ Cleaned(q) = SubSeq(q, m, Len(q)) /\ DOMAIN q = 1..Len(q)
  BY DEF Cleaned
<1> HIDE DEF m
<1>2. CASE m <= Len(q)
  <2>1. \A i \in m..Len(q) : q[i] \in S
    BY <1>1
  <2>2. /\ Cleaned(q) \in Seq(S)
        /\ Len(Cleaned(q)) = (Len(q) - m) + 1
        /\ \A i \in 1..((Len(q) - m) + 1) : Cleaned(q)[i] = q[(m + i) - 1]
    BY <1>1, <1>2, <2>1, SubSeqProperties
  <2>3. DOMAIN Cleaned(q) = 1..Len(Cleaned(q))
    BY <2>2
  <2>4. \A i \in 1..((Len(q) - m) + 1) : Len(q) - ((Len(q) - m) + 1) + i = (m + i) - 1
    BY <1>1
  <2>5. \A i \in 1..((Len(q) - m) + 1) : (m + i) - 1 \in 1..Len(q)
    BY <1>1
  <2> QED  BY <1>1, <1>2, <2>2, <2>3, <2>4, <2>5
<1>3. CASE m > Len(q)
  <2>1. Cleaned(q) = <<>>
    BY <1>1, <1>3
  <2> QED  BY <1>1, <1>3, <2>1
<1>4. m <= Len(q) \/ m > Len(q)
  BY <1>1
<1> QED  BY <1>2, <1>3, <1>4

(* Only the last header of a message is that of a new frame, so the queue  *)
(* is cleaned for the message that is being read.                          *)
LEMMA ReadHeaderInOrder == ASSUME IInv, OrderInv, ReadHeader PROVE OrderInv'
<1> DEFINE header == Head(m_msg_buff.headers)
           q == m_pub_message_queue
<1>1. /\ m_msg_buff.headers # <<>>
      /\ m_msg_buff' = [m_msg_buff EXCEPT !.headers = Tail(@)]
      /\ UNCHANGED <<announcing, m_pull_socket, published>>
  BY DEF ReadHeader, rrhVars
<1>2. m_msg_buff'.id = m_msg_buff.id
  BY <1>1, OrderTyped DEF Messages
<1>3. CASE ~IsNewFrame(header)
  <2>1. UNCHANGED m_pub_message_queue
    BY <1>3 DEF ReadHeader
  <2> QED  BY <1>1, <1>2, <2>1, OrderUntouched
<1>4. CASE IsNewFrame(header)
  <2>1. q' = Cleaned(q)
    BY <1>4 DEF ReadHeader
  <2>2. m_msg_buff.id # 0 /\ IsNewFrame(announcing[m_msg_buff.id])
        /\ m_msg_buff.id \in 1..Len(announcing)
    <3> DEFINE hs == m_msg_buff.headers
    <3>1. /\ m_msg_buff.id \in DOMAIN announcing /\ hs[Len(hs)] = announcing[m_msg_buff.id]
          /\ \A i \in 1..(Len(hs) - 1) : hs[i] = CONTINUE_FRAME
      BY <1>1 DEF IInv, AllWellFormed, WellFormed
    <3>2. hs \in Seq(0..MaxFrames)
      BY OrderTyped DEF Messages
    <3> HIDE DEF hs
    <3>3. header = hs[1] /\ Len(hs) \in Nat /\ Len(hs) >= 1
      BY <1>1, <3>2, Shifted DEF hs
    <3> HIDE DEF header
    <3>4. Len(hs) = 1
      <4>1. ~(1 \in 1..(Len(hs) - 1))
        BY <1>4, <3>1, <3>3 DEF IsNewFrame
      <4> QED  BY <3>3, <4>1
    <3> QED  BY <1>4, <3>1, <3>3, <3>4, OrderTyped
  <2>3. PICK n \in Nat : /\ ReadUpTo(n) /\ Joins(n, q, published) /\ UpToDate(n, q, published)
    BY DEF OrderInv, Chained
  <2>4. ReadUpTo(n)'
    BY <1>1, <1>2, <2>3 DEF ReadUpTo
  <2>5. /\ q \in Seq(1..MaxMessages) /\ Len(q) \in Nat /\ DOMAIN q = 1..Len(q)
        /\ Len(q') \in Nat /\ Len(q') <= Len(q) /\ (q # <<>> => Len(q') < Len(q))
        /\ DOMAIN q' = 1..Len(q')
        /\ \A i \in 1..Len(q') : q'[i] = q[Len(q) - Len(q') + i]
                                 /\ Len(q) - Len(q') + i \in 1..Len(q)
    BY <2>1, OrderTyped, CleanedIsEnd
  <2> HIDE DEF q
  <2>6. Joins(n, q, published)'
    <3>1. Len(q') <= n
      BY <2>3, <2>5 DEF Joins
    <3>2. ASSUME NEW i \in 1..Len(q') PROVE q'[i] = n - Len(q') + i
      <4>1. q'[i] = n - Len(q) + (Len(q) - Len(q') + i)
        BY <2>3, <2>5 DEF Joins
      <4> QED  BY <2>5, <4>1
    <3>3. published # <<>> => LastOf(published) <= n - Len(q')
      <4>1. published # <<>> => LastOf(published) \in Nat
        BY OrderTyped DEF LastOf
      <4>2. published # <<>> => LastOf(published) <= n - Len(q)
        BY <2>3 DEF Joins
      <4> QED  BY <2>5, <4>1, <4>2
    <3>4. \E id \in (n - Len(q') + 1)..Len(announcing') : IsNewFrame(announcing'[id])
      <4>1. m_msg_buff.id = n + 1
        BY <2>2, <2>3 DEF ReadUpTo
      <4>2. n + 1 \in (n - Len(q') + 1)..Len(announcing)
        BY <2>2, <2>5, <4>1, OrderTyped
      <4> QED  BY <1>1, <2>2, <4>1, <4>2
    <3>5. LastOf(published') = LastOf(published) /\ published' = published
      BY <1>1 DEF LastOf
    <3> QED  BY <2>5, <3>1, <3>2, <3>3, <3>4, <3>5 DEF Joins, LastOf, Explained
  <2>7. UpToDate(n, q, published)'
    BY <1>1, <1>2, <2>2 DEF UpToDate
  <2>8. GapsOnlyAtAnnouncements'
    BY <1>1 DEF OrderInv, GapsOnlyAtAnnouncements
  <2> QED  BY <2>4, <2>6, <2>7, <2>8 DEF OrderInv, Chained, q
<1> QED  BY <1>3, <1>4

(* The queue follows what has been published without another gap, whether  *)
(* it is kept or sent.                                                     *)
LEMMA PublishInOrder ==
  ASSUME IInv, GapsOnlyAtAnnouncements, NEW reply \in BOOLEAN,
         NEW queue \in Seq(1..MaxMessages), ReplyAndPublish(reply, queue),
         m_msg_buff'.id = 0, UNCHANGED announcing,
         NEW n \in Nat, ReadUpTo(n)', Joins(n, queue, published),
         queue = <<>> /\ published # <<>> => LastOf(published) = n
  PROVE  OrderInv'
<1>0. /\ published \in Seq(1..MaxMessages) /\ Len(published) \in Nat
      /\ DOMAIN published = 1..Len(published)
      /\ Len(queue) \in Nat /\ DOMAIN queue = 1..Len(queue)
      /\ \A i \in 1..Len(published) : published[i] \in Nat
      /\ queue = <<>> <=> Len(queue) = 0
  <2>1. Len(queue) \in Nat /\ DOMAIN queue = 1..Len(queue) /\ (queue = <<>> <=> Len(queue) = 0)
    OBVIOUS
  <2>2. /\ published \in Seq(1..MaxMessages) /\ Len(published) \in Nat
        /\ DOMAIN published = 1..Len(published)
    BY OrderTyped
  <2>3. \A i \in 1..Len(published) : published[i] \in Nat
    BY OrderTyped
  <2> QED  BY <2>1, <2>2, <2>3
<1>1. CASE published' = published /\ m_pub_message_queue' = queue
  <2>1. GapsOnlyAtAnnouncements'
    BY <1>1 DEF GapsOnlyAtAnnouncements
  <2>2. Joins(n, m_pub_message_queue, published)'
    BY <1>1 DEF Joins, Explained
  <2>3. UpToDate(n, m_pub_message_queue, published)'
    BY <1>1 DEF UpToDate, LastOf
  <2> QED  BY <2>1, <2>2, <2>3 DEF OrderInv, Chained
<1>2. CASE published' = published \o queue /\ m_pub_message_queue' = <<>>
  <2>1. /\ published' \in Seq(1..MaxMessages) /\ Len(published') = Len(published) + Len(queue)
        /\ DOMAIN published' = 1..Len(published')
        /\ \A i \in 1..Len(published) : published'[i] = published[i]
        /\ \A i \in 1..Len(queue) : published'[Len(published) + i] = queue[i]
        /\ \A i \in DOMAIN published' : i \in 1..Len(published) \/ i - Len(published) \in 1..Len(queue)
    BY <1>0, <1>2, Joined
  <2>2. ASSUME published' # <<>> PROVE LastOf(published)' = n
    <3>1. CASE queue = <<>>
      <4>1. published # <<>> /\ Len(published') = Len(published) /\ Len(published) \in 1..Len(published)
        BY <1>0, <2>1, <2>2, <3>1
      <4> QED  BY <2>1, <3>1, <4>1 DEF LastOf
    <3>2. CASE queue # <<>>
      <4>1. Len(queue) \in 1..Len(queue) /\ Len(queue) <= n
        BY <1>0, <3>2 DEF Joins
      <4>2. queue[Len(queue)] = n - Len(queue) + Len(queue)
        BY <1>0, <4>1 DEF Joins
      <4> QED  BY <1>0, <2>1, <4>1, <4>2 DEF LastOf
    <3> QED  BY <3>1, <3>2
  <2>3. ASSUME NEW i \in 1..(Len(published') - 1)
        PROVE  published'[i] < published'[i + 1] /\ Explained(published'[i], published'[i + 1])
    <3>1. CASE i + 1 <= Len(published)
      <4>1. i \in 1..(Len(published) - 1) /\ i \in 1..Len(published) /\ i + 1 \in 1..Len(published)
        BY <1>0, <3>1
      <4>2. published[i] < published[i + 1] /\ Explained(published[i], published[i + 1])
        BY <4>1 DEF GapsOnlyAtAnnouncements, Explained
      <4> QED  BY <2>1, <4>1, <4>2
    <3>2. CASE i = Len(published)
      <4>1. i \in 1..Len(published) /\ published # <<>> /\ 1 \in 1..Len(queue) /\ queue # <<>>
        BY <1>0, <2>1, <3>2
      <4>2. published'[i] = LastOf(published) /\ published'[i + 1] = queue[1]
        BY <2>1, <3>2, <4>1 DEF LastOf
      <4>3. queue[1] = n - Len(queue) + 1 /\ LastOf(published) <= n - Len(queue)
            /\ Explained(LastOf(published), n - Len(queue) + 1)
        BY <1>0, <4>1 DEF Joins
      <4>4. LastOf(published) \in Nat /\ n - Len(queue) \in Nat
        BY <1>0, <3>2, <4>1 DEF LastOf, Joins
      <4>5. LastOf(published) < n - Len(queue) + 1
        BY <4>3, <4>4
      <4> QED  BY <4>2, <4>3, <4>5
    <3>3. CASE i > Len(published)
      <4>1. /\ i - Len(published) \in 1..Len(queue) /\ i - Len(published) + 1 \in 1..Len(queue)
            /\ Len(published) + (i - Len(published)) = i
            /\ Len(published) + (i - Len(published) + 1) = i + 1
        BY <1>0, <2>1, <3>3
      <4>2. /\ published'[i] = queue[i - Len(published)]
            /\ published'[i + 1] = queue[i - Len(published) + 1]
        BY <2>1, <4>1
      <4>3. /\ published'[i] = n - Len(queue) + (i - Len(published))
            /\ published'[i + 1] = n - Len(queue) + (i - Len(published) + 1)
        BY <1>0, <4>1, <4>2 DEF Joins
      <4>4. published'[i + 1] = published'[i] + 1 /\ published'[i] \in Int
        BY <1>0, <4>3
      <4> QED  BY <4>4 DEF Explained
    <3>4. i + 1 <= Len(published) \/ i = Len(published) \/ i > Len(published)
      <4>1. Len(published) \in Nat /\ Len(published') \in Nat
        BY <1>0, <2>1
      <4>2. i \in Nat
        BY <4>1
      <4> QED  BY <4>1, <4>2
    <3> QED  BY <3>1, <3>2, <3>3, <3>4
  <2>4. GapsOnlyAtAnnouncements'
    BY <2>3 DEF GapsOnlyAtAnnouncements, Explained
  <2>5. Joins(n, m_pub_message_queue, published)'
    BY <1>2, <2>2 DEF Joins
  <2>6. UpToDate(n, m_pub_message_queue, published)'
    BY <2>2 DEF UpToDate, LastOf
  <2> QED  BY <2>4, <2>5, <2>6 DEF OrderInv, Chained
<1> QED  BY <1>1, <1>2 DEF ReplyAndPublish, Sent

(* The samples that have been read are the next in the queue.              *)
LEMMA QueueSamplesInOrder == ASSUME IInv, OrderInv, QueueSamples PROVE OrderInv'
<1> DEFINE q == m_pub_message_queue
           queue == Append(q, m_msg_buff.id)
<1>1. /\ m_msg_buff.id # 0 /\ m_msg_buff' = Heartbeat
      /\ ReplyAndPublish(reply_polled, queue) /\ reply_polled \in BOOLEAN
      /\ UNCHANGED <<announcing, m_pull_socket>>
  BY DEF QueueSamples, rrhVars, IInv, Shape
<1>2. PICK n \in Nat : ReadUpTo(n) /\ Joins(n, q, published) /\ UpToDate(n, q, published)
  BY DEF OrderInv, Chained
<1>3. m_msg_buff.id = n + 1 /\ n + 1 \in 0..Len(announcing) /\ n + 1 \in 1..MaxMessages
  <2>1. m_msg_buff.id = n + 1
    BY <1>1, <1>2 DEF ReadUpTo
  <2> QED  BY <1>1, <2>1, OrderTyped, RxBufferAssumption DEF IInv, InOrder, Messages
<1>4. /\ queue \in Seq(1..MaxMessages) /\ queue # <<>> /\ Len(queue) = Len(q) + 1
      /\ Len(q) \in Nat /\ DOMAIN q = 1..Len(q) /\ DOMAIN queue = DOMAIN q \cup {Len(q) + 1}
      /\ \A i \in DOMAIN q : queue[i] = q[i]
      /\ queue[Len(q) + 1] = n + 1
  BY <1>3, OrderTyped, Appended
<1> HIDE DEF queue, q
<1>5. ReadUpTo(n + 1)'
  <2>1. ASSUME NEW i \in DOMAIN m_pull_socket, m_pull_socket[i].id # 0
        PROVE  m_pull_socket[i].id > n + 1
    BY <1>1, <1>3, <2>1 DEF IInv, InOrder, Before
  <2>2. ASSUME NEW k \in (n + 2)..Len(announcing)
        PROVE  \E i \in DOMAIN m_pull_socket : m_pull_socket[i].id = k
    <3>1. k \in (n + 1)..Len(announcing) /\ k # n + 1
      BY OrderTyped
    <3> QED  BY <1>2, <1>3, <3>1 DEF ReadUpTo
  <2>3. (n + 1) + 1 = n + 2
    OBVIOUS
  <2> QED  BY <1>1, <1>3, <2>1, <2>2, <2>3, HeartbeatIsEmpty DEF ReadUpTo
<1>6. Joins(n + 1, queue, published)
  <2>1. Len(queue) <= n + 1 /\ (n + 1) - Len(queue) = n - Len(q)
    BY <1>2, <1>4 DEF Joins
  <2>2. \A i \in DOMAIN q : q[i] = n - Len(q) + i
    BY <1>2 DEF Joins
  <2>3. \A i \in DOMAIN queue : queue[i] = (n + 1) - Len(queue) + i
    <3>1. queue[Len(q) + 1] = (n - Len(q)) + (Len(q) + 1)
      BY <1>4
    <3> QED  BY <1>4, <2>1, <2>2, <3>1
  <2>4. published # <<>> => LastOf(published) <= (n + 1) - Len(queue)
    BY <1>2, <2>1 DEF Joins
  <2>5. published # <<>> => Explained(LastOf(published), (n + 1) - Len(queue) + 1)
    <3>1. CASE q # <<>>
      BY <1>2, <2>1, <3>1 DEF Joins
    <3>2. CASE q = <<>> /\ published # <<>>
      <4>1. Len(q) = 0 /\ (n + 1) - Len(queue) + 1 = n + 1
        BY <1>4, <3>2
      <4>2. n + 1 \in (n + 1)..Len(announcing)
        BY <1>3
      <4>3. CASE LastOf(published) = n
        BY <4>1, <4>3 DEF Explained
      <4>4. CASE IsNewFrame(announcing[n + 1])
        BY <4>1, <4>2, <4>4 DEF Explained
      <4> QED  BY <1>2, <1>3, <3>2, <4>3, <4>4 DEF UpToDate
    <3> QED  BY <3>1, <3>2
  <2> QED  BY <2>1, <2>3, <2>4, <2>5 DEF Joins
<1> QED  BY <1>1, <1>4, <1>5, <1>6, HeartbeatIsEmpty, PublishInOrder DEF OrderInv

(* A reply of the broker may let the queue go.                             *)
LEMMA PollReplyInOrder == ASSUME IInv, OrderInv, PollReply PROVE OrderInv'
<1>1. /\ ReplyAndPublish(TRUE, m_pub_message_queue) /\ m_msg_buff' = m_msg_buff
      /\ m_msg_buff = Heartbeat /\ UNCHANGED <<announcing, m_pull_socket>>
  BY DEF PollReply, rrhVars, IInv, Phase
<1>2. PICK n \in Nat : /\ ReadUpTo(n) /\ Joins(n, m_pub_message_queue, published)
                       /\ UpToDate(n, m_pub_message_queue, published)
  BY DEF OrderInv, Chained
<1>3. ReadUpTo(n)'
  BY <1>1, <1>2 DEF ReadUpTo
<1>4. m_pub_message_queue = <<>> /\ published # <<>> => LastOf(published) = n
  BY <1>1, <1>2, HeartbeatIsEmpty DEF UpToDate
<1> QED  BY <1>1, <1>2, <1>3, <1>4, OrderTyped, HeartbeatIsEmpty, PublishInOrder DEF OrderInv

(* Every step keeps the order.                                             *)
LEMMA NextInOrder == ASSUME IInv, OrderInv, [Next]_vars PROVE OrderInv'
<1>1. CASE RrhDetects
  BY <1>1, StreamsInOrder DEF RrhDetects
<1>2. CASE RrhStreams(<<>>)
  BY <1>2, StreamsInOrder
<1>3. CASE RrhEndsStream \/ BrokerTakesRequest \/ WorkerListens
  BY <1>3, OrderUntouched
     DEF RrhEndsStream, BrokerTakesRequest, WorkerListens, threadVars, rrhVars
<1>4. CASE RrhHeartbeat
  BY <1>4, HeartbeatInOrder
<1>5. CASE Register \/ Registered \/ SkipHeartbeat \/ Terminate
  BY <1>5, OrderUntouched DEF Register, Registered, SkipHeartbeat, Terminate, rrhVars
<1>6. CASE PollMessage
  BY <1>6, PollMessageInOrder
<1>7. CASE ReadHeader
  BY <1>7, ReadHeaderInOrder
<1>8. CASE QueueSamples
  BY <1>8, QueueSamplesInOrder
<1>9. CASE PollReply
  BY <1>9, PollReplyInOrder
<1>10. CASE UNCHANGED vars
  BY <1>10, OrderUntouched DEF vars, threadVars, rrhVars
<1> QED  BY <1>1, <1>2, <1>3, <1>4, <1>5, <1>6, <1>7, <1>8, <1>9, <1>10
         DEF Next, BufferStep, Environment

(* Workers get the messages in the order in which the RRH sent them, none  *)
(* twice, and miss only such as a later announcement has thrown away.      *)
THEOREM GapsAreAnnounced == Spec => []GapsOnlyAtAnnouncements
<1>1. Init => OrderInv
  <2> SUFFICES ASSUME Init PROVE OrderInv  OBVIOUS
  <2>1. published = <<>> /\ m_pub_message_queue = <<>> /\ announcing = <<>>
        /\ m_pull_socket = <<>> /\ m_msg_buff.id = 0
    BY HeartbeatIsEmpty DEF Init
  <2>2. ReadUpTo(0)
    BY <2>1 DEF ReadUpTo
  <2>3. Joins(0, m_pub_message_queue, published) /\ UpToDate(0, m_pub_message_queue, published)
    BY <2>1 DEF Joins, UpToDate
  <2>4. GapsOnlyAtAnnouncements
    BY <2>1 DEF GapsOnlyAtAnnouncements
  <2> QED  BY <2>2, <2>3, <2>4 DEF OrderInv, Chained
<1>2. IInv /\ OrderInv /\ [Next]_vars => OrderInv'
  BY NextInOrder
<1>3. OrderInv => GapsOnlyAtAnnouncements
  BY DEF OrderInv
<1> QED  BY <1>1, <1>2, <1>3, Invariance, PTL DEF Spec
=============================================================================
