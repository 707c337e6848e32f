---------------------------- MODULE ApartProofs ----------------------------
(***************************************************************************)
(* The base band unit while no two frames are made one work (RequestsApart *)
(* of BbuProperties): the times of detections are further apart than the   *)
(* broker combines, and there are no more of them than work ids.  Then     *)
(* every detection becomes one request, every request one work, and the    *)
(* request that waits in the broker is for the last of the list.           *)
(*                                                                         *)
(* FrameOnce says where a frame is: on its way to its buffer, asked for,   *)
(* or in the list of works, never in two of these places.  Fresh says that *)
(* the next work id is new: nobody has heard of it.  WorksInv says what a  *)
(* work is: it waits at the end of the list and no worker has heard of it, *)
(* or it is served by the one worker that holds its job, works on it or    *)
(* reports it; WorkerInv keeps what a worker has and hears in order.  From *)
(* these follow AttributionFinishes, SyncCountIsExact, DoneIsForThisWork,  *)
(* StreamingHasReason and WaitingIsOutstanding, the last two with an       *)
(* invariant of their own (StreamInv, WaitInv).                            *)
(***************************************************************************)
EXTENDS BbuProofs

-----------------------------------------------------------------------------
(* Where a request is: the frames and requests of a time                   *)

FramesOf(t)   == {f \in Frame : f.time = t}
RequestsOf(t) == {m \in BufferRequest : m.type = "NEW_FRAME" /\ m.frame.time = t}

(* None, or at most one, of the messages in M is on the way from a buffer  *)
(* or to it.                                                               *)
NoneIn(pipe, M) == \A b \in Buffers : Marked(pipe[b], M) = {}
OnceIn(pipe, M) ==
  /\ \A b \in Buffers : AtMostOne(Marked(pipe[b], M))
  /\ \A b, c \in Buffers : b = c \/ Marked(pipe[b], M) = {} \/ Marked(pipe[c], M) = {}

(* The works of a frame of time t.                                         *)
OfTime(works, t) == {i \in DOMAIN works : works[i].time = t}

(* One frame of time t at most is on its way, asked for or a work.         *)
OnePlace(sent, asked, works, t) ==
  /\ OnceIn(sent, FramesOf(t)) /\ OnceIn(asked, RequestsOf(t)) /\ AtMostOne(OfTime(works, t))
  /\ NoneIn(sent, FramesOf(t)) \/ NoneIn(asked, RequestsOf(t))
  /\ (NoneIn(sent, FramesOf(t)) /\ NoneIn(asked, RequestsOf(t))) \/ OfTime(works, t) = {}

(* There is none.                                                          *)
NoPlace(sent, asked, works, t) ==
  NoneIn(sent, FramesOf(t)) /\ NoneIn(asked, RequestsOf(t)) /\ OfTime(works, t) = {}

(* An undetected frame is nowhere.                                         *)
FoundAt(found, t) == \E d \in found : d.frame.time = t
FrameOnce ==
  \A t \in Times :
    /\ OnePlace(rrhToBuffer, bufferToBroker, m_work_list, t)
    /\ FoundAt(detected, t) \/ NoPlace(rrhToBuffer, bufferToBroker, m_work_list, t)

(* Detections that may still become works *)
Open == {d \in Detections :
           \/ d \notin detected
           \/ ~NoneIn(rrhToBuffer, FramesOf(d.frame.time))
           \/ ~NoneIn(bufferToBroker, RequestsOf(d.frame.time))}

(* A message of this type about work id is in a queue.                     *)
Mentions(s, type, id) == \E j \in DOMAIN s : s[j].type = type /\ s[j].work_id = id

(* The job of a work, its end, and the report of a worker that is done.    *)
JobFor(down, id) == Mentions(down, "JOB", id)
EndOf(down, id)  == Mentions(down, "DONE", id)
Over(up, id)     == Mentions(up, "SYNC_DONE", id)

(* A synchronization worker, or a demodulation worker, has heard of work id. *)
Heeds(w, id) ==
  \/ JobFor(brokerToSync[w], id) \/ EndOf(brokerToSync[w], id) \/ Over(syncToBroker[w], id)
  \/ \E info \in m_work_info[w] \cup stream[w] : info.work_id = id
Demodulates(a, id) == id \in combining[a] \/ Mentions(demodToBroker[a], "DEMOD_DONE", id)

(* A worker of either kind has; the work is in the list of the broker.     *)
Begun(id) == \/ \E w \in SyncWorkers : Heeds(w, id)
             \/ \E a \in DemodWorkers : Demodulates(a, id)
Listed(id) == \E i \in DOMAIN m_work_list : m_work_list[i].work_id = id

(* While detections are open there are ids for them that nobody has heard. *)
Fresh == Open # {} =>
  /\ m_last_work_id + Cardinality(Open) <= WORK_ID_RANGE
  /\ \A id \in WorkIds : Begun(id) \/ Listed(id) => id < m_last_work_id

(* The list holds an id once.                                              *)
Distinct == \A i, j \in DOMAIN m_work_list : m_work_list[i].work_id = m_work_list[j].work_id => i = j

-----------------------------------------------------------------------------
(* A worker: what it reports, and whether it holds work id                 *)

Dones == {m \in SyncMessage : m.type = "SYNC_DONE"}
(* It reports the end of one work at most, and is ready for another then.  *)
UpShape(up) == /\ AtMostOne(Marked(up, Dones))
               /\ \A i \in Marked(up, Dones) : \E j \in Marked(up, {Ready}) : j > i

(* It has the job, works on it, or reports its end.                        *)
Holds(down, hand, up, id) == JobFor(down, id) \/ id \in hand \/ Over(up, id)

(* A DONE that reaches it is for the work it has, or for the job before it. *)
OwnEnd(down, hand) ==
   /\ \A j \in DOMAIN down, id \in hand : down[j].type = "DONE" => down[j].work_id = id
   /\ \A i, j \in DOMAIN down : i < j /\ down[i].type = "JOB" /\ down[j].type = "DONE"
          => down[i].work_id = down[j].work_id

WorkerOk(w) ==
   /\ AtMostOne(m_work_info[w])
   /\ UpShape(syncToBroker[w]) /\ OwnEnd(brokerToSync[w], InHand(w))
WorkerInv == \A w \in SyncWorkers : WorkerOk(w)

HoldsIt(w, id) == Holds(brokerToSync[w], InHand(w), syncToBroker[w], id)

-----------------------------------------------------------------------------
(* A work of the list, which still waits for its worker q, or has one      *)

Waiting(work, q) ==
   /\ work.buffers_id = <<q.buffer>> /\ work.channel_id = q.frame.channel
   /\ work.sync_worker_cnt = 0 /\ work.worker_id = [v \in SyncWorkers |-> 0]
   /\ ~Begun(work.work_id)

(* One worker serves it, which alone holds it and has not been told to end. *)
Served(work) ==
   /\ \E b \in Buffers : work.buffers_id = <<b>>
   /\ work.sync_worker_cnt = 1
   /\ \A w \in SyncWorkers : ~EndOf(brokerToSync[w], work.work_id)
   /\ \E w \in SyncWorkers :
        /\ work.worker_id = [v \in SyncWorkers |-> IF v = w THEN 1 ELSE 0]
        /\ \A v \in SyncWorkers : HoldsIt(v, work.work_id) <=> v = w

(* Only the last work of the list may still wait.                          *)
Last == Len(m_work_list)
WorksInv ==
  /\ pending # <<>> => m_work_list # <<>> /\ Waiting(m_work_list[Last], Head(pending))
  /\ \A i \in DOMAIN m_work_list : pending = <<>> \/ i # Last => Served(m_work_list[i])

(* The broker never takes the last of an empty list (broker.cpp 379).      *)
NeverUndefined == ~undefined
ApartInv == FrameOnce /\ Fresh /\ Distinct /\ WorkerInv /\ WorksInv /\ NeverUndefined

-----------------------------------------------------------------------------
(* Messages on the way                                                     *)

(* A message is sent: one of M is the only one if there was none.          *)
LEMMA SentOnce ==
  ASSUME NEW T, NEW pipe \in [Buffers -> Seq(T)], NEW b \in Buffers, NEW m \in T, NEW M
  PROVE  /\ NoneIn(pipe, M) => OnceIn(Send(pipe, b, m), M)
         /\ m \notin M => /\ NoneIn(pipe, M) => NoneIn(Send(pipe, b, m), M)
                          /\ OnceIn(pipe, M) => OnceIn(Send(pipe, b, m), M)
<1> DEFINE new == Send(pipe, b, m)
<1>1. \A c \in Buffers : new[c] = IF c = b THEN Append(pipe[b], m) ELSE pipe[c]
  BY DEF Send
<1>2. /\ m \notin M => Marked(Append(pipe[b], m), M) = Marked(pipe[b], M)
      /\ Marked(pipe[b], M) = {} => AtMostOne(Marked(Append(pipe[b], m), M))
  BY MarkedAppend, OneMore
<1> HIDE DEF new
<1>3. NoneIn(pipe, M) => OnceIn(new, M)
  BY <1>1, <1>2 DEF NoneIn, OnceIn, AtMostOne
<1>4. m \notin M => \A c \in Buffers : Marked(new[c], M) = Marked(pipe[c], M)
  BY <1>1, <1>2
<1> QED  BY <1>3, <1>4 DEF NoneIn, OnceIn, new

(* A message is read: no other one of M is left if it is in M.             *)
LEMMA ReceivedOnce ==
  ASSUME NEW T, NEW pipe \in [Buffers -> Seq(T)], NEW b \in Buffers, pipe[b] # <<>>, NEW M
  PROVE  /\ NoneIn(pipe, M) => NoneIn(Receive(pipe, b), M)
         /\ OnceIn(pipe, M) => OnceIn(Receive(pipe, b), M)
         /\ Head(pipe[b]) \in M => ~NoneIn(pipe, M)
         /\ OnceIn(pipe, M) /\ Head(pipe[b]) \in M => NoneIn(Receive(pipe, b), M)
<1> DEFINE new == Receive(pipe, b)
<1>1. \A c \in Buffers : new[c] = IF c = b THEN Tail(pipe[b]) ELSE pipe[c]
  BY DEF Receive
<1>2. AtMostOne(Marked(pipe[b], M)) =>
        /\ AtMostOne(Marked(Tail(pipe[b]), M))
        /\ Head(pipe[b]) \in M => Marked(pipe[b], M) # {} /\ Marked(Tail(pipe[b]), M) = {}
        /\ Marked(pipe[b], M) = {} => Marked(Tail(pipe[b]), M) = {}
  BY MarkedTail
<1>3. Marked(pipe[b], M) = {} => AtMostOne(Marked(pipe[b], M))
  BY DEF AtMostOne
<1>4. Head(pipe[b]) \in M => 1 \in Marked(pipe[b], M)
  BY Shifted DEF Marked
<1> HIDE DEF new
<1>5. NoneIn(pipe, M) => NoneIn(new, M)
  BY <1>1, <1>2, <1>3 DEF NoneIn
<1>6. OnceIn(pipe, M) => OnceIn(new, M)
  BY <1>1, <1>2 DEF OnceIn
<1>7. Head(pipe[b]) \in M => ~NoneIn(pipe, M)
  BY <1>4 DEF NoneIn
<1>8. OnceIn(pipe, M) /\ Head(pipe[b]) \in M => NoneIn(new, M)
  BY <1>1, <1>2 DEF NoneIn, OnceIn
<1> QED  BY <1>5, <1>6, <1>7, <1>8 DEF new

-----------------------------------------------------------------------------
(* The time of a frame                                                     *)

(* A frame is sent to a buffer.                                            *)
LEMMA PlacedSent ==
  ASSUME NEW sent \in [Buffers -> Seq(Frame)], NEW asked, NEW works, NEW b \in Buffers,
         NEW f \in Frame, NEW t, OnePlace(sent, asked, works, t)
  PROVE  /\ f.time # t => /\ OnePlace(Send(sent, b, f), asked, works, t)
                          /\ NoPlace(sent, asked, works, t) =>
                               NoPlace(Send(sent, b, f), asked, works, t)
         /\ NoPlace(sent, asked, works, t) => OnePlace(Send(sent, b, f), asked, works, t)
<1>1. f \in FramesOf(t) <=> f.time = t
  BY DEF FramesOf
<1>2. /\ NoneIn(sent, FramesOf(t)) => OnceIn(Send(sent, b, f), FramesOf(t))
      /\ f.time # t => /\ NoneIn(sent, FramesOf(t)) => NoneIn(Send(sent, b, f), FramesOf(t))
                       /\ OnceIn(sent, FramesOf(t)) => OnceIn(Send(sent, b, f), FramesOf(t))
  BY <1>1, SentOnce
<1> QED  BY <1>2 DEF OnePlace, NoPlace

(* A buffer reads a frame and asks for a worker.                           *)
LEMMA PlacedAsked ==
  ASSUME NEW sent \in [Buffers -> Seq(Frame)], NEW asked \in [Buffers -> Seq(BufferRequest)],
         NEW works, NEW b \in Buffers, sent[b] # <<>>, NEW t, OnePlace(sent, asked, works, t)
  PROVE  /\ OnePlace(Receive(sent, b), Send(asked, b, NewFrame(Head(sent[b]))), works, t)
         /\ NoPlace(sent, asked, works, t) =>
              NoPlace(Receive(sent, b), Send(asked, b, NewFrame(Head(sent[b]))), works, t)
<1> DEFINE f == Head(sent[b])
<1>1. f \in Frame
  BY Shifted
<1> HIDE DEF f
<1>2. NewFrame(f) \in BufferRequest /\ (NewFrame(f) \in RequestsOf(t) <=> f.time = t)
  BY <1>1 DEF NewFrame, BufferRequest, RequestsOf
<1>3. f \in FramesOf(t) <=> f.time = t
  BY <1>1 DEF FramesOf
<1> DEFINE F == FramesOf(t)
           R == RequestsOf(t)
           sent2 == Receive(sent, b)
           asked2 == Send(asked, b, NewFrame(f))
<1>4. /\ NoneIn(sent, F) => NoneIn(sent2, F)
      /\ OnceIn(sent, F) => OnceIn(sent2, F)
      /\ f \in F => ~NoneIn(sent, F)
      /\ OnceIn(sent, F) /\ f \in F => NoneIn(sent2, F)
  BY ReceivedOnce DEF f
<1>5. /\ NoneIn(asked, R) => OnceIn(asked2, R)
      /\ NewFrame(f) \notin R => /\ NoneIn(asked, R) => NoneIn(asked2, R)
                                 /\ OnceIn(asked, R) => OnceIn(asked2, R)
  BY <1>2, SentOnce
<1> HIDE DEF F, R, sent2, asked2
<1>6. CASE f.time = t
  BY <1>2, <1>3, <1>4, <1>5, <1>6 DEF OnePlace, NoPlace, F, R, sent2, asked2, f
<1>7. CASE f.time # t
  BY <1>2, <1>3, <1>4, <1>5, <1>7 DEF OnePlace, NoPlace, F, R, sent2, asked2, f
<1> QED  BY <1>6, <1>7

(* The list of works when one is added.                                    *)
LEMMA OneWorkMore ==
  ASSUME NEW T, NEW works \in Seq(T), NEW work \in T, NEW t
  PROVE  /\ work.time # t => OfTime(Append(works, work), t) = OfTime(works, t)
         /\ OfTime(works, t) = {} => AtMostOne(OfTime(Append(works, work), t))
<1> DEFINE new == Append(works, work)
           n == Len(works)
<1>1. /\ \A i \in DOMAIN works : new[i] = works[i]
      /\ new[n + 1] = work
      /\ DOMAIN new = DOMAIN works \cup {n + 1}
      /\ n + 1 \notin DOMAIN works
  BY Appended
<1> HIDE DEF new, n
<1> QED  BY <1>1 DEF OfTime, AtMostOne, new

(* The broker reads a request, and makes a work of it if it is for one.    *)
LEMMA PlacedServed ==
  ASSUME NEW sent, NEW asked \in [Buffers -> Seq(BufferRequest)], NEW works \in Seq(Local_work_info),
         NEW b \in Buffers, asked[b] # <<>>, NEW t, OnePlace(sent, asked, works, t)
  PROVE  /\ OnePlace(sent, Receive(asked, b), works, t)
         /\ NoPlace(sent, asked, works, t) => NoPlace(sent, Receive(asked, b), works, t)
         /\ Head(asked[b]).type = "NEW_FRAME" /\ Head(asked[b]).frame.time = t =>
              /\ NoneIn(sent, FramesOf(t)) /\ OfTime(works, t) = {}
              /\ ~NoneIn(asked, RequestsOf(t))
              /\ NoneIn(Receive(asked, b), RequestsOf(t))
<1> DEFINE m == Head(asked[b])
           R == RequestsOf(t)
           asked2 == Receive(asked, b)
<1>1. m \in BufferRequest
  BY Shifted
<1>2. m.type = "NEW_FRAME" /\ m.frame.time = t => m \in R
  BY <1>1 DEF RequestsOf
<1>3. /\ NoneIn(asked, R) => NoneIn(asked2, R)
      /\ OnceIn(asked, R) => OnceIn(asked2, R)
      /\ m \in R => ~NoneIn(asked, R)
      /\ OnceIn(asked, R) /\ m \in R => NoneIn(asked2, R)
  BY ReceivedOnce
<1> HIDE DEF m, R, asked2
<1> QED  BY <1>2, <1>3 DEF OnePlace, NoPlace, m, R, asked2

(* A new work is added for the request read, whose time has no place else. *)
LEMMA PlacedListed ==
  ASSUME NEW sent, NEW asked \in [Buffers -> Seq(BufferRequest)], NEW works \in Seq(Local_work_info),
         NEW b \in Buffers, asked[b] # <<>>, Head(asked[b]).type = "NEW_FRAME",
         NEW work \in Local_work_info, work.time = Head(asked[b]).frame.time,
         NEW t, OnePlace(sent, asked, works, t)
  PROVE  /\ OnePlace(sent, Receive(asked, b), Append(works, work), t)
         /\ NoPlace(sent, asked, works, t) =>
              NoPlace(sent, Receive(asked, b), Append(works, work), t)
<1>1. /\ OnePlace(sent, Receive(asked, b), works, t)
      /\ NoPlace(sent, asked, works, t) => NoPlace(sent, Receive(asked, b), works, t)
      /\ work.time = t => /\ NoneIn(sent, FramesOf(t)) /\ OfTime(works, t) = {}
                          /\ ~NoneIn(asked, RequestsOf(t))
                          /\ NoneIn(Receive(asked, b), RequestsOf(t))
  BY PlacedServed
<1>2. /\ work.time # t => OfTime(Append(works, work), t) = OfTime(works, t)
      /\ OfTime(works, t) = {} => AtMostOne(OfTime(Append(works, work), t))
  BY OneWorkMore
<1> QED  BY <1>1, <1>2 DEF OnePlace, NoPlace

(* Nothing but an announcement is about a time.                            *)
LEMMA PlacedReady ==
  ASSUME NEW sent, NEW asked \in [Buffers -> Seq(BufferRequest)], NEW works, NEW b \in Buffers,
         NEW t, OnePlace(sent, asked, works, t)
  PROVE  /\ OnePlace(sent, Send(asked, b, BufferReady), works, t)
         /\ NoPlace(sent, asked, works, t) => NoPlace(sent, Send(asked, b, BufferReady), works, t)
<1>1. BufferReady \in BufferRequest /\ BufferReady \notin RequestsOf(t)
  BY DEF BufferReady, BufferRequest, RequestsOf
<1>2. /\ NoneIn(asked, RequestsOf(t)) => NoneIn(Send(asked, b, BufferReady), RequestsOf(t))
      /\ OnceIn(asked, RequestsOf(t)) => OnceIn(Send(asked, b, BufferReady), RequestsOf(t))
  BY <1>1, SentOnce
<1> QED  BY <1>2 DEF OnePlace, NoPlace

(* Works keep their times or end.                                          *)
LEMMA PlacedFewer ==
  ASSUME NEW sent, NEW asked, NEW works, NEW fewer, NEW t, OnePlace(sent, asked, works, t),
         OfTime(works, t) = {} => OfTime(fewer, t) = {}, AtMostOne(OfTime(fewer, t))
  PROVE  /\ OnePlace(sent, asked, fewer, t)
         /\ NoPlace(sent, asked, works, t) => NoPlace(sent, asked, fewer, t)
BY DEF OnePlace, NoPlace

-----------------------------------------------------------------------------
(* The list of works                                                       *)

(* The place in the list before the i-th work was taken out.               *)
Kept(i, j) == IF j < i THEN j ELSE j + 1

(* What is left keeps its order.                                           *)
LeftOf(s, i, left) ==
  /\ \A j \in DOMAIN left : Kept(i, j) \in DOMAIN s \ {i} /\ left[j] = s[Kept(i, j)]
  /\ \A j, k \in DOMAIN left : Kept(i, j) = Kept(i, k) => j = k
  /\ i # Len(s) => Len(left) \in DOMAIN left /\ Kept(i, Len(left)) = Len(s)

(* It is what a work that ends leaves of the list.                         *)
LEMMA WithoutAt ==
  ASSUME NEW T, NEW s \in Seq(T), NEW i \in DOMAIN s
  PROVE  Without(s, i) \in Seq(T) /\ LeftOf(s, i, Without(s, i))
<1> DEFINE n == Len(s)
           w == Without(s, i)
<1>1. n \in Nat /\ DOMAIN s = 1 .. n /\ i \in 1 .. n /\ n >= 1 /\ n - 1 \in Nat
  OBVIOUS
<1>2. \A j \in 1 .. (n - 1) : Kept(i, j) \in 1 .. n /\ Kept(i, j) # i
  BY <1>1 DEF Kept
<1>3. \A j, k \in 1 .. (n - 1) : Kept(i, j) = Kept(i, k) => j = k
  BY <1>1 DEF Kept
<1>4. /\ w = [j \in 1 .. (n - 1) |-> s[Kept(i, j)]]
      /\ \A j \in 1 .. (n - 1) : w[j] = s[Kept(i, j)]
  <2>1. w = [j \in 1 .. (n - 1) |-> IF j < i THEN s[j] ELSE s[j + 1]]
    BY DEF Without
  <2> HIDE DEF w, n
  <2> QED  BY <2>1 DEF Kept
<1>5. \A j \in 1 .. (n - 1) : s[Kept(i, j)] \in T
  BY <1>1, <1>2, Element
<1> HIDE DEF n, w
<1>6. w \in [1 .. (n - 1) -> T]
  BY <1>4, <1>5
<1>7. w \in Seq(T) /\ Len(w) = n - 1 /\ DOMAIN w = 1 .. (n - 1)
  BY <1>1, <1>6, Tabulated
<1>8. i # n => n - 1 \in 1 .. (n - 1) /\ Kept(i, n - 1) = n
  BY <1>1 DEF Kept
<1> QED  BY <1>1, <1>2, <1>3, <1>4, <1>7, <1>8 DEF n, w, LeftOf

(* The work that ends.                                                     *)
LEMMA EndedList ==
  ASSUME NEW i, EndWork(i)
  PROVE  m_work_list' = Without(m_work_list, i)
BY DEF EndWork, Without

(* Its time is gone, and the others are as they were.                      *)
LEMMA OneWorkLess ==
  ASSUME NEW works \in Seq(Local_work_info), NEW i \in DOMAIN works, NEW t,
         AtMostOne(OfTime(works, t))
  PROVE  /\ AtMostOne(OfTime(Without(works, i), t))
         /\ OfTime(works, t) = {} => OfTime(Without(works, i), t) = {}
<1> DEFINE new == Without(works, i)
<1>1. LeftOf(works, i, new)
  BY WithoutAt
<1> HIDE DEF new
<1>2. \A j \in OfTime(new, t) : j \in DOMAIN new /\ Kept(i, j) \in OfTime(works, t)
  BY <1>1 DEF OfTime, LeftOf
<1> QED  BY <1>1, <1>2 DEF AtMostOne, new, LeftOf

(* A work is changed and keeps its time.                                   *)
LEMMA SameTime ==
  ASSUME NEW works, NEW i \in DOMAIN works, NEW work, work.time = works[i].time, NEW t
  PROVE  OfTime([works EXCEPT ![i] = work], t) = OfTime(works, t)
BY DEF OfTime

-----------------------------------------------------------------------------
(* The broker, when no frame is combined                                   *)

NewFrameOf(b) == Head(bufferToBroker[b]).frame

(* A request is for a frame that is far from those of all works.           *)
LEMMA Uncombined ==
  ASSUME RequestsApart, TypeOK, FrameOnce, NEW b \in Buffers, AnnouncesFrame(b)
  PROVE  /\ NewFrameOf(b) \in Frame
         /\ Combinable(NewFrameOf(b)) = {}
         /\ \E d \in detected : d.frame.time = NewFrameOf(b).time
<1> DEFINE f == NewFrameOf(b)
<1>1. f \in Frame /\ bufferToBroker[b] # <<>> /\ Head(bufferToBroker[b]).type = "NEW_FRAME"
  BY AnnouncesFrameType DEF AnnouncesFrame, TypeOK, NewFrameOf
<1>2. f.time \in Times /\ f.time = Head(bufferToBroker[b]).frame.time
  BY <1>1 DEF Frame, NewFrameOf
<1>3. /\ bufferToBroker \in [Buffers -> Seq(BufferRequest)]
      /\ m_work_list \in Seq(Local_work_info)
  BY DEF TypeOK, SocketsTypeOK, BrokerTypeOK
<1> HIDE DEF f
<1>4. OnePlace(rrhToBuffer, bufferToBroker, m_work_list, f.time)
  BY <1>2 DEF FrameOnce
<1>5. OfTime(m_work_list, f.time) = {} /\ ~NoneIn(bufferToBroker, RequestsOf(f.time))
  BY <1>1, <1>2, <1>3, <1>4, PlacedServed
<1>6. PICK d \in detected : d.frame.time = f.time
  BY <1>2, <1>5 DEF FrameOnce, NoPlace, FoundAt
<1>7. ASSUME NEW i \in Combinable(f) PROVE FALSE
  <2>1. /\ i \in DOMAIN m_work_list
        /\ Distance(f.time, m_work_list[i].time) <= MAX_DELAY_TO_COMBINE
    BY <1>7 DEF Combinable
  <2>2. m_work_list[i].time \in Times
    <3>1. m_work_list[i] \in Local_work_info
      BY <1>3, <2>1, Element
    <3> QED  BY <3>1 DEF Local_work_info
  <2>3. i \in OfTime(m_work_list, m_work_list[i].time)
    BY <2>1 DEF OfTime
  <2>4. PICK e \in detected : e.frame.time = m_work_list[i].time
    BY <2>2, <2>3 DEF FrameOnce, NoPlace, FoundAt
  <2>5. d # e
    BY <1>5, <1>6, <2>3, <2>4
  <2>6. Distance(d.frame.time, e.frame.time) > MAX_DELAY_TO_COMBINE
    BY <2>5 DEF RequestsApart, TypeOK, RrhTypeOK
  <2>7. f.time \in Nat /\ m_work_list[i].time \in Nat /\ MAX_DELAY_TO_COMBINE \in Nat
    BY <1>2, <2>2, SocketsAssumption, BrokerAssumption
  <2>8. Distance(f.time, m_work_list[i].time) \in Int
    BY <2>7 DEF Distance
  <2> QED  BY <1>6, <2>1, <2>4, <2>6, <2>7, <2>8
<1> QED  BY <1>1, <1>6, <1>7 DEF f

(* The work of a request that is served at once.                           *)
NewServed(b) == Recounted(WithWorker(NewWork(b, NewFrameOf(b)), Head(m_sync_worker_pool)), 1)

(* A list with a work added, of which the last one is changed.             *)
LEMMA LastChanged ==
  ASSUME NEW T, NEW s \in Seq(T), NEW x \in T, NEW y \in T
  PROVE  [Append(s, x) EXCEPT ![Len(Append(s, x))] = y] = Append(s, y)
<1> DEFINE n == Len(s)
<1>1. n \in Nat /\ Len(Append(s, x)) = n + 1
  BY Appended
<1>2. /\ Append(s, x) = [i \in 1 .. (n + 1) |-> IF i = n + 1 THEN x ELSE s[i]]
      /\ Append(s, y) = [i \in 1 .. (n + 1) |-> IF i = n + 1 THEN y ELSE s[i]]
  BY AppendAsFunction
<1> DEFINE sx == Append(s, x)
           sy == Append(s, y)
<1> HIDE DEF n, sx, sy
<1>3. [sx EXCEPT ![n + 1] = y] = sy
  BY <1>1, <1>2 DEF sx, sy
<1> QED  BY <1>1, <1>3 DEF sx, sy

(* A request that is read makes a work with the next id.                   *)
LEMMA NewWorkAlone ==
  ASSUME TypeOK, NEW b \in Buffers, SpawnForFrame(b) \/ ServeFrame(b),
         Combinable(NewFrameOf(b)) = {}
  PROVE  /\ AnnouncesFrame(b) /\ NewFrameOf(b) \in Frame
         /\ NewWork(b, NewFrameOf(b)) \in Local_work_info
         /\ WorksWith(b, NewFrameOf(b)) = Append(m_work_list, NewWork(b, NewFrameOf(b)))
         /\ m_last_work_id' = NextWorkId
<1> DEFINE f == NewFrameOf(b)
<1>1. AnnouncesFrame(b) /\ TakeDemodWorker(f)
  BY DEF SpawnForFrame, ServeFrame, NewFrameOf
<1>2. f \in Frame
  BY <1>1, AnnouncesFrameType DEF TypeOK, NewFrameOf
<1> HIDE DEF f
<1>3. /\ m_last_work_id' = NextWorkId
      /\ m_demod_worker_pool = <<>> => m_ipc_file_idx \in DemodWorkers
  BY <1>1 DEF TakeDemodWorker, ReuseDemodWorker, SpawnDemodWorker, f
<1>4. NewWork(b, f) \in Local_work_info
  BY <1>2, <1>3, NewWorkType, SocketsAssumption DEF TypeOK
<1> QED  BY <1>1, <1>2, <1>3, <1>4 DEF WorksWith, f

(* The parts of a new work.                                                *)
LEMMA NewWorkParts ==
  ASSUME TypeOK, NEW b \in Buffers, NewWork(b, NewFrameOf(b)) \in Local_work_info,
         NewFrameOf(b) \in Frame, m_sync_worker_pool # <<>>
  PROVE  /\ NewServed(b) \in Local_work_info /\ Head(m_sync_worker_pool) \in SyncWorkers
         /\ NewServed(b).work_id = m_last_work_id
         /\ NewServed(b).time = NewFrameOf(b).time
         /\ NewServed(b).channel_id = NewFrameOf(b).channel
         /\ NewServed(b).buffers_id = <<b>>
         /\ NewServed(b).sync_worker_cnt = 1
         /\ NewServed(b).worker_id
              = [v \in SyncWorkers |-> IF v = Head(m_sync_worker_pool) THEN 1 ELSE 0]
<1> DEFINE f == NewFrameOf(b)
           w == Head(m_sync_worker_pool)
           work == NewWork(b, f)
<1>1. w \in SyncWorkers
  BY HeadTailProperties DEF TypeOK, BrokerTypeOK
<1>2. /\ work.work_id = m_last_work_id /\ work.buffers_id = <<b>>
      /\ work.channel_id = f.channel /\ work.time = f.time /\ work.sync_worker_cnt = 0
      /\ work.worker_id = [v \in SyncWorkers |-> 0]
      /\ work \in Local_work_info
  BY DEF NewWork
<1>3. NewServed(b) \in Local_work_info
  BY <1>1, <1>2, WithWorkerType, RecountedType DEF NewServed
<1> HIDE DEF f, w, work
<1>4. NewServed(b) = [work EXCEPT !.worker_id = [work.worker_id EXCEPT ![w] = @ + 1],
                                  !.sync_worker_cnt = @ + 1]
  BY <1>2 DEF NewServed, Recounted, WithWorker, Local_work_info, f, w, work
<1>5. [work.worker_id EXCEPT ![w] = @ + 1] = [v \in SyncWorkers |-> IF v = w THEN 1 ELSE 0]
  BY <1>1, <1>2
<1> QED  BY <1>1, <1>2, <1>3, <1>4, <1>5 DEF Local_work_info, f, w

(* It is listed, and its job sent to the first of the pool.                *)
LEMMA ServedAlone ==
  ASSUME TypeOK, NEW b \in Buffers, ServeFrame(b), Combinable(NewFrameOf(b)) = {}
  PROVE  LET f == NewFrameOf(b)
             w == Head(m_sync_worker_pool)
         IN /\ m_sync_worker_pool # <<>>
            /\ m_work_list' = Append(m_work_list, NewServed(b))
            /\ \E addr \in DemodWorkers :
                 brokerToSync' = Send(brokerToSync, w, Job(m_last_work_id, addr, b, b))
            /\ workers_by_fc' = [workers_by_fc EXCEPT ![b][f.channel][m_last_work_id] = @ + 1]
            /\ m_sync_worker_pool' = Tail(m_sync_worker_pool)
<1> DEFINE f == NewFrameOf(b)
           w == Head(m_sync_worker_pool)
           work == NewWork(b, f)
           works == WorksWith(b, f)
<1>1. /\ f \in Frame /\ work \in Local_work_info /\ works = Append(m_work_list, work)
  BY NewWorkAlone
<1>2. m_sync_worker_pool # <<>> /\ ForwardJob(works, b, f)
  BY DEF ServeFrame, NewFrameOf
<1>3. NewServed(b) \in Local_work_info
  BY <1>1, <1>2, NewWorkParts
<1>4. m_work_list \in Seq(Local_work_info)
  BY DEF TypeOK, BrokerTypeOK
<1>5. /\ work.work_id = m_last_work_id /\ work.buffers_id = <<b>>
      /\ work.demod_worker_addr \in DemodWorkers
  BY <1>1 DEF NewWork, Local_work_info
<1>6. NewServed(b) = Recounted(WithWorker(work, w), 1)
  BY DEF NewServed
<1> HIDE DEF f, w, work
<1>7. works[Len(works)] = work /\ Len(works) \in DOMAIN works
  BY <1>1, <1>4, Appended
<1>8. work.buffers_id[Len(work.buffers_id)] = b
  BY <1>5
<1>9. /\ m_work_list' = [works EXCEPT ![Len(works)] = Recounted(WithWorker(works[Len(works)], w), 1)]
      /\ workers_by_fc' = [workers_by_fc EXCEPT ![b][f.channel][m_last_work_id] = @ + 1]
      /\ m_sync_worker_pool' = Tail(m_sync_worker_pool)
      /\ brokerToSync' = Send(brokerToSync, w, Job(m_last_work_id, work.demod_worker_addr, b, b))
  BY <1>2, <1>5, <1>7, <1>8 DEF ForwardJob, OtherWorkers, w
<1>10. m_work_list' = Append(m_work_list, NewServed(b))
  BY <1>1, <1>3, <1>4, <1>6, <1>7, <1>9, LastChanged
<1> QED  BY <1>2, <1>5, <1>9, <1>10 DEF f, w

-----------------------------------------------------------------------------
(* A frame is in one place                                                 *)

(* Works, messages and detections change, and no time gets a second place. *)
LEMMA StaysOnce ==
  ASSUME FrameOnce, detected \subseteq detected',
         \A t \in Times :
           /\ OnePlace(rrhToBuffer, bufferToBroker, m_work_list, t) =>
                OnePlace(rrhToBuffer', bufferToBroker', m_work_list', t)
           /\ OnePlace(rrhToBuffer, bufferToBroker, m_work_list, t)
                /\ NoPlace(rrhToBuffer, bufferToBroker, m_work_list, t) =>
                NoPlace(rrhToBuffer', bufferToBroker', m_work_list', t) \/ FoundAt(detected', t)
  PROVE  FrameOnce'
<1> SUFFICES ASSUME NEW t \in Times
             PROVE  /\ OnePlace(rrhToBuffer', bufferToBroker', m_work_list', t)
                    /\ FoundAt(detected', t) \/ NoPlace(rrhToBuffer', bufferToBroker', m_work_list', t)
  BY DEF FrameOnce
<1>1. FoundAt(detected, t) => FoundAt(detected', t)
  BY DEF FoundAt
<1> QED  BY <1>1 DEF FrameOnce

(* rrh_zmq_sink: a detector finds a frame, which is sent if it is no echo. *)
Finds(d) ==
  /\ d \cap detected = {} /\ detected' = detected \cup d
  /\ \/ UNCHANGED rrhToBuffer
     \/ \E e \in d, b \in Buffers : rrhToBuffer' = Send(rrhToBuffer, b, e.frame)

(* Every step of an RRH finds the frames of some set of detections.        *)
LEMMA RrhFinds ==
  ASSUME TypeOK, NEW r \in Rrhs, RrhStep(r)
  PROVE  \E d \in SUBSET Detections : Finds(d)
<1>1. m_buffer_addr \in [Rrhs -> SUBSET Buffers] /\ {} \cap detected = {}
  BY DEF TypeOK, RrhTypeOK
<1>2. ASSUME NEW stop \in BOOLEAN, NEW d \in SUBSET Detections, d \cap detected = {},
             RrhWork(r, stop, d)
      PROVE  Finds(d)
  BY <1>1, <1>2 DEF RrhWork, Finds
<1>3. CASE RrhStops(r)
  <2>1. RrhWork(r, TRUE, {}) /\ {} \in SUBSET Detections
    BY <1>3 DEF RrhStops
  <2> QED  BY <1>1, <1>2, <2>1
<1>4. CASE RrhDetects(r)
  <2>1. PICK d \in NextDetections(r) : \E stop \in BOOLEAN : RrhWork(r, stop, {d})
    BY <1>4 DEF RrhDetects
  <2>2. {d} \in SUBSET Detections /\ {d} \cap detected = {}
    BY DEF NextDetections
  <2> HIDE DEF NextDetections
  <2> QED  BY <1>2, <2>1, <2>2
<1> QED  BY <1>3, <1>4 DEF RrhStep

(* One that is found had no place.                                         *)
LEMMA RrhOnce ==
  ASSUME RequestsApart, TypeOK, FrameOnce, NEW r \in Rrhs, RrhStep(r)
  PROVE  FrameOnce'
<1>1. /\ rrhToBuffer \in [Buffers -> Seq(Frame)]
      /\ detected \in SUBSET Detections /\ Detections \subseteq [rrh : Rrhs, frame : Frame]
  BY RrhAssumption DEF TypeOK, SocketsTypeOK, RrhTypeOK
<1>2. PICK d \in SUBSET Detections :
        /\ d \cap detected = {} /\ detected' = detected \cup d
        /\ \/ UNCHANGED rrhToBuffer
           \/ \E e \in d, b \in Buffers : rrhToBuffer' = Send(rrhToBuffer, b, e.frame)
  BY RrhFinds DEF Finds
<1>3. UNCHANGED <<bufferToBroker, m_work_list>>
  BY DEF RrhStep, RrhStops, RrhDetects, RrhWork, brokerVars
<1>4. CASE UNCHANGED rrhToBuffer
  BY <1>2, <1>3, <1>4, StaysOnce
<1>5. ASSUME NEW e \in d, NEW b \in Buffers, rrhToBuffer' = Send(rrhToBuffer, b, e.frame)
      PROVE  FrameOnce'
  <2> DEFINE f == e.frame
  <2>1. f \in Frame /\ f.time \in Times /\ e \in Detections /\ e \notin detected
    BY <1>1, <1>2, <1>5 DEF Frame
  <2>2. ~FoundAt(detected, f.time)
    <3> SUFFICES ASSUME NEW x \in detected, x.frame.time = f.time PROVE FALSE
      BY DEF FoundAt
    <3>1. Distance(x.frame.time, e.frame.time) > MAX_DELAY_TO_COMBINE
      BY <1>1, <2>1 DEF RequestsApart
    <3>2. Distance(f.time, f.time) = 0 /\ MAX_DELAY_TO_COMBINE \in Nat
      BY <2>1, SocketsAssumption, BrokerAssumption DEF Distance
    <3> QED  BY <3>1, <3>2
  <2>3. NoPlace(rrhToBuffer, bufferToBroker, m_work_list, f.time)
    BY <2>1, <2>2 DEF FrameOnce
  <2>4. FoundAt(detected', f.time)
    BY <1>2, <1>5 DEF FoundAt
  <2> HIDE DEF f
  <2>5. rrhToBuffer' = Send(rrhToBuffer, b, f)
    BY <1>5 DEF f
  <2>6. ASSUME NEW t \in Times, OnePlace(rrhToBuffer, bufferToBroker, m_work_list, t)
        PROVE  /\ OnePlace(rrhToBuffer', bufferToBroker, m_work_list, t)
               /\ NoPlace(rrhToBuffer, bufferToBroker, m_work_list, t) =>
                    NoPlace(rrhToBuffer', bufferToBroker, m_work_list, t) \/ FoundAt(detected', t)
    <3>1. /\ f.time # t => /\ OnePlace(Send(rrhToBuffer, b, f), bufferToBroker, m_work_list, t)
                           /\ NoPlace(rrhToBuffer, bufferToBroker, m_work_list, t) =>
                                NoPlace(Send(rrhToBuffer, b, f), bufferToBroker, m_work_list, t)
          /\ NoPlace(rrhToBuffer, bufferToBroker, m_work_list, t) =>
                OnePlace(Send(rrhToBuffer, b, f), bufferToBroker, m_work_list, t)
      BY <1>1, <2>1, <2>6, PlacedSent
    <3> QED  BY <2>3, <2>4, <2>5, <3>1
  <2> QED  BY <1>2, <1>3, <2>6, StaysOnce
<1> QED  BY <1>2, <1>4, <1>5

(* lora_rx_buffer: the thread starts, reads a frame, reads an answer.      *)
LEMMA BufferOnce ==
  ASSUME TypeOK, FrameOnce, NEW b \in Buffers, StartBuffer(b) \/ BufferStep(b)
  PROVE  FrameOnce'
<1>1. /\ rrhToBuffer \in [Buffers -> Seq(Frame)]
      /\ bufferToBroker \in [Buffers -> Seq(BufferRequest)]
  BY DEF TypeOK, SocketsTypeOK
<1>2. UNCHANGED <<m_work_list, detected>>
  BY DEF StartBuffer, BufferStep, BufferStart, BufferNext, BufferAcked, BufferRequestsWorker,
         BufferSubscribed, brokerVars, rrhVars
<1>3. CASE StartBuffer(b)
  <2>1. bufferToBroker' = Send(bufferToBroker, b, BufferReady) /\ UNCHANGED rrhToBuffer
    BY <1>3 DEF StartBuffer, BufferStart
  <2> QED  BY <1>1, <1>2, <2>1, PlacedReady, StaysOnce
<1>4. CASE BufferRequestsWorker(b)
  <2>1. /\ rrhToBuffer[b] # <<>> /\ rrhToBuffer' = Receive(rrhToBuffer, b)
        /\ bufferToBroker' = Send(bufferToBroker, b, NewFrame(Head(rrhToBuffer[b])))
    BY <1>4 DEF BufferRequestsWorker
  <2> QED  BY <1>1, <1>2, <2>1, PlacedAsked, StaysOnce
<1>5. CASE BufferAcked(b) \/ BufferSubscribed(b)
  <2>1. UNCHANGED <<rrhToBuffer, bufferToBroker>>
    BY <1>5 DEF BufferAcked, BufferSubscribed
  <2> QED  BY <1>2, <2>1, StaysOnce
<1> QED  BY <1>3, <1>4, <1>5 DEF BufferStep, BufferNext

(* The work a worker reports is one of the list.                           *)
LEMMA WorkReported ==
  ASSUME BrokerTypeOK, NEW id, UndergoingWorks(id) # {}
  PROVE  /\ First(UndergoingWorks(id)) \in DOMAIN m_work_list
         /\ First(UndergoingWorks(id)) \in 1 .. Len(m_work_list)
         /\ m_work_list[First(UndergoingWorks(id))].work_id = id
<1>1. UndergoingWorks(id) \in SUBSET (DOMAIN m_work_list)
  BY UndergoingType
<1>2. DOMAIN m_work_list \subseteq Nat
  BY DEF BrokerTypeOK
<1>3. First(UndergoingWorks(id)) \in UndergoingWorks(id)
  BY <1>1, <1>2, FirstType
<1>4. First(UndergoingWorks(id)) \in 1 .. Len(m_work_list)
  BY UndergoingType
<1> QED  BY <1>1, <1>3, <1>4 DEF UndergoingWorks

(* broker: a request is read and a work made of it, works change and end.  *)
LEMMA BrokerOnce ==
  ASSUME RequestsApart, TypeOK, FrameOnce, BrokerStep
  PROVE  FrameOnce'
<1>1. /\ bufferToBroker \in [Buffers -> Seq(BufferRequest)]
      /\ m_work_list \in Seq(Local_work_info)
  BY DEF TypeOK, SocketsTypeOK, BrokerTypeOK
<1>2. UNCHANGED <<rrhToBuffer, detected>> /\ BrokerNext
  BY DEF BrokerStep, BrokerNext, FrontendRrh, FrontendBuffer, Backend, RrhRequest, RegisterBuffer,
         SpawnForFrame, ServeFrame, FinishAttribution, WorkerReady, ForwardReply, WorkerSyncDone,
         ServeSync, WorkerDemodDone, KeepAlive, rrhVars
<1>3. ASSUME NEW b \in Buffers, SpawnForFrame(b) \/ ServeFrame(b) PROVE FrameOnce'
  <2>1. AnnouncesFrame(b)
    BY <1>3 DEF SpawnForFrame, ServeFrame
  <2>2. NewFrameOf(b) \in Frame /\ Combinable(NewFrameOf(b)) = {}
    BY <2>1, Uncombined
  <2>3. /\ bufferToBroker[b] # <<>> /\ Head(bufferToBroker[b]).type = "NEW_FRAME"
        /\ bufferToBroker' = Receive(bufferToBroker, b)
    BY <2>1 DEF AnnouncesFrame
  <2>4. PICK work \in Local_work_info : /\ m_work_list' = Append(m_work_list, work)
                                        /\ work.time = Head(bufferToBroker[b]).frame.time
    <3>1. /\ NewWork(b, NewFrameOf(b)) \in Local_work_info
          /\ WorksWith(b, NewFrameOf(b)) = Append(m_work_list, NewWork(b, NewFrameOf(b)))
      BY <1>3, <2>2, NewWorkAlone
    <3>2. CASE SpawnForFrame(b)
      BY <3>1, <3>2 DEF SpawnForFrame, NewWork, NewFrameOf
    <3>3. CASE ServeFrame(b)
      <4>1. m_sync_worker_pool # <<>> /\ m_work_list' = Append(m_work_list, NewServed(b))
        BY <2>2, <3>3, ServedAlone
      <4>2. NewServed(b) \in Local_work_info /\ NewServed(b).time = NewFrameOf(b).time
        BY <2>2, <3>1, <4>1, NewWorkParts
      <4> QED  BY <4>1, <4>2 DEF NewFrameOf
    <3> QED  BY <1>3, <3>2, <3>3
  <2>5. ASSUME NEW t \in Times, OnePlace(rrhToBuffer, bufferToBroker, m_work_list, t)
        PROVE  /\ OnePlace(rrhToBuffer, bufferToBroker', m_work_list', t)
               /\ NoPlace(rrhToBuffer, bufferToBroker, m_work_list, t) =>
                    NoPlace(rrhToBuffer, bufferToBroker', m_work_list', t)
    BY <1>1, <2>3, <2>4, <2>5, PlacedListed
  <2> QED  BY <1>2, <2>5, StaysOnce
<1>4. ASSUME NEW b \in Buffers, RegisterBuffer(b) PROVE FrameOnce'
  <2>1. bufferToBroker[b] # <<>> /\ bufferToBroker' = Receive(bufferToBroker, b)
        /\ UNCHANGED m_work_list
    BY <1>4 DEF RegisterBuffer
  <2>2. ASSUME NEW t \in Times, OnePlace(rrhToBuffer, bufferToBroker, m_work_list, t)
        PROVE  /\ OnePlace(rrhToBuffer, bufferToBroker', m_work_list, t)
               /\ NoPlace(rrhToBuffer, bufferToBroker, m_work_list, t) =>
                    NoPlace(rrhToBuffer, bufferToBroker', m_work_list, t)
    BY <1>1, <2>1, <2>2, PlacedServed
  <2> QED  BY <1>2, <2>1, <2>2, StaysOnce
<1>5. ASSUME UNCHANGED bufferToBroker,
             \A t \in Times : AtMostOne(OfTime(m_work_list, t)) =>
               /\ AtMostOne(OfTime(m_work_list', t))
               /\ OfTime(m_work_list, t) = {} => OfTime(m_work_list', t) = {}
      PROVE  FrameOnce'
  <2>1. ASSUME NEW t \in Times, OnePlace(rrhToBuffer, bufferToBroker, m_work_list, t)
        PROVE  /\ OnePlace(rrhToBuffer, bufferToBroker, m_work_list', t)
               /\ NoPlace(rrhToBuffer, bufferToBroker, m_work_list, t) =>
                    NoPlace(rrhToBuffer, bufferToBroker, m_work_list', t)
    <3>1. AtMostOne(OfTime(m_work_list, t))
      BY <2>1 DEF OnePlace
    <3> QED  BY <1>5, <2>1, <3>1, PlacedFewer
  <2> QED  BY <1>2, <1>5, <2>1, StaysOnce
<1>6. ASSUME NEW i \in DOMAIN m_work_list, EndWork(i), UNCHANGED bufferToBroker PROVE FrameOnce'
  <2>1. m_work_list' = Without(m_work_list, i)
    BY <1>6, EndedList
  <2> QED  BY <1>1, <1>5, <1>6, <2>1, OneWorkLess
<1>7. ASSUME NEW i \in DOMAIN m_work_list, NEW work, work.time = m_work_list[i].time,
             m_work_list' = [m_work_list EXCEPT ![i] = work], UNCHANGED bufferToBroker
      PROVE  FrameOnce'
  <2>1. \A t : OfTime([m_work_list EXCEPT ![i] = work], t) = OfTime(m_work_list, t)
    BY <1>7, SameTime
  <2> QED  BY <1>5, <1>7, <2>1
<1>8. \A i \in DOMAIN m_work_list : m_work_list[i] \in Local_work_info
  BY <1>1, Element
<1>9. CASE FinishAttribution
  <2>1. CASE UNCHANGED m_work_list
    BY <1>5, <1>9, <2>1 DEF FinishAttribution
  <2>2. CASE m_work_list # <<>> /\ ForwardJob(m_work_list, Head(pending).buffer, Head(pending).frame)
    <3> DEFINE n == Len(m_work_list)
               work == Recounted(WithWorker(m_work_list[n], Head(m_sync_worker_pool)), 1)
    <3>1. n \in DOMAIN m_work_list
      BY <1>1, <2>2, EmptySeq
    <3>2. m_work_list' = [m_work_list EXCEPT ![n] = work]
      BY <2>2 DEF ForwardJob
    <3>3. work.time = m_work_list[n].time
      BY <1>8, <3>1 DEF Recounted, WithWorker, Local_work_info
    <3>4. UNCHANGED bufferToBroker
      BY <1>9 DEF FinishAttribution
    <3> HIDE DEF n, work
    <3> QED  BY <1>7, <3>1, <3>2, <3>3, <3>4
  <2> QED  BY <1>9, <2>1, <2>2 DEF FinishAttribution
<1>10. ASSUME NEW w \in SyncWorkers, WorkerSyncDone(w) PROVE FrameOnce'
  <2> DEFINE I == UndergoingWorks(Head(syncToBroker[w]).work_id)
             i == First(I)
  <2>1. I # {} => i \in DOMAIN m_work_list
    BY WorkReported DEF TypeOK
  <2>2. UNCHANGED bufferToBroker
    BY <1>10 DEF WorkerSyncDone, ServeSync
  <2>3. \/ I # {} /\ EndWork(i)
        \/ I # {} /\ m_work_list' = [m_work_list EXCEPT ![i] = Recounted(m_work_list[i], -1)]
        \/ UNCHANGED m_work_list
    BY <1>10 DEF WorkerSyncDone
  <2> HIDE DEF I, i
  <2>4. I # {} => Recounted(m_work_list[i], -1).time = m_work_list[i].time
    BY <1>8, <2>1 DEF Recounted, Local_work_info
  <2> QED  BY <1>5, <1>6, <1>7, <2>1, <2>2, <2>3, <2>4
<1>11. ASSUME NEW a \in DemodWorkers, WorkerDemodDone(a) PROVE FrameOnce'
  <2> DEFINE I == UndergoingWorks(Head(demodToBroker[a]).work_id)
             i == First(I)
  <2>1. I # {} => i \in DOMAIN m_work_list
    BY WorkReported DEF TypeOK
  <2>2. UNCHANGED bufferToBroker /\ (UNCHANGED m_work_list \/ (I # {} /\ EndWork(i)))
    BY <1>11 DEF WorkerDemodDone
  <2> HIDE DEF I, i
  <2> QED  BY <1>5, <1>6, <2>1, <2>2
<1>12. CASE \/ FrontendRrh \/ KeepAlive
            \/ \E w \in SyncWorkers : WorkerReady(w) \/ ForwardReply(w)
  <2>1. UNCHANGED <<bufferToBroker, m_work_list>>
    BY <1>12 DEF FrontendRrh, RrhRequest, KeepAlive, WorkerReady, ForwardReply, ServeSync
  <2> QED  BY <1>5, <2>1
<1> QED  BY <1>2, <1>3, <1>4, <1>9, <1>10, <1>11, <1>12 DEF BrokerNext, FrontendBuffer, Backend

(* No step gives the time of a frame a second place.                       *)
LEMMA NextOnce ==
  ASSUME RequestsApart, TypeOK, FrameOnce, [Next]_vars
  PROVE  FrameOnce'
<1>1. CASE \/ \E w \in SyncWorkers : StartSync(w) \/ SyncStep(w)
           \/ \E r \in Rrhs : RrhStarts(r)
           \/ DemodStep \/ UNCHANGED vars
  <2>1. UNCHANGED <<rrhToBuffer, bufferToBroker, m_work_list, detected>>
    BY <1>1 DEF StartSync, SyncStep, SyncStart, SyncNext, SyncAck, SyncLateDone, SyncJob,
                SyncEndOfWork, SyncLosesFraming, SyncGiveUp, SyncFirstSamples, SendsToBroker,
                RrhStarts, RequestBuffer, BufferGranted, DemodStep, FrameFound, FrameDecoded,
                brokerVars, rrhVars, sockets, vars
  <2> QED  BY <2>1, StaysOnce
<1> QED  BY <1>1, BrokerOnce, BufferOnce, RrhOnce DEF Next

-----------------------------------------------------------------------------
(* Detections that may still become works                                  *)

(* A frame of time t is on its way or asked for.                           *)
OnWay(sent, asked, t) == ~NoneIn(sent, FramesOf(t)) \/ ~NoneIn(asked, RequestsOf(t))

(* No step opens a detection: what it puts on the way was undetected or on *)
(* the way before.                                                         *)
LEMMA OpenShrinks ==
  ASSUME RequestsApart, TypeOK, FrameOnce, [Next]_vars
  PROVE  Open' \subseteq Open
<1>1. /\ rrhToBuffer \in [Buffers -> Seq(Frame)]
      /\ bufferToBroker \in [Buffers -> Seq(BufferRequest)]
      /\ detected \in SUBSET Detections /\ Detections \subseteq [rrh : Rrhs, frame : Frame]
  BY RrhAssumption DEF TypeOK, SocketsTypeOK, RrhTypeOK
<1>2. \A e \in Detections : e.frame.time \in Times
  BY <1>1 DEF Frame
<1> DEFINE None(t) == OnePlace(rrhToBuffer, bufferToBroker, <<>>, t)
                        /\ NoPlace(rrhToBuffer, bufferToBroker, <<>>, t)
           Stays(t) == NoPlace(rrhToBuffer', bufferToBroker', <<>>, t)
<1>3. \A t \in Times : ~OnWay(rrhToBuffer, bufferToBroker, t) => None(t)
  BY DEF FrameOnce, OnePlace, NoPlace, OfTime, OnWay, AtMostOne
<1>4. \A t : Stays(t) => ~OnWay(rrhToBuffer', bufferToBroker', t)
  BY DEF NoPlace, OnWay
<1>5. /\ Open = {e \in Detections : e \notin detected \/ OnWay(rrhToBuffer, bufferToBroker, e.frame.time)}
      /\ Open' = {e \in Detections : e \notin detected' \/ OnWay(rrhToBuffer', bufferToBroker', e.frame.time)}
  BY DEF Open, OnWay
<1> HIDE DEF None, Stays
<1>6. ASSUME detected \subseteq detected', \A t \in Times : None(t) => Stays(t)
      PROVE  Open' \subseteq Open
  BY <1>2, <1>3, <1>4, <1>5, <1>6
<1>7. ASSUME NEW r \in Rrhs, RrhStep(r) PROVE Open' \subseteq Open
  <2>1. PICK d \in SUBSET Detections :
          /\ d \cap detected = {} /\ detected' = detected \cup d
          /\ \/ UNCHANGED rrhToBuffer
             \/ \E e \in d, b \in Buffers : rrhToBuffer' = Send(rrhToBuffer, b, e.frame)
    BY <1>7, RrhFinds DEF Finds
  <2>2. UNCHANGED bufferToBroker
    BY <1>7 DEF RrhStep, RrhStops, RrhDetects, RrhWork
  <2>3. CASE UNCHANGED rrhToBuffer
    BY <1>6, <2>1, <2>2, <2>3 DEF None, Stays
  <2>4. ASSUME NEW e \in d, NEW b \in Buffers, rrhToBuffer' = Send(rrhToBuffer, b, e.frame)
        PROVE  Open' \subseteq Open
    <3>1. e.frame \in Frame /\ e \in Open
      BY <1>1, <1>5, <2>1, <2>4
    <3>2. ASSUME NEW t \in Times, t # e.frame.time, None(t) PROVE Stays(t)
      <4>1. NoPlace(Send(rrhToBuffer, b, e.frame), bufferToBroker, <<>>, t)
        BY <1>1, <3>1, <3>2, PlacedSent DEF None
      <4> QED  BY <2>2, <2>4, <4>1 DEF Stays
    <3>3. ASSUME NEW x \in Detections, x # e PROVE x.frame.time # e.frame.time
      <4>1. Distance(x.frame.time, e.frame.time) > MAX_DELAY_TO_COMBINE
        BY <3>3, <2>4 DEF RequestsApart
      <4>2. e.frame.time \in Nat /\ MAX_DELAY_TO_COMBINE \in Nat
        BY <1>2, <2>4, SocketsAssumption, BrokerAssumption
      <4>3. x.frame.time = e.frame.time => Distance(x.frame.time, e.frame.time) = 0
        BY <4>2 DEF Distance
      <4> QED  BY <4>1, <4>2, <4>3
    <3>4. ASSUME NEW x \in Open', x # e PROVE x \in Open
      <4>1. x \in Detections /\ x.frame.time \in Times /\ x.frame.time # e.frame.time
        BY <1>2, <1>5, <3>3, <3>4
      <4> QED  BY <1>3, <1>4, <1>5, <2>1, <3>2, <3>4, <4>1
    <3> QED  BY <3>1, <3>4
  <2> QED  BY <2>1, <2>3, <2>4
<1>8. ASSUME NEW b \in Buffers, StartBuffer(b) \/ BufferStep(b) PROVE Open' \subseteq Open
  <2>1. UNCHANGED detected
    BY <1>8 DEF StartBuffer, BufferStep, rrhVars
  <2>2. CASE StartBuffer(b)
    <3>1. bufferToBroker' = Send(bufferToBroker, b, BufferReady) /\ UNCHANGED rrhToBuffer
      BY <2>2 DEF StartBuffer, BufferStart
    <3>2. ASSUME NEW t \in Times, None(t)
          PROVE  NoPlace(rrhToBuffer, Send(bufferToBroker, b, BufferReady), <<>>, t)
      BY <1>1, <3>2, PlacedReady DEF None
    <3> QED  BY <1>6, <2>1, <3>1, <3>2 DEF Stays
  <2>3. CASE BufferRequestsWorker(b)
    <3>1. /\ rrhToBuffer[b] # <<>> /\ rrhToBuffer' = Receive(rrhToBuffer, b)
          /\ bufferToBroker' = Send(bufferToBroker, b, NewFrame(Head(rrhToBuffer[b])))
      BY <2>3 DEF BufferRequestsWorker
    <3>2. ASSUME NEW t \in Times, None(t)
          PROVE  NoPlace(Receive(rrhToBuffer, b),
                         Send(bufferToBroker, b, NewFrame(Head(rrhToBuffer[b]))), <<>>, t)
      BY <1>1, <3>1, <3>2, PlacedAsked DEF None
    <3> QED  BY <1>6, <2>1, <3>1, <3>2 DEF Stays
  <2>4. CASE BufferAcked(b) \/ BufferSubscribed(b)
    <3>1. UNCHANGED <<rrhToBuffer, bufferToBroker>>
      BY <2>4 DEF BufferAcked, BufferSubscribed
    <3> QED  BY <1>6, <2>1, <3>1 DEF None, Stays
  <2> QED  BY <1>8, <2>2, <2>3, <2>4 DEF BufferStep, BufferNext
<1>9. CASE BrokerStep
  <2>1. UNCHANGED <<rrhToBuffer, detected>>
    BY <1>9 DEF BrokerStep, BrokerNext, FrontendRrh, FrontendBuffer, Backend, RrhRequest, RegisterBuffer,
           SpawnForFrame, ServeFrame, FinishAttribution, WorkerReady, ForwardReply, WorkerSyncDone,
           ServeSync, WorkerDemodDone, KeepAlive, rrhVars
  <2>2. \/ UNCHANGED bufferToBroker
        \/ \E b \in Buffers : bufferToBroker[b] # <<>> /\ bufferToBroker' = Receive(bufferToBroker, b)
    BY <1>9 DEF BrokerStep, BrokerNext, FrontendRrh, FrontendBuffer, Backend, RrhRequest, RegisterBuffer,
           SpawnForFrame, ServeFrame, AnnouncesFrame, FinishAttribution, WorkerReady, ForwardReply,
           WorkerSyncDone, ServeSync, WorkerDemodDone, KeepAlive
  <2>3. CASE UNCHANGED bufferToBroker
    BY <1>6, <2>1, <2>3 DEF None, Stays
  <2>4. ASSUME NEW b \in Buffers, bufferToBroker[b] # <<>>, bufferToBroker' = Receive(bufferToBroker, b)
        PROVE  Open' \subseteq Open
    <3>1. ASSUME NEW t \in Times, None(t)
          PROVE  NoPlace(rrhToBuffer, Receive(bufferToBroker, b), <<>>, t)
      <4>1. <<>> \in Seq(Local_work_info)
        OBVIOUS
      <4> QED  BY <1>1, <2>4, <3>1, <4>1, PlacedServed DEF None
    <3> QED  BY <1>6, <2>1, <2>4, <3>1 DEF Stays
  <2> QED  BY <2>2, <2>3, <2>4
<1>10. CASE \/ \E w \in SyncWorkers : StartSync(w) \/ SyncStep(w)
            \/ \E r \in Rrhs : RrhStarts(r)
            \/ DemodStep \/ UNCHANGED vars
  <2>1. UNCHANGED <<rrhToBuffer, bufferToBroker, detected>>
    BY <1>10 DEF StartSync, SyncStep, SyncStart, SyncNext, SyncAck, SyncLateDone, SyncJob,
                SyncEndOfWork, SyncLosesFraming, SyncGiveUp, SyncFirstSamples, SendsToBroker,
                RrhStarts, RequestBuffer, BufferGranted, DemodStep, FrameFound, FrameDecoded,
                rrhVars, sockets, vars
  <2> QED  BY <1>6, <2>1 DEF None, Stays
<1> QED  BY <1>7, <1>8, <1>9, <1>10 DEF Next

-----------------------------------------------------------------------------
(* Messages about a work                                                   *)

(* A message at the end of a queue.                                        *)
LEMMA MentionsAppend ==
  ASSUME NEW T, NEW s \in Seq(T), NEW m \in T, NEW type, NEW id
  PROVE  Mentions(Append(s, m), type, id)
           <=> Mentions(s, type, id) \/ (m.type = type /\ m.work_id = id)
<1> DEFINE t == Append(s, m)
           n == Len(s)
<1>1. /\ \A i \in DOMAIN s : t[i] = s[i]
      /\ t[n + 1] = m
      /\ DOMAIN t = DOMAIN s \cup {n + 1}
  BY Appended
<1> HIDE DEF t, n
<1> QED  BY <1>1 DEF Mentions, t

(* Messages at the end of a queue.                                         *)
LEMMA MentionsJoin ==
  ASSUME NEW T, NEW s \in Seq(T), NEW u \in Seq(T), NEW type, NEW id
  PROVE  Mentions(s \o u, type, id) <=> Mentions(s, type, id) \/ Mentions(u, type, id)
<1> DEFINE t == s \o u
           n == Len(s)
<1>1. /\ n \in Nat
      /\ \A i \in DOMAIN s : i \in DOMAIN t /\ t[i] = s[i]
      /\ \A i \in DOMAIN u : n + i \in DOMAIN t /\ t[n + i] = u[i]
      /\ \A i \in DOMAIN t : i \in DOMAIN s \/ i - n \in DOMAIN u
  BY Joined
<1>2. \A i \in DOMAIN t : i \in Int
  <2>1. t \in Seq(T)
    BY Joined
  <2> HIDE DEF t
  <2> QED  BY <2>1
<1>3. \A i \in DOMAIN t : n + (i - n) = i
  BY <1>1, <1>2
<1> HIDE DEF t, n
<1>4. ASSUME Mentions(t, type, id) PROVE Mentions(s, type, id) \/ Mentions(u, type, id)
  <2>1. PICK i \in DOMAIN t : t[i].type = type /\ t[i].work_id = id
    BY <1>4 DEF Mentions
  <2>2. CASE i \in DOMAIN s
    BY <1>1, <2>1, <2>2 DEF Mentions
  <2>3. CASE i - n \in DOMAIN u
    <3>1. u[i - n] = t[i]
      BY <1>1, <1>3, <2>1, <2>3
    <3> QED  BY <2>1, <2>3, <3>1 DEF Mentions
  <2> QED  BY <1>1, <2>1, <2>2, <2>3
<1>5. Mentions(s, type, id) => Mentions(t, type, id)
  BY <1>1 DEF Mentions
<1>6. ASSUME Mentions(u, type, id) PROVE Mentions(t, type, id)
  <2>1. PICK i \in DOMAIN u : u[i].type = type /\ u[i].work_id = id
    BY <1>6 DEF Mentions
  <2>2. n + i \in DOMAIN t /\ t[n + i] = u[i]
    BY <1>1, <2>1
  <2> QED  BY <2>1, <2>2 DEF Mentions
<1> QED  BY <1>4, <1>5, <1>6 DEF t

(* The first message of a queue, and the others.                           *)
LEMMA MentionsTail ==
  ASSUME NEW T, NEW s \in Seq(T), s # <<>>, NEW type, NEW id
  PROVE  Mentions(s, type, id)
           <=> Mentions(Tail(s), type, id) \/ (Head(s).type = type /\ Head(s).work_id = id)
<1> DEFINE t == Tail(s)
<1>1. /\ Head(s) = s[1] /\ 1 \in DOMAIN s
      /\ \A i \in DOMAIN t : i + 1 \in DOMAIN s /\ t[i] = s[i + 1]
      /\ \A i \in DOMAIN s : i # 1 => i - 1 \in DOMAIN t /\ t[i - 1] = s[i]
  BY Shifted
<1> HIDE DEF t
<1> QED  BY <1>1 DEF Mentions, t

-----------------------------------------------------------------------------
(* What a worker has sent                                                  *)

(* It sends something else than the end of a work.                         *)
LEMMA UpShapeJoin ==
  ASSUME NEW up \in Seq(SyncMessage), NEW s \in Seq(SyncMessage), UpShape(up),
         \A i \in DOMAIN s : s[i] \notin Dones
  PROVE  UpShape(up \o s)
<1> DEFINE u == up \o s
<1>1. Marked(u, Dones) = Marked(up, Dones)
  BY MarkedJoin
<1>2. \A i \in DOMAIN up : i \in DOMAIN u /\ u[i] = up[i]
  BY Joined
<1> HIDE DEF u
<1>3. Marked(up, {Ready}) \subseteq Marked(u, {Ready})
  BY <1>2 DEF Marked
<1> QED  BY <1>1, <1>3 DEF UpShape, u

(* It gives up a work, having announced itself before it got the job.      *)
LEMMA UpShapeReport ==
  ASSUME NEW up \in Seq(SyncMessage), UpShape(up), Marked(up, {Ready}) = {},
         NEW info, info.work_id \in WorkIds
  PROVE  Report(info) \in Seq(SyncMessage) /\ UpShape(up \o Report(info))
<1> DEFINE s == Report(info)
           u == up \o s
           n == Len(up)
<1>1. SyncDone(info.work_id) \in Dones /\ Ready \in SyncMessage /\ Ready \notin Dones
  BY DEF SyncDone, Ready, SyncMessage, Dones
<1>2. SyncDone(info.work_id) \in SyncMessage
  BY <1>1 DEF Dones
<1>3. /\ s \in Seq(SyncMessage) /\ DOMAIN s = {1, 2}
      /\ s[1] = SyncDone(info.work_id) /\ s[2] = Ready
  BY <1>1, <1>2 DEF Report
<1>4. Marked(up, Dones) = {}
  BY DEF UpShape
<1>5. Marked(s, Dones) = {1}
  BY <1>1, <1>3 DEF Marked
<1> HIDE DEF s
<1>6. AtMostOne(Marked(u, Dones))
  <2>1. AtMostOne(Marked(s, Dones))
    BY <1>5 DEF AtMostOne
  <2> QED  BY <1>3, <1>4, <2>1, MarkedBehind
<1>7. /\ n \in Nat
      /\ \A i \in DOMAIN up : u[i] = up[i]
      /\ \A i \in DOMAIN s : n + i \in DOMAIN u /\ u[n + i] = s[i]
      /\ \A i \in DOMAIN u : i \in DOMAIN up \/ i - n \in DOMAIN s
  BY <1>3, Joined
<1>8. \A i \in DOMAIN u : i \in Int
  <2>1. u \in Seq(SyncMessage)
    BY <1>3, Joined
  <2> HIDE DEF u
  <2> QED  BY <2>1
<1> HIDE DEF u, n
<1>9. ASSUME NEW i \in Marked(u, Dones) PROVE i < n + 2
  <2>1. i \in DOMAIN u /\ i \notin DOMAIN up
    BY <1>4, <1>7, <1>9 DEF Marked
  <2>2. i - n \in {1, 2} /\ i \in Int
    BY <1>3, <1>7, <1>8, <2>1
  <2>3. i = n + 2 => u[i] = Ready
    BY <1>3, <1>7
  <2>4. i # n + 2
    BY <1>1, <1>9, <2>3 DEF Marked
  <2> QED  BY <1>7, <2>2, <2>4
<1>10. n + 2 \in Marked(u, {Ready})
  BY <1>3, <1>7 DEF Marked
<1> QED  BY <1>3, <1>6, <1>9, <1>10 DEF UpShape, s, u

(* The broker reads the first message.                                     *)
LEMMA UpShapeTail ==
  ASSUME NEW up \in Seq(SyncMessage), UpShape(up), up # <<>>
  PROVE  UpShape(Tail(up))
<1> DEFINE t == Tail(up)
<1>1. AtMostOne(Marked(t, Dones))
  BY MarkedTail DEF UpShape
<1>2. /\ Head(up) = up[1] /\ 1 \in DOMAIN up
      /\ \A i \in DOMAIN t : i \in Nat /\ i + 1 \in DOMAIN up /\ t[i] = up[i + 1]
      /\ \A i \in DOMAIN up : i # 1 => i - 1 \in DOMAIN t /\ t[i - 1] = up[i]
  BY Shifted
<1>3. \A i \in DOMAIN t : i >= 1
  <2>1. t \in Seq(SyncMessage)
    BY Shifted
  <2> HIDE DEF t
  <2> QED  BY <2>1
<1>4. \A i \in DOMAIN up : i \in Nat
  OBVIOUS
<1> HIDE DEF t
<1>5. ASSUME NEW i \in Marked(t, Dones) PROVE \E j \in Marked(t, {Ready}) : j > i
  <2>1. i + 1 \in Marked(up, Dones) /\ i \in Nat /\ i >= 1
    BY <1>2, <1>3, <1>5 DEF Marked
  <2>2. PICK j \in Marked(up, {Ready}) : j > i + 1
    BY <2>1 DEF UpShape
  <2>3. j \in Nat /\ j # 1 /\ j - 1 > i
    BY <1>4, <2>1, <2>2 DEF Marked
  <2>4. j - 1 \in Marked(t, {Ready})
    BY <1>2, <2>2, <2>3 DEF Marked
  <2> QED  BY <2>3, <2>4
<1> QED  BY <1>1, <1>5 DEF UpShape, t

(* One that has reported the end of a work has announced itself.           *)
LEMMA OverReady ==
  ASSUME NEW up \in Seq(SyncMessage), UpShape(up), NEW id, Over(up, id)
  PROVE  Marked(up, {Ready}) # {}
<1>1. PICK j \in DOMAIN up : up[j].type = "SYNC_DONE"
  BY DEF Over, Mentions
<1>2. up[j] \in SyncMessage
  BY Element
<1>3. j \in Marked(up, Dones)
  BY <1>1, <1>2 DEF Marked, Dones
<1> QED  BY <1>3 DEF UpShape

-----------------------------------------------------------------------------
(* What a worker is sent                                                   *)

(* A message that is no DONE, and no job while another work is at hand.    *)
LEMMA OwnEndAppend ==
  ASSUME NEW down \in Seq(WorkerMessage), NEW hand, OwnEnd(down, hand),
         NEW m \in WorkerMessage, m.type # "DONE"
  PROVE  OwnEnd(Append(down, m), hand)
<1> DEFINE d == Append(down, m)
           n == Len(down)
<1>1. /\ n \in Nat /\ \A i \in DOMAIN down : d[i] = down[i] /\ i \in Int
      /\ d[n + 1] = m
      /\ DOMAIN d = DOMAIN down \cup {n + 1}
  BY Appended
<1> HIDE DEF d, n
<1> QED  BY <1>1 DEF OwnEnd, d

(* The end of the one work it has, or will have.                           *)
EndsOf(s, id) == \A j \in DOMAIN s : s[j].type = "DONE" /\ s[j].work_id = id
OnlyFor(down, hand, id) ==
  /\ \A x \in hand : x = id
  /\ \A i \in DOMAIN down : down[i].type = "JOB" => down[i].work_id = id

(* Messages for one work keep a stream that is for that work its own.       *)
LEMMA OwnEndJoin ==
  ASSUME NEW down \in Seq(WorkerMessage), NEW hand, OwnEnd(down, hand),
         NEW s \in Seq(WorkerMessage), NEW id, EndsOf(s, id), OnlyFor(down, hand, id)
  PROVE  OwnEnd(down \o s, hand)
<1> DEFINE d == down \o s
           n == Len(down)
<1>1. /\ n \in Nat
      /\ \A i \in DOMAIN down : i \in DOMAIN d /\ d[i] = down[i]
      /\ \A i \in DOMAIN s : n + i \in DOMAIN d /\ d[n + i] = s[i]
      /\ \A i \in DOMAIN d : i \in DOMAIN down \/ i - n \in DOMAIN s
  BY Joined
<1>2. \A i \in DOMAIN d : i \in Int
  <2>1. d \in Seq(WorkerMessage)
    BY Joined
  <2> HIDE DEF d
  <2> QED  BY <2>1
<1>3. \A i \in DOMAIN d : n + (i - n) = i
  BY <1>1, <1>2
<1> HIDE DEF d, n
<1> USE DEF EndsOf, OnlyFor
<1>4. \A i \in DOMAIN d : 
         (i \in DOMAIN down /\ d[i] = down[i]) \/ (d[i].type = "DONE" /\ d[i].work_id = id)
  BY <1>1, <1>3
<1>5. \A i \in DOMAIN d : d[i].type = "JOB" => d[i].work_id = id
  BY <1>4
<1>6. ASSUME NEW j \in DOMAIN d, d[j].type = "DONE", NEW x \in hand PROVE d[j].work_id = x
  BY <1>4, <1>6 DEF OwnEnd
<1>7. ASSUME NEW i \in DOMAIN d, NEW j \in DOMAIN d, i < j, d[i].type = "JOB", d[j].type = "DONE"
      PROVE  d[i].work_id = d[j].work_id
  <2>1. i \in DOMAIN down /\ d[i] = down[i]
    BY <1>4, <1>7
  <2>2. CASE j \in DOMAIN down /\ d[j] = down[j]
    BY <1>7, <2>1, <2>2 DEF OwnEnd
  <2>3. CASE d[j].work_id = id
    BY <1>5, <1>7, <2>3
  <2> QED  BY <1>4, <1>7, <2>2, <2>3
<1> QED  BY <1>6, <1>7 DEF OwnEnd, d

(* The worker reads a message, and takes up the work of a job.             *)
LEMMA OwnEndTail ==
  ASSUME NEW down \in Seq(WorkerMessage), NEW hand, OwnEnd(down, hand), down # <<>>
  PROVE  /\ OwnEnd(Tail(down), {})
         /\ Head(down).type = "JOB" => OwnEnd(Tail(down), {Head(down).work_id})
         /\ Head(down).type = "DONE" => \A id \in hand : Head(down).work_id = id
<1> DEFINE d == Tail(down)
<1>1. /\ Head(down) = down[1] /\ 1 \in DOMAIN down
      /\ \A i \in DOMAIN d : i \in Nat /\ i + 1 \in DOMAIN down /\ d[i] = down[i + 1]
  BY Shifted
<1>2. \A i \in DOMAIN d : i >= 1
  <2>1. d \in Seq(WorkerMessage)
    BY Shifted
  <2> HIDE DEF d
  <2> QED  BY <2>1
<1> HIDE DEF d
<1>3. \A i, j \in DOMAIN d : i < j /\ d[i].type = "JOB" /\ d[j].type = "DONE"
                                => d[i].work_id = d[j].work_id
  <2>1. \A i, j \in DOMAIN d : i < j => i + 1 < j + 1
    BY <1>1
  <2> QED  BY <1>1, <2>1 DEF OwnEnd
<1>4. ASSUME Head(down).type = "JOB", NEW j \in DOMAIN d, d[j].type = "DONE"
      PROVE  d[j].work_id = Head(down).work_id
  <2>1. 1 < j + 1
    BY <1>1, <1>2
  <2> QED  BY <1>1, <1>4, <2>1 DEF OwnEnd
<1> QED  BY <1>1, <1>3, <1>4 DEF OwnEnd, d

(* A worker that holds a work holds no other one.                          *)
LEMMA OneHeld ==
  ASSUME NEW w, NEW up, NEW pool, NEW down, NEW state, NEW hand, Typed(w, up, pool, down),
         OneToken(w, up, pool, down, state), UpShape(up),
         AtMostOne(hand), state # "WORKING" => hand = {},
         NEW id, Holds(down, hand, up, id)
  PROVE  /\ \A x \in hand : x = id
         /\ \A i \in DOMAIN down : down[i].type = "JOB" => down[i].work_id = id
         /\ ~JobFor(down, id) \/ (id \notin hand /\ ~Over(up, id))
         /\ id \notin hand \/ ~Over(up, id)
<1>1. up \in Seq(SyncMessage) /\ down \in Seq(WorkerMessage)
  BY DEF Typed
<1>2. \A i \in DOMAIN down : down[i].type = "JOB" => i \in Marked(down, Orders)
  <2>1. \A i \in DOMAIN down : down[i] \in WorkerMessage
    BY <1>1, Element
  <2> QED  BY <2>1 DEF Marked, Orders
<1>3. JobFor(down, id) => Marked(down, Orders) # {}
  BY <1>2 DEF JobFor, Mentions
<1>4. Over(up, id) => Marked(up, {Ready}) # {}
  BY <1>1, OverReady
<1>5. /\ AtMostOne(Marked(down, Orders))
      /\ Marked(up, {Ready}) # {} => Marked(down, Orders) = {} /\ state # "WORKING"
      /\ Marked(down, Orders) # {} => state # "WORKING"
  BY DEF OneToken
<1>6. ASSUME JobFor(down, id), NEW i \in DOMAIN down, down[i].type = "JOB" PROVE down[i].work_id = id
  <2>1. PICK j \in DOMAIN down : down[j].type = "JOB" /\ down[j].work_id = id
    BY <1>6 DEF JobFor, Mentions
  <2>2. i = j
    BY <1>2, <1>5, <1>6, <2>1 DEF AtMostOne
  <2> QED  BY <2>1, <2>2
<1> QED  BY <1>2, <1>3, <1>4, <1>5, <1>6 DEF Holds, AtMostOne

-----------------------------------------------------------------------------
(* Steps of the workers                                                    *)

(* What a worker adds to what it has sent.                                 *)
LEMMA UpSent ==
  ASSUME NEW up \in Seq(SyncMessage), UpShape(up)
  PROVE  /\ UpShape(up \o <<Ready>>) /\ \A id : Over(up \o <<Ready>>, id) <=> Over(up, id)
         /\ \A b \in Buffers : /\ UpShape(up \o <<Subscribed(b)>>)
                               /\ \A id : Over(up \o <<Subscribed(b)>>, id) <=> Over(up, id)
         /\ up \o <<>> = up
<1>1. ASSUME NEW m \in SyncMessage, m.type # "SYNC_DONE"
      PROVE  UpShape(up \o <<m>>) /\ \A id : Over(up \o <<m>>, id) <=> Over(up, id)
  <2> DEFINE s == <<m>>
  <2>1. /\ s \in Seq(SyncMessage) /\ DOMAIN s = {1} /\ s[1] = m
    BY <1>1
  <2>2. \A i \in DOMAIN s : s[i].type # "SYNC_DONE" /\ s[i] \notin Dones
    BY <1>1, <2>1 DEF Dones
  <2> HIDE DEF s
  <2>3. UpShape(up \o s)
    BY <2>1, <2>2, UpShapeJoin
  <2>4. ASSUME NEW id PROVE Over(up \o s, id) <=> Over(up, id)
    <3>1. Mentions(up \o s, "SYNC_DONE", id) <=> Mentions(up, "SYNC_DONE", id) \/ Mentions(s, "SYNC_DONE", id)
      BY <2>1, MentionsJoin
    <3>2. ~Mentions(s, "SYNC_DONE", id)
      BY <2>2 DEF Mentions
    <3> QED  BY <3>1, <3>2 DEF Over
  <2> QED  BY <2>3, <2>4 DEF s
<1>2. Ready \in SyncMessage /\ Ready.type # "SYNC_DONE"
  BY DEF Ready, SyncMessage
<1>3. \A b \in Buffers : Subscribed(b) \in SyncMessage /\ Subscribed(b).type # "SYNC_DONE"
  BY DEF Subscribed, SyncMessage
<1>4. up \o <<>> = up
  OBVIOUS
<1> HIDE DEF Ready, Subscribed
<1> QED  BY <1>1, <1>2, <1>3, <1>4

(* It reports the end of a work.                                           *)
LEMMA UpReported ==
  ASSUME NEW up \in Seq(SyncMessage), UpShape(up), Marked(up, {Ready}) = {},
         NEW info, info.work_id \in WorkIds
  PROVE  /\ UpShape(up \o Report(info))
         /\ \A id : Over(up \o Report(info), id) <=> Over(up, id) \/ info.work_id = id
<1> DEFINE s == Report(info)
<1>1. s \in Seq(SyncMessage) /\ UpShape(up \o s)
  BY UpShapeReport
<1>2. ASSUME NEW id PROVE Mentions(s, "SYNC_DONE", id) <=> info.work_id = id
  BY DEF Report, Mentions, SyncDone, Ready
<1> HIDE DEF s
<1>3. ASSUME NEW id PROVE Over(up \o s, id) <=> Over(up, id) \/ info.work_id = id
  <2>1. Mentions(up \o s, "SYNC_DONE", id) <=> Mentions(up, "SYNC_DONE", id) \/ Mentions(s, "SYNC_DONE", id)
    BY <1>1, MentionsJoin
  <2> QED  BY <1>2, <2>1 DEF Over
<1> QED  BY <1>1, <1>3 DEF s

(* What is left of what it was sent once it has read a message.            *)
LEMMA DownRead ==
  ASSUME NEW down \in Seq(WorkerMessage), down # <<>>
  PROVE  \A id : /\ JobFor(down, id) <=> \/ JobFor(Tail(down), id)
                                         \/ Head(down).type = "JOB" /\ Head(down).work_id = id
                 /\ EndOf(down, id) <=> \/ EndOf(Tail(down), id)
                                        \/ Head(down).type = "DONE" /\ Head(down).work_id = id
<1> TAKE id
<1>1. Mentions(down, "JOB", id)
         <=> Mentions(Tail(down), "JOB", id) \/ (Head(down).type = "JOB" /\ Head(down).work_id = id)
  BY MentionsTail
<1>2. Mentions(down, "DONE", id)
         <=> Mentions(Tail(down), "DONE", id) \/ (Head(down).type = "DONE" /\ Head(down).work_id = id)
  BY MentionsTail
<1> QED  BY <1>1, <1>2 DEF JobFor, EndOf

(* The works a worker has heard of, and the one it holds as long as it is  *)
(* not told of its end, when a step of a worker has been taken.            *)
Unheard(id) == \A v \in SyncWorkers : Heeds(v, id)' => Heeds(v, id)
StillHeld(id) ==
  \A v \in SyncWorkers :
    ~EndOf(brokerToSync[v], id) => /\ ~EndOf(brokerToSync[v], id)'
                                   /\ HoldsIt(v, id)' <=> HoldsIt(v, id)

(* One worker changes.                                                     *)
LEMMA OneMoves ==
  ASSUME WorkerInv, NEW w \in SyncWorkers,
         \A v \in SyncWorkers \ {w} :
            /\ syncToBroker'[v] = syncToBroker[v] /\ brokerToSync'[v] = brokerToSync[v]
            /\ m_state'[v] = m_state[v] /\ m_work_info'[v] = m_work_info[v]
            /\ stream'[v] = stream[v],
         WorkerOk(w)',
         \A id : /\ Heeds(w, id)' => Heeds(w, id)
                 /\ ~EndOf(brokerToSync[w], id) => /\ ~EndOf(brokerToSync[w], id)'
                                                   /\ HoldsIt(w, id)' <=> HoldsIt(w, id)
  PROVE  WorkerInv' /\ \A id : Unheard(id) /\ StillHeld(id)
<1>1. ASSUME NEW v \in SyncWorkers, v # w
      PROVE  /\ WorkerOk(v)' <=> WorkerOk(v)
             /\ \A id : /\ Heeds(v, id)' <=> Heeds(v, id)
                        /\ EndOf(brokerToSync[v], id)' <=> EndOf(brokerToSync[v], id)
                        /\ HoldsIt(v, id)' <=> HoldsIt(v, id)
  BY <1>1 DEF WorkerOk, Heeds, HoldsIt, InHand
<1> QED  BY <1>1 DEF WorkerInv, Unheard, StillHeld

(* What a worker does with messages and samples: it keeps its shape, hears *)
(* of no new work and holds the one it held, as long as it is not told of  *)
(* its end.                                                                *)
LEMMA SyncMoves ==
  ASSUME SocketsTypeOK, BrokerTypeOK, SyncTypeOK, TokenInv, WorkerInv, NEW w \in SyncWorkers,
         SyncStart(w) \/ SyncNext(w) \/ SyncFirstSamples(w)
  PROVE  WorkerInv' /\ \A id : Unheard(id) /\ StillHeld(id)
<1> DEFINE up == syncToBroker[w]
           down == brokerToSync[w]
           infos == m_work_info[w]
           hand == InHand(w)
           up2 == syncToBroker'[w]
           down2 == brokerToSync'[w]
           infos2 == m_work_info'[w]
           hand2 == InHand(w)'
           now == stream'[w]
<1>1. OneToken(w, up, m_sync_worker_pool, down, m_state[w])
  BY DEF TokenInv
<1>2. /\ syncToBroker \in [SyncWorkers -> Seq(SyncMessage)]
      /\ brokerToSync \in [SyncWorkers -> Seq(WorkerMessage)]
      /\ m_state \in [SyncWorkers -> SyncStates]
      /\ m_work_info \in [SyncWorkers -> SUBSET Work_info]
      /\ stream \in [SyncWorkers -> SUBSET Work_info]
      /\ \A info \in infos : info.work_id \in WorkIds
  BY DEF SocketsTypeOK, SyncTypeOK, Work_info
<1>3. /\ AtMostOne(infos) /\ UpShape(up) /\ OwnEnd(down, hand)
      /\ hand = {info.work_id : info \in {x \in infos : m_state[w] = "WORKING"}}
      /\ hand2 = {info.work_id : info \in {x \in infos2 : m_state'[w] = "WORKING"}}
  BY DEF WorkerInv, WorkerOk, InHand
<1>4. \A v \in SyncWorkers \ {w} : /\ syncToBroker'[v] = syncToBroker[v]
                                   /\ brokerToSync'[v] = brokerToSync[v]
                                   /\ m_state'[v] = m_state[v]
                                   /\ m_work_info'[v] = m_work_info[v]
                                   /\ stream'[v] = stream[v]
  BY <1>2 DEF SyncStart, SyncNext, SyncAck, SyncLateDone, SyncJob, SyncEndOfWork,
              SyncLosesFraming, SyncGiveUp, SyncFirstSamples, SendsToBroker, Told, Receive,
              syncVars, sockets
<1>5. /\ down # <<>> => /\ OwnEnd(Tail(down), {})
                        /\ Head(down).type = "JOB" => OwnEnd(Tail(down), {Head(down).work_id})
                        /\ Head(down).type = "DONE" => \A id \in hand : Head(down).work_id = id
      /\ OwnEnd(down, {})
  BY <1>2, <1>3, OwnEndTail DEF OwnEnd
<1>6. m_state[w] = "WORKING" => Marked(up, {Ready}) = {}
  BY <1>1 DEF OneToken
<1> DEFINE Read == down # <<>> => \A id :
             /\ JobFor(down, id) <=> \/ JobFor(Tail(down), id)
                                     \/ Head(down).type = "JOB" /\ Head(down).work_id = id
             /\ EndOf(down, id) <=> \/ EndOf(Tail(down), id)
                                    \/ Head(down).type = "DONE" /\ Head(down).work_id = id
           Sent == /\ UpShape(up \o <<Ready>>) /\ \A id : Over(up \o <<Ready>>, id) <=> Over(up, id)
                   /\ \A b \in Buffers : /\ UpShape(up \o <<Subscribed(b)>>)
                                         /\ \A id : Over(up \o <<Subscribed(b)>>, id) <=> Over(up, id)
                   /\ up \o <<>> = up
<1>7. Read
  BY <1>2, DownRead
<1>8. Sent
  BY <1>2, <1>3, UpSent
<1> HIDE DEF up, down, infos, hand, up2, down2, infos2, hand2, now, Read, Sent
<1> DEFINE Hears(d, u, works, id) ==
             \/ JobFor(d, id) \/ EndOf(d, id) \/ Over(u, id)
             \/ \E info \in works : info.work_id = id
           Result == /\ AtMostOne(infos2) /\ UpShape(up2) /\ OwnEnd(down2, hand2)
                     /\ \A id : Hears(down2, up2, infos2 \cup now, id)
                                  => Hears(down, up, infos \cup stream[w], id)
                     /\ \A id : ~EndOf(down, id) =>
                          /\ ~EndOf(down2, id)
                          /\ Holds(down2, hand2, up2, id) <=> Holds(down, hand, up, id)
<1>9. ASSUME Result PROVE WorkerInv' /\ \A id : Unheard(id) /\ StillHeld(id)
  <2>1. WorkerOk(w)' <=> AtMostOne(infos2) /\ UpShape(up2) /\ OwnEnd(down2, hand2)
    BY DEF WorkerOk, up2, down2, infos2, hand2
  <2>2. \A id : /\ Heeds(w, id)' <=> Hears(down2, up2, infos2 \cup now, id)
                /\ Heeds(w, id) <=> Hears(down, up, infos \cup stream[w], id)
    BY DEF Heeds, up, down, infos, up2, down2, infos2, now
  <2>3. \A id : /\ HoldsIt(w, id)' <=> Holds(down2, hand2, up2, id)
                /\ HoldsIt(w, id) <=> Holds(down, hand, up, id)
                /\ EndOf(brokerToSync[w], id) <=> EndOf(down, id)
                /\ EndOf(brokerToSync[w], id)' <=> EndOf(down2, id)
    BY DEF HoldsIt, up, down, hand, up2, down2, hand2
  <2> HIDE DEF Hears
  <2>4. WorkerOk(w)'
    BY <1>9, <2>1
  <2>5. \A id : /\ Heeds(w, id)' => Heeds(w, id)
                /\ ~EndOf(brokerToSync[w], id) =>
                     /\ ~EndOf(brokerToSync[w], id)'
                     /\ HoldsIt(w, id)' <=> HoldsIt(w, id)
    <3> TAKE id
    <3>1. Heeds(w, id)' => Heeds(w, id)
      <4>1. Hears(down2, up2, infos2 \cup now, id) => Hears(down, up, infos \cup stream[w], id)
        BY <1>9
      <4> QED  BY <2>2, <4>1
    <3>2. ~EndOf(down, id) =>
            /\ ~EndOf(down2, id)
            /\ Holds(down2, hand2, up2, id) <=> Holds(down, hand, up, id)
      BY <1>9
    <3> QED  BY <2>3, <3>1, <3>2
  <2> QED  BY <1>4, <2>4, <2>5, OneMoves
<1>10. CASE SyncStart(w) \/ SyncAck(w) \/ SyncLateDone(w)
  <2>1. /\ m_state[w] # "WORKING" /\ m_state'[w] # "WORKING" /\ infos2 = infos /\ now = stream[w]
        /\ up2 = up \o <<Ready>> \/ up2 = up \o <<>>
        /\ \/ down2 = down
           \/ down # <<>> /\ down2 = Tail(down) /\ Head(down).type # "JOB"
    BY <1>2, <1>10 DEF SyncStart, SyncAck, SyncLateDone, SendsToBroker, Idle, Receive, syncVars,
       up, down, infos, up2, down2, infos2, now
  <2>2. hand = {} /\ hand2 = {}
    BY <1>3, <2>1
  <2>3. UpShape(up2) /\ \A id : Over(up2, id) <=> Over(up, id)
    BY <1>3, <1>8, <2>1 DEF Sent
  <2>4. OwnEnd(down2, {})
    BY <1>5, <2>1
  <2>5. \A id : /\ JobFor(down2, id) <=> JobFor(down, id)
                /\ EndOf(down2, id) => EndOf(down, id)
    BY <1>7, <2>1 DEF Read
  <2>6. Result
    BY <1>3, <2>1, <2>2, <2>3, <2>4, <2>5 DEF Holds
  <2> QED  BY <1>9, <2>6
<1>11. CASE SyncJob(w)
  <2> DEFINE job == Head(down)
             info == [work_id |-> job.work_id, demod |-> job.demod, pub |-> job.pub]
  <2>1. /\ m_state[w] # "WORKING" /\ m_state'[w] = "WORKING" /\ infos2 = {info} /\ now = stream[w]
        /\ up2 = up \o <<Subscribed(job.client)>>
        /\ down # <<>> /\ down2 = Tail(down) /\ job.type = "JOB"
    BY <1>2, <1>11 DEF SyncJob, SendsToBroker, Idle, Receive, up, down, infos, up2, down2, infos2, now
  <2>2. hand = {} /\ hand2 = {job.work_id}
    <3>1. info.work_id = job.work_id
      OBVIOUS
    <3> HIDE DEF job, info
    <3> QED  BY <1>3, <2>1, <3>1
  <2>3. job.client \in Buffers
    <3>1. job \in WorkerMessage
      BY <1>2, <2>1, HeadTailProperties DEF down
    <3> QED  BY <2>1, <3>1 DEF WorkerMessage, JobMessage
  <2>4. UpShape(up2) /\ \A id : Over(up2, id) <=> Over(up, id)
    BY <1>8, <2>1, <2>3 DEF Sent
  <2>5. \A id : /\ JobFor(down, id) <=> JobFor(down2, id) \/ job.work_id = id
                /\ EndOf(down2, id) => EndOf(down, id)
    BY <1>7, <2>1 DEF Read
  <2>6. OwnEnd(down2, hand2)
    BY <1>5, <2>1, <2>2
  <2>7. AtMostOne(infos2) /\ \A x \in infos2 : x.work_id = job.work_id
    BY <2>1 DEF AtMostOne
  <2> HIDE DEF job, info
  <2>8. \A id : Hears(down2, up2, infos2 \cup now, id) => Hears(down, up, infos \cup stream[w], id)
    BY <2>1, <2>4, <2>5, <2>7
  <2>9. \A id : Holds(down2, hand2, up2, id) <=> Holds(down, hand, up, id)
    BY <2>2, <2>4, <2>5 DEF Holds
  <2>10. Result
    BY <2>4, <2>5, <2>6, <2>7, <2>8, <2>9
  <2> QED  BY <1>9, <2>10
<1>12. CASE SyncEndOfWork(w)
  <2>1. /\ m_state[w] = "WORKING" /\ m_state'[w] = "IDLE" /\ infos2 = infos /\ now = stream[w]
        /\ up2 = up \o <<Ready>>
        /\ down # <<>> /\ down2 = Tail(down) /\ Head(down).type = "DONE"
    BY <1>2, <1>12 DEF SyncEndOfWork, SendsToBroker, Told, Receive, up, down, infos, up2, down2, infos2, now
  <2>2. hand2 = {} /\ \A id \in hand : Head(down).work_id = id
    BY <1>3, <1>5, <2>1
  <2>3. UpShape(up2) /\ \A id : Over(up2, id) <=> Over(up, id)
    BY <1>8, <2>1 DEF Sent
  <2>4. \A id : /\ JobFor(down, id) <=> JobFor(down2, id)
                /\ EndOf(down, id) <=> EndOf(down2, id) \/ Head(down).work_id = id
    BY <1>7, <2>1 DEF Read
  <2>5. \A id : ~EndOf(down, id) => id \notin hand
    BY <2>2, <2>4
  <2>6. Result
    BY <1>3, <1>5, <2>1, <2>2, <2>3, <2>4, <2>5 DEF Holds
  <2> QED  BY <1>9, <2>6
<1>13. CASE SyncLosesFraming(w) \/ SyncGiveUp(w)
  <2>1. /\ m_state[w] = "WORKING" /\ m_state'[w] # "WORKING" /\ infos2 = infos /\ now = stream[w]
        /\ \E info \in infos : up2 = up \o Report(info)
        /\ \/ down2 = down
           \/ down # <<>> /\ down2 = Tail(down) /\ Head(down).type # "JOB"
    BY <1>2, <1>13 DEF SyncLosesFraming, SyncGiveUp, SendsToBroker, Told, Receive,
       up, down, infos, up2, down2, infos2, now
  <2>2. PICK info \in infos : up2 = up \o Report(info)
    BY <2>1
  <2>3. hand = {info.work_id} /\ hand2 = {}
    BY <1>3, <2>1 DEF AtMostOne
  <2>4. UpShape(up2) /\ \A id : Over(up2, id) <=> Over(up, id) \/ info.work_id = id
    <3>1. info.work_id \in WorkIds /\ up \in Seq(SyncMessage)
      BY <1>2 DEF up
    <3> QED  BY <1>3, <1>6, <2>1, <2>2, <3>1, UpReported
  <2>5. OwnEnd(down2, {})
    BY <1>5, <2>1
  <2>6. \A id : /\ JobFor(down2, id) <=> JobFor(down, id)
                /\ EndOf(down2, id) => EndOf(down, id)
    BY <1>7, <2>1 DEF Read
  <2>7. \A id : Hears(down2, up2, infos2 \cup now, id) => Hears(down, up, infos \cup stream[w], id)
    BY <2>1, <2>2, <2>4, <2>6
  <2>8. \A id : Holds(down2, hand2, up2, id) <=> Holds(down, hand, up, id)
    BY <2>3, <2>4, <2>6 DEF Holds
  <2>9. Result
    BY <1>3, <2>1, <2>3, <2>4, <2>5, <2>6, <2>7, <2>8
  <2> QED  BY <1>9, <2>9
<1>14. CASE SyncFirstSamples(w)
  <2>1. /\ up2 = up /\ down2 = down /\ infos2 = infos /\ m_state' = m_state
        /\ now = infos
    BY <1>2, <1>14 DEF SyncFirstSamples, sockets, up, down, infos, up2, down2, infos2, now
  <2>2. hand2 = hand
    BY <1>3, <2>1
  <2>3. Result
    BY <1>3, <2>1, <2>2
  <2> QED  BY <1>9, <2>3
<1> QED  BY <1>10, <1>11, <1>12, <1>13, <1>14 DEF SyncNext

-----------------------------------------------------------------------------
(* What the broker sends to its workers and reads of them                  *)

workerVars == <<m_state, m_work_info, stream>>

(* Queues that keep their shape.                                           *)
LEMMA QueuesMove ==
  ASSUME WorkerInv, UNCHANGED workerVars,
         \A v \in SyncWorkers : /\ UpShape(syncToBroker'[v])
                                /\ OwnEnd(brokerToSync'[v], InHand(v))
  PROVE  WorkerInv'
<1> SUFFICES ASSUME NEW v \in SyncWorkers PROVE WorkerOk(v)'
  BY DEF WorkerInv
<1>1. AtMostOne(m_work_info[v]) /\ UpShape(syncToBroker'[v]) /\ OwnEnd(brokerToSync'[v], InHand(v))
  BY DEF WorkerInv, WorkerOk
<1>2. InHand(v)' = InHand(v) /\ m_work_info' = m_work_info
  BY DEF InHand, workerVars
<1> QED  BY <1>1, <1>2 DEF WorkerOk

(* Queues that say of a work no more than before, or the same.             *)
LEMMA QueuesSay ==
  ASSUME NEW id, UNCHANGED workerVars,
         \A v \in SyncWorkers : /\ JobFor(brokerToSync'[v], id) => JobFor(brokerToSync[v], id)
                                /\ EndOf(brokerToSync'[v], id) => EndOf(brokerToSync[v], id)
                                /\ Over(syncToBroker'[v], id) => Over(syncToBroker[v], id)
  PROVE  /\ Unheard(id)
         /\ (\A v \in SyncWorkers : /\ JobFor(brokerToSync[v], id) => JobFor(brokerToSync'[v], id)
                                    /\ Over(syncToBroker[v], id) => Over(syncToBroker'[v], id))
               => StillHeld(id)
<1>1. \A v \in SyncWorkers : InHand(v)' = InHand(v)
  BY DEF InHand, workerVars
<1>2. Unheard(id)
  BY DEF Unheard, Heeds, workerVars
<1> QED  BY <1>1, <1>2 DEF StillHeld, HoldsIt, Holds

(* The workers of the pool are asked whether they are still there.         *)
LEMMA KeepAliveMoves ==
  ASSUME SocketsTypeOK, WorkerInv, KeepWorkersAlive, UNCHANGED workerVars, UNCHANGED syncToBroker
  PROVE  WorkerInv' /\ \A id : Unheard(id) /\ StillHeld(id)
<1>1. Ack \in WorkerMessage /\ Ack.type = "ACK"
  BY DEF Ack, WorkerMessage
<1> HIDE DEF Ack
<1>2. ASSUME NEW v \in SyncWorkers
      PROVE  /\ OwnEnd(brokerToSync'[v], InHand(v))
             /\ \A id : /\ JobFor(brokerToSync'[v], id) <=> JobFor(brokerToSync[v], id)
                        /\ EndOf(brokerToSync'[v], id) <=> EndOf(brokerToSync[v], id)
  <2>1. \/ brokerToSync'[v] = brokerToSync[v]
        \/ brokerToSync'[v] = Append(brokerToSync[v], Ack)
    BY DEF KeepWorkersAlive
  <2>2. OwnEnd(brokerToSync[v], InHand(v)) /\ brokerToSync[v] \in Seq(WorkerMessage)
    BY DEF WorkerInv, WorkerOk, SocketsTypeOK
  <2>3. OwnEnd(Append(brokerToSync[v], Ack), InHand(v))
    BY <1>1, <2>2, OwnEndAppend
  <2>4. ASSUME NEW id
        PROVE  /\ JobFor(Append(brokerToSync[v], Ack), id) <=> JobFor(brokerToSync[v], id)
               /\ EndOf(Append(brokerToSync[v], Ack), id) <=> EndOf(brokerToSync[v], id)
    <3>1. \A type \in {"JOB", "DONE"} : Mentions(Append(brokerToSync[v], Ack), type, id)
            <=> Mentions(brokerToSync[v], type, id) \/ (Ack.type = type /\ Ack.work_id = id)
      BY <1>1, <2>2, MentionsAppend
    <3> QED  BY <1>1, <3>1 DEF JobFor, EndOf
  <2> QED  BY <2>1, <2>2, <2>3, <2>4
<1>3. WorkerInv'
  BY <1>2, QueuesMove DEF WorkerInv, WorkerOk
<1> QED  BY <1>2, <1>3, QueuesSay

(* A message of a worker is read, but for the end of a work it says nothing.*)
LEMMA ReadSays ==
  ASSUME SocketsTypeOK, WorkerInv, NEW w \in SyncWorkers, syncToBroker[w] # <<>>,
         syncToBroker' = Receive(syncToBroker, w), NEW v \in SyncWorkers
  PROVE  /\ UpShape(syncToBroker'[v])
         /\ \A id : /\ Over(syncToBroker'[v], id) => Over(syncToBroker[v], id)
                    /\ \/ Head(syncToBroker[w]).type = "SYNC_DONE" /\ Head(syncToBroker[w]).work_id = id
                       \/ Over(syncToBroker[v], id) => Over(syncToBroker'[v], id)
<1>1. UpShape(syncToBroker[v]) /\ syncToBroker[v] \in Seq(SyncMessage)
  BY DEF WorkerInv, WorkerOk, SocketsTypeOK
<1>2. CASE v # w
  <2>1. syncToBroker'[v] = syncToBroker[v]
    BY <1>2 DEF Receive, SocketsTypeOK
  <2> QED  BY <1>1, <2>1
<1>3. CASE v = w
  <2>1. syncToBroker'[v] = Tail(syncToBroker[v]) /\ syncToBroker[v] # <<>>
    BY <1>3 DEF Receive, SocketsTypeOK
  <2>2. UpShape(Tail(syncToBroker[v]))
    BY <1>1, <2>1, UpShapeTail
  <2>3. ASSUME NEW id
        PROVE  Mentions(syncToBroker[v], "SYNC_DONE", id)
                 <=> \/ Mentions(Tail(syncToBroker[v]), "SYNC_DONE", id)
                     \/ Head(syncToBroker[v]).type = "SYNC_DONE" /\ Head(syncToBroker[v]).work_id = id
    BY <1>1, <2>1, MentionsTail
  <2> QED  BY <1>3, <2>1, <2>2, <2>3 DEF Over
<1> QED  BY <1>2, <1>3

(* The broker reads a message, and sends nothing to its workers.           *)
LEMMA ReadMoves ==
  ASSUME SocketsTypeOK, WorkerInv, NEW w \in SyncWorkers, syncToBroker[w] # <<>>,
         syncToBroker' = Receive(syncToBroker, w), UNCHANGED workerVars, UNCHANGED brokerToSync
  PROVE  /\ WorkerInv' /\ \A id : Unheard(id)
         /\ \A id : \/ Head(syncToBroker[w]).type = "SYNC_DONE" /\ Head(syncToBroker[w]).work_id = id
                    \/ StillHeld(id)
<1>1. WorkerInv'
  BY ReadSays, QueuesMove DEF WorkerInv, WorkerOk
<1>2. ASSUME NEW id
      PROVE  /\ Unheard(id)
             /\ \/ Head(syncToBroker[w]).type = "SYNC_DONE" /\ Head(syncToBroker[w]).work_id = id
                \/ StillHeld(id)
  <2>1. \A v \in SyncWorkers :
           /\ Over(syncToBroker'[v], id) => Over(syncToBroker[v], id)
           /\ \/ Head(syncToBroker[w]).type = "SYNC_DONE" /\ Head(syncToBroker[w]).work_id = id
              \/ Over(syncToBroker[v], id) => Over(syncToBroker'[v], id)
    BY ReadSays
  <2> QED  BY <2>1, QueuesSay
<1> QED  BY <1>1, <1>2

(* The first of the pool gets a job of a work that no worker has heard of. *)
LEMMA JobMoves ==
  ASSUME SocketsTypeOK, BrokerTypeOK, TokenInv, WorkerInv,
         m_sync_worker_pool # <<>>, NEW m \in WorkerMessage, m.type = "JOB",
         brokerToSync' = Send(brokerToSync, Head(m_sync_worker_pool), m),
         UNCHANGED workerVars, UNCHANGED syncToBroker
  PROVE  /\ Head(m_sync_worker_pool) \in SyncWorkers /\ WorkerInv'
         /\ \A id : id # m.work_id => Unheard(id) /\ StillHeld(id)
         /\ (\A v \in SyncWorkers : ~Heeds(v, m.work_id)) =>
              \A v \in SyncWorkers : /\ ~EndOf(brokerToSync'[v], m.work_id)
                                     /\ HoldsIt(v, m.work_id)' <=> v = Head(m_sync_worker_pool)
<1> DEFINE w == Head(m_sync_worker_pool)
           x == m.work_id
<1>1. w \in SyncWorkers /\ brokerToSync \in [SyncWorkers -> Seq(WorkerMessage)]
  BY HeadTailProperties DEF BrokerTypeOK, SocketsTypeOK
<1>2. \A v \in SyncWorkers : brokerToSync'[v] = IF v = w THEN Append(brokerToSync[v], m) ELSE brokerToSync[v]
  BY <1>1 DEF Send
<1>3. ASSUME NEW v \in SyncWorkers
      PROVE  /\ OwnEnd(brokerToSync'[v], InHand(v))
             /\ \A id : /\ JobFor(brokerToSync'[v], id) <=> \/ JobFor(brokerToSync[v], id)
                                                            \/ v = w /\ id = x
                        /\ EndOf(brokerToSync'[v], id) <=> EndOf(brokerToSync[v], id)
  <2>1. OwnEnd(brokerToSync[v], InHand(v))
    BY DEF WorkerInv, WorkerOk
  <2>2. OwnEnd(Append(brokerToSync[v], m), InHand(v))
    BY <1>1, <2>1, OwnEndAppend
  <2>3. ASSUME NEW id
        PROVE  /\ JobFor(Append(brokerToSync[v], m), id) <=> JobFor(brokerToSync[v], id) \/ id = x
               /\ EndOf(Append(brokerToSync[v], m), id) <=> EndOf(brokerToSync[v], id)
    <3>1. \A type \in {"JOB", "DONE"} : Mentions(Append(brokerToSync[v], m), type, id)
            <=> Mentions(brokerToSync[v], type, id) \/ (m.type = type /\ m.work_id = id)
      BY <1>1, MentionsAppend
    <3> QED  BY <3>1 DEF JobFor, EndOf
  <2> QED  BY <1>2, <2>1, <2>2, <2>3
<1>4. WorkerInv'
  BY <1>3, QueuesMove DEF WorkerInv, WorkerOk
<1> HIDE DEF w, x
<1>5. \A id : id # x => Unheard(id) /\ StillHeld(id)
  BY <1>3, QueuesSay
<1>6. ASSUME \A v \in SyncWorkers : ~Heeds(v, x), NEW v \in SyncWorkers
      PROVE  ~EndOf(brokerToSync'[v], x) /\ (HoldsIt(v, x)' <=> v = w)
  <2>1. /\ ~JobFor(brokerToSync[v], x) /\ ~EndOf(brokerToSync[v], x) /\ ~Over(syncToBroker[v], x)
        /\ \A info \in m_work_info[v] : info.work_id # x
    BY <1>6 DEF Heeds
  <2>2. JobFor(brokerToSync'[v], x) <=> v = w
    BY <1>3, <2>1
  <2>3. x \notin InHand(v)' /\ ~Over(syncToBroker'[v], x)
    BY <2>1 DEF InHand, workerVars
  <2> QED  BY <1>3, <2>1, <2>2, <2>3 DEF HoldsIt, Holds
<1> QED  BY <1>1, <1>4, <1>5, <1>6 DEF w, x

(* The worker of a work is told of its end.                                *)
LEMMA EndMoves ==
  ASSUME SocketsTypeOK, BrokerTypeOK, TokenInv, WorkerInv,
         NEW i \in 1 .. Len(m_work_list), EndWork(i), Served(m_work_list[i]),
         UNCHANGED workerVars,
         \/ UNCHANGED syncToBroker
         \/ \E w \in SyncWorkers : /\ syncToBroker[w] # <<>> /\ syncToBroker' = Receive(syncToBroker, w)
                                   /\ Head(syncToBroker[w]).work_id = m_work_list[i].work_id
  PROVE  /\ WorkerInv' /\ \E v \in SyncWorkers : Heeds(v, m_work_list[i].work_id)
         /\ \A id : id # m_work_list[i].work_id => Unheard(id) /\ StillHeld(id)
<1> DEFINE work == m_work_list[i]
           x == work.work_id
<1>1. PICK w \in SyncWorkers :
        /\ work.worker_id = [v \in SyncWorkers |-> IF v = w THEN 1 ELSE 0]
        /\ \A v \in SyncWorkers : HoldsIt(v, x) <=> v = w
  BY DEF Served
<1>2. ASSUME NEW v \in SyncWorkers
      PROVE  /\ OwnEnd(brokerToSync'[v], InHand(v))
             /\ \A id : /\ JobFor(brokerToSync'[v], id) <=> JobFor(brokerToSync[v], id)
                        /\ id # x => (EndOf(brokerToSync'[v], id) => EndOf(brokerToSync[v], id))
  <2> DEFINE s == DonesFor(work, v)
             down == brokerToSync[v]
             hand == InHand(v)
             up == syncToBroker[v]
  <2>1. /\ s \in Seq(WorkerMessage)
        /\ \A j \in DOMAIN s : s[j].type = "DONE" /\ s[j].work_id = x
        /\ brokerToSync'[v] = down \o s
    BY DonesSent
  <2>2. v # w => DOMAIN s = {}
    BY <1>1 DEF DonesFor
  <2>3. OwnEnd(down, hand) /\ down \in Seq(WorkerMessage) /\ UpShape(up) /\ AtMostOne(m_work_info[v])
    BY DEF WorkerInv, WorkerOk, SocketsTypeOK
  <2>4. hand = {info.work_id : info \in {y \in m_work_info[v] : m_state[v] = "WORKING"}}
    BY DEF InHand
  <2>5. OneToken(v, up, m_sync_worker_pool, down, m_state[v]) /\ Typed(v, up, m_sync_worker_pool, down)
    BY AllTyped DEF TokenInv
  <2>6. v = w => Holds(down, hand, up, x)
    BY <1>1 DEF HoldsIt
  <2> HIDE DEF s, down, hand, up, work, x
  <2>7. AtMostOne(hand) /\ (m_state[v] # "WORKING" => hand = {})
    BY <2>3, <2>4 DEF AtMostOne
  <2>8. v = w => /\ \A y \in hand : y = x
                 /\ \A j \in DOMAIN down : down[j].type = "JOB" => down[j].work_id = x
    BY <2>3, <2>5, <2>6, <2>7, OneHeld
  <2>9. v # w => down \o s = down
    <3>1. v # w => s = <<>>
      BY <2>1, <2>2
    <3>2. down \o <<>> = down
      BY <2>3
    <3> QED  BY <3>1, <3>2
  <2>10. OwnEnd(down \o s, hand)
    <3>1. CASE v = w
      <4>1. OnlyFor(down, hand, x)
        BY <2>8, <3>1 DEF OnlyFor
      <4>2. EndsOf(s, x)
        BY <2>1 DEF EndsOf
      <4> QED  BY <2>1, <2>3, <4>1, <4>2, OwnEndJoin
    <3>2. CASE v # w
      BY <2>3, <2>9, <3>2
    <3> QED  BY <3>1, <3>2
  <2>11. ASSUME NEW id
         PROVE  /\ JobFor(down \o s, id) <=> JobFor(down, id)
                /\ id # x => (EndOf(down \o s, id) => EndOf(down, id))
    <3>1. \A type \in {"JOB", "DONE"} :
            Mentions(down \o s, type, id) <=> Mentions(down, type, id) \/ Mentions(s, type, id)
      BY <2>1, <2>3, MentionsJoin
    <3>2. ~Mentions(s, "JOB", id) /\ (id # x => ~Mentions(s, "DONE", id))
      BY <2>1 DEF Mentions
    <3> QED  BY <3>1, <3>2 DEF JobFor, EndOf
  <2> QED  BY <2>1, <2>10, <2>11 DEF down, hand
<1>3. ASSUME NEW v \in SyncWorkers
      PROVE  /\ UpShape(syncToBroker'[v])
             /\ \A id : id # x => (Over(syncToBroker'[v], id) <=> Over(syncToBroker[v], id))
  <2>1. CASE UNCHANGED syncToBroker
    BY <2>1 DEF WorkerInv, WorkerOk
  <2>2. ASSUME NEW u \in SyncWorkers, syncToBroker[u] # <<>>, syncToBroker' = Receive(syncToBroker, u),
               Head(syncToBroker[u]).work_id = x
        PROVE  /\ UpShape(syncToBroker'[v])
               /\ \A id : id # x => (Over(syncToBroker'[v], id) <=> Over(syncToBroker[v], id))
    <3>1. /\ UpShape(syncToBroker'[v])
          /\ \A id : /\ Over(syncToBroker'[v], id) => Over(syncToBroker[v], id)
                     /\ \/ Head(syncToBroker[u]).type = "SYNC_DONE" /\ Head(syncToBroker[u]).work_id = id
                        \/ Over(syncToBroker[v], id) => Over(syncToBroker'[v], id)
      BY <2>2, ReadSays
    <3> QED  BY <2>2, <3>1
  <2> QED  BY <2>1, <2>2
<1>4. WorkerInv'
  BY <1>2, <1>3, QueuesMove
<1>5. Heeds(w, x)
  <2>1. HoldsIt(w, x)
    BY <1>1
  <2> QED  BY <2>1 DEF HoldsIt, Holds, Heeds, InHand
<1> HIDE DEF work, x
<1>6. \A id : id # x => Unheard(id) /\ StillHeld(id)
  BY <1>2, <1>3, QueuesSay
<1> QED  BY <1>4, <1>5, <1>6 DEF work, x

-----------------------------------------------------------------------------
(* Works                                                                   *)

(* A work that is served, and one that waits for its worker.               *)
LEMMA ServedStays ==
  ASSUME NEW work, Served(work), StillHeld(work.work_id)
  PROVE  Served(work)'
BY DEF Served, StillHeld

(* A request goes on waiting for a work that does not begin.                *)
LEMMA WaitingStays ==
  ASSUME NEW work, NEW q, Waiting(work, q), Begun(work.work_id)' => Begun(work.work_id)
  PROVE  Waiting(work, q)'
BY DEF Waiting

(* Workers go on with the works of the list.                               *)
LEMMA WorksStay ==
  ASSUME WorksInv, Distinct, UNCHANGED <<m_work_list, pending>>,
         \A id : (Begun(id)' => Begun(id)) /\ (Listed(id) => StillHeld(id))
  PROVE  WorksInv' /\ Distinct' /\ \A id : Listed(id)' <=> Listed(id)
<1>1. Distinct' /\ \A id : Listed(id)' <=> Listed(id)
  BY DEF Distinct, Listed
<1>2. ASSUME NEW i \in DOMAIN m_work_list, pending = <<>> \/ i # Last PROVE Served(m_work_list[i])'
  <2>1. PICK work : work = m_work_list[i]
    OBVIOUS
  <2>2. StillHeld(work.work_id) /\ Served(work)
    BY <1>2, <2>1 DEF WorksInv, Listed
  <2>3. Served(work)' /\ work = m_work_list'[i]
    BY <2>1, <2>2, ServedStays
  <2> QED  BY <2>3
<1>3. ASSUME pending # <<>> PROVE m_work_list # <<>> /\ Waiting(m_work_list[Last], Head(pending))'
  <2>1. PICK work : work = m_work_list[Last]
    OBVIOUS
  <2>2. PICK q : q = Head(pending)
    OBVIOUS
  <2>3. m_work_list # <<>> /\ Waiting(work, q)
    BY <1>3, <2>1, <2>2 DEF WorksInv
  <2>4. Waiting(work, q)' /\ work = m_work_list[Last]' /\ q = Head(pending)'
    BY <2>1, <2>2, <2>3, WaitingStays DEF Last
  <2> QED  BY <2>3, <2>4
<1> QED  BY <1>1, <1>2, <1>3 DEF WorksInv, Last

(* A work ends, of which a worker has heard.                               *)
LEMMA WorksFewer ==
  ASSUME BrokerTypeOK, WorksInv, Distinct, NEW i \in DOMAIN m_work_list,
         m_work_list' = Without(m_work_list, i), UNCHANGED pending,
         Begun(m_work_list[i].work_id), \A id : Begun(id)' => Begun(id),
         \A id : id # m_work_list[i].work_id => StillHeld(id)
  PROVE  WorksInv' /\ Distinct' /\ \A id : Listed(id)' => Listed(id)
<1>1. LeftOf(m_work_list, i, m_work_list')
  BY WithoutAt DEF BrokerTypeOK
<1>2. /\ \A j \in DOMAIN m_work_list' : /\ Kept(i, j) \in DOMAIN m_work_list \ {i}
                                        /\ m_work_list'[j] = m_work_list[Kept(i, j)]
      /\ \A j, k \in DOMAIN m_work_list' : Kept(i, j) = Kept(i, k) => j = k
      /\ i # Last => Last' \in DOMAIN m_work_list' /\ Kept(i, Last') = Last
  BY <1>1 DEF LeftOf, Last
<1>3. \A k \in DOMAIN m_work_list : k # i => m_work_list[k].work_id # m_work_list[i].work_id
  BY DEF Distinct
<1>4. Distinct'
  <2>1. \A j, k \in DOMAIN m_work_list' : m_work_list'[j].work_id = m_work_list'[k].work_id => j = k
    BY <1>2 DEF Distinct
  <2> QED  BY <2>1 DEF Distinct
<1>5. \A id : Listed(id)' => Listed(id)
  BY <1>2 DEF Listed
<1>6. ASSUME NEW j \in DOMAIN m_work_list', pending = <<>> \/ j # Last'
      PROVE  Served(m_work_list[j])'
  <2>1. PICK work : work = m_work_list[Kept(i, j)]
    OBVIOUS
  <2>2. pending = <<>> \/ Kept(i, j) # Last
    BY <1>2, <1>6
  <2>3. Served(work) /\ StillHeld(work.work_id)
    BY <1>2, <1>3, <2>1, <2>2 DEF WorksInv
  <2>4. Served(work)' /\ work = m_work_list'[j]
    BY <1>2, <2>1, <2>3, ServedStays
  <2> QED  BY <2>4
<1>7. ASSUME pending # <<>> PROVE m_work_list' # <<>> /\ Waiting(m_work_list[Last], Head(pending))'
  <2>1. PICK work : work = m_work_list[Last]
    OBVIOUS
  <2>2. PICK q : q = Head(pending)
    OBVIOUS
  <2>3. Waiting(work, q)
    BY <1>7, <2>1, <2>2 DEF WorksInv
  <2>4. i # Last
    BY <2>1, <2>3 DEF Waiting
  <2>5. m_work_list' # <<>> /\ work = m_work_list'[Last']
    BY <1>2, <2>1, <2>4
  <2>6. Waiting(work, q)' /\ q = Head(pending)'
    BY <2>2, <2>3, WaitingStays
  <2> QED  BY <2>5, <2>6
<1> QED  BY <1>4, <1>5, <1>6, <1>7 DEF WorksInv

(* A work is added with an id no other one has.                            *)
LEMMA WorksMore ==
  ASSUME BrokerTypeOK, WorksInv, Distinct, pending = <<>>, NEW work \in Local_work_info,
         m_work_list' = Append(m_work_list, work), ~Listed(work.work_id),
         \A id : id # work.work_id => StillHeld(id),
         \/ pending' = <<>> /\ Served(work)'
         \/ \E q \in Request : pending' = <<q>> /\ Waiting(work, q)'
  PROVE  WorksInv' /\ Distinct' /\ \A id : Listed(id)' <=> Listed(id) \/ id = work.work_id
<1> DEFINE n == Len(m_work_list)
<1>1. /\ \A i \in DOMAIN m_work_list : m_work_list'[i] = m_work_list[i] /\ i # n + 1
      /\ m_work_list'[n + 1] = work
      /\ DOMAIN m_work_list' = DOMAIN m_work_list \cup {n + 1}
      /\ Last' = n + 1
  BY Appended DEF BrokerTypeOK, Last
<1> HIDE DEF n
<1>2. Distinct'
  <2>1. \A j, k \in DOMAIN m_work_list' : m_work_list'[j].work_id = m_work_list'[k].work_id => j = k
    BY <1>1 DEF Distinct, Listed
  <2> QED  BY <2>1 DEF Distinct
<1>3. \A id : Listed(id)' <=> Listed(id) \/ id = work.work_id
  BY <1>1 DEF Listed
<1>4. ASSUME NEW i \in DOMAIN m_work_list PROVE Served(m_work_list[i])'
  <2>1. PICK x : x = m_work_list[i]
    OBVIOUS
  <2>2. Served(x) /\ StillHeld(x.work_id)
    BY <2>1 DEF WorksInv, Listed
  <2>3. Served(x)' /\ x = m_work_list'[i]
    BY <1>1, <2>1, <2>2, ServedStays
  <2> QED  BY <2>3
<1>5. CASE pending' = <<>> /\ Served(work)'
  <2>1. ASSUME NEW i, i = n + 1 PROVE Served(m_work_list[i])'
    BY <1>1, <1>5, <2>1
  <2>2. \A i \in DOMAIN m_work_list' : Served(m_work_list[i])'
    BY <1>1, <1>4, <2>1
  <2> QED  BY <1>2, <1>3, <1>5, <2>2 DEF WorksInv
<1>6. ASSUME NEW q \in Request, pending' = <<q>>, Waiting(work, q)' PROVE WorksInv'
  <2>1. m_work_list' # <<>> /\ Head(pending') = q
    BY <1>1, <1>6
  <2>2. Waiting(m_work_list[Last], Head(pending))'
    BY <1>1, <1>6, <2>1
  <2> QED  BY <1>1, <1>4, <2>1, <2>2 DEF WorksInv
<1> QED  BY <1>2, <1>3, <1>5, <1>6

(* The work that waited gets its worker.                                   *)
LEMMA WorksServed ==
  ASSUME BrokerTypeOK, WorksInv, Distinct, pending # <<>>, pending' = <<>>,
         NEW work, work.work_id = m_work_list[Last].work_id,
         m_work_list' = [m_work_list EXCEPT ![Last] = work],
         \A id : id # work.work_id => StillHeld(id), Served(work)'
  PROVE  WorksInv' /\ Distinct' /\ \A id : Listed(id)' <=> Listed(id)
<1>1. Last \in DOMAIN m_work_list
  BY EmptySeq DEF WorksInv, BrokerTypeOK, Last
<1>2. /\ DOMAIN m_work_list' = DOMAIN m_work_list /\ m_work_list'[Last] = work
      /\ \A i \in DOMAIN m_work_list : i # Last => m_work_list'[i] = m_work_list[i]
  BY <1>1
<1>3. \A i \in DOMAIN m_work_list : m_work_list'[i].work_id = m_work_list[i].work_id
  BY <1>2
<1>4. Distinct'
  <2>1. \A j, k \in DOMAIN m_work_list' : m_work_list'[j].work_id = m_work_list'[k].work_id => j = k
    BY <1>2, <1>3 DEF Distinct
  <2> QED  BY <2>1 DEF Distinct
<1>5. \A id : Listed(id)' <=> Listed(id)
  BY <1>2, <1>3 DEF Listed
<1>6. ASSUME NEW i \in DOMAIN m_work_list PROVE Served(m_work_list[i])'
  <2>1. CASE i = Last
    BY <1>2, <2>1
  <2>2. CASE i # Last
    <3>1. PICK x : x = m_work_list[i]
      OBVIOUS
    <3>2. Served(x) /\ StillHeld(x.work_id)
      BY <1>1, <2>2, <3>1 DEF WorksInv, Distinct
    <3>3. Served(x)' /\ x = m_work_list'[i]
      BY <1>2, <2>2, <3>1, <3>2, ServedStays
    <3> QED  BY <3>3
  <2> QED  BY <2>1, <2>2
<1> QED  BY <1>2, <1>4, <1>5, <1>6 DEF WorksInv

-----------------------------------------------------------------------------
(* Work ids                                                                *)

(* There are finitely many detections, and counters count.                 *)
LEMMA OpenCounted ==
  ASSUME RequestsApart, TypeOK
  PROVE  /\ IsFiniteSet(Open) /\ Cardinality(Open) \in Nat
         /\ Open # {} => Cardinality(Open) >= 1
         /\ \A S \in SUBSET Open : IsFiniteSet(S) /\ Cardinality(S) \in Nat /\ Cardinality(S) <= Cardinality(Open)
         /\ m_last_work_id \in 0 .. (WORK_ID_RANGE - 1) /\ WORK_ID_RANGE \in Nat /\ WORK_ID_RANGE >= 1
<1>1. Open \in SUBSET Detections /\ IsFiniteSet(Detections)
  BY DEF Open, RequestsApart
<1>2. IsFiniteSet(Open)
  BY <1>1, FS_Subset
<1>3. Open # {} => Cardinality(Open) # 0
  BY <1>2, FS_EmptySet
<1>4. \A S \in SUBSET Open : IsFiniteSet(S) /\ Cardinality(S) <= Cardinality(Open)
  BY <1>2, FS_Subset
<1>5. m_last_work_id \in 0 .. (WORK_ID_RANGE - 1) /\ WORK_ID_RANGE \in Nat /\ WORK_ID_RANGE >= 1
  BY SocketsAssumption DEF TypeOK, BrokerTypeOK, WorkIds
<1> HIDE DEF Open
<1>6. Cardinality(Open) \in Nat /\ \A S \in SUBSET Open : Cardinality(S) \in Nat
  BY <1>2, <1>4, FS_CardinalityType
<1> QED  BY <1>2, <1>3, <1>4, <1>5, <1>6

(* No id is taken.                                                         *)
LEMMA FreshStays ==
  ASSUME RequestsApart, TypeOK, Fresh, Open' \subseteq Open, UNCHANGED m_last_work_id,
         \A id \in WorkIds : Begun(id)' \/ Listed(id)' => Begun(id) \/ Listed(id)
  PROVE  Fresh'
<1>1. /\ Cardinality(Open) \in Nat /\ Cardinality(Open') \in Nat
      /\ Cardinality(Open') <= Cardinality(Open)
      /\ m_last_work_id \in Int /\ WORK_ID_RANGE \in Nat
  BY OpenCounted
<1>2. Open' # {} => Open # {}
  OBVIOUS
<1> QED  BY <1>1, <1>2 DEF Fresh

(* The next id is new as long as a detection may still become a work.      *)
LEMMA NextIsNew ==
  ASSUME TypeOK, Fresh, Open # {}
  PROVE  ~Begun(m_last_work_id) /\ ~Listed(m_last_work_id)
<1>1. m_last_work_id \in WorkIds /\ ~(m_last_work_id < m_last_work_id)
  BY SocketsAssumption DEF TypeOK, BrokerTypeOK, WorkIds
<1> QED  BY <1>1 DEF Fresh

(* It is taken by a detection that has become a work.                      *)
LEMMA FreshTaken ==
  ASSUME RequestsApart, TypeOK, Fresh, Open' \subseteq Open, NEW d \in Open, d \notin Open',
         m_last_work_id' = NextWorkId,
         \A id \in WorkIds : Begun(id)' \/ Listed(id)' =>
                               Begun(id) \/ Listed(id) \/ id = m_last_work_id
  PROVE  Fresh'
<1> DEFINE n == m_last_work_id
           N == WORK_ID_RANGE
           c == Cardinality(Open)
           k == Cardinality(Open')
           S == Open \ {d}
<1>1. n \in 0 .. (N - 1) /\ N \in Nat /\ N >= 1 /\ c \in Nat /\ IsFiniteSet(Open)
  BY OpenCounted
<1>2. Cardinality(S) = c - 1 /\ IsFiniteSet(S)
  BY <1>1, FS_RemoveElement
<1>3. k \in Nat /\ k <= c - 1
  <2>1. Open' \in SUBSET S
    OBVIOUS
  <2>2. k <= Cardinality(S)
    BY <1>2, <2>1, FS_Subset
  <2>3. k \in Nat
    BY OpenCounted
  <2> QED  BY <1>2, <2>2, <2>3
<1>4. ASSUME Open' # {} PROVE k >= 1
  <2>1. IsFiniteSet(Open')
    BY OpenCounted
  <2>2. k # 0
    BY <1>4, <2>1, FS_EmptySet
  <2> QED  BY <1>3, <2>2
<1>5. /\ n + c <= N
      /\ \A id \in WorkIds : Begun(id) \/ Listed(id) => id < n
  BY DEF Fresh
<1>6. m_last_work_id' = (n + 1) % N
  BY DEF NextWorkId
<1> SUFFICES ASSUME Open' # {}
             PROVE  /\ m_last_work_id' + k <= N
                    /\ \A id \in WorkIds : Begun(id)' \/ Listed(id)' => id < m_last_work_id'
  BY DEF Fresh
<1> HIDE DEF n, N, c, k, S
<1>7. n + 1 < N /\ n \in Nat
  BY <1>1, <1>3, <1>4, <1>5
<1>8. m_last_work_id' = n + 1
  BY <1>1, <1>6, <1>7
<1>9. m_last_work_id' + k <= N
  BY <1>1, <1>3, <1>5, <1>8
<1>10. ASSUME NEW id \in WorkIds, Begun(id)' \/ Listed(id)' PROVE id < m_last_work_id'
  <2>1. id < n \/ id = n
    BY <1>5, <1>10 DEF n
  <2>2. id \in Nat
    BY SocketsAssumption DEF WorkIds
  <2> QED  BY <1>7, <1>8, <2>1, <2>2
<1> QED  BY <1>9, <1>10

-----------------------------------------------------------------------------
(* Works that have begun                                                   *)

(* A work begins only by a worker that demodulates it.                      *)
LEMMA BegunStays ==
  ASSUME NEW id, Unheard(id) \/ Begun(id),
         \A a \in DemodWorkers : Demodulates(a, id)' => Demodulates(a, id)
  PROVE  Begun(id)' => Begun(id)
BY DEF Unheard, Begun

(* rx_combining takes up a stream, and its work is reported done.          *)
LEMMA DemodMoves ==
  ASSUME SocketsTypeOK, SyncTypeOK, DemodTypeOK, WorkerInv, DemodStep
  PROVE  WorkerInv' /\ \A id : (Begun(id)' => Begun(id)) /\ StillHeld(id)
<1>1. UNCHANGED <<syncToBroker, brokerToSync, m_state, m_work_info>>
  BY DEF DemodStep, FrameFound, FrameDecoded, sockets, syncVars
<1>2. WorkerInv' /\ \A id : StillHeld(id)
  BY <1>1 DEF WorkerInv, WorkerOk, InHand, StillHeld, HoldsIt
<1>3. ASSUME NEW w \in SyncWorkers, FrameFound(w), NEW id, Begun(id)' PROVE Begun(id)
  <2>1. PICK info \in stream[w] :
          /\ stream' = [stream EXCEPT ![w] = {}]
          /\ combining' = [combining EXCEPT ![info.demod] = IF @ = {} THEN {info.work_id} ELSE @]
          /\ UNCHANGED demodToBroker
    BY <1>3 DEF FrameFound, sockets
  <2>2. Heeds(w, info.work_id)
    BY <2>1 DEF Heeds
  <2>3. \A v \in SyncWorkers : stream'[v] \subseteq stream[v]
    BY <2>1 DEF SyncTypeOK
  <2>4. \A v \in SyncWorkers : Heeds(v, id)' => Heeds(v, id)
    BY <1>1, <2>3 DEF Heeds
  <2>5. \A a \in DemodWorkers : \A x \in combining'[a] : x \in combining[a] \/ x = info.work_id
    BY <2>1 DEF DemodTypeOK
  <2>6. \A a \in DemodWorkers : Demodulates(a, id)' => Demodulates(a, id) \/ id = info.work_id
    BY <2>1, <2>5 DEF Demodulates
  <2> QED  BY <1>3, <2>2, <2>4, <2>6 DEF Begun
<1>4. ASSUME NEW a \in DemodWorkers, FrameDecoded(a), NEW id, Begun(id)' PROVE Begun(id)
  <2>1. PICK x \in combining[a] :
          /\ combining' = [combining EXCEPT ![a] = {}]
          /\ demodToBroker' = Send(demodToBroker, a, DemodDone(x))
          /\ UNCHANGED stream
    BY <1>4 DEF FrameDecoded, syncVars
  <2>2. DemodDone(x) \in DemodMessage /\ DemodDone(x).work_id = x
    BY DEF DemodTypeOK, DemodDone, DemodMessage
  <2>3. demodToBroker \in [DemodWorkers -> Seq(DemodMessage)]
    BY DEF SocketsTypeOK
  <2>4. Mentions(Append(demodToBroker[a], DemodDone(x)), "DEMOD_DONE", id)
          => Mentions(demodToBroker[a], "DEMOD_DONE", id) \/ id = x
    <3>1. Mentions(Append(demodToBroker[a], DemodDone(x)), "DEMOD_DONE", id)
            <=> \/ Mentions(demodToBroker[a], "DEMOD_DONE", id)
                \/ DemodDone(x).type = "DEMOD_DONE" /\ DemodDone(x).work_id = id
      BY <2>2, <2>3, MentionsAppend
    <3> QED  BY <2>2, <3>1
  <2>5. ASSUME NEW c \in DemodWorkers, Demodulates(c, id)' PROVE \E e \in DemodWorkers : Demodulates(e, id)
    <3>1. CASE c = a
      <4>1. demodToBroker'[c] = Append(demodToBroker[a], DemodDone(x)) /\ combining'[c] = {}
        BY <2>1, <2>3, <3>1 DEF Send, DemodTypeOK
      <4> QED  BY <2>1, <2>4, <2>5, <3>1, <4>1 DEF Demodulates
    <3>2. CASE c # a
      <4>1. demodToBroker'[c] = demodToBroker[c] /\ combining'[c] = combining[c]
        BY <2>1, <2>3, <3>2 DEF Send, DemodTypeOK
      <4> QED  BY <2>5, <4>1 DEF Demodulates
    <3> QED  BY <3>1, <3>2
  <2>6. \A v \in SyncWorkers : Heeds(v, id)' => Heeds(v, id)
    BY <1>1, <2>1 DEF Heeds
  <2> QED  BY <1>4, <2>5, <2>6 DEF Begun
<1> QED  BY <1>2, <1>3, <1>4 DEF DemodStep

(* The broker reads that a work is done.                                   *)
LEMMA DemodRead ==
  ASSUME SocketsTypeOK, NEW a \in DemodWorkers, demodToBroker[a] # <<>>,
         demodToBroker' = Receive(demodToBroker, a), UNCHANGED combining
  PROVE  /\ Begun(Head(demodToBroker[a]).work_id)
         /\ \A id : \A c \in DemodWorkers : Demodulates(c, id)' => Demodulates(c, id)
<1>1. demodToBroker \in [DemodWorkers -> Seq(DemodMessage)]
  BY DEF SocketsTypeOK
<1>2. Head(demodToBroker[a]) \in DemodMessage
  BY <1>1, HeadTailProperties
<1>3. ASSUME NEW id
      PROVE  Mentions(demodToBroker[a], "DEMOD_DONE", id)
               <=> \/ Mentions(Tail(demodToBroker[a]), "DEMOD_DONE", id)
                   \/ Head(demodToBroker[a]).type = "DEMOD_DONE" /\ Head(demodToBroker[a]).work_id = id
  BY <1>1, MentionsTail
<1>4. Begun(Head(demodToBroker[a]).work_id)
  BY <1>2, <1>3 DEF DemodMessage, Begun, Demodulates
<1>5. \A c \in DemodWorkers : demodToBroker'[c] = IF c = a THEN Tail(demodToBroker[a]) ELSE demodToBroker[c]
  BY <1>1 DEF Receive
<1>6. ASSUME NEW id, NEW c \in DemodWorkers PROVE Demodulates(c, id)' => Demodulates(c, id)
  BY <1>3, <1>5 DEF Demodulates
<1> QED  BY <1>4, <1>6

-----------------------------------------------------------------------------
(* Frames apart, step by step                                              *)

(* A step that neither adds a work nor ends one.                           *)
LEMMA ApartGoOn ==
  ASSUME RequestsApart, TypeOK, ApartInv, [Next]_vars,
         UNCHANGED <<m_work_list, pending, m_last_work_id, undefined>>, WorkerInv',
         \A id : (Begun(id)' => Begun(id)) /\ (Listed(id) => StillHeld(id))
  PROVE  ApartInv'
<1>1. WorksInv' /\ Distinct' /\ \A id : Listed(id)' <=> Listed(id)
  BY WorksStay DEF ApartInv
<1>2. FrameOnce' /\ Open' \subseteq Open
  BY NextOnce, OpenShrinks DEF ApartInv
<1>3. Fresh'
  BY <1>1, <1>2, FreshStays DEF ApartInv
<1> QED  BY <1>1, <1>2, <1>3 DEF ApartInv, NeverUndefined

(* What no worker takes part in.                                           *)
LEMMA QuietStep ==
  ASSUME WorkerInv, UNCHANGED <<workerVars, syncToBroker, brokerToSync, demodToBroker, combining>>
  PROVE  WorkerInv' /\ \A id : (Begun(id)' => Begun(id)) /\ StillHeld(id)
<1>1. UNCHANGED <<m_state, m_work_info, stream>>
  BY DEF workerVars
<1>2. \A v \in SyncWorkers : InHand(v)' = InHand(v)
  BY <1>1 DEF InHand
<1> QED  BY <1>1, <1>2 DEF WorkerInv, WorkerOk, StillHeld, HoldsIt, Begun, Heeds, Demodulates

(* RRHs, buffers and demodulation workers, and no step at all.             *)
LEMMA ApartOthers ==
  ASSUME RequestsApart, TypeOK, ApartInv, [Next]_vars,
         \/ \E b \in Buffers : StartBuffer(b) \/ BufferStep(b)
         \/ \E r \in Rrhs : RrhStarts(r) \/ RrhStep(r)
         \/ DemodStep \/ UNCHANGED vars
  PROVE  ApartInv'
<1>1. UNCHANGED <<m_work_list, pending, m_last_work_id, undefined>>
  BY DEF StartBuffer, BufferStep, RrhStarts, RrhStep, DemodStep, brokerVars, vars
<1>2. WorkerInv' /\ \A id : (Begun(id)' => Begun(id)) /\ StillHeld(id)
  <2>1. CASE DemodStep
    BY <2>1, DemodMoves DEF TypeOK, ApartInv
  <2>2. CASE ~DemodStep
    <3>1. UNCHANGED <<workerVars, syncToBroker, brokerToSync, demodToBroker, combining>>
      BY <2>2 DEF StartBuffer, BufferStep, BufferStart, BufferNext, BufferAcked, BufferRequestsWorker,
             BufferSubscribed, RrhStarts, RrhStep, RequestBuffer, BufferGranted, RrhStops, RrhDetects,
             RrhWork, vars, syncVars, sockets, workerVars
    <3> QED  BY <3>1, QuietStep DEF ApartInv
  <2> QED  BY <2>1, <2>2
<1> QED  BY <1>1, <1>2, ApartGoOn

(* Synchronization workers.                                                *)
LEMMA ApartWorkers ==
  ASSUME RequestsApart, TypeOK, TokenInv, ApartInv, [Next]_vars,
         NEW w \in SyncWorkers, StartSync(w) \/ SyncStep(w)
  PROVE  ApartInv'
<1>1. /\ UNCHANGED <<m_work_list, pending, m_last_work_id, undefined, combining>>
      /\ SyncStart(w) \/ SyncNext(w) \/ SyncFirstSamples(w)
  BY DEF StartSync, SyncStep, brokerVars
<1>2. UNCHANGED demodToBroker
  BY <1>1 DEF SyncStart, SyncNext, SyncAck, SyncLateDone, SyncJob, SyncEndOfWork, SyncLosesFraming,
              SyncGiveUp, SyncFirstSamples, SendsToBroker, sockets
<1>3. WorkerInv' /\ \A id : Unheard(id) /\ StillHeld(id)
  BY <1>1, SyncMoves DEF TypeOK, ApartInv
<1>4. \A id : Begun(id)' => Begun(id)
  BY <1>1, <1>2, <1>3 DEF Begun, Unheard, Demodulates
<1> QED  BY <1>1, <1>3, <1>4, ApartGoOn

(* broker: RRHs and buffers come, and idle workers are asked.              *)
LEMMA ApartIdle ==
  ASSUME RequestsApart, TypeOK, ApartInv, [Next]_vars, UNCHANGED <<syncVars, combining>>,
         FrontendRrh \/ KeepAlive \/ \E b \in Buffers : RegisterBuffer(b)
  PROVE  ApartInv'
<1>1. /\ UNCHANGED <<m_work_list, pending, m_last_work_id, undefined>>
      /\ UNCHANGED <<syncToBroker, demodToBroker, combining>>
      /\ KeepWorkersAlive \/ UNCHANGED brokerToSync
  BY DEF FrontendRrh, RrhRequest, KeepAlive, RegisterBuffer, matching, demods
<1>2. UNCHANGED workerVars
  BY DEF syncVars, workerVars
<1>3. WorkerInv' /\ \A id : (Begun(id)' => Begun(id)) /\ StillHeld(id)
  <2>1. CASE UNCHANGED brokerToSync
    BY <1>1, <1>2, <2>1, QuietStep DEF ApartInv
  <2>2. CASE KeepWorkersAlive
    <3>1. WorkerInv' /\ \A id : Unheard(id) /\ StillHeld(id)
      BY <1>1, <1>2, <2>2, KeepAliveMoves DEF TypeOK, ApartInv
    <3> QED  BY <1>1, <3>1, BegunStays DEF Demodulates
  <2> QED  BY <1>1, <2>1, <2>2
<1> QED  BY <1>1, <1>3, ApartGoOn

(* broker: a worker announces itself or replies, or reports a work that    *)
(* has ended.                                                              *)
LEMMA ApartRead ==
  ASSUME RequestsApart, TypeOK, ApartInv, [Next]_vars, UNCHANGED <<syncVars, combining>>,
         NEW w \in SyncWorkers, syncToBroker[w] # <<>>, syncToBroker' = Receive(syncToBroker, w),
         UNCHANGED <<m_work_list, pending, m_last_work_id, undefined, brokerToSync, demodToBroker>>,
         Head(syncToBroker[w]).type = "SYNC_DONE" => ~Listed(Head(syncToBroker[w]).work_id)
  PROVE  ApartInv'
<1>1. UNCHANGED workerVars
  BY DEF syncVars, workerVars
<1>2. /\ WorkerInv' /\ \A id : Unheard(id)
      /\ \A id : \/ Head(syncToBroker[w]).type = "SYNC_DONE" /\ Head(syncToBroker[w]).work_id = id
                 \/ StillHeld(id)
  BY <1>1, ReadMoves DEF TypeOK, ApartInv
<1>3. \A id : Begun(id)' => Begun(id)
  BY <1>2, BegunStays DEF Demodulates
<1>4. \A id : Listed(id) => StillHeld(id)
  BY <1>2
<1> QED  BY <1>2, <1>3, <1>4, ApartGoOn

(* broker: a work that a worker has heard of is served, and has one worker. *)
LEMMA BegunServed ==
  ASSUME WorksInv, NEW i \in DOMAIN m_work_list, Begun(m_work_list[i].work_id)
  PROVE  Served(m_work_list[i]) /\ m_work_list[i].sync_worker_cnt = 1
<1>1. pending = <<>> \/ i # Last
  BY DEF WorksInv, Waiting
<1>2. Served(m_work_list[i])
  BY <1>1 DEF WorksInv
<1> QED  BY <1>2 DEF Served

(* broker: a work ends.                                                    *)
LEMMA ApartEnd ==
  ASSUME RequestsApart, TypeOK, TokenInv, ApartInv, [Next]_vars, UNCHANGED <<syncVars, combining>>,
         NEW i \in 1 .. Len(m_work_list), EndWork(i), Begun(m_work_list[i].work_id),
         UNCHANGED <<pending, m_last_work_id, undefined>>,
         \/ UNCHANGED syncToBroker
         \/ \E w \in SyncWorkers : /\ syncToBroker[w] # <<>> /\ syncToBroker' = Receive(syncToBroker, w)
                                   /\ Head(syncToBroker[w]).work_id = m_work_list[i].work_id,
         \A id : \A a \in DemodWorkers : Demodulates(a, id)' => Demodulates(a, id)
  PROVE  ApartInv'
<1>1. i \in DOMAIN m_work_list /\ m_work_list' = Without(m_work_list, i)
  BY EndedList DEF TypeOK, BrokerTypeOK
<1>2. Served(m_work_list[i])
  BY <1>1, BegunServed DEF ApartInv
<1>3. UNCHANGED workerVars
  BY DEF syncVars, workerVars
<1>4. /\ WorkerInv' /\ \A id : id # m_work_list[i].work_id => Unheard(id) /\ StillHeld(id)
  BY <1>2, <1>3, EndMoves DEF TypeOK, ApartInv
<1>5. \A id : Begun(id)' => Begun(id)
  BY <1>4, BegunStays
<1>6. WorksInv' /\ Distinct' /\ \A id : Listed(id)' => Listed(id)
  BY <1>1, <1>4, <1>5, WorksFewer DEF TypeOK, ApartInv
<1>7. FrameOnce' /\ Open' \subseteq Open
  BY NextOnce, OpenShrinks DEF ApartInv
<1>8. Fresh'
  BY <1>5, <1>6, <1>7, FreshStays DEF ApartInv
<1> QED  BY <1>4, <1>6, <1>7, <1>8 DEF ApartInv, NeverUndefined

(* broker: a synchronization worker reports that it is done.               *)
LEMMA ApartSyncDone ==
  ASSUME RequestsApart, TypeOK, TokenInv, ApartInv, [Next]_vars, UNCHANGED <<syncVars, combining>>,
         NEW w \in SyncWorkers, WorkerSyncDone(w)
  PROVE  ApartInv'
<1> DEFINE id == Head(syncToBroker[w]).work_id
           I == UndergoingWorks(id)
           i == First(I)
<1>1. /\ syncToBroker[w] # <<>> /\ Head(syncToBroker[w]).type = "SYNC_DONE"
      /\ syncToBroker' = Receive(syncToBroker, w)
      /\ UNCHANGED <<pending, m_last_work_id, undefined, demodToBroker>>
  BY DEF WorkerSyncDone, ServeSync
<1>2. \/ I # {} /\ m_work_list[i].sync_worker_cnt <= 1 /\ EndWork(i)
      \/ I # {} /\ m_work_list[i].sync_worker_cnt > 1
      \/ I = {} /\ UNCHANGED <<m_work_list, brokerToSync>>
  BY DEF WorkerSyncDone
<1>3. I # {} => i \in DOMAIN m_work_list /\ i \in 1 .. Len(m_work_list) /\ m_work_list[i].work_id = id
  BY WorkReported DEF TypeOK
<1>4. Over(syncToBroker[w], id)
  <2>1. 1 \in DOMAIN syncToBroker[w] /\ syncToBroker[w][1] = Head(syncToBroker[w])
    BY <1>1, Shifted DEF TypeOK, SocketsTypeOK
  <2> QED  BY <1>1, <2>1 DEF Over, Mentions
<1>5. Begun(id)
  BY <1>4 DEF Begun, Heeds
<1>6. \A x : \A a \in DemodWorkers : Demodulates(a, x)' => Demodulates(a, x)
  BY <1>1 DEF Demodulates
<1>7. I = {} => ~Listed(id)
  BY DEF UndergoingWorks, Listed
<1> HIDE DEF id, I, i
<1>8. CASE I # {}
  <2>1. Begun(m_work_list[i].work_id)
    BY <1>3, <1>5, <1>8
  <2>2. m_work_list[i].sync_worker_cnt = 1
    BY <1>3, <1>8, <2>1, BegunServed DEF ApartInv
  <2>3. EndWork(i)
    BY <1>2, <1>8, <2>2
  <2>4. Head(syncToBroker[w]).work_id = m_work_list[i].work_id
    BY <1>3, <1>8 DEF id
  <2> QED  BY <1>1, <1>3, <1>6, <1>8, <2>1, <2>3, <2>4, ApartEnd
<1>9. CASE I = {}
  BY <1>1, <1>2, <1>7, <1>9, ApartRead DEF id
<1> QED  BY <1>8, <1>9

(* broker: a demodulation worker reports that it is done.                  *)
LEMMA ApartDemodDone ==
  ASSUME RequestsApart, TypeOK, TokenInv, ApartInv, [Next]_vars, UNCHANGED <<syncVars, combining>>,
         NEW a \in DemodWorkers, WorkerDemodDone(a)
  PROVE  ApartInv'
<1> DEFINE id == Head(demodToBroker[a]).work_id
           I == UndergoingWorks(id)
           i == First(I)
<1>1. /\ demodToBroker[a] # <<>> /\ demodToBroker' = Receive(demodToBroker, a)
      /\ UNCHANGED <<pending, m_last_work_id, undefined, syncToBroker>>
      /\ \/ I # {} /\ EndWork(i)
         \/ UNCHANGED <<m_work_list, brokerToSync>>
  BY DEF WorkerDemodDone, matching
<1>2. I # {} => i \in DOMAIN m_work_list /\ i \in 1 .. Len(m_work_list) /\ m_work_list[i].work_id = id
  BY WorkReported DEF TypeOK
<1>3. Begun(id) /\ \A x : \A c \in DemodWorkers : Demodulates(c, x)' => Demodulates(c, x)
  BY <1>1, DemodRead DEF TypeOK
<1> HIDE DEF id, I, i
<1>4. CASE I # {} /\ EndWork(i)
  BY <1>1, <1>2, <1>3, <1>4, ApartEnd
<1>5. CASE UNCHANGED <<m_work_list, brokerToSync>>
  <2>1. UNCHANGED workerVars
    BY DEF syncVars, workerVars
  <2>2. UNCHANGED <<m_state, m_work_info, stream>>
    BY <2>1 DEF workerVars
  <2>3. \A v \in SyncWorkers : InHand(v)' = InHand(v)
    BY <2>2 DEF InHand
  <2>4. WorkerInv' /\ \A x : Unheard(x) /\ StillHeld(x)
    BY <1>1, <1>5, <2>2, <2>3 DEF ApartInv, WorkerInv, WorkerOk, StillHeld, HoldsIt, Unheard, Heeds
  <2>5. \A x : Begun(x)' => Begun(x)
    BY <1>3, <2>4, BegunStays
  <2> QED  BY <1>1, <1>5, <2>4, <2>5, ApartGoOn
<1> QED  BY <1>1, <1>4, <1>5

(* broker: a frame that is announced can become no other work.             *)
LEMMA OpenUsed ==
  ASSUME RequestsApart, TypeOK, FrameOnce, NEW b \in Buffers, AnnouncesFrame(b),
         UNCHANGED <<rrhToBuffer, detected>>
  PROVE  \E d \in Open : d \notin Open'
<1> DEFINE t == NewFrameOf(b).time
<1>1. /\ NewFrameOf(b) \in Frame
      /\ \E d \in detected : d.frame.time = t
  BY Uncombined
<1>2. /\ bufferToBroker[b] # <<>> /\ Head(bufferToBroker[b]).type = "NEW_FRAME"
      /\ Head(bufferToBroker[b]).frame.time = t
      /\ bufferToBroker' = Receive(bufferToBroker, b)
  BY DEF AnnouncesFrame, NewFrameOf
<1>3. OnePlace(rrhToBuffer, bufferToBroker, m_work_list, t)
  BY <1>1 DEF FrameOnce, Frame
<1>4. /\ bufferToBroker \in [Buffers -> Seq(BufferRequest)]
      /\ m_work_list \in Seq(Local_work_info)
      /\ detected \in SUBSET Detections
  BY DEF TypeOK, SocketsTypeOK, BrokerTypeOK, RrhTypeOK
<1> HIDE DEF t
<1>5. /\ NoneIn(rrhToBuffer, FramesOf(t)) /\ ~NoneIn(bufferToBroker, RequestsOf(t))
      /\ NoneIn(Receive(bufferToBroker, b), RequestsOf(t))
  <2>1. bufferToBroker[b] # <<>>
    BY <1>2
  <2>2. Head(bufferToBroker[b]).type = "NEW_FRAME" /\ Head(bufferToBroker[b]).frame.time = t =>
          /\ NoneIn(rrhToBuffer, FramesOf(t)) /\ OfTime(m_work_list, t) = {}
          /\ ~NoneIn(bufferToBroker, RequestsOf(t))
          /\ NoneIn(Receive(bufferToBroker, b), RequestsOf(t))
    BY <1>3, <1>4, <2>1, PlacedServed
  <2> QED  BY <1>2, <2>2
<1>6. PICK d \in detected : d.frame.time = t
  BY <1>1
<1>7. d \in Open
  BY <1>4, <1>5, <1>6 DEF Open
<1>8. NoneIn(rrhToBuffer', FramesOf(d.frame.time)) /\ NoneIn(bufferToBroker', RequestsOf(d.frame.time))
  BY <1>2, <1>5, <1>6
<1>9. d \notin Open'
  BY <1>6, <1>8 DEF Open
<1> QED  BY <1>7, <1>9

(* A work that gets its only worker.                                       *)
LEMMA OneWorker ==
  ASSUME NEW work \in Local_work_info, NEW w \in SyncWorkers,
         work.sync_worker_cnt = 0, work.worker_id = [v \in SyncWorkers |-> 0]
  PROVE  LET served == Recounted(WithWorker(work, w), 1)
         IN /\ served \in Local_work_info
            /\ served.work_id = work.work_id /\ served.buffers_id = work.buffers_id
            /\ served.sync_worker_cnt = 1
            /\ served.worker_id = [v \in SyncWorkers |-> IF v = w THEN 1 ELSE 0]
<1> DEFINE served == Recounted(WithWorker(work, w), 1)
<1>1. served \in Local_work_info
  BY WithWorkerType, RecountedType
<1>2. served = [work EXCEPT !.worker_id = [work.worker_id EXCEPT ![w] = @ + 1],
                            !.sync_worker_cnt = @ + 1]
  BY DEF Recounted, WithWorker, Local_work_info
<1>3. [work.worker_id EXCEPT ![w] = @ + 1] = [v \in SyncWorkers |-> IF v = w THEN 1 ELSE 0]
  OBVIOUS
<1> HIDE DEF served
<1>4. /\ served.work_id = work.work_id /\ served.buffers_id = work.buffers_id
      /\ served.sync_worker_cnt = 1
      /\ served.worker_id = [v \in SyncWorkers |-> IF v = w THEN 1 ELSE 0]
  BY <1>2, <1>3 DEF Local_work_info
<1> QED  BY <1>1, <1>4 DEF served

(* broker: a work is added that waits for its worker.                      *)
LEMMA ApartSpawn ==
  ASSUME RequestsApart, TypeOK, ApartInv, [Next]_vars, UNCHANGED <<syncVars, combining, detected>>,
         NEW b \in Buffers, SpawnForFrame(b)
  PROVE  ApartInv'
<1> DEFINE f == NewFrameOf(b)
<1>1. /\ AnnouncesFrame(b) /\ pending = <<>>
      /\ pending' = <<[buffer |-> b, frame |-> f]>>
      /\ UNCHANGED <<undefined, rrhToBuffer, syncToBroker, brokerToSync, demodToBroker>>
      /\ m_work_list' = WorksWith(b, f)
  BY DEF SpawnForFrame, AnnouncesFrame, NewFrameOf
<1>2. f \in Frame /\ Combinable(f) = {}
  BY <1>1, Uncombined DEF ApartInv
<1>3. /\ NewWork(b, f) \in Local_work_info /\ m_last_work_id' = NextWorkId
      /\ m_work_list' = Append(m_work_list, NewWork(b, f))
  BY <1>1, <1>2, NewWorkAlone
<1>4. PICK work \in Local_work_info : work = NewWork(b, f)
  BY <1>3
<1>5. PICK q \in Request : q = [buffer |-> b, frame |-> f]
  BY <1>2 DEF Request
<1>6. /\ work.work_id = m_last_work_id /\ work.buffers_id = <<q.buffer>>
      /\ work.channel_id = q.frame.channel /\ work.sync_worker_cnt = 0
      /\ work.worker_id = [v \in SyncWorkers |-> 0]
  BY <1>4, <1>5 DEF NewWork
<1> HIDE DEF f
<1>7. PICK d \in Open : d \notin Open'
  BY <1>1, OpenUsed DEF ApartInv
<1>8. ~Begun(work.work_id) /\ ~Listed(work.work_id)
  BY <1>6, <1>7, NextIsNew DEF ApartInv
<1>9. UNCHANGED <<workerVars, syncToBroker, brokerToSync, demodToBroker, combining>>
  BY <1>1 DEF syncVars, workerVars
<1>10. WorkerInv' /\ \A id : (Begun(id)' => Begun(id)) /\ StillHeld(id)
  BY <1>9, QuietStep DEF ApartInv
<1>11. Waiting(work, q)'
  BY <1>6, <1>8, <1>10 DEF Waiting
<1>12. WorksInv' /\ Distinct' /\ \A id : Listed(id)' <=> Listed(id) \/ id = work.work_id
  BY <1>1, <1>3, <1>4, <1>5, <1>8, <1>10, <1>11, WorksMore DEF TypeOK, ApartInv
<1>13. FrameOnce' /\ Open' \subseteq Open
  BY NextOnce, OpenShrinks DEF ApartInv
<1>14. Fresh'
  BY <1>3, <1>6, <1>7, <1>10, <1>12, <1>13, FreshTaken DEF ApartInv
<1> QED  BY <1>1, <1>10, <1>12, <1>13, <1>14 DEF ApartInv, NeverUndefined

(* broker: a work gets its worker, the first of the pool.                  *)
LEMMA JobServes ==
  ASSUME TypeOK, TokenInv, WorkerInv, UNCHANGED <<syncVars, combining, syncToBroker, demodToBroker>>,
         m_sync_worker_pool # <<>>, NEW m \in WorkerMessage, m.type = "JOB",
         brokerToSync' = Send(brokerToSync, Head(m_sync_worker_pool), m),
         ~Begun(m.work_id), NEW served, served.work_id = m.work_id,
         \E b \in Buffers : served.buffers_id = <<b>>,
         served.sync_worker_cnt = 1,
         served.worker_id = [v \in SyncWorkers |-> IF v = Head(m_sync_worker_pool) THEN 1 ELSE 0]
  PROVE  /\ WorkerInv' /\ Served(served)'
         /\ \A id : id # m.work_id => (Begun(id)' => Begun(id)) /\ StillHeld(id)
<1>1. UNCHANGED workerVars
  BY DEF syncVars, workerVars
<1>2. \A v \in SyncWorkers : ~Heeds(v, m.work_id)
  BY DEF Begun
<1>3. /\ Head(m_sync_worker_pool) \in SyncWorkers /\ WorkerInv'
      /\ \A id : id # m.work_id => Unheard(id) /\ StillHeld(id)
      /\ \A v \in SyncWorkers : /\ ~EndOf(brokerToSync'[v], m.work_id)
                                /\ HoldsIt(v, m.work_id)' <=> v = Head(m_sync_worker_pool)
  BY <1>1, <1>2, JobMoves DEF TypeOK
<1>4. PICK w \in SyncWorkers : w = Head(m_sync_worker_pool)
  BY <1>3
<1>5. Served(served)'
  BY <1>3, <1>4 DEF Served
<1>6. \A id : id # m.work_id => (Begun(id)' => Begun(id))
  BY <1>3, BegunStays DEF Demodulates
<1> QED  BY <1>3, <1>5, <1>6

(* broker: a work is added and gets its worker at once.                    *)
LEMMA ApartServe ==
  ASSUME RequestsApart, TypeOK, TokenInv, ApartInv, [Next]_vars,
         UNCHANGED <<syncVars, combining, detected>>, NEW b \in Buffers, ServeFrame(b)
  PROVE  ApartInv'
<1> DEFINE f == NewFrameOf(b)
<1>1. /\ AnnouncesFrame(b) /\ pending = <<>> /\ pending' = <<>>
      /\ UNCHANGED <<undefined, rrhToBuffer, syncToBroker, demodToBroker>>
  BY DEF ServeFrame, AnnouncesFrame, matching
<1>2. f \in Frame /\ Combinable(f) = {}
  BY <1>1, Uncombined DEF ApartInv
<1>3. NewWork(b, f) \in Local_work_info /\ m_last_work_id' = NextWorkId
  BY <1>2, NewWorkAlone
<1>4. /\ m_sync_worker_pool # <<>>
      /\ m_work_list' = Append(m_work_list, NewServed(b))
      /\ \E addr \in DemodWorkers :
           brokerToSync' = Send(brokerToSync, Head(m_sync_worker_pool), Job(m_last_work_id, addr, b, b))
  BY <1>2, ServedAlone
<1>5. /\ NewServed(b) \in Local_work_info /\ NewServed(b).work_id = m_last_work_id
      /\ NewServed(b).buffers_id = <<b>> /\ NewServed(b).sync_worker_cnt = 1
      /\ NewServed(b).worker_id = [v \in SyncWorkers |-> IF v = Head(m_sync_worker_pool) THEN 1 ELSE 0]
  BY <1>2, <1>3, <1>4, NewWorkParts
<1> HIDE DEF f
<1>6. PICK m \in WorkerMessage :
        /\ m.type = "JOB" /\ m.work_id = m_last_work_id
        /\ brokerToSync' = Send(brokerToSync, Head(m_sync_worker_pool), m)
  <2>1. m_last_work_id \in WorkIds
    BY DEF TypeOK, BrokerTypeOK
  <2> QED  BY <1>4, <2>1 DEF Job, WorkerMessage, JobMessage
<1>7. PICK work \in Local_work_info :
        /\ m_work_list' = Append(m_work_list, work) /\ work.work_id = m.work_id
        /\ \E c \in Buffers : work.buffers_id = <<c>>
        /\ work.sync_worker_cnt = 1
        /\ work.worker_id = [v \in SyncWorkers |-> IF v = Head(m_sync_worker_pool) THEN 1 ELSE 0]
  BY <1>4, <1>5, <1>6
<1>8. PICK d \in Open : d \notin Open'
  BY <1>1, OpenUsed DEF ApartInv
<1>9. ~Begun(m.work_id) /\ ~Listed(work.work_id)
  BY <1>6, <1>7, <1>8, NextIsNew DEF ApartInv
<1>10. /\ WorkerInv' /\ Served(work)'
       /\ \A id : id # m.work_id => (Begun(id)' => Begun(id)) /\ StillHeld(id)
  BY <1>1, <1>4, <1>6, <1>7, <1>9, JobServes DEF ApartInv
<1>11. WorksInv' /\ Distinct' /\ \A id : Listed(id)' <=> Listed(id) \/ id = work.work_id
  BY <1>1, <1>7, <1>9, <1>10, WorksMore DEF TypeOK, ApartInv
<1>12. FrameOnce' /\ Open' \subseteq Open
  BY NextOnce, OpenShrinks DEF ApartInv
<1>13. Fresh'
  BY <1>3, <1>6, <1>7, <1>8, <1>10, <1>11, <1>12, FreshTaken DEF ApartInv
<1> QED  BY <1>1, <1>10, <1>11, <1>12, <1>13 DEF ApartInv, NeverUndefined

(* broker: the work that waited gets its worker.  The loop comes back to   *)
(* the last work of the list, which is still the one it added.             *)
LEMMA ApartFinish ==
  ASSUME RequestsApart, TypeOK, TokenInv, ApartInv, [Next]_vars,
         UNCHANGED <<syncVars, combining>>, FinishAttribution
  PROVE  ApartInv'
<1> DEFINE q == Head(pending)
           last == m_work_list[Last]
           worker == Head(m_sync_worker_pool)
<1>1. /\ pending # <<>> /\ m_work_list # <<>> /\ Waiting(last, q)
  BY DEF FinishAttribution, ApartInv, WorksInv
<1>2. /\ m_sync_worker_pool # <<>> /\ ForwardJob(m_work_list, q.buffer, q.frame)
      /\ pending' = <<>>
      /\ UNCHANGED <<undefined, m_last_work_id, syncToBroker, demodToBroker>>
  BY <1>1 DEF FinishAttribution, demods
<1>3. m_work_list \in Seq(Local_work_info) /\ worker \in SyncWorkers /\ q \in Request
  BY <1>1, <1>2, HeadTailProperties DEF TypeOK, BrokerTypeOK
<1>4. Last \in DOMAIN m_work_list /\ last \in Local_work_info
  BY <1>1, <1>3, EmptySeq, Element DEF Last
<1>5. /\ q.buffer \in Buffers /\ last.buffers_id = <<q.buffer>>
      /\ last.sync_worker_cnt = 0 /\ last.worker_id = [v \in SyncWorkers |-> 0]
      /\ ~Begun(last.work_id)
      /\ last.work_id \in WorkIds /\ last.demod_worker_addr \in DemodWorkers
  BY <1>1, <1>3, <1>4 DEF Waiting, Request, Local_work_info
<1> HIDE DEF q, last, worker
<1>6. last.buffers_id[Len(last.buffers_id)] = q.buffer
  BY <1>5
<1>7. /\ m_work_list' = [m_work_list EXCEPT ![Last] = Recounted(WithWorker(last, worker), 1)]
      /\ brokerToSync' = Send(brokerToSync, worker,
                              Job(last.work_id, last.demod_worker_addr, q.buffer, q.buffer))
  BY <1>2, <1>6 DEF ForwardJob, Last, last, worker
<1>8. PICK m \in WorkerMessage :
        /\ m.type = "JOB" /\ m.work_id = last.work_id
        /\ brokerToSync' = Send(brokerToSync, worker, m)
  BY <1>5, <1>7 DEF Job, WorkerMessage, JobMessage
<1>9. PICK work \in Local_work_info :
        /\ m_work_list' = [m_work_list EXCEPT ![Last] = work] /\ work.work_id = m.work_id
        /\ work.buffers_id = <<q.buffer>> /\ work.sync_worker_cnt = 1
        /\ work.worker_id = [v \in SyncWorkers |-> IF v = worker THEN 1 ELSE 0]
  <2> DEFINE work == Recounted(WithWorker(last, worker), 1)
  <2>1. /\ work \in Local_work_info
        /\ work.work_id = last.work_id /\ work.buffers_id = last.buffers_id
        /\ work.sync_worker_cnt = 1
        /\ work.worker_id = [v \in SyncWorkers |-> IF v = worker THEN 1 ELSE 0]
    BY <1>3, <1>4, <1>5, OneWorker
  <2> HIDE DEF work
  <2>2. m_work_list' = [m_work_list EXCEPT ![Last] = work]
    BY <1>7 DEF work
  <2> QED  BY <1>5, <1>8, <2>1, <2>2
<1>10. ~Begun(m.work_id) /\ work.work_id = m_work_list[Last].work_id
  BY <1>5, <1>8, <1>9 DEF last
<1>11. /\ WorkerInv' /\ Served(work)'
       /\ \A id : id # m.work_id => (Begun(id)' => Begun(id)) /\ StillHeld(id)
  <2>1. \E c \in Buffers : work.buffers_id = <<c>>
    BY <1>5, <1>9
  <2> QED  BY <1>2, <1>8, <1>9, <1>10, <2>1, JobServes DEF ApartInv, worker
<1>12. WorksInv' /\ Distinct' /\ \A id : Listed(id)' <=> Listed(id)
  BY <1>1, <1>2, <1>9, <1>10, <1>11, WorksServed DEF TypeOK, ApartInv
<1>13. FrameOnce' /\ Open' \subseteq Open
  BY NextOnce, OpenShrinks DEF ApartInv
<1>14. \A id : Begun(id)' \/ Listed(id)' => Begun(id) \/ Listed(id)
  <2>1. Listed(work.work_id)
    BY <1>4, <1>10 DEF Listed
  <2> QED  BY <1>9, <1>11, <1>12, <2>1
<1>15. Fresh'
  BY <1>2, <1>13, <1>14, FreshStays DEF ApartInv
<1> QED  BY <1>2, <1>11, <1>12, <1>13, <1>15 DEF ApartInv, NeverUndefined

(* Every step of the base band unit.                                       *)
LEMMA ApartStep ==
  ASSUME RequestsApart, TypeOK, TokenInv, ApartInv, [Next]_vars
  PROVE  ApartInv'
<1>1. CASE BrokerStep
  <2>1. UNCHANGED <<syncVars, combining, detected>> /\ BrokerNext
    BY <1>1 DEF BrokerStep, rrhVars
  <2>2. CASE FrontendRrh \/ KeepAlive \/ \E b \in Buffers : RegisterBuffer(b)
    BY <2>1, <2>2, ApartIdle
  <2>3. CASE \E b \in Buffers : SpawnForFrame(b) \/ ServeFrame(b)
    BY <2>1, <2>3, ApartSpawn, ApartServe
  <2>4. CASE FinishAttribution
    BY <2>1, <2>4, ApartFinish
  <2>5. ASSUME NEW w \in SyncWorkers, WorkerReady(w) \/ ForwardReply(w) PROVE ApartInv'
    <3>1. /\ syncToBroker[w] # <<>> /\ syncToBroker' = Receive(syncToBroker, w)
          /\ UNCHANGED <<m_work_list, pending, m_last_work_id, undefined, brokerToSync, demodToBroker>>
          /\ Head(syncToBroker[w]).type # "SYNC_DONE"
      BY <2>5 DEF WorkerReady, ForwardReply, ServeSync
    <3> QED  BY <2>1, <3>1, ApartRead
  <2>6. CASE \E w \in SyncWorkers : WorkerSyncDone(w)
    BY <2>1, <2>6, ApartSyncDone
  <2>7. CASE \E a \in DemodWorkers : WorkerDemodDone(a)
    BY <2>1, <2>7, ApartDemodDone
  <2> QED  BY <2>1, <2>2, <2>3, <2>4, <2>5, <2>6, <2>7 DEF BrokerNext, FrontendBuffer, Backend
<1>2. CASE \E w \in SyncWorkers : StartSync(w) \/ SyncStep(w)
  BY <1>2, ApartWorkers
<1>3. CASE \/ \E b \in Buffers : StartBuffer(b) \/ BufferStep(b)
           \/ \E r \in Rrhs : RrhStarts(r) \/ RrhStep(r)
           \/ DemodStep \/ UNCHANGED vars
  BY <1>3, ApartOthers
<1> QED  BY <1>1, <1>2, <1>3 DEF Next

(* Nothing is on the way at the start, and no work has begun.              *)
LEMMA ApartInit ==
  ASSUME RequestsApart, Init
  PROVE  ApartInv
<1>1. /\ \A b \in Buffers : rrhToBuffer[b] = <<>> /\ bufferToBroker[b] = <<>>
      /\ \A w \in SyncWorkers : /\ syncToBroker[w] = <<>> /\ brokerToSync[w] = <<>>
                                /\ m_work_info[w] = {} /\ stream[w] = {}
      /\ \A a \in DemodWorkers : demodToBroker[a] = <<>> /\ combining[a] = {}
      /\ detected = {} /\ m_work_list = <<>> /\ pending = <<>> /\ m_last_work_id = 0 /\ ~undefined
  BY DEF Init, SocketsInit, BrokerInit, RrhInit, SyncInit, DemodInit
<1>2. FrameOnce
  BY <1>1 DEF FrameOnce, OnePlace, NoPlace, OnceIn, NoneIn, OfTime, Marked, AtMostOne
<1>3. \A id : ~Begun(id) /\ ~Listed(id)
  BY <1>1 DEF Begun, Heeds, Demodulates, JobFor, EndOf, Over, Mentions, Listed
<1>4. Fresh
  <2>1. Open \subseteq Detections
    BY DEF Open
  <2>2. Cardinality(Open) <= Cardinality(Detections) /\ Cardinality(Open) \in Nat /\ Cardinality(Detections) \in Nat
    BY <2>1, FS_Subset, FS_CardinalityType DEF RequestsApart
  <2>3. m_last_work_id + Cardinality(Open) <= WORK_ID_RANGE
    BY <1>1, <2>2, SocketsAssumption DEF RequestsApart
  <2> QED  BY <1>3, <2>3 DEF Fresh
<1>5. WorkerInv
  BY <1>1 DEF WorkerInv, WorkerOk, InHand, AtMostOne, UpShape, OwnEnd, Marked
<1>6. Distinct /\ WorksInv
  BY <1>1 DEF Distinct, WorksInv
<1> QED  BY <1>1, <1>2, <1>4, <1>5, <1>6 DEF ApartInv, NeverUndefined

-----------------------------------------------------------------------------
(* What frames apart can rely on                                           *)

(* No two frames are made one work, and every work has the worker that was *)
(* asked for it.                                                           *)
LEMMA StayApart == ASSUME RequestsApart PROVE Spec => [](TypeInv /\ TokenInv /\ ApartInv)
<1>1. TypeInv /\ TokenInv /\ ApartInv /\ [Next]_vars => ApartInv'
  BY ApartStep DEF TypeInv
<1>2. Init => ApartInv
  BY ApartInit
<1> QED  BY <1>1, <1>2, TokensHeld, PTL DEF Spec

(* broker.cpp 372-382, "finish sync worker attribution initiated           *)
(* previously": when a worker is there for a request that was read in      *)
(* part, the list of works is not empty, so that back() of it is defined:  *)
(* the work waits at its end, and no report of a worker can end it because *)
(* none has heard of its id, a work id not being given twice.              *)
THEOREM AttributionsFinish == ASSUME RequestsApart PROVE Spec => []AttributionFinishes
<1>1. ApartInv => AttributionFinishes
  BY DEF ApartInv, NeverUndefined, AttributionFinishes
<1> QED  BY <1>1, StayApart, PTL

(* Who may still report a work that is served: its one worker, at one place. *)
LEMMA OneSynchronizes ==
  ASSUME TypeOK, TokenInv, WorkerInv, NEW work, Served(work)
  PROVE  Cardinality(Synchronizing(work.work_id)) = 1
<1> DEFINE id == work.work_id
           J(v) == {j \in DOMAIN brokerToSync[v] : /\ brokerToSync[v][j].type = "JOB"
                                                   /\ brokerToSync[v][j].work_id = id}
           W(v) == {x \in m_work_info[v] : x.work_id = id /\ m_state[v] = "WORKING"}
           D(v) == {j \in DOMAIN syncToBroker[v] : /\ syncToBroker[v][j].type = "SYNC_DONE"
                                                   /\ syncToBroker[v][j].work_id = id}
           Jobs(v) == {<<"job", v, i>> : i \in J(v)}
           Works(v) == {<<"working", v>> : info \in W(v)}
           Ends(v) == {<<"done", v, i>> : i \in D(v)}
<1>1. Synchronizing(id) = UNION {Jobs(v) \cup Works(v) \cup Ends(v) : v \in SyncWorkers}
  BY DEF Synchronizing
<1>2. PICK w \in SyncWorkers : \A v \in SyncWorkers : HoldsIt(v, id) <=> v = w
  BY DEF Served
<1>3. ASSUME NEW v \in SyncWorkers
      PROVE  /\ JobFor(brokerToSync[v], id) <=> J(v) # {}
             /\ id \in InHand(v) <=> W(v) # {}
             /\ Over(syncToBroker[v], id) <=> D(v) # {}
  BY DEF JobFor, Over, Mentions, InHand
<1>4. \A v \in SyncWorkers : v # w => J(v) = {} /\ W(v) = {} /\ D(v) = {}
  BY <1>2, <1>3 DEF HoldsIt, Holds
<1>5. J(w) # {} \/ W(w) # {} \/ D(w) # {}
  BY <1>2, <1>3 DEF HoldsIt, Holds
<1>6. /\ J(w) = {} \/ (W(w) = {} /\ D(w) = {})
      /\ W(w) = {} \/ D(w) = {}
  <2> DEFINE down == brokerToSync[w]
             hand == InHand(w)
             up == syncToBroker[w]
  <2>1. UpShape(up) /\ AtMostOne(m_work_info[w])
    BY DEF WorkerInv, WorkerOk
  <2>2. hand = {info.work_id : info \in {y \in m_work_info[w] : m_state[w] = "WORKING"}}
    BY DEF InHand
  <2>3. OneToken(w, up, m_sync_worker_pool, down, m_state[w]) /\ Typed(w, up, m_sync_worker_pool, down)
    BY AllTyped DEF TokenInv, TypeOK
  <2>4. Holds(down, hand, up, id)
    BY <1>2 DEF HoldsIt
  <2> HIDE DEF down, hand, up, id
  <2>5. AtMostOne(hand) /\ (m_state[w] # "WORKING" => hand = {})
    BY <2>1, <2>2 DEF AtMostOne
  <2>6. /\ ~JobFor(down, id) \/ (id \notin hand /\ ~Over(up, id))
        /\ id \notin hand \/ ~Over(up, id)
    BY <2>1, <2>3, <2>4, <2>5, OneHeld
  <2> QED  BY <1>3, <2>6 DEF down, hand, up
<1>7. AtMostOne(J(w)) /\ AtMostOne(W(w)) /\ AtMostOne(D(w))
  <2>1. J(w) \subseteq Marked(brokerToSync[w], Orders) /\ AtMostOne(Marked(brokerToSync[w], Orders))
    <3>1. \A j \in DOMAIN brokerToSync[w] : brokerToSync[w][j] \in WorkerMessage
      BY Element DEF TypeOK, SocketsTypeOK
    <3> QED  BY <3>1 DEF Marked, Orders, TokenInv, OneToken
  <2>2. D(w) \subseteq Marked(syncToBroker[w], Dones) /\ AtMostOne(Marked(syncToBroker[w], Dones))
    <3>1. \A j \in DOMAIN syncToBroker[w] : syncToBroker[w][j] \in SyncMessage
      BY Element DEF TypeOK, SocketsTypeOK
    <3> QED  BY <3>1 DEF Marked, Dones, WorkerInv, WorkerOk, UpShape
  <2>3. AtMostOne(m_work_info[w])
    BY DEF WorkerInv, WorkerOk
  <2> HIDE DEF id
  <2> QED  BY <2>1, <2>2, <2>3 DEF AtMostOne
<1> HIDE DEF J, W, D
<1>8. \A x, y \in Synchronizing(id) : x = y
  <2>1. Synchronizing(id) = Jobs(w) \cup Works(w) \cup Ends(w)
    BY <1>1, <1>4
  <2> QED  BY <1>6, <1>7, <2>1 DEF AtMostOne
<1>9. \E x : x \in Synchronizing(id)
  <2>1. Jobs(w) \cup Works(w) \cup Ends(w) # {}
    BY <1>5
  <2> HIDE DEF Jobs, Works, Ends, id
  <2> QED  BY <1>1, <2>1
<1>10. PICK x : Synchronizing(id) = {x}
  BY <1>8, <1>9
<1> QED  BY <1>10, FS_Singleton

(* No worker reports a work that none has heard of.                        *)
LEMMA NoneSynchronizes ==
  ASSUME NEW id, ~Begun(id)
  PROVE  Cardinality(Synchronizing(id)) = 0
<1>1. \A w \in SyncWorkers : /\ ~JobFor(brokerToSync[w], id) /\ ~Over(syncToBroker[w], id)
                             /\ \A info \in m_work_info[w] : info.work_id # id
  BY DEF Begun, Heeds
<1>2. Synchronizing(id) = {}
  BY <1>1 DEF Synchronizing, JobFor, Over, Mentions
<1> QED  BY <1>2, FS_EmptySet

(* broker.hpp 55, broker.cpp 418-424: of every work whose request has been *)
(* served one worker works, is about to work, or has reported to be done,  *)
(* and it is counted; the work ends with its report.                       *)
THEOREM SyncsCounted == ASSUME RequestsApart PROVE Spec => []SyncCountIsExact
<1>1. TypeInv /\ TokenInv /\ ApartInv => SyncCountIsExact
  <2> SUFFICES ASSUME TypeInv, TokenInv, ApartInv, NEW i \in DOMAIN m_work_list
               PROVE  m_work_list[i].sync_worker_cnt
                        = Cardinality(Synchronizing(m_work_list[i].work_id))
    BY DEF SyncCountIsExact
  <2>1. CASE pending = <<>> \/ i # Last
    <3>1. Served(m_work_list[i])
      BY <2>1 DEF ApartInv, WorksInv
    <3> QED  BY <3>1, OneSynchronizes DEF TypeInv, ApartInv, Served
  <2>2. CASE ~(pending = <<>> \/ i # Last)
    <3>1. Waiting(m_work_list[i], Head(pending))
      BY <2>2 DEF ApartInv, WorksInv
    <3> QED  BY <3>1, NoneSynchronizes DEF Waiting
  <2> QED  BY <2>1, <2>2
<1> QED  BY <1>1, StayApart, PTL

(* worker_zmq_source_impl.cc 268-281: the work id that comes with a DONE   *)
(* is not compared with the one at hand, and need not be: the end of a     *)
(* work that the worker has given up itself is ahead of its next job in    *)
(* the queue, and is dropped before the job is read.                       *)
THEOREM OwnDones == ASSUME RequestsApart PROVE Spec => DoneIsForThisWork
<1>1. TypeInv /\ TokenInv /\ ApartInv /\ [Next]_vars =>
        [\A w \in SyncWorkers : SyncEndOfWork(w) =>
           \A info \in m_work_info[w] : Head(brokerToSync[w]).work_id = info.work_id]_vars
  <2> SUFFICES ASSUME TypeInv, ApartInv, NEW w \in SyncWorkers, SyncEndOfWork(w), NEW info \in m_work_info[w]
               PROVE  Head(brokerToSync[w]).work_id = info.work_id
    OBVIOUS
  <2>1. m_state[w] = "WORKING" /\ brokerToSync[w] # <<>> /\ Head(brokerToSync[w]).type = "DONE"
    BY DEF SyncEndOfWork, Told
  <2>2. info.work_id \in InHand(w)
    BY <2>1 DEF InHand
  <2>3. OwnEnd(brokerToSync[w], InHand(w)) /\ brokerToSync[w] \in Seq(WorkerMessage)
    BY DEF ApartInv, WorkerInv, WorkerOk, TypeInv, TypeOK, SocketsTypeOK
  <2>4. \A id \in InHand(w) : Head(brokerToSync[w]).work_id = id
    BY <2>1, <2>3, OwnEndTail
  <2> QED  BY <2>2, <2>4
<1> QED  BY <1>1, StayApart, PTL DEF DoneIsForThisWork, Spec

-----------------------------------------------------------------------------
(* Streams that somebody uses                                              *)

(* Queue s holds a message of M.                                           *)
Has(s, M) == \E j \in DOMAIN s : s[j] \in M

(* What a queue holds of a set of messages after one more message.          *)
LEMMA HasAppend ==
  ASSUME NEW T, NEW s \in Seq(T), NEW m \in T, NEW M
  PROVE  Has(Append(s, m), M) <=> Has(s, M) \/ m \in M
<1> DEFINE new == Append(s, m)
           n == Len(s) + 1
<1>1. /\ \A i \in DOMAIN s : new[i] = s[i]
      /\ new[n] = m /\ DOMAIN new = DOMAIN s \cup {n}
  BY Appended
<1> HIDE DEF new, n
<1> QED  BY <1>1 DEF Has, new

(* What a queue holds of a set of messages before its head is received.     *)
LEMMA HasTail ==
  ASSUME NEW T, NEW s \in Seq(T), s # <<>>, NEW M
  PROVE  Has(s, M) <=> Has(Tail(s), M) \/ Head(s) \in M
<1> DEFINE t == Tail(s)
           h == Head(s)
<1>1. /\ h = s[1] /\ 1 \in DOMAIN s
      /\ \A i \in DOMAIN t : i + 1 \in DOMAIN s /\ t[i] = s[i + 1]
      /\ \A i \in DOMAIN s : i # 1 => i - 1 \in DOMAIN t /\ t[i - 1] = s[i]
  BY Shifted
<1> HIDE DEF t, h
<1> QED  BY <1>1 DEF Has, t, h

(* Joining two queues loses no message of either.                           *)
LEMMA HasJoin ==
  ASSUME NEW T, NEW s \in Seq(T), NEW u \in Seq(T), NEW M
  PROVE  Has(s, M) \/ Has(u, M) => Has(s \o u, M)
<1> DEFINE new == s \o u
<1>1. /\ \A i \in DOMAIN s : i \in DOMAIN new /\ new[i] = s[i]
      /\ \A i \in DOMAIN u : Len(s) + i \in DOMAIN new /\ new[Len(s) + i] = u[i]
  BY Joined
<1> HIDE DEF new
<1> QED  BY <1>1 DEF Has, new

(* What concerns channel c: frames, requests, and orders to stop.          *)
FramesOn(c)      == {f \in Frame : f.channel = c}
RequestsOn(c)    == {m \in BufferRequest : m.type = "NEW_FRAME" /\ m.frame.channel = c}
WaitingOn(b, c)  == {q \in Request : q.buffer = b /\ q.frame.channel = c}
StopsOf(c)       == {m \in RrhMessage : m.type = "STOP" /\ m.channel = c}

(* A work uses channel c of buffer b.                                      *)
Streams(b, c) == \E id \in WorkIds : workers_by_fc[b][c][id] > 0

(* Somebody asks for samples of channel c of buffer b, or will.            *)
Used(b, c) ==
  \/ Has(rrhToBuffer[b], FramesOn(c))
  \/ Has(bufferToBroker[b], RequestsOn(c))
  \/ Has(pending, WaitingOn(b, c))
  \/ Streams(b, c)

(* An RRH has been told to stop; it streams a channel with a reason.       *)
Stopped(r, c) == Has(brokerToRrh[r], StopsOf(c))

StreamInv ==
  \A r \in Rrhs, c \in Channels :
    /\ m_buffer_addr[r] = {} => m_frame_list[r][c] = {}
    /\ \A b \in m_buffer_addr[r] : m_frame_list[r][c] # {} => Used(b, c) \/ Stopped(r, c)

(* A use of a buffer stands in one of the queues that NoUse speaks of.       *)
LEMMA UsedIsUse ==
  ASSUME SocketsTypeOK, BrokerTypeOK, NEW b \in Buffers, NEW c \in Channels
  PROVE  NoUse(b, c) => ~Used(b, c)
<1>1. /\ \A i \in DOMAIN rrhToBuffer[b] : rrhToBuffer[b][i] \in FramesOn(c) => rrhToBuffer[b][i].channel = c
      /\ \A i \in DOMAIN bufferToBroker[b] :
           bufferToBroker[b][i] \in RequestsOn(c) =>
             bufferToBroker[b][i].type = "NEW_FRAME" /\ bufferToBroker[b][i].frame.channel = c
      /\ \A i \in DOMAIN pending :
           pending[i] \in WaitingOn(b, c) => pending[i].buffer = b /\ pending[i].frame.channel = c
  BY DEF FramesOn, RequestsOn, WaitingOn
<1> QED  BY <1>1 DEF NoUse, Used, Has, Streams

(* A step that leaves every stream used or ended that was.                 *)
LEMMA StreamsStay ==
  ASSUME StreamInv, UNCHANGED <<m_buffer_addr, m_frame_list>>,
         \A r \in Rrhs, c \in Channels : \A b \in m_buffer_addr[r] :
           /\ Used(b, c) => Used(b, c)' \/ Stopped(r, c)'
           /\ Stopped(r, c) => Stopped(r, c)'
  PROVE  StreamInv'
<1>1. \A r \in Rrhs, c \in Channels : \A b \in m_buffer_addr[r] :
        m_frame_list[r][c] # {} => (Used(b, c) \/ Stopped(r, c))'
  BY DEF StreamInv
<1> QED  BY <1>1 DEF StreamInv

(* What streams are used for moves on, and the orders to stop stay.        *)
LEMMA UsesStay ==
  ASSUME StreamInv, UNCHANGED <<m_buffer_addr, m_frame_list, brokerToRrh>>,
         m_buffer_addr \in [Rrhs -> SUBSET Buffers],
         \A b \in Buffers, c \in Channels : Used(b, c) => Used(b, c)'
  PROVE  StreamInv'
<1>1. \A r \in Rrhs, c \in Channels : Stopped(r, c) => Stopped(r, c)'
  BY DEF Stopped
<1> QED  BY <1>1, StreamsStay

(* lora_rx_buffer: a frame read becomes a request.                         *)
LEMMA BufferStreams ==
  ASSUME TypeOK, StreamInv, NEW b \in Buffers, StartBuffer(b) \/ BufferStep(b)
  PROVE  StreamInv'
<1>1. /\ rrhToBuffer \in [Buffers -> Seq(Frame)]
      /\ bufferToBroker \in [Buffers -> Seq(BufferRequest)]
      /\ m_buffer_addr \in [Rrhs -> SUBSET Buffers]
  BY DEF TypeOK, SocketsTypeOK, RrhTypeOK
<1>2. UNCHANGED <<m_buffer_addr, m_frame_list, brokerToRrh, pending, workers_by_fc>>
  BY DEF StartBuffer, BufferStep, BufferStart, BufferNext, BufferAcked, BufferRequestsWorker,
         BufferSubscribed, brokerVars, rrhVars
<1>3. ASSUME \A c \in Channels : /\ Has(rrhToBuffer[b], FramesOn(c)) =>
                                      \/ Has(rrhToBuffer'[b], FramesOn(c))
                                      \/ Has(bufferToBroker'[b], RequestsOn(c))
                                 /\ Has(bufferToBroker[b], RequestsOn(c)) =>
                                      Has(bufferToBroker'[b], RequestsOn(c)),
             \A x \in Buffers \ {b} : /\ rrhToBuffer'[x] = rrhToBuffer[x]
                                      /\ bufferToBroker'[x] = bufferToBroker[x]
      PROVE  StreamInv'
  <2>1. \A x \in Buffers, c \in Channels : Used(x, c) => Used(x, c)'
    BY <1>2, <1>3 DEF Used, Streams
  <2> QED  BY <1>1, <1>2, <2>1, UsesStay
<1>4. CASE StartBuffer(b)
  <2>1. UNCHANGED rrhToBuffer /\ bufferToBroker' = Send(bufferToBroker, b, BufferReady)
    BY <1>4 DEF StartBuffer, BufferStart
  <2>2. /\ bufferToBroker'[b] = Append(bufferToBroker[b], BufferReady)
        /\ \A x \in Buffers \ {b} : bufferToBroker'[x] = bufferToBroker[x]
    BY <1>1, <2>1 DEF Send
  <2>3. BufferReady \in BufferRequest
    BY DEF BufferReady, BufferRequest
  <2>4. \A c : Has(bufferToBroker[b], RequestsOn(c)) => Has(bufferToBroker'[b], RequestsOn(c))
    BY <1>1, <2>2, <2>3, HasAppend
  <2> QED  BY <1>3, <2>1, <2>2, <2>4
<1>5. CASE BufferRequestsWorker(b)
  <2> DEFINE f == Head(rrhToBuffer[b])
  <2>1. /\ rrhToBuffer[b] # <<>> /\ rrhToBuffer' = Receive(rrhToBuffer, b)
        /\ bufferToBroker' = Send(bufferToBroker, b, NewFrame(f))
    BY <1>5 DEF BufferRequestsWorker
  <2>2. /\ rrhToBuffer'[b] = Tail(rrhToBuffer[b])
        /\ bufferToBroker'[b] = Append(bufferToBroker[b], NewFrame(f))
        /\ \A x \in Buffers \ {b} : /\ rrhToBuffer'[x] = rrhToBuffer[x]
                                    /\ bufferToBroker'[x] = bufferToBroker[x]
    BY <1>1, <2>1 DEF Send, Receive
  <2>3. f \in Frame
    BY <1>1, <2>1, Shifted
  <2>4. /\ NewFrame(f) \in BufferRequest
        /\ \A c : f \in FramesOn(c) => NewFrame(f) \in RequestsOn(c)
    BY <2>3 DEF NewFrame, BufferRequest, FramesOn, RequestsOn
  <2>5. \A c : Has(rrhToBuffer[b], FramesOn(c)) <=> Has(rrhToBuffer'[b], FramesOn(c)) \/ f \in FramesOn(c)
    BY <1>1, <2>1, <2>2, HasTail
  <2>6. \A c : Has(bufferToBroker'[b], RequestsOn(c))
                 <=> Has(bufferToBroker[b], RequestsOn(c)) \/ NewFrame(f) \in RequestsOn(c)
    BY <1>1, <2>2, <2>4, HasAppend
  <2> QED  BY <1>3, <2>2, <2>4, <2>5, <2>6
<1>6. CASE BufferAcked(b) \/ BufferSubscribed(b)
  <2>1. UNCHANGED <<rrhToBuffer, bufferToBroker>>
    BY <1>6 DEF BufferAcked, BufferSubscribed
  <2> QED  BY <1>3, <2>1
<1> QED  BY <1>4, <1>5, <1>6 DEF BufferStep, BufferNext

(* rrh_zmq_sink: a detection starts a stream by a message to the buffer, a *)
(* stop of the broker ends the streams of its channel and of no other.     *)
LEMMA WorkStreams ==
  ASSUME TypeOK, StreamInv, BufferForEachRrh, NEW r \in Rrhs, NEW stop \in BOOLEAN,
         NEW d \in SUBSET Detections, stop => brokerToRrh[r] # <<>>, m_buffer_addr[r] # {},
         RrhWork(r, stop, d), UNCHANGED <<pending, workers_by_fc>>
  PROVE  StreamInv'
<1> DEFINE h == Head(brokerToRrh[r])
           list == IF stop THEN Ended(m_frame_list[r], h.channel) ELSE m_frame_list[r]
<1>1. /\ rrhToBuffer \in [Buffers -> Seq(Frame)]
      /\ brokerToRrh \in [Rrhs -> Seq(RrhMessage)]
      /\ m_buffer_addr \in [Rrhs -> SUBSET Buffers]
      /\ m_frame_list \in [Rrhs -> [Channels -> SUBSET Frame]]
  BY DEF TypeOK, SocketsTypeOK, RrhTypeOK
<1>2. /\ UNCHANGED <<m_buffer_addr, bufferToBroker>>
      /\ brokerToRrh' = IF stop THEN Receive(brokerToRrh, r) ELSE brokerToRrh
      /\ \/ /\ m_frame_list' = [m_frame_list EXCEPT ![r] = list]
            /\ UNCHANGED rrhToBuffer
         \/ \E e \in d : \E b \in m_buffer_addr[r] :
              /\ m_frame_list' = [m_frame_list EXCEPT ![r] = Recent(With(list, e.frame), e.frame.time)]
              /\ rrhToBuffer' = Send(rrhToBuffer, b, e.frame)
  BY DEF RrhWork
<1>3. ASSUME NEW c \in Channels, list[c] # {}
      PROVE  m_frame_list[r][c] # {} /\ (Stopped(r, c) => Stopped(r, c)')
  <2>1. CASE ~stop
    BY <1>2, <1>3, <2>1 DEF Stopped
  <2>2. CASE stop
    <3>1. list[c] = IF c = h.channel THEN {} ELSE m_frame_list[r][c]
      BY <1>1, <2>2 DEF Ended
    <3>2. h \notin StopsOf(c)
      BY <1>3, <3>1 DEF StopsOf
    <3>3. brokerToRrh'[r] = Tail(brokerToRrh[r]) /\ brokerToRrh[r] # <<>>
      BY <1>1, <1>2, <2>2 DEF Receive
    <3>4. Has(brokerToRrh[r], StopsOf(c)) <=> Has(brokerToRrh'[r], StopsOf(c)) \/ h \in StopsOf(c)
      BY <1>1, <3>3, HasTail
    <3> QED  BY <1>3, <3>1, <3>2, <3>4 DEF Stopped
  <2> QED  BY <2>1, <2>2
<1>4. /\ \A s \in Rrhs \ {r}, c \in Channels : Stopped(s, c) => Stopped(s, c)'
      /\ \A s \in Rrhs \ {r} : m_frame_list'[s] = m_frame_list[s]
  <2>1. \A s \in Rrhs \ {r} : brokerToRrh'[s] = brokerToRrh[s] /\ m_frame_list'[s] = m_frame_list[s]
    BY <1>1, <1>2 DEF Receive
  <2> QED  BY <2>1 DEF Stopped
<1> HIDE DEF list, h
<1>5. CASE m_frame_list' = [m_frame_list EXCEPT ![r] = list] /\ UNCHANGED rrhToBuffer
  <2>1. m_frame_list'[r] = list
    BY <1>1, <1>5
  <2>2. \A x \in Buffers, c \in Channels : Used(x, c) => Used(x, c)'
    BY <1>2, <1>5 DEF Used, Streams
  <2>3. ASSUME NEW s \in Rrhs, NEW c \in Channels, NEW b \in m_buffer_addr[s], m_frame_list'[s][c] # {}
        PROVE  (Used(b, c) \/ Stopped(s, c))'
    <3>1. m_frame_list[s][c] # {} /\ (Stopped(s, c) => Stopped(s, c)')
      BY <1>3, <1>4, <2>1, <2>3
    <3> QED  BY <1>1, <2>2, <3>1 DEF StreamInv
  <2>4. \A s \in Rrhs, c \in Channels : m_buffer_addr[s] = {} => m_frame_list'[s][c] = {}
    BY <1>4 DEF StreamInv
  <2> QED  BY <1>2, <2>3, <2>4 DEF StreamInv
<1>6. ASSUME NEW e \in d, NEW a \in m_buffer_addr[r],
             m_frame_list' = [m_frame_list EXCEPT ![r] = Recent(With(list, e.frame), e.frame.time)],
             rrhToBuffer' = Send(rrhToBuffer, a, e.frame)
      PROVE  StreamInv'
  <2> DEFINE f == e.frame
  <2>1. f \in Frame /\ f.channel \in Channels /\ a \in Buffers
    BY <1>1, RrhAssumption DEF Frame
  <2>2. list \in [Channels -> SUBSET Frame]
    BY <1>1 DEF list, Ended
  <2>3. m_frame_list'[r] = Recent(With(list, f), f.time)
    BY <1>1, <1>6
  <2> HIDE DEF f
  <2>4. \A c \in Channels : c # f.channel /\ m_frame_list'[r][c] # {} => list[c] # {}
    BY <2>1, <2>2, <2>3 DEF Recent, With
  <2>5. \A x \in Buffers : rrhToBuffer'[x] = IF x = a THEN Append(rrhToBuffer[x], f) ELSE rrhToBuffer[x]
    BY <1>1, <1>6 DEF Send, f
  <2>6. \A x \in Buffers, c \in Channels : Has(rrhToBuffer[x], FramesOn(c)) => Has(rrhToBuffer'[x], FramesOn(c))
    <3>1. \A x \in Buffers, c \in Channels :
            Has(rrhToBuffer[x], FramesOn(c)) => Has(Append(rrhToBuffer[x], f), FramesOn(c))
      BY <1>1, <2>1, HasAppend
    <3> QED  BY <2>5, <3>1
  <2>7. \A x \in Buffers, c \in Channels : Used(x, c) => Used(x, c)'
    BY <1>2, <2>6 DEF Used, Streams
  <2>8. Used(a, f.channel)'
    <3>1. f \in FramesOn(f.channel)
      BY <2>1 DEF FramesOn
    <3>2. Has(Append(rrhToBuffer[a], f), FramesOn(f.channel))
      BY <1>1, <2>1, <3>1, HasAppend
    <3>3. Has(rrhToBuffer'[a], FramesOn(f.channel))
      BY <2>1, <2>5, <3>2
    <3> QED  BY <3>3 DEF Used
  <2>9. \A b \in m_buffer_addr[r] : b = a
    BY DEF BufferForEachRrh
  <2>10. ASSUME NEW s \in Rrhs, NEW c \in Channels, NEW b \in m_buffer_addr[s], m_frame_list'[s][c] # {}
         PROVE  (Used(b, c) \/ Stopped(s, c))'
    <3>1. CASE s = r /\ c = f.channel
      BY <2>8, <2>9, <3>1
    <3>2. CASE ~(s = r /\ c = f.channel)
      <4>1. m_frame_list[s][c] # {} /\ (Stopped(s, c) => Stopped(s, c)')
        BY <1>3, <1>4, <2>4, <2>10, <3>2
      <4> QED  BY <1>1, <2>7, <4>1 DEF StreamInv
    <3> QED  BY <3>1, <3>2
  <2>11. \A s \in Rrhs, c \in Channels : m_buffer_addr[s] = {} => m_frame_list'[s][c] = {}
    BY <1>4 DEF StreamInv
  <2> QED  BY <1>2, <2>10, <2>11 DEF StreamInv
<1> QED  BY <1>2, <1>5, <1>6

(* An RRH asks for a buffer, is given one, and streams nothing before.      *)
LEMMA RrhStreams ==
  ASSUME TypeOK, StreamInv, BufferForEachRrh, NEW r \in Rrhs, RrhStarts(r) \/ RrhStep(r)
  PROVE  StreamInv'
<1>1. UNCHANGED <<pending, workers_by_fc>>
  BY DEF RrhStarts, RrhStep, brokerVars
<1>2. CASE RrhStops(r)
  BY <1>1, <1>2, WorkStreams DEF RrhStops
<1>3. CASE RrhDetects(r)
  <2>1. m_buffer_addr[r] # {}
    BY <1>3 DEF RrhDetects
  <2>2. PICK e \in NextDetections(r), stop \in BOOLEAN : RrhWork(r, stop, {e}) /\ (stop => brokerToRrh[r] # <<>>)
    BY <1>3 DEF RrhDetects
  <2>3. {e} \in SUBSET Detections
    BY DEF NextDetections
  <2> HIDE DEF NextDetections
  <2> QED  BY <1>1, <2>1, <2>2, <2>3, WorkStreams
<1>4. CASE RequestBuffer(r)
  <2>1. UNCHANGED <<m_buffer_addr, m_frame_list, brokerToRrh, rrhToBuffer, bufferToBroker>>
    BY <1>4 DEF RequestBuffer
  <2> QED  BY <1>1, <2>1 DEF StreamInv, Used, Streams, Stopped
<1>5. CASE BufferGranted(r)
  <2>1. /\ m_buffer_addr[r] = {} /\ brokerToRrh' = Receive(brokerToRrh, r)
        /\ \A s \in Rrhs \ {r} : m_buffer_addr'[s] = m_buffer_addr[s]
        /\ UNCHANGED <<m_frame_list, rrhToBuffer, bufferToBroker>>
    BY <1>5 DEF BufferGranted, TypeOK, RrhTypeOK
  <2>2. \A s \in Rrhs \ {r} : brokerToRrh'[s] = brokerToRrh[s]
    BY <2>1 DEF Receive, TypeOK, SocketsTypeOK
  <2>3. \A s \in Rrhs \ {r}, c \in Channels : Stopped(s, c)' <=> Stopped(s, c)
    BY <2>2 DEF Stopped
  <2>4. \A b, c : Used(b, c)' <=> Used(b, c)
    BY <1>1, <2>1 DEF Used, Streams
  <2>5. \A c \in Channels : m_frame_list[r][c] = {}
    BY <2>1 DEF StreamInv
  <2>6. ASSUME NEW s \in Rrhs, NEW c \in Channels
        PROVE  /\ m_buffer_addr'[s] = {} => m_frame_list[s][c] = {}
               /\ \A b \in m_buffer_addr'[s] : m_frame_list[s][c] # {} => (Used(b, c) \/ Stopped(s, c))'
    <3>1. CASE s = r
      BY <2>5, <3>1
    <3>2. CASE s # r
      BY <2>1, <2>3, <2>4, <3>2 DEF StreamInv
    <3> QED  BY <3>1, <3>2
  <2> QED  BY <2>1, <2>6 DEF StreamInv
<1> QED  BY <1>2, <1>3, <1>4, <1>5 DEF RrhStarts, RrhStep

(* broker.cpp 469-484: the end of a work takes its streams off the count   *)
(* of their channel; with the last of them the order to stop is sent.      *)
LEMMA LastStreamStops ==
  ASSUME BrokerTypeOK, NEW work \in Local_work_info, NEW b \in Buffers,
         workers_by_fc[b][work.channel_id][work.work_id] > 0, StreamsLeft(b, work) = 0
  PROVE  \/ \E id \in WorkIds \ {work.work_id} : workers_by_fc[b][work.channel_id][id] > 0
         \/ Stops(b, work) >= 1
<1> DEFINE n == workers_by_fc[b][work.channel_id][work.work_id]
           k == Occurrences(b, work.buffers_id)
           others == \E id \in WorkIds \ {work.work_id} : workers_by_fc[b][work.channel_id][id] > 0
<1>1. n \in Nat /\ k \in Nat
  <2>1. work.buffers_id \in Seq(Buffers) /\ work.channel_id \in Channels /\ work.work_id \in WorkIds
    BY DEF Local_work_info
  <2> QED  BY <2>1, OccurrencesType DEF BrokerTypeOK
<1>2. n > 0 /\ (IF n > k THEN n - k ELSE 0) = 0
  BY DEF StreamsLeft
<1>3. Stops(b, work) = IF others \/ k < n THEN 0 ELSE IF n <= 1 THEN k ELSE k - n + 1
  BY DEF Stops
<1> HIDE DEF n, k, others
<1>4. ~others => Stops(b, work) >= 1
  <2>1. k >= n
    BY <1>1, <1>2
  <2> QED  BY <1>1, <1>2, <1>3, <2>1
<1> QED  BY <1>4 DEF others

(* EndWork: the RRH is told to stop only by a work that nothing else needs.  *)
LEMMA EndStreams ==
  ASSUME TypeOK, StreamInv, BufferForEachRrh, NEW i \in 1 .. Len(m_work_list), EndWork(i),
         UNCHANGED <<m_buffer_addr, m_frame_list, rrhToBuffer, bufferToBroker, pending>>
  PROVE  StreamInv'
<1> DEFINE work == m_work_list[i]
           ch == work.channel_id
           stops(r) == [j \in 1 .. StopsFor(r, work) |-> Stop(ch)]
<1>1. /\ work \in Local_work_info /\ ch \in Channels /\ work.work_id \in WorkIds
      /\ work.buffers_id \in Seq(Buffers)
  <2>1. m_work_list \in Seq(Local_work_info) /\ i \in DOMAIN m_work_list
    BY DEF TypeOK, BrokerTypeOK
  <2>2. work \in Local_work_info
    BY <2>1, Element
  <2> QED  BY <2>2 DEF Local_work_info
<1>2. /\ brokerToRrh \in [Rrhs -> Seq(RrhMessage)]
      /\ m_buffer_addr \in [Rrhs -> SUBSET Buffers]
      /\ workers_by_fc \in [Buffers -> [Channels -> [WorkIds -> Nat]]]
  BY DEF TypeOK, SocketsTypeOK, BrokerTypeOK, RrhTypeOK
<1>3. \A r \in Rrhs : brokerToRrh'[r] = brokerToRrh[r] \o stops(r)
  BY DEF EndWork
<1>4. ASSUME NEW b \in Buffers, NEW c \in Channels, NEW id \in WorkIds
      PROVE  workers_by_fc'[b][c][id] = IF c = ch /\ id = work.work_id THEN StreamsLeft(b, work)
                                                                       ELSE workers_by_fc[b][c][id]
  <2> DEFINE left == StreamsLeft(b, work)
             x == work.work_id
  <2>1. workers_by_fc'[b] = [workers_by_fc[b] EXCEPT ![ch][x] = left]
    BY DEF EndWork
  <2>2. workers_by_fc[b] \in [Channels -> [WorkIds -> Nat]] /\ ch \in Channels /\ x \in WorkIds
    BY <1>1, <1>2
  <2> HIDE DEF left, x, ch
  <2>3. workers_by_fc'[b][c][id] = IF c = ch /\ id = x THEN left ELSE workers_by_fc[b][c][id]
    BY <2>1, <2>2
  <2> QED  BY <2>3 DEF left, x
<1>5. ASSUME NEW r \in Rrhs
      PROVE  /\ stops(r) \in Seq(RrhMessage)
             /\ StopsFor(r, work) \in Nat
             /\ DOMAIN stops(r) = 1 .. StopsFor(r, work)
  <2>1. Stop(ch) \in RrhMessage
    BY <1>1 DEF Stop, RrhMessage
  <2>2. StopsFor(r, work) \in Nat
    BY <1>1, StreamsType DEF TypeOK
  <2> QED  BY <2>1, <2>2, CopiesType
<1>6. ASSUME NEW r \in Rrhs, NEW c
      PROVE  Stopped(r, c) => Stopped(r, c)'
  <2>1. Has(brokerToRrh[r], StopsOf(c)) => Has(brokerToRrh[r] \o stops(r), StopsOf(c))
    BY <1>2, <1>5, HasJoin
  <2> QED  BY <1>3, <2>1 DEF Stopped
<1>7. ASSUME NEW r \in Rrhs, StopsFor(r, work) >= 1, NEW c, c = ch
      PROVE  Stopped(r, c)'
  <2>1. stops(r)[1] = Stop(ch) /\ 1 \in DOMAIN stops(r)
    BY <1>5, <1>7
  <2>2. Stop(ch) \in StopsOf(c)
    BY <1>1, <1>7 DEF Stop, StopsOf, RrhMessage
  <2>3. Has(stops(r), StopsOf(c))
    BY <2>1, <2>2 DEF Has
  <2>4. Has(brokerToRrh[r] \o stops(r), StopsOf(c))
    BY <1>2, <1>5, <2>3, HasJoin
  <2> QED  BY <1>3, <2>4 DEF Stopped
<1>8. ASSUME NEW r \in Rrhs, NEW b \in m_buffer_addr[r]
      PROVE  StopsFor(r, work) = Stops(b, work)
  <2>1. {x \in DOMAIN m_buffer_list : m_buffer_list[x] = r} = {b}
    BY DEF BufferForEachRrh
  <2> QED  BY <2>1 DEF StopsFor
<1>9. ASSUME NEW r \in Rrhs, NEW c \in Channels, NEW b \in m_buffer_addr[r], Used(b, c)
      PROVE  Used(b, c)' \/ Stopped(r, c)'
  <2>1. b \in Buffers
    BY <1>2
  <2>2. CASE ~Streams(b, c)
    BY <1>9, <2>2 DEF Used
  <2>3. ASSUME NEW id \in WorkIds, workers_by_fc[b][c][id] > 0, c # ch \/ id # work.work_id
        PROVE  Used(b, c)'
    <3>1. workers_by_fc'[b][c][id] = workers_by_fc[b][c][id]
      BY <1>2, <1>4, <2>1, <2>3
    <3> QED  BY <2>3, <3>1 DEF Used, Streams
  <2>4. CASE c = ch /\ workers_by_fc[b][c][work.work_id] > 0
    <3>1. workers_by_fc'[b][c][work.work_id] = StreamsLeft(b, work)
      BY <1>1, <1>2, <1>4, <2>1, <2>4
    <3>2. StreamsLeft(b, work) \in Nat
      BY <1>1, <2>1, StreamsType DEF TypeOK
    <3>3. CASE StreamsLeft(b, work) > 0
      BY <1>1, <3>1, <3>3 DEF Used, Streams
    <3>4. CASE StreamsLeft(b, work) = 0
      <4>1. \/ \E id \in WorkIds \ {work.work_id} : workers_by_fc[b][ch][id] > 0
            \/ Stops(b, work) >= 1
        BY <1>1, <2>1, <2>4, <3>4, LastStreamStops DEF TypeOK
      <4>2. CASE \E id \in WorkIds \ {work.work_id} : workers_by_fc[b][ch][id] > 0
        BY <2>3, <2>4, <4>2
      <4>3. CASE Stops(b, work) >= 1
        BY <1>7, <1>8, <2>4, <4>3
      <4> QED  BY <4>1, <4>2, <4>3
    <3> QED  BY <3>2, <3>3, <3>4
  <2> QED  BY <2>2, <2>3, <2>4 DEF Streams
<1> HIDE DEF work, ch, stops
<1> QED  BY <1>6, <1>9, StreamsStay

(* broker: a buffer that registers is read, and its address sent.          *)
LEMMA RegisterStreams ==
  ASSUME TypeOK, StreamInv, NEW b \in Buffers, RegisterBuffer(b),
         UNCHANGED <<m_buffer_addr, m_frame_list>>
  PROVE  StreamInv'
<1> DEFINE rrh == Head(m_rrh_list)
<1>1. /\ bufferToBroker[b] # <<>> /\ Head(bufferToBroker[b]).type = "READY"
      /\ bufferToBroker' = Receive(bufferToBroker, b)
      /\ brokerToRrh' = Send(brokerToRrh, rrh, BufferAddr(b))
      /\ UNCHANGED <<pending, workers_by_fc, rrhToBuffer>>
  BY DEF RegisterBuffer, matching
<1>2. /\ bufferToBroker \in [Buffers -> Seq(BufferRequest)]
      /\ brokerToRrh \in [Rrhs -> Seq(RrhMessage)]
      /\ m_buffer_addr \in [Rrhs -> SUBSET Buffers]
  BY DEF TypeOK, SocketsTypeOK, RrhTypeOK
<1> HIDE DEF rrh
<1>3. \A x \in Buffers, c \in Channels :
        Has(bufferToBroker[x], RequestsOn(c)) => Has(bufferToBroker'[x], RequestsOn(c))
  <2>1. \A c : Has(bufferToBroker[b], RequestsOn(c)) <=>
                 Has(Tail(bufferToBroker[b]), RequestsOn(c)) \/ Head(bufferToBroker[b]) \in RequestsOn(c)
    BY <1>1, <1>2, HasTail
  <2>2. \A c : Head(bufferToBroker[b]) \notin RequestsOn(c)
    BY <1>1 DEF RequestsOn
  <2>3. /\ bufferToBroker'[b] = Tail(bufferToBroker[b])
        /\ \A x \in Buffers \ {b} : bufferToBroker'[x] = bufferToBroker[x]
    BY <1>1, <1>2 DEF Receive
  <2> QED  BY <2>1, <2>2, <2>3
<1>4. \A r \in Rrhs, c \in Channels : Stopped(r, c) => Stopped(r, c)'
  <2>1. BufferAddr(b) \in RrhMessage
    BY DEF BufferAddr, RrhMessage
  <2>2. \A r \in Rrhs, c \in Channels :
          Has(brokerToRrh[r], StopsOf(c)) => Has(Append(brokerToRrh[r], BufferAddr(b)), StopsOf(c))
    BY <1>2, <2>1, HasAppend
  <2>3. \A r \in Rrhs : brokerToRrh'[r] = IF r = rrh THEN Append(brokerToRrh[r], BufferAddr(b))
                                                     ELSE brokerToRrh[r]
    BY <1>1, <1>2 DEF Send
  <2> QED  BY <2>2, <2>3 DEF Stopped
<1>5. \A x \in Buffers, c \in Channels : Used(x, c) => Used(x, c)'
  BY <1>1, <1>3 DEF Used, Streams
<1>6. \A r \in Rrhs, c \in Channels : \A x \in m_buffer_addr[r] :
        /\ Used(x, c) => Used(x, c)' \/ Stopped(r, c)'
        /\ Stopped(r, c) => Stopped(r, c)'
  BY <1>2, <1>4, <1>5
<1> QED  BY <1>6, StreamsStay

(* broker: one more stream of a buffer's channel.                          *)
LEMMA MoreStreams ==
  ASSUME BrokerTypeOK, NEW b \in Buffers, NEW c \in Channels, NEW id \in WorkIds,
         workers_by_fc' = [workers_by_fc EXCEPT ![b][c][id] = @ + 1]
  PROVE  /\ Streams(b, c)'
         /\ \A x \in Buffers, e \in Channels : Streams(x, e) => Streams(x, e)'
<1>1. workers_by_fc \in [Buffers -> [Channels -> [WorkIds -> Nat]]]
  BY DEF BrokerTypeOK
<1>2. \A x \in Buffers, e \in Channels, j \in WorkIds :
        workers_by_fc'[x][e][j] = IF x = b /\ e = c /\ j = id THEN workers_by_fc[x][e][j] + 1
                                                              ELSE workers_by_fc[x][e][j]
  BY <1>1
<1>3. \A x \in Buffers, e \in Channels, j \in WorkIds : workers_by_fc[x][e][j] \in Nat
  BY <1>1
<1>4. workers_by_fc'[b][c][id] > 0
  BY <1>2, <1>3
<1>5. \A x \in Buffers, e \in Channels, j \in WorkIds :
        workers_by_fc[x][e][j] > 0 => workers_by_fc'[x][e][j] > 0
  BY <1>2, <1>3
<1> QED  BY <1>4, <1>5 DEF Streams

(* broker: a request that is read is for a stream of its buffer, now or    *)
(* when a worker is there.                                                 *)
LEMMA AskedStreams ==
  ASSUME TypeOK, StreamInv, NEW b \in Buffers, AnnouncesFrame(b),
         UNCHANGED <<m_buffer_addr, m_frame_list, brokerToRrh, rrhToBuffer>>,
         NEW e, e = NewFrameOf(b).channel, Has(pending, WaitingOn(b, e))' \/ Streams(b, e)',
         \A x \in Buffers, c \in Channels : Streams(x, c) => Streams(x, c)'
  PROVE  StreamInv'
<1>1. /\ bufferToBroker[b] # <<>> /\ pending = <<>>
      /\ bufferToBroker' = Receive(bufferToBroker, b)
  BY DEF AnnouncesFrame
<1>2. /\ bufferToBroker \in [Buffers -> Seq(BufferRequest)]
      /\ m_buffer_addr \in [Rrhs -> SUBSET Buffers]
  BY DEF TypeOK, SocketsTypeOK, RrhTypeOK
<1>3. \A c : Has(bufferToBroker[b], RequestsOn(c)) =>
               Has(bufferToBroker'[b], RequestsOn(c)) \/ c = e
  <2>1. \A c : Has(bufferToBroker[b], RequestsOn(c)) <=>
                 Has(Tail(bufferToBroker[b]), RequestsOn(c)) \/ Head(bufferToBroker[b]) \in RequestsOn(c)
    BY <1>1, <1>2, HasTail
  <2>2. bufferToBroker'[b] = Tail(bufferToBroker[b])
    BY <1>1, <1>2 DEF Receive
  <2> QED  BY <2>1, <2>2 DEF RequestsOn, NewFrameOf
<1>4. \A x \in Buffers \ {b} : bufferToBroker'[x] = bufferToBroker[x]
  BY <1>1, <1>2 DEF Receive
<1>5. \A x, c : ~Has(pending, WaitingOn(x, c))
  BY <1>1 DEF Has
<1>6. ASSUME NEW x \in Buffers, NEW c \in Channels, Used(x, c)
      PROVE  Used(x, c)'
  <2>1. CASE Has(rrhToBuffer[x], FramesOn(c)) \/ Streams(x, c)
    BY <2>1 DEF Used
  <2>2. CASE Has(bufferToBroker[x], RequestsOn(c))
    <3>1. CASE Has(bufferToBroker'[x], RequestsOn(c))
      BY <3>1 DEF Used
    <3>2. CASE x = b /\ c = e
      BY <3>2 DEF Used
    <3> QED  BY <1>3, <1>4, <2>2, <3>1, <3>2
  <2> QED  BY <1>5, <1>6, <2>1, <2>2 DEF Used
<1> QED  BY <1>2, <1>6, UsesStay

(* SpawnForFrame: the request becomes pending and so remains a use.         *)
LEMMA SpawnStreams ==
  ASSUME TypeOK, StreamInv, NEW b \in Buffers, SpawnForFrame(b),
         UNCHANGED <<m_buffer_addr, m_frame_list>>
  PROVE  StreamInv'
<1> DEFINE f == Head(bufferToBroker[b]).frame
           c == NewFrameOf(b).channel
           q == [buffer |-> b, frame |-> f]
<1>1. /\ AnnouncesFrame(b) /\ pending' = <<q>>
      /\ UNCHANGED <<brokerToRrh, rrhToBuffer, workers_by_fc>>
  BY DEF SpawnForFrame
<1>2. f \in Frame
  BY <1>1, AnnouncesFrameType DEF TypeOK
<1>3. q \in WaitingOn(b, c)
  BY <1>2 DEF WaitingOn, Request, NewFrameOf
<1> HIDE DEF q, f, c
<1>4. Has(pending', WaitingOn(b, c))
  <2>1. 1 \in DOMAIN <<q>> /\ <<q>>[1] = q
    OBVIOUS
  <2> QED  BY <1>1, <1>3, <2>1 DEF Has
<1>5. \A x \in Buffers, e \in Channels : Streams(x, e) => Streams(x, e)'
  BY <1>1 DEF Streams
<1>6. PICK e : e = c
  OBVIOUS
<1>7. e = NewFrameOf(b).channel /\ Has(pending, WaitingOn(b, e))'
  BY <1>4, <1>6 DEF c
<1> QED  BY <1>1, <1>5, <1>7, AskedStreams

(* ServeFrame: the request becomes a work or is dropped with one at work.   *)
LEMMA ServeStreams ==
  ASSUME RequestsApart, TypeOK, FrameOnce, StreamInv, NEW b \in Buffers, ServeFrame(b),
         UNCHANGED <<m_buffer_addr, m_frame_list>>
  PROVE  StreamInv'
<1>1. AnnouncesFrame(b) /\ UNCHANGED <<brokerToRrh, rrhToBuffer>>
  BY DEF ServeFrame
<1>2. NewFrameOf(b) \in Frame /\ Combinable(NewFrameOf(b)) = {}
  BY <1>1, Uncombined
<1>3. PICK e \in Channels, id \in WorkIds :
        e = NewFrameOf(b).channel /\ workers_by_fc' = [workers_by_fc EXCEPT ![b][e][id] = @ + 1]
  <2>1. workers_by_fc' = [workers_by_fc EXCEPT ![b][NewFrameOf(b).channel][m_last_work_id] = @ + 1]
    BY <1>2, ServedAlone
  <2>2. NewFrameOf(b).channel \in Channels /\ m_last_work_id \in WorkIds
    BY <1>2 DEF Frame, TypeOK, BrokerTypeOK
  <2> QED  BY <2>1, <2>2
<1>4. /\ Streams(b, e)'
      /\ \A x \in Buffers, c \in Channels : Streams(x, c) => Streams(x, c)'
  BY <1>3, MoreStreams DEF TypeOK
<1> QED  BY <1>1, <1>3, <1>4, AskedStreams

(* FinishAttribution: the pending request becomes a work of the list.       *)
LEMMA FinishStreams ==
  ASSUME TypeOK, WorksInv, AttributionAligned, StreamInv, FinishAttribution, m_work_list # <<>>,
         UNCHANGED <<m_buffer_addr, m_frame_list>>
  PROVE  StreamInv'
<1> DEFINE q == Head(pending)
           last == m_work_list[Last]
<1>1. /\ pending # <<>> /\ pending \in Seq(Request) /\ Len(pending) <= 1
      /\ UNCHANGED <<brokerToRrh, rrhToBuffer, bufferToBroker>>
      /\ ForwardJob(m_work_list, q.buffer, q.frame) /\ pending' = <<>>
  BY DEF FinishAttribution, AttributionAligned, TypeOK, BrokerTypeOK
<1>2. /\ q \in Request /\ q.buffer \in Buffers /\ q.frame \in Frame /\ q.frame.channel \in Channels
  <2>1. q \in Request
    BY <1>1, Shifted
  <2> QED  BY <2>1 DEF Request, Frame
<1>3. \A j \in DOMAIN pending : pending[j] = q
  <2>1. /\ pending # <<>> /\ pending \in Seq(Request) /\ Len(pending) <= 1
    BY <1>1
  <2>2. Len(pending) \in Nat /\ Len(pending) >= 1 /\ Head(pending) = pending[1]
    BY <2>1, Shifted
  <2>3. DOMAIN pending = 1 .. Len(pending)
    BY <2>1
  <2>4. Len(pending) = 1
    <3> DEFINE n == Len(pending)
    <3>1. n \in Nat /\ n >= 1 /\ n <= 1
      BY <2>1, <2>2
    <3> HIDE DEF n
    <3>2. n = 1
      BY <3>1
    <3> QED  BY <3>2 DEF n
  <2>5. DOMAIN pending = {1}
    BY <2>3, <2>4
  <2> QED  BY <2>2, <2>5
<1>4. last.buffers_id = <<q.buffer>> /\ last.work_id \in WorkIds
  <2>1. Waiting(last, q)
    BY <1>1 DEF WorksInv
  <2>2. m_work_list \in Seq(Local_work_info) /\ Last \in DOMAIN m_work_list
    BY EmptySeq DEF TypeOK, BrokerTypeOK, Last
  <2>3. last \in Local_work_info
    BY <2>2, Element
  <2> QED  BY <2>1, <2>3 DEF Waiting, Local_work_info
<1>5. last.buffers_id[Len(last.buffers_id)] = q.buffer
  BY <1>4
<1>6. workers_by_fc' = [workers_by_fc EXCEPT ![q.buffer][q.frame.channel][last.work_id] = @ + 1]
  BY <1>1, <1>5 DEF ForwardJob, Last
<1>7. PICK b \in Buffers, c \in Channels, id \in WorkIds :
        /\ b = q.buffer /\ c = q.frame.channel
        /\ workers_by_fc' = [workers_by_fc EXCEPT ![b][c][id] = @ + 1]
  BY <1>2, <1>4, <1>6
<1>8. /\ Streams(b, c)'
      /\ \A x \in Buffers, e \in Channels : Streams(x, e) => Streams(x, e)'
  BY <1>7, MoreStreams DEF TypeOK
<1>9. \A x, e : Has(pending, WaitingOn(x, e)) => x = b /\ e = c
  BY <1>3, <1>7 DEF Has, WaitingOn
<1> HIDE DEF q, last
<1>10. ASSUME NEW x \in Buffers, NEW e \in Channels, Used(x, e)
       PROVE  Used(x, e)'
  <2>1. CASE Has(rrhToBuffer[x], FramesOn(e)) \/ Has(bufferToBroker[x], RequestsOn(e))
    BY <1>1, <2>1 DEF Used
  <2>2. CASE Has(pending, WaitingOn(x, e))
    BY <1>8, <1>9, <2>2 DEF Used
  <2>3. CASE Streams(x, e)
    BY <1>8, <2>3 DEF Used
  <2> QED  BY <1>10, <2>1, <2>2, <2>3 DEF Used
<1>11. m_buffer_addr \in [Rrhs -> SUBSET Buffers]
  BY DEF TypeOK, RrhTypeOK
<1> QED  BY <1>1, <1>10, <1>11, UsesStay

(* Every step of the base band unit.                                       *)
LEMMA StreamStep ==
  ASSUME RequestsApart, TypeOK, ApartInv, AttributionAligned, BufferForEachRrh, StreamInv, [Next]_vars
  PROVE  StreamInv'
<1>1. ASSUME UNCHANGED <<m_buffer_addr, m_frame_list, brokerToRrh, rrhToBuffer, bufferToBroker,
                         pending, workers_by_fc>>
      PROVE  StreamInv'
  BY <1>1 DEF StreamInv, Used, Streams, Stopped
<1>2. CASE BrokerStep
  <2>1. UNCHANGED <<m_buffer_addr, m_frame_list>> /\ BrokerNext
    BY <1>2 DEF BrokerStep, rrhVars
  <2>2. ASSUME NEW b \in Buffers, RegisterBuffer(b) \/ SpawnForFrame(b) \/ ServeFrame(b) PROVE StreamInv'
    <3>1. CASE RegisterBuffer(b)
      BY <2>1, <3>1, RegisterStreams
    <3>2. CASE SpawnForFrame(b)
      BY <2>1, <3>2, SpawnStreams
    <3>3. CASE ServeFrame(b)
      BY <2>1, <3>3, ServeStreams DEF ApartInv
    <3> QED  BY <2>2, <3>1, <3>2, <3>3
  <2>3. CASE FinishAttribution
    <3>1. WorksInv /\ (pending # <<>> => m_work_list # <<>>)
      BY DEF ApartInv, WorksInv
    <3>2. m_work_list # <<>>
      BY <2>3, <3>1 DEF FinishAttribution
    <3> QED  BY <2>1, <2>3, <3>1, <3>2, FinishStreams
  <2>4. ASSUME NEW i \in 1 .. Len(m_work_list), EndWork(i),
               UNCHANGED <<rrhToBuffer, bufferToBroker, pending>>
        PROVE  StreamInv'
    BY <2>1, <2>4, EndStreams
  <2>5. ASSUME NEW w \in SyncWorkers, WorkerSyncDone(w) PROVE StreamInv'
    <3>1. UNCHANGED <<rrhToBuffer, bufferToBroker, pending>>
      BY <2>5 DEF WorkerSyncDone, ServeSync
    <3> DEFINE I == UndergoingWorks(Head(syncToBroker[w]).work_id)
    <3>2. \/ I # {} /\ EndWork(First(I))
          \/ UNCHANGED <<workers_by_fc, brokerToRrh>>
      BY <2>5 DEF WorkerSyncDone
    <3>3. I # {} => First(I) \in 1 .. Len(m_work_list)
      BY WorkReported DEF TypeOK
    <3> HIDE DEF I
    <3> QED  BY <1>1, <2>1, <2>4, <3>1, <3>2, <3>3
  <2>6. ASSUME NEW a \in DemodWorkers, WorkerDemodDone(a) PROVE StreamInv'
    <3>1. UNCHANGED <<rrhToBuffer, bufferToBroker, pending>>
      BY <2>6 DEF WorkerDemodDone, matching
    <3> DEFINE I == UndergoingWorks(Head(demodToBroker[a]).work_id)
    <3>2. \/ I # {} /\ EndWork(First(I))
          \/ UNCHANGED <<workers_by_fc, brokerToRrh>>
      BY <2>6 DEF WorkerDemodDone
    <3>3. I # {} => First(I) \in 1 .. Len(m_work_list)
      BY WorkReported DEF TypeOK
    <3> HIDE DEF I
    <3> QED  BY <1>1, <2>1, <2>4, <3>1, <3>2, <3>3
  <2>7. CASE FrontendRrh \/ KeepAlive \/ \E w \in SyncWorkers : WorkerReady(w) \/ ForwardReply(w)
    <3>1. UNCHANGED <<brokerToRrh, rrhToBuffer, bufferToBroker, pending, workers_by_fc>>
      BY <2>7 DEF FrontendRrh, RrhRequest, KeepAlive, WorkerReady, ForwardReply, ServeSync, matching
    <3> QED  BY <1>1, <2>1, <3>1
  <2> QED  BY <2>1, <2>2, <2>3, <2>5, <2>6, <2>7 DEF BrokerNext, FrontendBuffer, Backend
<1>3. CASE \E b \in Buffers : StartBuffer(b) \/ BufferStep(b)
  BY <1>3, BufferStreams
<1>4. CASE \E r \in Rrhs : RrhStarts(r) \/ RrhStep(r)
  BY <1>4, RrhStreams
<1>5. CASE \E w \in SyncWorkers : StartSync(w) \/ SyncStep(w)
  <2>1. PICK w \in SyncWorkers : StartSync(w) \/ SyncStep(w)
    BY <1>5
  <2>2. UNCHANGED <<brokerVars, rrhVars>>
    BY <2>1 DEF StartSync, SyncStep
  <2>3. UNCHANGED <<brokerToRrh, rrhToBuffer, bufferToBroker>>
    BY <2>1 DEF StartSync, SyncStep, SyncStart, SyncNext, SyncAck, SyncLateDone, SyncJob, SyncEndOfWork,
                SyncLosesFraming, SyncGiveUp, SyncFirstSamples, SendsToBroker, sockets
  <2> QED  BY <1>1, <2>2, <2>3 DEF brokerVars, rrhVars
<1>6. CASE DemodStep
  <2>1. UNCHANGED <<brokerVars, rrhVars, brokerToRrh, rrhToBuffer, bufferToBroker>>
    BY <1>6 DEF DemodStep, FrameFound, FrameDecoded, sockets
  <2> QED  BY <1>1, <2>1 DEF brokerVars, rrhVars
<1>7. CASE UNCHANGED vars
  BY <1>1, <1>7 DEF vars, sockets, brokerVars, rrhVars
<1> QED  BY <1>2, <1>3, <1>4, <1>5, <1>6, <1>7 DEF Next

(* broker.cpp 469-484, rrh_zmq_sink_impl.cc 109-144: an RRH that streams a *)
(* channel has its frame, its request or the work made of it on the way to *)
(* the broker or in its lists; with the last work of the channel the order *)
(* to stop leaves for it.                                                  *)
THEOREM StreamsHaveReason == ASSUME RequestsApart PROVE Spec => []StreamingHasReason
<1>1. TypeInv /\ ApartInv /\ AttributionAligned /\ BufferForEachRrh /\ StreamInv /\ [Next]_vars => StreamInv'
  BY StreamStep DEF TypeInv
<1>2. Init => StreamInv
  BY DEF Init, RrhInit, StreamInv
<1>3. TypeInv /\ StreamInv => StreamingHasReason
  <2> SUFFICES ASSUME TypeOK, StreamInv, NEW r \in Rrhs, NEW b \in m_buffer_addr[r], NEW c \in Channels,
                      m_frame_list[r][c] # {}, NoUse(b, c)
               PROVE  \E i \in DOMAIN brokerToRrh[r] :
                        brokerToRrh[r][i].type = "STOP" /\ brokerToRrh[r][i].channel = c
    BY DEF StreamingHasReason, TypeInv
  <2>1. b \in Buffers
    BY DEF TypeOK, RrhTypeOK
  <2>2. ~Used(b, c)
    BY <2>1, UsedIsUse DEF TypeOK
  <2>3. Stopped(r, c)
    BY <2>2 DEF StreamInv
  <2> QED  BY <2>3 DEF Stopped, Has, StopsOf
<1> QED  BY <1>1, <1>2, <1>3, TypeInvariant, StayApart, AttributionStaysAligned, BuffersServed, PTL DEF Spec

-----------------------------------------------------------------------------
(* Counting messages                                                       *)

(* How many messages of M queue s holds.                                   *)
Count(s, M) == Cardinality(Marked(s, M))

(* Two sets are equally large when each element of one has one of the other. *)
LEMMA OneToOne ==
  ASSUME NEW S, IsFiniteSet(S), NEW T, NEW f \in [S -> T],
         \A x, y \in S : f[x] = f[y] => x = y, \A z \in T : \E x \in S : f[x] = z
  PROVE  IsFiniteSet(T) /\ Cardinality(T) = Cardinality(S)
<1>1. f \in Bijection(S, T)
  BY DEF Bijection, Injection, IsInjective, Surjection
<1>2. ExistsBijection(S, T)
  BY <1>1 DEF ExistsBijection
<1> QED  BY <1>2, FS_Bijection

(* A count is a natural number, zero when nothing is marked.                *)
LEMMA CountType ==
  ASSUME NEW T, NEW s \in Seq(T), NEW M
  PROVE  IsFiniteSet(Marked(s, M)) /\ Count(s, M) \in Nat /\ (Count(s, M) = 0 <=> Marked(s, M) = {})
<1>1. Len(s) \in Nat /\ DOMAIN s = 1 .. Len(s)
  OBVIOUS
<1>2. IsFiniteSet(DOMAIN s)
  BY <1>1, FS_Interval
<1>3. Marked(s, M) \subseteq DOMAIN s
  BY DEF Marked
<1>4. IsFiniteSet(Marked(s, M))
  BY <1>2, <1>3, FS_Subset
<1> QED  BY <1>4, FS_CardinalityType, FS_EmptySet DEF Count

(* A message is added, another one taken.                                  *)
LEMMA CountAppend ==
  ASSUME NEW T, NEW s \in Seq(T), NEW m \in T, NEW M
  PROVE  Count(Append(s, m), M) = IF m \in M THEN Count(s, M) + 1 ELSE Count(s, M)
<1>1. /\ m \in M => Marked(Append(s, m), M) = Marked(s, M) \cup {Len(s) + 1}
      /\ m \notin M => Marked(Append(s, m), M) = Marked(s, M)
  BY MarkedAppend
<1>2. Len(s) + 1 \notin Marked(s, M)
  BY DEF Marked
<1>3. IsFiniteSet(Marked(s, M))
  BY CountType
<1>4. Cardinality(Marked(s, M) \cup {Len(s) + 1}) = Cardinality(Marked(s, M)) + 1
  BY <1>2, <1>3, FS_AddElement
<1> QED  BY <1>1, <1>4 DEF Count

(* Receiving a message lowers the count by that message.                    *)
LEMMA CountTail ==
  ASSUME NEW T, NEW s \in Seq(T), s # <<>>, NEW M
  PROVE  Count(s, M) = IF Head(s) \in M THEN Count(Tail(s), M) + 1 ELSE Count(Tail(s), M)
<1> DEFINE t == Tail(s)
           h == Head(s)
           A == Marked(s, M) \ {1}
           B == Marked(t, M)
           f == [x \in A |-> x - 1]
<1>1. /\ t \in Seq(T) /\ h = s[1] /\ 1 \in DOMAIN s
      /\ \A i \in DOMAIN t : i \in Nat /\ i + 1 \in DOMAIN s /\ t[i] = s[i + 1]
      /\ \A i \in DOMAIN s : i # 1 => i - 1 \in DOMAIN t /\ t[i - 1] = s[i]
  BY Shifted
<1>2. \A i \in DOMAIN t : i >= 1
  BY <1>1
<1>3. \A i \in DOMAIN s : i \in Nat
  OBVIOUS
<1>4. IsFiniteSet(Marked(s, M)) /\ Count(s, M) \in Nat
  BY CountType
<1>5. IsFiniteSet(A) /\ Cardinality(A) = IF 1 \in Marked(s, M) THEN Count(s, M) - 1 ELSE Count(s, M)
  BY <1>4, FS_RemoveElement DEF Count
<1> HIDE DEF t, h
<1>6. f \in [A -> B]
  BY <1>1 DEF Marked
<1>7. \A x, y \in A : f[x] = f[y] => x = y
  BY <1>3 DEF Marked
<1>8. ASSUME NEW z \in B PROVE \E x \in A : f[x] = z
  <2>1. z \in DOMAIN t /\ z \in Nat /\ z >= 1 /\ z + 1 \in DOMAIN s /\ s[z + 1] \in M
    BY <1>1, <1>2, <1>8 DEF Marked
  <2>2. z + 1 \in A /\ (z + 1) - 1 = z
    BY <2>1 DEF Marked
  <2> QED  BY <2>2
<1> HIDE DEF A, B, f
<1>9. Cardinality(B) = Cardinality(A)
  BY <1>5, <1>6, <1>7, <1>8, OneToOne
<1>10. 1 \in Marked(s, M) <=> h \in M
  BY <1>1 DEF Marked
<1> QED  BY <1>4, <1>5, <1>9, <1>10 DEF Count, B, t, h

(* The marked messages of all workers' queues, tagged with a name.         *)
Family(tag, pipe, M) ==
  UNION {{<<tag, w, i>> : i \in Marked(pipe[w], M)} : w \in SyncWorkers}

(* The queue of one worker changes.                                        *)
OnlyAt(w, pipe, new) == \A v \in SyncWorkers \ {w} : new[v] = pipe[v]

(* The messages of the family change by those of that queue.               *)
ChangesBy(tag, pipe, new, w, M) ==
  /\ IsFiniteSet(Family(tag, new, M)) /\ Cardinality(Family(tag, new, M)) \in Nat
  /\ Cardinality(Family(tag, new, M)) + Count(pipe[w], M)
       = Cardinality(Family(tag, pipe, M)) + Count(new[w], M)

LEMMA FamilyChanges ==
  ASSUME NEW tag, NEW T, NEW pipe \in [SyncWorkers -> Seq(T)], NEW new \in [SyncWorkers -> Seq(T)],
         NEW w \in SyncWorkers, OnlyAt(w, pipe, new),
         NEW M, IsFiniteSet(Family(tag, pipe, M))
  PROVE  ChangesBy(tag, pipe, new, w, M)
<1> DEFINE Rest == UNION {{<<tag, v, i>> : i \in Marked(pipe[v], M)} : v \in SyncWorkers \ {w}}
           Mine(p) == {<<tag, w, i>> : i \in Marked(p[w], M)}
<1>1. /\ Family(tag, pipe, M) = Rest \cup Mine(pipe)
      /\ Family(tag, new, M) = Rest \cup Mine(new)
  BY DEF Family, OnlyAt
<1>2. Rest \cap Mine(pipe) = {} /\ Rest \cap Mine(new) = {}
  OBVIOUS
<1>3. IsFiniteSet(Rest)
  BY <1>1, FS_Subset
<1>4. ASSUME NEW p \in [SyncWorkers -> Seq(T)]
      PROVE  IsFiniteSet(Mine(p)) /\ Cardinality(Mine(p)) = Count(p[w], M) /\ Count(p[w], M) \in Nat
  <2> DEFINE S == Marked(p[w], M)
             f == [i \in S |-> <<tag, w, i>>]
  <2>1. IsFiniteSet(S) /\ Count(p[w], M) \in Nat
    BY CountType
  <2> HIDE DEF S
  <2>2. f \in [S -> {<<tag, w, i>> : i \in S}] /\ \A x, y \in S : f[x] = f[y] => x = y
    OBVIOUS
  <2>3. \A z \in {<<tag, w, i>> : i \in S} : \E x \in S : f[x] = z
    OBVIOUS
  <2> HIDE DEF f
  <2>4. IsFiniteSet({<<tag, w, i>> : i \in S}) /\ Cardinality({<<tag, w, i>> : i \in S}) = Cardinality(S)
    BY <2>1, <2>2, <2>3, OneToOne
  <2> QED  BY <2>1, <2>4 DEF S, Count
<1> HIDE DEF Rest, Mine
<1>5. ASSUME NEW p \in [SyncWorkers -> Seq(T)], Rest \cap Mine(p) = {}
      PROVE  /\ IsFiniteSet(Rest \cup Mine(p))
             /\ Cardinality(Rest \cup Mine(p)) = Cardinality(Rest) + Count(p[w], M)
  <2>1. IsFiniteSet(Mine(p)) /\ Cardinality(Mine(p)) = Count(p[w], M) /\ Count(p[w], M) \in Nat
    BY <1>4
  <2>2. /\ IsFiniteSet(Rest \cup Mine(p))
        /\ Cardinality(Rest \cup Mine(p)) = Cardinality(Rest) + Cardinality(Mine(p)) - Cardinality({})
    BY <1>3, <1>5, <2>1, FS_Union
  <2>3. Cardinality(Rest) \in Nat /\ Cardinality({}) = 0
    BY <1>3, FS_CardinalityType, FS_EmptySet
  <2> QED  BY <2>1, <2>2, <2>3
<1>6. /\ Cardinality(Family(tag, pipe, M)) = Cardinality(Rest) + Count(pipe[w], M)
      /\ Cardinality(Family(tag, new, M)) = Cardinality(Rest) + Count(new[w], M)
      /\ IsFiniteSet(Family(tag, new, M))
  BY <1>1, <1>2, <1>5
<1>7. Cardinality(Rest) \in Nat /\ Count(pipe[w], M) \in Nat /\ Count(new[w], M) \in Nat
  BY <1>3, <1>4, FS_CardinalityType
<1> HIDE DEF Rest
<1>8. Cardinality(Family(tag, new, M)) \in Nat
  BY <1>6, <1>7
<1>9. Cardinality(Family(tag, new, M)) + Count(pipe[w], M)
        = Cardinality(Family(tag, pipe, M)) + Count(new[w], M)
  BY <1>6, <1>7
<1> QED  BY <1>6, <1>8, <1>9 DEF ChangesBy

(* The queues of workers change, but not the marked messages in them.      *)
LEMMA FamilyStays ==
  ASSUME NEW tag, NEW pipe, NEW new, NEW M, \A v \in SyncWorkers : Marked(new[v], M) = Marked(pipe[v], M)
  PROVE  Family(tag, new, M) = Family(tag, pipe, M)
BY DEF Family

(* A message sent to one worker adds itself to the family.                  *)
LEMMA FamilySend ==
  ASSUME NEW tag, NEW T, NEW pipe \in [SyncWorkers -> Seq(T)], NEW w \in SyncWorkers, NEW m \in T,
         NEW M, IsFiniteSet(Family(tag, pipe, M))
  PROVE  /\ IsFiniteSet(Family(tag, Send(pipe, w, m), M))
         /\ Cardinality(Family(tag, Send(pipe, w, m), M))
              = IF m \in M THEN Cardinality(Family(tag, pipe, M)) + 1 ELSE Cardinality(Family(tag, pipe, M))
<1> DEFINE new == Send(pipe, w, m)
<1>1. /\ new \in [SyncWorkers -> Seq(T)] /\ new[w] = Append(pipe[w], m)
      /\ OnlyAt(w, pipe, new)
  BY DEF Send, OnlyAt
<1>2. Count(Append(pipe[w], m), M) = IF m \in M THEN Count(pipe[w], M) + 1 ELSE Count(pipe[w], M)
  BY CountAppend
<1>3. Count(pipe[w], M) \in Nat
  BY CountType
<1>4. Cardinality(Family(tag, pipe, M)) \in Nat
  BY FS_CardinalityType
<1> HIDE DEF new
<1>5. /\ IsFiniteSet(Family(tag, new, M)) /\ Cardinality(Family(tag, new, M)) \in Nat
      /\ Cardinality(Family(tag, new, M)) + Count(pipe[w], M)
           = Cardinality(Family(tag, pipe, M)) + Count(new[w], M)
  <2>1. new \in [SyncWorkers -> Seq(T)]
    BY <1>1
  <2>2. OnlyAt(w, pipe, new)
    BY <1>1
  <2>3. IsFiniteSet(Family(tag, pipe, M)) /\ pipe \in [SyncWorkers -> Seq(T)] /\ w \in SyncWorkers
    OBVIOUS
  <2>4. ChangesBy(tag, pipe, new, w, M)
    BY ONLY <2>1, <2>2, <2>3, FamilyChanges
  <2> QED  BY <2>4 DEF ChangesBy
<1>6. Cardinality(Family(tag, new, M))
        = IF m \in M THEN Cardinality(Family(tag, pipe, M)) + 1 ELSE Cardinality(Family(tag, pipe, M))
  BY <1>1, <1>2, <1>3, <1>4, <1>5
<1> QED  BY <1>5, <1>6 DEF new

(* A message received by one worker leaves the family.                      *)
LEMMA FamilyReceive ==
  ASSUME NEW tag, NEW T, NEW pipe \in [SyncWorkers -> Seq(T)], NEW w \in SyncWorkers,
         pipe[w] # <<>>, NEW M, IsFiniteSet(Family(tag, pipe, M))
  PROVE  /\ IsFiniteSet(Family(tag, Receive(pipe, w), M))
         /\ Cardinality(Family(tag, Receive(pipe, w), M)) \in Nat
         /\ Cardinality(Family(tag, pipe, M))
              = IF Head(pipe[w]) \in M THEN Cardinality(Family(tag, Receive(pipe, w), M)) + 1
                                       ELSE Cardinality(Family(tag, Receive(pipe, w), M))
<1> DEFINE new == Receive(pipe, w)
           h == Head(pipe[w])
<1>1. /\ new[w] = Tail(pipe[w]) /\ pipe[w] \in Seq(T) /\ pipe[w] # <<>>
      /\ OnlyAt(w, pipe, new)
  BY DEF Receive, OnlyAt
<1>2. Tail(pipe[w]) \in Seq(T)
  BY <1>1, Shifted
<1>3. new \in [SyncWorkers -> Seq(T)]
  BY <1>1, <1>2 DEF Receive
<1>4. Count(pipe[w], M) = IF h \in M THEN Count(Tail(pipe[w]), M) + 1 ELSE Count(Tail(pipe[w]), M)
  BY <1>1, CountTail
<1>5. Count(Tail(pipe[w]), M) \in Nat
  BY <1>2, CountType
<1>6. Cardinality(Family(tag, pipe, M)) \in Nat
  BY FS_CardinalityType
<1> HIDE DEF new, h
<1>7. /\ IsFiniteSet(Family(tag, new, M)) /\ Cardinality(Family(tag, new, M)) \in Nat
      /\ Cardinality(Family(tag, new, M)) + Count(pipe[w], M)
           = Cardinality(Family(tag, pipe, M)) + Count(new[w], M)
  <2>1. OnlyAt(w, pipe, new)
    BY <1>1
  <2>2. ChangesBy(tag, pipe, new, w, M)
    BY <1>3, <2>1, FamilyChanges
  <2> QED  BY <2>2 DEF ChangesBy
<1>8. Cardinality(Family(tag, pipe, M))
        = IF h \in M THEN Cardinality(Family(tag, new, M)) + 1 ELSE Cardinality(Family(tag, new, M))
  BY <1>1, <1>4, <1>5, <1>6, <1>7
<1> QED  BY <1>7, <1>8 DEF new, h

(* The same for pipes that are counted one by one.                         *)
LEMMA SentCount ==
  ASSUME NEW P, NEW T, NEW pipe \in [P -> Seq(T)], NEW p \in P, NEW m \in T, NEW M, NEW x \in P
  PROVE  Count(Send(pipe, p, m)[x], M) = IF x = p /\ m \in M THEN Count(pipe[x], M) + 1
                                                             ELSE Count(pipe[x], M)
<1>1. Send(pipe, p, m)[x] = IF x = p THEN Append(pipe[x], m) ELSE pipe[x]
  BY DEF Send
<1>2. Count(Append(pipe[x], m), M) = IF m \in M THEN Count(pipe[x], M) + 1 ELSE Count(pipe[x], M)
  BY CountAppend
<1> QED  BY <1>1, <1>2

(* A message received from one queue lowers the count of that queue only.   *)
LEMMA ReceivedCount ==
  ASSUME NEW P, NEW T, NEW pipe \in [P -> Seq(T)], NEW p \in P, pipe[p] # <<>>, NEW M, NEW x \in P
  PROVE  /\ Count(pipe[x], M) = IF x = p /\ Head(pipe[p]) \in M THEN Count(Receive(pipe, p)[x], M) + 1
                                                                ELSE Count(Receive(pipe, p)[x], M)
         /\ Count(Receive(pipe, p)[x], M) \in Nat
<1>1. Receive(pipe, p)[x] = IF x = p THEN Tail(pipe[x]) ELSE pipe[x]
  BY DEF Receive
<1>2. CASE x = p
  <2>1. Count(pipe[x], M) = IF Head(pipe[x]) \in M THEN Count(Tail(pipe[x]), M) + 1
                                                   ELSE Count(Tail(pipe[x]), M)
    BY <1>2, CountTail
  <2>2. Tail(pipe[x]) \in Seq(T)
    BY <1>2, Shifted
  <2>3. Count(Tail(pipe[x]), M) \in Nat
    BY <2>2, CountType
  <2> QED  BY <1>1, <1>2, <2>1, <2>3
<1>3. CASE x # p
  <2>1. Count(pipe[x], M) \in Nat
    BY CountType
  <2> QED  BY <1>1, <1>3, <2>1
<1> QED  BY <1>2, <1>3

-----------------------------------------------------------------------------
(* Requests that wait                                                      *)

(* The messages a request of buffer b is in, on its way through the broker *)
(* to a worker and back.                                                   *)
Announcements == {m \in BufferRequest : m.type = "NEW_FRAME"}
PendingOf(b)  == {q \in Request : q.buffer = b}
JobsOf(b)     == {m \in WorkerMessage : m.type = "JOB" /\ m.client = b}
SubscribedTo(b)  == {m \in SyncMessage : m.type = "SUBSCRIBED" /\ m.buffer = b}
Answers       == {"SUBSCRIBED"}

(* How many requests of b are at each place.                               *)
Asked(b)   == Count(bufferToBroker[b], Announcements)
Pended(b)  == Count(pending, PendingOf(b))
JobsOut(b) == Cardinality(Family("job", brokerToSync, JobsOf(b)))
Replied(b) == Cardinality(Family("reply", syncToBroker, SubscribedTo(b)))
Answered(b) == Count(brokerToBuffer[b], Answers)

(* In all.                                                                 *)
Total(b)  == Asked(b) + Pended(b) + JobsOut(b) + Replied(b) + Answered(b)
Finite(b) == /\ IsFiniteSet(Family("job", brokerToSync, JobsOf(b)))
             /\ IsFiniteSet(Family("reply", syncToBroker, SubscribedTo(b)))

(* A buffer that does not run yet waits for nothing, so that the first     *)
(* answer of the broker is not taken for a worker's.                       *)
WaitInv ==
  \A b \in Buffers : /\ Finite(b) /\ m_waiting_for_worker[b] = Total(b)
                     /\ buffer_state[b] # "RUNNING" => m_waiting_for_worker[b] = 0

(* The numbers of places of each kind are natural numbers.                  *)
LEMMA NumbersType ==
  ASSUME TypeOK, NEW b \in Buffers, Finite(b)
  PROVE  /\ Asked(b) \in Nat /\ Pended(b) \in Nat /\ JobsOut(b) \in Nat
         /\ Replied(b) \in Nat /\ Answered(b) \in Nat
<1>1. /\ bufferToBroker[b] \in Seq(BufferRequest) /\ pending \in Seq(Request)
      /\ brokerToBuffer[b] \in Seq({"ACK", "SUBSCRIBED"})
  BY DEF TypeOK, SocketsTypeOK, BrokerTypeOK
<1>2. Asked(b) \in Nat /\ Pended(b) \in Nat /\ Answered(b) \in Nat
  BY <1>1, CountType DEF Asked, Pended, Answered
<1> QED  BY <1>2, FS_CardinalityType DEF Finite, JobsOut, Replied

(* A tag makes places of different kinds different, and no fewer.           *)
LEMMA Tagged ==
  ASSUME NEW tag, NEW S, IsFiniteSet(S)
  PROVE  IsFiniteSet({<<tag, i>> : i \in S}) /\ Cardinality({<<tag, i>> : i \in S}) = Cardinality(S)
<1> DEFINE T == {<<tag, i>> : i \in S}
           f == [i \in S |-> <<tag, i>>]
<1>1. f \in [S -> T] /\ \A x, y \in S : f[x] = f[y] => x = y
  OBVIOUS
<1>2. \A z \in T : \E x \in S : f[x] = z
  OBVIOUS
<1> HIDE DEF f
<1> QED  BY <1>1, <1>2, OneToOne

(* Disjoint finite sets add up.                                             *)
LEMMA DisjointSum ==
  ASSUME NEW S, IsFiniteSet(S), NEW T, IsFiniteSet(T), S \cap T = {}
  PROVE  IsFiniteSet(S \cup T) /\ Cardinality(S \cup T) = Cardinality(S) + Cardinality(T)
<1>1. /\ IsFiniteSet(S \cup T)
      /\ Cardinality(S \cup T) = Cardinality(S) + Cardinality(T) - Cardinality({})
  BY FS_Union
<1>2. Cardinality(S) \in Nat /\ Cardinality(T) \in Nat /\ Cardinality({}) = 0
  BY FS_CardinalityType, FS_EmptySet
<1> QED  BY <1>1, <1>2

(* The outstanding requests of a buffer are as many as its places.          *)
LEMMA OutstandingCounted ==
  ASSUME TypeOK, NEW b \in Buffers, Finite(b)
  PROVE  Cardinality(Outstanding(b)) = Total(b)
<1> DEFINE A == {<<"asked", i>> : i \in Marked(bufferToBroker[b], Announcements)}
           P == {<<"pending", i>> : i \in Marked(pending, PendingOf(b))}
           J == Family("job", brokerToSync, JobsOf(b))
           R == Family("reply", syncToBroker, SubscribedTo(b))
           N == {<<"answer", i>> : i \in Marked(brokerToBuffer[b], Answers)}
<1>1. /\ bufferToBroker[b] \in Seq(BufferRequest) /\ pending \in Seq(Request)
      /\ brokerToBuffer[b] \in Seq({"ACK", "SUBSCRIBED"})
      /\ brokerToSync \in [SyncWorkers -> Seq(WorkerMessage)]
      /\ syncToBroker \in [SyncWorkers -> Seq(SyncMessage)]
  BY DEF TypeOK, SocketsTypeOK, BrokerTypeOK
<1>2. /\ Marked(bufferToBroker[b], Announcements)
           = {j \in DOMAIN bufferToBroker[b] : bufferToBroker[b][j].type = "NEW_FRAME"}
      /\ Marked(pending, PendingOf(b)) = {j \in DOMAIN pending : pending[j].buffer = b}
      /\ Marked(brokerToBuffer[b], Answers) = {j \in DOMAIN brokerToBuffer[b] : brokerToBuffer[b][j] = "SUBSCRIBED"}
  <2>1. \A j \in DOMAIN bufferToBroker[b] : bufferToBroker[b][j] \in BufferRequest
    BY <1>1, Element
  <2>2. \A j \in DOMAIN pending : pending[j] \in Request
    BY <1>1, Element
  <2> QED  BY <2>1, <2>2 DEF Marked, Announcements, PendingOf, Answers
<1>3. ASSUME NEW w \in SyncWorkers
      PROVE  /\ Marked(brokerToSync[w], JobsOf(b))
                  = {j \in DOMAIN brokerToSync[w] : brokerToSync[w][j].type = "JOB" /\ brokerToSync[w][j].client = b}
             /\ Marked(syncToBroker[w], SubscribedTo(b))
                  = {j \in DOMAIN syncToBroker[w] : syncToBroker[w][j].type = "SUBSCRIBED" /\ syncToBroker[w][j].buffer = b}
  <2>1. \A j \in DOMAIN brokerToSync[w] : brokerToSync[w][j] \in WorkerMessage
    BY <1>1, Element
  <2>2. \A j \in DOMAIN syncToBroker[w] : syncToBroker[w][j] \in SyncMessage
    BY <1>1, Element
  <2> QED  BY <2>1, <2>2 DEF Marked, JobsOf, SubscribedTo
<1>4. Outstanding(b) = A \cup P \cup J \cup R \cup N
  <2> DEFINE jobs(w) == {j \in DOMAIN brokerToSync[w] : /\ brokerToSync[w][j].type = "JOB"
                                                        /\ brokerToSync[w][j].client = b}
             replies(w) == {j \in DOMAIN syncToBroker[w] : /\ syncToBroker[w][j].type = "SUBSCRIBED"
                                                           /\ syncToBroker[w][j].buffer = b}
             allJobs == UNION {{<<"job", w, i>> : i \in jobs(w)} : w \in SyncWorkers}
             allReplies == UNION {{<<"reply", w, i>> : i \in replies(w)} : w \in SyncWorkers}
  <2>1. J = allJobs
    BY <1>3 DEF Family
  <2>2. R = allReplies
    BY <1>3 DEF Family
  <2>3. Outstanding(b) = A \cup P \cup allJobs \cup allReplies \cup N
    BY <1>2 DEF Outstanding
  <2> HIDE DEF A, P, J, R, N, allJobs, allReplies
  <2> QED  BY <2>1, <2>2, <2>3
<1>5. /\ IsFiniteSet(A) /\ Cardinality(A) = Asked(b) /\ IsFiniteSet(P) /\ Cardinality(P) = Pended(b)
      /\ IsFiniteSet(N) /\ Cardinality(N) = Answered(b)
  <2>1. /\ IsFiniteSet(Marked(bufferToBroker[b], Announcements)) /\ IsFiniteSet(Marked(pending, PendingOf(b)))
        /\ IsFiniteSet(Marked(brokerToBuffer[b], Answers))
    BY <1>1, CountType
  <2> QED  BY <2>1, Tagged DEF Asked, Pended, Answered, Count
<1>6. IsFiniteSet(J) /\ Cardinality(J) = JobsOut(b) /\ IsFiniteSet(R) /\ Cardinality(R) = Replied(b)
  BY DEF Finite, JobsOut, Replied
<1>7. A \cap P = {}
  OBVIOUS
<1>8. (A \cup P) \cap J = {}
  BY DEF Family
<1>9. (A \cup P \cup J) \cap R = {}
  BY DEF Family
<1>10. (A \cup P \cup J \cup R) \cap N = {}
  BY DEF Family
<1> HIDE DEF A, P, J, R, N
<1>11. IsFiniteSet(A \cup P) /\ Cardinality(A \cup P) = Asked(b) + Pended(b)
  BY <1>5, <1>7, DisjointSum
<1>12. IsFiniteSet(A \cup P \cup J) /\ Cardinality(A \cup P \cup J) = Asked(b) + Pended(b) + JobsOut(b)
  BY <1>6, <1>8, <1>11, DisjointSum
<1>13. /\ IsFiniteSet(A \cup P \cup J \cup R)
       /\ Cardinality(A \cup P \cup J \cup R) = Asked(b) + Pended(b) + JobsOut(b) + Replied(b)
  BY <1>6, <1>9, <1>12, DisjointSum
<1>14. Cardinality(A \cup P \cup J \cup R \cup N) = Asked(b) + Pended(b) + JobsOut(b) + Replied(b) + Answered(b)
  BY <1>5, <1>10, <1>13, DisjointSum
<1> QED  BY <1>4, <1>14 DEF Total

(* A step of another component, which makes a request go on.               *)
LEMMA MovesOn ==
  ASSUME WaitInv, UNCHANGED bufferVars, \A b \in Buffers : Finite(b)' /\ Total(b)' = Total(b)
  PROVE  WaitInv'
BY DEF WaitInv, bufferVars

(* The empty queue holds no message.                                        *)
LEMMA CountNone == ASSUME NEW M PROVE Count(<<>>, M) = 0
<1>1. Marked(<<>>, M) = {}
  BY DEF Marked
<1> QED  BY <1>1, FS_EmptySet DEF Count

(* A queue of one message.                                                  *)
LEMMA CountOne ==
  ASSUME NEW T, NEW m \in T, NEW M
  PROVE  Count(<<m>>, M) = IF m \in M THEN 1 ELSE 0
<1>1. <<>> \in Seq(T) /\ Append(<<>>, m) = <<m>>
  OBVIOUS
<1>2. Count(Append(<<>>, m), M) = IF m \in M THEN Count(<<>>, M) + 1 ELSE Count(<<>>, M)
  BY <1>1, CountAppend
<1>3. Count(<<>>, M) = 0
  BY CountNone
<1> QED  BY <1>1, <1>2, <1>3

(* What goes through the pipes between buffers and broker.                 *)
LEMMA AskedSent ==
  ASSUME TypeOK, NEW b \in Buffers, NEW m \in BufferRequest,
         bufferToBroker' = Send(bufferToBroker, b, m), NEW x \in Buffers
  PROVE  Asked(x)' = IF x = b /\ m \in Announcements THEN Asked(x) + 1 ELSE Asked(x)
<1>1. bufferToBroker \in [Buffers -> Seq(BufferRequest)]
  BY DEF TypeOK, SocketsTypeOK
<1>2. Count(Send(bufferToBroker, b, m)[x], Announcements)
        = IF x = b /\ m \in Announcements THEN Count(bufferToBroker[x], Announcements) + 1
                                          ELSE Count(bufferToBroker[x], Announcements)
  BY ONLY <1>1, b \in Buffers, m \in BufferRequest, x \in Buffers, SentCount
<1>3. Asked(x)' = Count(Send(bufferToBroker, b, m)[x], Announcements)
  BY DEF Asked
<1> QED  BY <1>2, <1>3 DEF Asked

(* The broker receives a message of a buffer.                               *)
LEMMA AskedRead ==
  ASSUME TypeOK, NEW b \in Buffers, bufferToBroker[b] # <<>>,
         bufferToBroker' = Receive(bufferToBroker, b), NEW x \in Buffers
  PROVE  /\ Asked(x) = IF x = b /\ Head(bufferToBroker[b]) \in Announcements THEN Asked(x)' + 1 ELSE Asked(x)'
         /\ Asked(x)' \in Nat
<1>1. bufferToBroker \in [Buffers -> Seq(BufferRequest)]
  BY DEF TypeOK, SocketsTypeOK
<1>2. /\ Count(bufferToBroker[x], Announcements)
           = IF x = b /\ Head(bufferToBroker[b]) \in Announcements
             THEN Count(Receive(bufferToBroker, b)[x], Announcements) + 1
             ELSE Count(Receive(bufferToBroker, b)[x], Announcements)
      /\ Count(Receive(bufferToBroker, b)[x], Announcements) \in Nat
  BY ONLY <1>1, b \in Buffers, bufferToBroker[b] # <<>>, x \in Buffers, ReceivedCount
<1>3. Asked(x)' = Count(Receive(bufferToBroker, b)[x], Announcements)
  BY DEF Asked
<1> QED  BY <1>2, <1>3 DEF Asked

(* The broker sends an answer to a buffer.                                  *)
LEMMA AnsweredSent ==
  ASSUME TypeOK, NEW b \in Buffers, NEW m \in {"ACK", "SUBSCRIBED"},
         brokerToBuffer' = Send(brokerToBuffer, b, m), NEW x \in Buffers
  PROVE  Answered(x)' = IF x = b /\ m \in Answers THEN Answered(x) + 1 ELSE Answered(x)
<1>1. brokerToBuffer \in [Buffers -> Seq({"ACK", "SUBSCRIBED"})]
  BY DEF TypeOK, SocketsTypeOK
<1>2. Count(Send(brokerToBuffer, b, m)[x], Answers)
        = IF x = b /\ m \in Answers THEN Count(brokerToBuffer[x], Answers) + 1
                                    ELSE Count(brokerToBuffer[x], Answers)
  BY ONLY <1>1, b \in Buffers, m \in {"ACK", "SUBSCRIBED"}, x \in Buffers, SentCount
<1>3. Answered(x)' = Count(Send(brokerToBuffer, b, m)[x], Answers)
  BY DEF Answered
<1> QED  BY <1>2, <1>3 DEF Answered

(* A buffer receives an answer of the broker.                               *)
LEMMA AnsweredRead ==
  ASSUME TypeOK, NEW b \in Buffers, brokerToBuffer[b] # <<>>,
         brokerToBuffer' = Receive(brokerToBuffer, b), NEW x \in Buffers
  PROVE  /\ Answered(x) = IF x = b /\ Head(brokerToBuffer[b]) \in Answers THEN Answered(x)' + 1 ELSE Answered(x)'
         /\ Answered(x)' \in Nat
<1>1. brokerToBuffer \in [Buffers -> Seq({"ACK", "SUBSCRIBED"})]
  BY DEF TypeOK, SocketsTypeOK
<1>2. /\ Count(brokerToBuffer[x], Answers)
           = IF x = b /\ Head(brokerToBuffer[b]) \in Answers
             THEN Count(Receive(brokerToBuffer, b)[x], Answers) + 1
             ELSE Count(Receive(brokerToBuffer, b)[x], Answers)
      /\ Count(Receive(brokerToBuffer, b)[x], Answers) \in Nat
  BY ONLY <1>1, b \in Buffers, brokerToBuffer[b] # <<>>, x \in Buffers, ReceivedCount
<1>3. Answered(x)' = Count(Receive(brokerToBuffer, b)[x], Answers)
  BY DEF Answered
<1> QED  BY <1>2, <1>3 DEF Answered

(* lora_rx_buffer: it registers, is acknowledged, asks for a worker, and   *)
(* hears that one listens.                                                 *)
LEMMA BufferWaits ==
  ASSUME TypeOK, WaitInv, NEW b \in Buffers, StartBuffer(b) \/ BufferStep(b)
  PROVE  WaitInv'
<1>1. /\ rrhToBuffer \in [Buffers -> Seq(Frame)]
      /\ bufferToBroker \in [Buffers -> Seq(BufferRequest)]
      /\ brokerToBuffer \in [Buffers -> Seq({"ACK", "SUBSCRIBED"})]
      /\ m_waiting_for_worker \in [Buffers -> Int]
      /\ buffer_state \in [Buffers -> BufferStates]
  BY DEF TypeOK, SocketsTypeOK, BufferTypeOK
<1>2. UNCHANGED <<pending, brokerToSync, syncToBroker>>
  BY DEF StartBuffer, BufferStep, BufferStart, BufferNext, BufferAcked, BufferRequestsWorker,
         BufferSubscribed, brokerVars
<1>3. \A x \in Buffers : /\ Asked(x) \in Nat /\ Pended(x) \in Nat /\ JobsOut(x) \in Nat
                         /\ Replied(x) \in Nat /\ Answered(x) \in Nat
  BY NumbersType DEF WaitInv
<1>4. \A x \in Buffers : /\ Finite(x)' <=> Finite(x)
                         /\ Total(x)' = Asked(x)' + Pended(x) + JobsOut(x) + Replied(x) + Answered(x)'
  BY <1>2 DEF Finite, Total, Pended, JobsOut, Replied
<1>5. CASE StartBuffer(b)
  <2>1. /\ buffer_state[b] = "NOT_STARTED" /\ buffer_state' = [buffer_state EXCEPT ![b] = "REGISTERING"]
        /\ bufferToBroker' = Send(bufferToBroker, b, BufferReady)
        /\ UNCHANGED <<m_waiting_for_worker, brokerToBuffer>>
    BY <1>5 DEF StartBuffer, BufferStart
  <2>2. BufferReady \in BufferRequest /\ BufferReady \notin Announcements
    BY DEF BufferReady, BufferRequest, Announcements
  <2>3. \A x \in Buffers : Asked(x)' = Asked(x) /\ Answered(x)' = Answered(x)
    <3>1. \A x \in Buffers : Asked(x)' = Asked(x)
      BY <2>1, <2>2, AskedSent
    <3> QED  BY <2>1, <3>1 DEF Answered
  <2>4. \A x \in Buffers : Total(x)' = Total(x)
    BY <1>4, <2>3 DEF Total
  <2> QED  BY <1>1, <1>4, <2>1, <2>4 DEF WaitInv
<1>6. CASE BufferRequestsWorker(b)
  <2> DEFINE f == Head(rrhToBuffer[b])
  <2>1. /\ rrhToBuffer[b] # <<>> /\ buffer_state[b] = "RUNNING"
        /\ bufferToBroker' = Send(bufferToBroker, b, NewFrame(f))
        /\ m_waiting_for_worker' = [m_waiting_for_worker EXCEPT ![b] = @ + 1]
        /\ UNCHANGED <<buffer_state, brokerToBuffer>>
    BY <1>6 DEF BufferRequestsWorker
  <2>2. f \in Frame
    BY <1>1, <2>1, Shifted
  <2>3. NewFrame(f) \in BufferRequest /\ NewFrame(f) \in Announcements
    BY <2>2 DEF NewFrame, BufferRequest, Announcements
  <2> HIDE DEF f
  <2>4. \A x \in Buffers : Asked(x)' = (IF x = b THEN Asked(x) + 1 ELSE Asked(x)) /\ Answered(x)' = Answered(x)
    <3>1. \A x \in Buffers : Asked(x)' = IF x = b THEN Asked(x) + 1 ELSE Asked(x)
      BY <2>1, <2>3, AskedSent
    <3> QED  BY <2>1, <3>1 DEF Answered
  <2>5. \A x \in Buffers : Total(x)' = IF x = b THEN Total(x) + 1 ELSE Total(x)
    BY <1>3, <1>4, <2>4 DEF Total
  <2>6. \A x \in Buffers : m_waiting_for_worker'[x] = IF x = b THEN m_waiting_for_worker[x] + 1
                                                               ELSE m_waiting_for_worker[x]
    BY <1>1, <2>1
  <2> QED  BY <1>4, <2>1, <2>5, <2>6 DEF WaitInv
<1>7. CASE BufferAcked(b)
  <2>1. /\ buffer_state[b] = "REGISTERING" /\ brokerToBuffer[b] # <<>>
        /\ brokerToBuffer' = Receive(brokerToBuffer, b)
        /\ UNCHANGED <<m_waiting_for_worker, bufferToBroker>>
        /\ \A x \in Buffers : x # b => buffer_state'[x] = buffer_state[x]
    BY <1>1, <1>7 DEF BufferAcked
  <2>2. m_waiting_for_worker[b] = 0 /\ Total(b) = 0
    BY <2>1 DEF WaitInv
  <2>3. Answered(b) = 0
    BY <1>3, <2>2 DEF Total
  <2>4. \A x \in Buffers :
          /\ Answered(x) = IF x = b /\ Head(brokerToBuffer[b]) \in Answers THEN Answered(x)' + 1
                                                                          ELSE Answered(x)'
          /\ Answered(x)' \in Nat
    BY <2>1, AnsweredRead
  <2>5. \A x \in Buffers : Answered(x)' = Answered(x) /\ Asked(x)' = Asked(x)
    BY <2>1, <2>3, <2>4 DEF Asked
  <2>6. \A x \in Buffers : Total(x)' = Total(x)
    BY <1>4, <2>5 DEF Total
  <2> QED  BY <1>4, <2>1, <2>2, <2>6 DEF WaitInv
<1>8. CASE BufferSubscribed(b)
  <2>1. /\ brokerToBuffer[b] # <<>> /\ Head(brokerToBuffer[b]) = "SUBSCRIBED" /\ buffer_state[b] = "RUNNING"
        /\ brokerToBuffer' = Receive(brokerToBuffer, b)
        /\ m_waiting_for_worker' = [m_waiting_for_worker EXCEPT ![b] = @ - 1]
        /\ UNCHANGED <<buffer_state, bufferToBroker>>
    BY <1>8 DEF BufferSubscribed, OneLess
  <2>2. \A x \in Buffers :
          /\ Answered(x) = IF x = b /\ Head(brokerToBuffer[b]) \in Answers THEN Answered(x)' + 1
                                                                          ELSE Answered(x)'
          /\ Answered(x)' \in Nat
    BY <2>1, AnsweredRead
  <2>3. \A x \in Buffers : /\ Answered(x)' = IF x = b THEN Answered(x) - 1 ELSE Answered(x)
                           /\ Asked(x)' = Asked(x)
    BY <2>1, <2>2 DEF Answers, Asked
  <2>4. \A x \in Buffers : Total(x)' = IF x = b THEN Total(x) - 1 ELSE Total(x)
    BY <1>3, <1>4, <2>3 DEF Total
  <2>5. \A x \in Buffers : m_waiting_for_worker'[x] = IF x = b THEN m_waiting_for_worker[x] - 1
                                                               ELSE m_waiting_for_worker[x]
    BY <1>1, <2>1
  <2> QED  BY <1>4, <2>1, <2>4, <2>5 DEF WaitInv
<1> QED  BY <1>5, <1>6, <1>7, <1>8 DEF BufferStep, BufferNext

(* broker: a buffer registers.                                             *)
LEMMA RegisterWaits ==
  ASSUME TypeOK, WaitInv, NEW b \in Buffers, RegisterBuffer(b), UNCHANGED bufferVars
  PROVE  WaitInv'
<1>1. /\ bufferToBroker \in [Buffers -> Seq(BufferRequest)]
      /\ brokerToBuffer \in [Buffers -> Seq({"ACK", "SUBSCRIBED"})]
  BY DEF TypeOK, SocketsTypeOK
<1>2. /\ bufferToBroker[b] # <<>> /\ Head(bufferToBroker[b]).type = "READY"
      /\ bufferToBroker' = Receive(bufferToBroker, b)
      /\ brokerToBuffer' = Send(brokerToBuffer, b, "ACK")
      /\ UNCHANGED <<pending, brokerToSync, syncToBroker>>
  BY DEF RegisterBuffer, matching
<1>3. Head(bufferToBroker[b]) \notin Announcements
  BY <1>2 DEF Announcements
<1>4. \A x \in Buffers : Asked(x)' = Asked(x)
  BY <1>2, <1>3, AskedRead
<1>5. \A x \in Buffers : Answered(x)' = Answered(x)
  <2>1. "ACK" \in {"ACK", "SUBSCRIBED"} /\ "ACK" \notin Answers
    BY DEF Answers
  <2> QED  BY <1>2, <2>1, AnsweredSent
<1>6. \A x \in Buffers : Finite(x)' /\ Total(x)' = Total(x)
  BY <1>2, <1>4, <1>5 DEF WaitInv, Finite, Total, Pended, JobsOut, Replied
<1> QED  BY <1>6, MovesOn

(* broker: a request is read in part and waits in the broker.              *)
LEMMA AnnouncedCount ==
  ASSUME TypeOK, NEW b \in Buffers, AnnouncesFrame(b), NEW x \in Buffers
  PROVE  /\ Asked(x) = IF x = b THEN Asked(x)' + 1 ELSE Asked(x)'
         /\ Asked(x)' \in Nat
<1>1. bufferToBroker \in [Buffers -> Seq(BufferRequest)]
  BY DEF TypeOK, SocketsTypeOK
<1>2. /\ bufferToBroker[b] # <<>> /\ Head(bufferToBroker[b]).type = "NEW_FRAME"
      /\ bufferToBroker' = Receive(bufferToBroker, b)
  BY DEF AnnouncesFrame
<1>3. Head(bufferToBroker[b]) \in Announcements
  <2>1. Head(bufferToBroker[b]) \in BufferRequest
    BY <1>1, <1>2, ReceiveType
  <2> QED  BY <1>2, <2>1 DEF Announcements
<1> QED  BY <1>2, <1>3, AskedRead

(* SpawnForFrame: an announcement becomes a pending request.                *)
LEMMA SpawnWaits ==
  ASSUME TypeOK, WaitInv, NEW b \in Buffers, SpawnForFrame(b), UNCHANGED bufferVars
  PROVE  WaitInv'
<1> DEFINE f == Head(bufferToBroker[b]).frame
           q == [buffer |-> b, frame |-> f]
<1>1. /\ AnnouncesFrame(b) /\ pending = <<>> /\ pending' = <<q>>
      /\ UNCHANGED <<brokerToBuffer, brokerToSync, syncToBroker>>
  BY DEF SpawnForFrame, AnnouncesFrame
<1>2. q \in Request
  <2>1. f \in Frame
    BY <1>1, AnnouncesFrameType DEF TypeOK
  <2> QED  BY <2>1 DEF Request
<1>3. \A x : q \in PendingOf(x) <=> x = b
  BY <1>2 DEF PendingOf
<1> HIDE DEF f, q
<1>4. ASSUME NEW x \in Buffers
      PROVE  Finite(x)' /\ Total(x)' = Total(x)
  <2>1. Asked(x) = (IF x = b THEN Asked(x)' + 1 ELSE Asked(x)') /\ Asked(x)' \in Nat
    BY <1>1, AnnouncedCount
  <2>2. Pended(x) = 0 /\ Pended(x)' = IF x = b THEN 1 ELSE 0
    <3>1. Count(<<>>, PendingOf(x)) = 0
      BY CountNone
    <3>2. Count(<<q>>, PendingOf(x)) = IF q \in PendingOf(x) THEN 1 ELSE 0
      BY <1>2, CountOne
    <3> QED  BY <1>1, <1>3, <3>1, <3>2 DEF Pended
  <2>3. /\ Finite(x)' /\ Finite(x) /\ JobsOut(x)' = JobsOut(x) /\ Replied(x)' = Replied(x)
        /\ Answered(x)' = Answered(x)
    BY <1>1 DEF WaitInv, Finite, JobsOut, Replied, Answered
  <2>4. JobsOut(x) \in Nat /\ Replied(x) \in Nat /\ Answered(x) \in Nat
    BY <2>3, NumbersType
  <2> QED  BY <2>1, <2>2, <2>3, <2>4 DEF Total
<1> QED  BY <1>4, MovesOn

(* broker: a job for a buffer's request is sent.                           *)
LEMMA JobCount ==
  ASSUME TypeOK, NEW x \in Buffers, Finite(x), NEW w \in SyncWorkers,
         NEW id \in WorkIds, NEW a \in DemodWorkers, NEW b \in Buffers, NEW p \in Buffers,
         brokerToSync' = Send(brokerToSync, w, Job(id, a, b, p)), UNCHANGED syncToBroker
  PROVE  Finite(x)' /\ Replied(x)' = Replied(x) /\ JobsOut(x)' = IF x = b THEN JobsOut(x) + 1 ELSE JobsOut(x)
<1>1. brokerToSync \in [SyncWorkers -> Seq(WorkerMessage)]
  BY DEF TypeOK, SocketsTypeOK
<1> DEFINE m == Job(id, a, b, p)
<1>2. m \in WorkerMessage /\ (m \in JobsOf(x) <=> x = b)
  BY DEF Job, WorkerMessage, JobMessage, JobsOf
<1> HIDE DEF m
<1>3. /\ IsFiniteSet(Family("job", Send(brokerToSync, w, m), JobsOf(x)))
      /\ Cardinality(Family("job", Send(brokerToSync, w, m), JobsOf(x)))
           = IF m \in JobsOf(x) THEN Cardinality(Family("job", brokerToSync, JobsOf(x))) + 1
                                ELSE Cardinality(Family("job", brokerToSync, JobsOf(x)))
  BY <1>1, <1>2, FamilySend DEF Finite
<1>4. brokerToSync' = Send(brokerToSync, w, m)
  BY DEF m
<1> QED  BY <1>2, <1>3, <1>4 DEF Finite, JobsOut, Replied

(* broker: a request gets its worker at once.                              *)
LEMMA ServeWaits ==
  ASSUME RequestsApart, TypeOK, FrameOnce, WaitInv, NEW b \in Buffers, ServeFrame(b), UNCHANGED bufferVars
  PROVE  WaitInv'
<1>1. /\ AnnouncesFrame(b)
      /\ UNCHANGED <<pending, brokerToBuffer, syncToBroker>>
  BY DEF ServeFrame, matching
<1>2. Combinable(NewFrameOf(b)) = {}
  BY <1>1, Uncombined
<1>3. PICK w \in SyncWorkers, id \in WorkIds, a \in DemodWorkers :
        brokerToSync' = Send(brokerToSync, w, Job(id, a, b, b))
  <2>1. /\ m_sync_worker_pool # <<>>
        /\ \E addr \in DemodWorkers :
             brokerToSync' = Send(brokerToSync, Head(m_sync_worker_pool), Job(m_last_work_id, addr, b, b))
    BY <1>2, ServedAlone
  <2>2. Head(m_sync_worker_pool) \in SyncWorkers /\ m_last_work_id \in WorkIds
    BY <2>1, HeadTailProperties DEF TypeOK, BrokerTypeOK
  <2> QED  BY <2>1, <2>2
<1>4. ASSUME NEW x \in Buffers
      PROVE  Finite(x)' /\ Total(x)' = Total(x)
  <2>1. Asked(x) = (IF x = b THEN Asked(x)' + 1 ELSE Asked(x)') /\ Asked(x)' \in Nat
    BY <1>1, AnnouncedCount
  <2>2. Finite(x)
    BY DEF WaitInv
  <2>3. Finite(x)' /\ Replied(x)' = Replied(x) /\ JobsOut(x)' = IF x = b THEN JobsOut(x) + 1 ELSE JobsOut(x)
    BY <1>1, <1>3, <2>2, JobCount
  <2>4. Pended(x)' = Pended(x) /\ Answered(x)' = Answered(x)
    BY <1>1 DEF Pended, Answered
  <2>5. Pended(x) \in Nat /\ JobsOut(x) \in Nat /\ Replied(x) \in Nat /\ Answered(x) \in Nat
    BY <2>2, NumbersType
  <2> QED  BY <2>1, <2>3, <2>4, <2>5 DEF Total
<1> QED  BY <1>4, MovesOn

(* broker: the request that waited gets its worker.                        *)
LEMMA FinishWaits ==
  ASSUME TypeOK, WorksInv, AttributionAligned, WaitInv, FinishAttribution, m_work_list # <<>>,
         UNCHANGED bufferVars
  PROVE  WaitInv'
<1> DEFINE q == Head(pending)
           last == m_work_list[Last]
           worker == Head(m_sync_worker_pool)
<1>1. /\ pending # <<>> /\ pending \in Seq(Request) /\ Len(pending) <= 1
      /\ m_sync_worker_pool # <<>> /\ ForwardJob(m_work_list, q.buffer, q.frame) /\ pending' = <<>>
      /\ UNCHANGED <<bufferToBroker, brokerToBuffer, syncToBroker>>
  BY DEF FinishAttribution, AttributionAligned, TypeOK, BrokerTypeOK
<1>2. q \in Request /\ q.buffer \in Buffers
  <2>1. q \in Request
    BY <1>1, Shifted
  <2> QED  BY <2>1 DEF Request
<1>3. Tail(pending) = <<>>
  <2> DEFINE n == Len(pending)
             t == Tail(pending)
  <2>1. n \in Nat /\ n <= 1 /\ t \in Seq(Request) /\ Len(t) = n - 1
    BY <1>1, HeadTailProperties
  <2>2. Len(t) \in Nat
    BY <2>1
  <2> HIDE DEF n, t
  <2>3. Len(t) = 0
    BY <2>1, <2>2
  <2>4. t = <<>>
    BY <2>1, <2>3, EmptySeq
  <2> QED  BY <2>4 DEF t
<1>4. /\ last.buffers_id = <<q.buffer>> /\ last.work_id \in WorkIds /\ last.demod_worker_addr \in DemodWorkers
      /\ worker \in SyncWorkers
  <2>1. Waiting(last, q)
    BY <1>1 DEF WorksInv
  <2>2. m_work_list \in Seq(Local_work_info) /\ Last \in DOMAIN m_work_list
    BY EmptySeq DEF TypeOK, BrokerTypeOK, Last
  <2>3. last \in Local_work_info
    BY <2>2, Element
  <2>4. worker \in SyncWorkers
    BY <1>1, HeadTailProperties DEF TypeOK, BrokerTypeOK
  <2> QED  BY <2>1, <2>3, <2>4 DEF Waiting, Local_work_info
<1>5. last.buffers_id[Len(last.buffers_id)] = q.buffer
  BY <1>4
<1>6. brokerToSync' = Send(brokerToSync, worker, Job(last.work_id, last.demod_worker_addr, q.buffer, q.buffer))
  BY <1>1, <1>5 DEF ForwardJob, Last
<1>7. PICK b \in Buffers, w \in SyncWorkers, id \in WorkIds, a \in DemodWorkers :
        b = q.buffer /\ brokerToSync' = Send(brokerToSync, w, Job(id, a, b, b))
  BY <1>2, <1>4, <1>6
<1> HIDE DEF q, last, worker
<1>8. ASSUME NEW x \in Buffers
      PROVE  Finite(x)' /\ Total(x)' = Total(x)
  <2>1. Pended(x) = (IF x = b THEN 1 ELSE 0) /\ Pended(x)' = 0
    <3>1. Count(pending, PendingOf(x)) = IF q \in PendingOf(x) THEN Count(Tail(pending), PendingOf(x)) + 1
                                                               ELSE Count(Tail(pending), PendingOf(x))
      BY <1>1, CountTail DEF q
    <3>2. Count(<<>>, PendingOf(x)) = 0
      BY CountNone
    <3>3. q \in PendingOf(x) <=> x = b
      BY <1>2, <1>7 DEF PendingOf
    <3> DEFINE after == Count(Tail(pending), PendingOf(x))
    <3>4. after = 0
      BY <1>3, <3>2
    <3> HIDE DEF after
    <3>5. x = b => Count(pending, PendingOf(x)) = after + 1
      BY <3>1, <3>3 DEF after
    <3>6. x # b => Count(pending, PendingOf(x)) = after
      BY <3>1, <3>3 DEF after
    <3>7. Count(pending, PendingOf(x)) = IF x = b THEN 1 ELSE 0
      BY <3>4, <3>5, <3>6
    <3>8. Pended(x)' = Count(<<>>, PendingOf(x))
      BY <1>1 DEF Pended
    <3> QED  BY <3>2, <3>7, <3>8 DEF Pended
  <2>2. Finite(x)
    BY DEF WaitInv
  <2>3. Finite(x)' /\ Replied(x)' = Replied(x) /\ JobsOut(x)' = IF x = b THEN JobsOut(x) + 1 ELSE JobsOut(x)
    BY <1>1, <1>7, <2>2, JobCount
  <2>4. Asked(x)' = Asked(x) /\ Answered(x)' = Answered(x)
    BY <1>1 DEF Asked, Answered
  <2>5. Asked(x) \in Nat /\ JobsOut(x) \in Nat /\ Replied(x) \in Nat /\ Answered(x) \in Nat
    BY <2>2, NumbersType
  <2> QED  BY <2>1, <2>3, <2>4, <2>5 DEF Total
<1> QED  BY <1>8, MovesOn

(* The broker reads a message of a worker.                                 *)
LEMMA ReplyRead ==
  ASSUME TypeOK, NEW w \in SyncWorkers, syncToBroker[w] # <<>>, syncToBroker' = Receive(syncToBroker, w),
         UNCHANGED brokerToSync, NEW x \in Buffers, Finite(x)
  PROVE  /\ Finite(x)' /\ JobsOut(x)' = JobsOut(x) /\ Replied(x)' \in Nat
         /\ Replied(x) = IF Head(syncToBroker[w]) \in SubscribedTo(x) THEN Replied(x)' + 1 ELSE Replied(x)'
<1>1. syncToBroker \in [SyncWorkers -> Seq(SyncMessage)]
  BY DEF TypeOK, SocketsTypeOK
<1>2. IsFiniteSet(Family("reply", syncToBroker, SubscribedTo(x)))
  BY DEF Finite
<1>3. /\ IsFiniteSet(Family("reply", Receive(syncToBroker, w), SubscribedTo(x)))
      /\ Cardinality(Family("reply", Receive(syncToBroker, w), SubscribedTo(x))) \in Nat
      /\ Cardinality(Family("reply", syncToBroker, SubscribedTo(x)))
           = IF Head(syncToBroker[w]) \in SubscribedTo(x)
             THEN Cardinality(Family("reply", Receive(syncToBroker, w), SubscribedTo(x))) + 1
             ELSE Cardinality(Family("reply", Receive(syncToBroker, w), SubscribedTo(x)))
  BY ONLY <1>1, <1>2, w \in SyncWorkers, syncToBroker[w] # <<>>, FamilyReceive
<1>4. /\ Replied(x)' = Cardinality(Family("reply", Receive(syncToBroker, w), SubscribedTo(x)))
      /\ Finite(x)' <=> /\ IsFiniteSet(Family("job", brokerToSync, JobsOf(x)))
                        /\ IsFiniteSet(Family("reply", Receive(syncToBroker, w), SubscribedTo(x)))
  BY DEF Replied, Finite
<1>5. IsFiniteSet(Family("job", brokerToSync, JobsOf(x))) /\ JobsOut(x)' = JobsOut(x)
  BY DEF Finite, JobsOut
<1> QED  BY <1>3, <1>4, <1>5 DEF Replied

(* broker: a worker's answer goes on to its buffer.                        *)
LEMMA ReplyWaits ==
  ASSUME TypeOK, WaitInv, NEW w \in SyncWorkers, ForwardReply(w), UNCHANGED bufferVars
  PROVE  WaitInv'
<1> DEFINE h == Head(syncToBroker[w])
<1>1. /\ syncToBroker[w] # <<>> /\ h.type = "SUBSCRIBED" /\ syncToBroker' = Receive(syncToBroker, w)
      /\ brokerToBuffer' = Send(brokerToBuffer, h.buffer, "SUBSCRIBED")
      /\ UNCHANGED <<bufferToBroker, pending, brokerToSync>>
  BY DEF ForwardReply, ServeSync
<1>2. h \in SyncMessage
  BY <1>1, ReceiveType DEF TypeOK, SocketsTypeOK
<1>3. h.buffer \in Buffers
  BY <1>1, <1>2 DEF SyncMessage
<1>4. \A x : h \in SubscribedTo(x) <=> x = h.buffer
  BY <1>1, <1>2 DEF SubscribedTo
<1>5. PICK b \in Buffers : b = h.buffer
  BY <1>3
<1>6. brokerToBuffer' = Send(brokerToBuffer, b, "SUBSCRIBED")
  BY <1>1, <1>5
<1>7. ASSUME NEW x \in Buffers
      PROVE  Finite(x)' /\ Total(x)' = Total(x)
  <2>1. Finite(x)
    BY DEF WaitInv
  <2>2. /\ Finite(x)' /\ JobsOut(x)' = JobsOut(x) /\ Replied(x)' \in Nat
        /\ Replied(x) = IF h \in SubscribedTo(x) THEN Replied(x)' + 1 ELSE Replied(x)'
    BY <1>1, <2>1, ReplyRead
  <2>3. Answered(x)' = IF x = b THEN Answered(x) + 1 ELSE Answered(x)
    <3>1. "SUBSCRIBED" \in {"ACK", "SUBSCRIBED"} /\ "SUBSCRIBED" \in Answers
      BY DEF Answers
    <3> QED  BY <1>6, <3>1, AnsweredSent
  <2>4. Asked(x)' = Asked(x) /\ Pended(x)' = Pended(x)
    BY <1>1 DEF Asked, Pended
  <2>5. Asked(x) \in Nat /\ Pended(x) \in Nat /\ JobsOut(x) \in Nat /\ Answered(x) \in Nat
    BY <2>1, NumbersType
  <2> HIDE DEF h
  <2> QED  BY <1>4, <1>5, <2>2, <2>3, <2>4, <2>5 DEF Total
<1> QED  BY <1>7, MovesOn

(* The broker reads a message of a worker that is no answer to a buffer.   *)
LEMMA ReadWaits ==
  ASSUME TypeOK, WaitInv, NEW w \in SyncWorkers, syncToBroker[w] # <<>>,
         syncToBroker' = Receive(syncToBroker, w), Head(syncToBroker[w]).type # "SUBSCRIBED",
         UNCHANGED <<bufferToBroker, pending, brokerToSync, brokerToBuffer>>, UNCHANGED bufferVars
  PROVE  WaitInv'
<1>1. ASSUME NEW x \in Buffers
      PROVE  Finite(x)' /\ Total(x)' = Total(x)
  <2>1. Finite(x)
    BY DEF WaitInv
  <2>2. Head(syncToBroker[w]) \notin SubscribedTo(x)
    BY DEF SubscribedTo
  <2>3. Finite(x)' /\ JobsOut(x)' = JobsOut(x) /\ Replied(x)' = Replied(x)
    BY <2>1, <2>2, ReplyRead
  <2>4. Asked(x)' = Asked(x) /\ Pended(x)' = Pended(x) /\ Answered(x)' = Answered(x)
    BY DEF Asked, Pended, Answered
  <2> QED  BY <2>3, <2>4 DEF Total
<1> QED  BY <1>1, MovesOn

(* Nothing but orders to workers is sent, and no job among them.           *)
LEMMA NoJobSent ==
  ASSUME WaitInv, UNCHANGED <<bufferToBroker, pending, brokerToBuffer, syncToBroker>>,
         UNCHANGED bufferVars,
         \A v \in SyncWorkers, x \in Buffers :
           Marked(brokerToSync'[v], JobsOf(x)) = Marked(brokerToSync[v], JobsOf(x))
  PROVE  WaitInv'
<1>1. ASSUME NEW x \in Buffers
      PROVE  Finite(x)' /\ Total(x)' = Total(x)
  <2>1. Family("job", brokerToSync', JobsOf(x)) = Family("job", brokerToSync, JobsOf(x))
    BY FamilyStays
  <2>2. Finite(x)' /\ JobsOut(x)' = JobsOut(x) /\ Replied(x)' = Replied(x)
    BY <2>1 DEF WaitInv, Finite, JobsOut, Replied
  <2>3. Asked(x)' = Asked(x) /\ Pended(x)' = Pended(x) /\ Answered(x)' = Answered(x)
    BY DEF Asked, Pended, Answered
  <2> QED  BY <2>2, <2>3 DEF Total
<1> QED  BY <1>1, MovesOn

(* broker: idle workers are asked whether they are still there.            *)
LEMMA KeepAliveWaits ==
  ASSUME TypeOK, WaitInv, KeepWorkersAlive, UNCHANGED bufferVars,
         UNCHANGED <<bufferToBroker, pending, brokerToBuffer, syncToBroker>>
  PROVE  WaitInv'
<1>1. Ack \in WorkerMessage /\ \A x : Ack \notin JobsOf(x)
  BY DEF Ack, WorkerMessage, JobsOf
<1> HIDE DEF Ack
<1>2. ASSUME NEW v \in SyncWorkers, NEW x \in Buffers
      PROVE  Marked(brokerToSync'[v], JobsOf(x)) = Marked(brokerToSync[v], JobsOf(x))
  <2>1. brokerToSync'[v] = brokerToSync[v] \/ brokerToSync'[v] = Append(brokerToSync[v], Ack)
    BY DEF KeepWorkersAlive
  <2>2. brokerToSync[v] \in Seq(WorkerMessage)
    BY DEF TypeOK, SocketsTypeOK
  <2>3. Marked(Append(brokerToSync[v], Ack), JobsOf(x)) = Marked(brokerToSync[v], JobsOf(x))
    BY <1>1, <2>2, MarkedAppend
  <2> QED  BY <2>1, <2>3
<1> QED  BY <1>2, NoJobSent

(* broker: a work ends, and its workers are told.                          *)
LEMMA EndMarks ==
  ASSUME TypeOK, NEW i \in 1 .. Len(m_work_list), EndWork(i),
         NEW v \in SyncWorkers, NEW x \in Buffers
  PROVE  Marked(brokerToSync'[v], JobsOf(x)) = Marked(brokerToSync[v], JobsOf(x))
<1> DEFINE dones == DonesFor(m_work_list[i], v)
<1>1. /\ dones \in Seq(WorkerMessage) /\ \A j \in DOMAIN dones : dones[j].type = "DONE"
      /\ brokerToSync'[v] = brokerToSync[v] \o dones
  BY DonesSent DEF TypeOK
<1>2. brokerToSync[v] \in Seq(WorkerMessage)
  BY DEF TypeOK, SocketsTypeOK
<1>3. \A j \in DOMAIN dones : dones[j] \notin JobsOf(x)
  BY <1>1 DEF JobsOf
<1> HIDE DEF dones
<1>4. Marked(brokerToSync[v] \o dones, JobsOf(x)) = Marked(brokerToSync[v], JobsOf(x))
  BY <1>1, <1>2, <1>3, MarkedJoin
<1> QED  BY <1>1, <1>4

(* broker: a worker reports the end of its work.                           *)
LEMMA SyncDoneWaits ==
  ASSUME TypeOK, WaitInv, NEW w \in SyncWorkers, WorkerSyncDone(w), UNCHANGED bufferVars
  PROVE  WaitInv'
<1> DEFINE I == UndergoingWorks(Head(syncToBroker[w]).work_id)
<1>1. /\ syncToBroker[w] # <<>> /\ Head(syncToBroker[w]).type = "SYNC_DONE"
      /\ syncToBroker' = Receive(syncToBroker, w)
      /\ UNCHANGED <<bufferToBroker, pending, brokerToBuffer>>
      /\ (I # {} /\ EndWork(First(I))) \/ UNCHANGED brokerToSync
  BY DEF WorkerSyncDone, ServeSync
<1>2. I # {} => First(I) \in 1 .. Len(m_work_list)
  BY WorkReported DEF TypeOK
<1> HIDE DEF I
<1>3. \A v \in SyncWorkers, x \in Buffers :
        Marked(brokerToSync'[v], JobsOf(x)) = Marked(brokerToSync[v], JobsOf(x))
  BY <1>1, <1>2, EndMarks
<1>4. ASSUME NEW x \in Buffers
      PROVE  Finite(x)' /\ Total(x)' = Total(x)
  <2>1. Family("job", brokerToSync', JobsOf(x)) = Family("job", brokerToSync, JobsOf(x))
    BY <1>3, FamilyStays
  <2>2. syncToBroker \in [SyncWorkers -> Seq(SyncMessage)]
    BY DEF TypeOK, SocketsTypeOK
  <2>3. IsFiniteSet(Family("reply", syncToBroker, SubscribedTo(x))) /\ Finite(x)
    BY DEF WaitInv, Finite
  <2>4. /\ IsFiniteSet(Family("reply", Receive(syncToBroker, w), SubscribedTo(x)))
        /\ Cardinality(Family("reply", syncToBroker, SubscribedTo(x)))
             = IF Head(syncToBroker[w]) \in SubscribedTo(x)
               THEN Cardinality(Family("reply", Receive(syncToBroker, w), SubscribedTo(x))) + 1
               ELSE Cardinality(Family("reply", Receive(syncToBroker, w), SubscribedTo(x)))
    BY ONLY <2>2, <2>3, w \in SyncWorkers, <1>1, FamilyReceive
  <2>5. Head(syncToBroker[w]) \notin SubscribedTo(x)
    BY <1>1 DEF SubscribedTo
  <2>6. Finite(x)' /\ JobsOut(x)' = JobsOut(x)
    BY <1>1, <2>1, <2>3, <2>4 DEF Finite, JobsOut
  <2>7. Replied(x)' = Replied(x)
    BY <1>1, <2>4, <2>5 DEF Replied
  <2>8. Asked(x)' = Asked(x) /\ Pended(x)' = Pended(x) /\ Answered(x)' = Answered(x)
    BY <1>1 DEF Asked, Pended, Answered
  <2> QED  BY <2>6, <2>7, <2>8 DEF Total
<1> QED  BY <1>4, MovesOn

(* broker: a demodulation worker reports the end of a work.                *)
LEMMA DemodDoneWaits ==
  ASSUME TypeOK, WaitInv, NEW a \in DemodWorkers, WorkerDemodDone(a), UNCHANGED bufferVars
  PROVE  WaitInv'
<1> DEFINE I == UndergoingWorks(Head(demodToBroker[a]).work_id)
<1>1. /\ UNCHANGED <<bufferToBroker, pending, brokerToBuffer, syncToBroker>>
      /\ (I # {} /\ EndWork(First(I))) \/ UNCHANGED brokerToSync
  BY DEF WorkerDemodDone, matching
<1>2. I # {} => First(I) \in 1 .. Len(m_work_list)
  BY WorkReported DEF TypeOK
<1> HIDE DEF I
<1>3. \A v \in SyncWorkers, x \in Buffers :
        Marked(brokerToSync'[v], JobsOf(x)) = Marked(brokerToSync[v], JobsOf(x))
  BY <1>1, <1>2, EndMarks
<1> QED  BY <1>1, <1>3, NoJobSent

(* A worker reads a message, and sends others.                             *)
LEMMA JobRead ==
  ASSUME TypeOK, NEW w \in SyncWorkers, brokerToSync[w] # <<>>, brokerToSync' = Receive(brokerToSync, w),
         NEW x \in Buffers, Finite(x)
  PROVE  /\ IsFiniteSet(Family("job", brokerToSync', JobsOf(x))) /\ JobsOut(x)' \in Nat
         /\ JobsOut(x) = IF Head(brokerToSync[w]) \in JobsOf(x) THEN JobsOut(x)' + 1 ELSE JobsOut(x)'
<1>1. brokerToSync \in [SyncWorkers -> Seq(WorkerMessage)]
  BY DEF TypeOK, SocketsTypeOK
<1>2. IsFiniteSet(Family("job", brokerToSync, JobsOf(x)))
  BY DEF Finite
<1>3. /\ IsFiniteSet(Family("job", Receive(brokerToSync, w), JobsOf(x)))
      /\ Cardinality(Family("job", Receive(brokerToSync, w), JobsOf(x))) \in Nat
      /\ Cardinality(Family("job", brokerToSync, JobsOf(x)))
           = IF Head(brokerToSync[w]) \in JobsOf(x)
             THEN Cardinality(Family("job", Receive(brokerToSync, w), JobsOf(x))) + 1
             ELSE Cardinality(Family("job", Receive(brokerToSync, w), JobsOf(x)))
  BY ONLY <1>1, <1>2, w \in SyncWorkers, brokerToSync[w] # <<>>, FamilyReceive
<1>4. JobsOut(x)' = Cardinality(Family("job", Receive(brokerToSync, w), JobsOf(x)))
  BY DEF JobsOut
<1> QED  BY <1>3, <1>4 DEF JobsOut

(* What a worker says to the broker but for the answer to a buffer.        *)
LEMMA NoReplySent ==
  ASSUME TypeOK, NEW w \in SyncWorkers, NEW s \in Seq(SyncMessage),
         \A j \in DOMAIN s : s[j].type # "SUBSCRIBED", SendsToBroker(w, s), NEW x \in Buffers
  PROVE  Family("reply", syncToBroker', SubscribedTo(x)) = Family("reply", syncToBroker, SubscribedTo(x))
<1>1. syncToBroker \in [SyncWorkers -> Seq(SyncMessage)]
  BY DEF TypeOK, SocketsTypeOK
<1>2. \A v \in SyncWorkers : syncToBroker'[v] = IF v = w THEN syncToBroker[v] \o s ELSE syncToBroker[v]
  BY <1>1 DEF SendsToBroker
<1>3. \A j \in DOMAIN s : s[j] \notin SubscribedTo(x)
  BY DEF SubscribedTo
<1>4. syncToBroker[w] \in Seq(SyncMessage)
  BY <1>1
<1>5. Marked(syncToBroker[w] \o s, SubscribedTo(x)) = Marked(syncToBroker[w], SubscribedTo(x))
  BY <1>3, <1>4, MarkedJoin
<1>6. \A v \in SyncWorkers : Marked(syncToBroker'[v], SubscribedTo(x)) = Marked(syncToBroker[v], SubscribedTo(x))
  BY <1>2, <1>5
<1> QED  BY <1>6, FamilyStays

(* A worker reads nothing, or no job, and answers no buffer.               *)
LEMMA QuietWorker ==
  ASSUME TypeOK, WaitInv, NEW w \in SyncWorkers, NEW s \in Seq(SyncMessage),
         \A j \in DOMAIN s : s[j].type # "SUBSCRIBED", SendsToBroker(w, s),
         \/ UNCHANGED brokerToSync
         \/ /\ brokerToSync[w] # <<>> /\ Head(brokerToSync[w]).type # "JOB"
            /\ brokerToSync' = Receive(brokerToSync, w),
         UNCHANGED bufferVars, UNCHANGED pending
  PROVE  WaitInv'
<1>1. UNCHANGED <<bufferToBroker, brokerToBuffer>>
  BY DEF SendsToBroker
<1>2. ASSUME NEW x \in Buffers
      PROVE  Finite(x)' /\ Total(x)' = Total(x)
  <2>1. Finite(x)
    BY DEF WaitInv
  <2>2. Family("reply", syncToBroker', SubscribedTo(x)) = Family("reply", syncToBroker, SubscribedTo(x))
    BY NoReplySent
  <2>3. IsFiniteSet(Family("job", brokerToSync', JobsOf(x))) /\ JobsOut(x)' = JobsOut(x)
    <3>1. CASE UNCHANGED brokerToSync
      BY <2>1, <3>1 DEF Finite, JobsOut
    <3>2. CASE /\ brokerToSync[w] # <<>> /\ Head(brokerToSync[w]).type # "JOB"
               /\ brokerToSync' = Receive(brokerToSync, w)
      <4>1. Head(brokerToSync[w]) \notin JobsOf(x)
        BY <3>2 DEF JobsOf
      <4> QED  BY <2>1, <3>2, <4>1, JobRead
    <3> QED  BY <3>1, <3>2
  <2>4. Finite(x)' /\ Replied(x)' = Replied(x)
    BY <2>1, <2>2, <2>3 DEF Finite, Replied
  <2>5. Asked(x)' = Asked(x) /\ Pended(x)' = Pended(x) /\ Answered(x)' = Answered(x)
    BY <1>1 DEF Asked, Pended, Answered
  <2> QED  BY <2>3, <2>4, <2>5 DEF Total
<1> QED  BY <1>2, MovesOn

(* A worker takes a job, and answers the buffer it is for.                 *)
LEMMA JobWaits ==
  ASSUME TypeOK, WaitInv, NEW w \in SyncWorkers, SyncJob(w), UNCHANGED bufferVars, UNCHANGED pending
  PROVE  WaitInv'
<1> DEFINE job == Head(brokerToSync[w])
           m == Subscribed(job.client)
<1>1. /\ syncToBroker \in [SyncWorkers -> Seq(SyncMessage)]
      /\ brokerToSync \in [SyncWorkers -> Seq(WorkerMessage)]
  BY DEF TypeOK, SocketsTypeOK
<1>2. /\ brokerToSync[w] # <<>> /\ job.type = "JOB" /\ brokerToSync' = Receive(brokerToSync, w)
      /\ syncToBroker' = [syncToBroker EXCEPT ![w] = @ \o <<m>>]
      /\ UNCHANGED <<bufferToBroker, brokerToBuffer>>
  BY DEF SyncJob, Idle, SendsToBroker
<1>3. job \in WorkerMessage
  BY <1>1, <1>2, ReceiveType
<1>4. job.client \in Buffers /\ \A x : job \in JobsOf(x) <=> x = job.client
  BY <1>2, <1>3 DEF WorkerMessage, JobMessage, JobsOf
<1>5. m \in SyncMessage /\ \A x : m \in SubscribedTo(x) <=> x = job.client
  BY <1>4 DEF Subscribed, SyncMessage, SubscribedTo
<1> HIDE DEF m
<1>6. syncToBroker' = Send(syncToBroker, w, m)
  <2>1. syncToBroker[w] \in Seq(SyncMessage)
    BY <1>1
  <2>2. Append(syncToBroker[w], m) = syncToBroker[w] \o <<m>>
    BY <1>5, <2>1, AppendIsConcat
  <2> QED  BY <1>1, <1>2, <2>2 DEF Send
<1>7. ASSUME NEW x \in Buffers
      PROVE  Finite(x)' /\ Total(x)' = Total(x)
  <2>1. Finite(x) /\ IsFiniteSet(Family("reply", syncToBroker, SubscribedTo(x)))
    BY DEF WaitInv, Finite
  <2>2. /\ IsFiniteSet(Family("job", brokerToSync', JobsOf(x))) /\ JobsOut(x)' \in Nat
        /\ JobsOut(x) = IF job \in JobsOf(x) THEN JobsOut(x)' + 1 ELSE JobsOut(x)'
    BY <1>2, <2>1, JobRead
  <2>3. /\ IsFiniteSet(Family("reply", Send(syncToBroker, w, m), SubscribedTo(x)))
        /\ Cardinality(Family("reply", Send(syncToBroker, w, m), SubscribedTo(x)))
             = IF m \in SubscribedTo(x) THEN Cardinality(Family("reply", syncToBroker, SubscribedTo(x))) + 1
                                        ELSE Cardinality(Family("reply", syncToBroker, SubscribedTo(x)))
    BY ONLY <1>1, <1>5, <2>1, w \in SyncWorkers, FamilySend
  <2>4. Finite(x)' /\ Replied(x)' = IF m \in SubscribedTo(x) THEN Replied(x) + 1 ELSE Replied(x)
    BY <1>6, <2>2, <2>3 DEF Finite, Replied
  <2>5. Asked(x)' = Asked(x) /\ Pended(x)' = Pended(x) /\ Answered(x)' = Answered(x)
    BY <1>2 DEF Asked, Pended, Answered
  <2>6. Asked(x) \in Nat /\ Pended(x) \in Nat /\ Replied(x) \in Nat /\ Answered(x) \in Nat
    BY <2>1, NumbersType
  <2> HIDE DEF job
  <2> QED  BY <1>4, <1>5, <2>2, <2>4, <2>5, <2>6 DEF Total
<1> QED  BY <1>7, MovesOn

(* The steps of a synchronization worker.                                  *)
LEMMA WorkerWaits ==
  ASSUME TypeOK, WaitInv, NEW w \in SyncWorkers, SyncStart(w) \/ SyncNext(w) \/ SyncFirstSamples(w),
         UNCHANGED bufferVars, UNCHANGED pending
  PROVE  WaitInv'
<1>1. /\ <<Ready>> \in Seq(SyncMessage) /\ \A j \in DOMAIN <<Ready>> : <<Ready>>[j].type # "SUBSCRIBED"
  BY DEF Ready, SyncMessage
<1>2. /\ <<>> \in Seq(SyncMessage) /\ \A j \in DOMAIN <<>> : <<>>[j].type # "SUBSCRIBED"
  OBVIOUS
<1>3. ASSUME NEW info \in m_work_info[w]
      PROVE  /\ Report(info) \in Seq(SyncMessage)
             /\ \A j \in DOMAIN Report(info) : Report(info)[j].type # "SUBSCRIBED"
  <2>1. Report(info) \in Seq(SyncMessage)
    BY ReportOnce DEF TypeOK
  <2>2. /\ DOMAIN Report(info) = {1, 2} /\ Report(info)[1] = SyncDone(info.work_id)
        /\ Report(info)[2] = Ready
    BY DEF Report
  <2> QED  BY <2>1, <2>2 DEF SyncDone, Ready
<1>4. CASE SyncStart(w)
  <2>1. SendsToBroker(w, <<Ready>>) /\ UNCHANGED brokerToSync
    BY <1>4 DEF SyncStart
  <2> QED  BY <1>1, <2>1, QuietWorker
<1>5. CASE SyncAck(w)
  <2>1. /\ SendsToBroker(w, <<Ready>>)
        /\ brokerToSync[w] # <<>> /\ Head(brokerToSync[w]).type # "JOB"
        /\ brokerToSync' = Receive(brokerToSync, w)
    BY <1>5 DEF SyncAck, Idle
  <2> QED  BY <1>1, <2>1, QuietWorker
<1>6. CASE SyncLateDone(w)
  <2>1. /\ SendsToBroker(w, <<>>)
        /\ brokerToSync[w] # <<>> /\ Head(brokerToSync[w]).type # "JOB"
        /\ brokerToSync' = Receive(brokerToSync, w)
    BY <1>6 DEF SyncLateDone, Idle
  <2> QED  BY <1>2, <2>1, QuietWorker
<1>7. CASE SyncJob(w)
  BY <1>7, JobWaits
<1>8. CASE SyncEndOfWork(w)
  <2>1. /\ SendsToBroker(w, <<Ready>>)
        /\ brokerToSync[w] # <<>> /\ Head(brokerToSync[w]).type # "JOB"
        /\ brokerToSync' = Receive(brokerToSync, w)
    BY <1>8 DEF SyncEndOfWork, Told
  <2> QED  BY <1>1, <2>1, QuietWorker
<1>9. CASE SyncLosesFraming(w)
  <2>1. PICK info \in m_work_info[w] : SendsToBroker(w, Report(info))
    BY <1>9 DEF SyncLosesFraming
  <2>2. /\ brokerToSync[w] # <<>> /\ Head(brokerToSync[w]).type # "JOB"
        /\ brokerToSync' = Receive(brokerToSync, w)
    BY <1>9 DEF SyncLosesFraming, Told
  <2> QED  BY <1>3, <2>1, <2>2, QuietWorker
<1>10. CASE SyncGiveUp(w)
  <2>1. PICK info \in m_work_info[w] : SendsToBroker(w, Report(info))
    BY <1>10 DEF SyncGiveUp
  <2>2. UNCHANGED brokerToSync
    BY <1>10 DEF SyncGiveUp
  <2> QED  BY <1>3, <2>1, <2>2, QuietWorker
<1>11. CASE SyncFirstSamples(w)
  <2>1. UNCHANGED <<bufferToBroker, brokerToSync, syncToBroker, brokerToBuffer>>
    BY <1>11 DEF SyncFirstSamples, sockets
  <2> QED  BY <2>1, NoJobSent
<1> QED  BY <1>4, <1>5, <1>6, <1>7, <1>8, <1>9, <1>10, <1>11 DEF SyncNext

(* Every step of the base band unit.                                       *)
LEMMA WaitStep ==
  ASSUME RequestsApart, TypeOK, ApartInv, AttributionAligned, WaitInv, [Next]_vars
  PROVE  WaitInv'
<1>1. CASE BrokerStep
  <2>1. UNCHANGED bufferVars /\ BrokerNext
    BY <1>1 DEF BrokerStep
  <2>2. ASSUME NEW b \in Buffers, RegisterBuffer(b) \/ SpawnForFrame(b) \/ ServeFrame(b) PROVE WaitInv'
    BY <2>1, <2>2, RegisterWaits, SpawnWaits, ServeWaits DEF ApartInv
  <2>3. CASE FinishAttribution
    <3>1. WorksInv /\ (pending # <<>> => m_work_list # <<>>)
      BY DEF ApartInv, WorksInv
    <3>2. m_work_list # <<>>
      BY <2>3, <3>1 DEF FinishAttribution
    <3> QED  BY <2>1, <2>3, <3>1, <3>2, FinishWaits
  <2>4. ASSUME NEW w \in SyncWorkers, WorkerReady(w) PROVE WaitInv'
    <3>1. /\ syncToBroker[w] # <<>> /\ syncToBroker' = Receive(syncToBroker, w)
          /\ Head(syncToBroker[w]).type # "SUBSCRIBED"
          /\ UNCHANGED <<bufferToBroker, pending, brokerToSync, brokerToBuffer>>
      BY <2>4 DEF WorkerReady, ServeSync
    <3> QED  BY <2>1, <3>1, ReadWaits
  <2>5. CASE \E w \in SyncWorkers : ForwardReply(w) \/ WorkerSyncDone(w)
    BY <2>1, <2>5, ReplyWaits, SyncDoneWaits
  <2>6. CASE \E a \in DemodWorkers : WorkerDemodDone(a)
    BY <2>1, <2>6, DemodDoneWaits
  <2>7. CASE FrontendRrh \/ KeepAlive
    <3>1. /\ UNCHANGED <<bufferToBroker, pending, brokerToBuffer, syncToBroker>>
          /\ KeepWorkersAlive \/ UNCHANGED brokerToSync
      BY <2>7 DEF FrontendRrh, RrhRequest, KeepAlive, matching
    <3>2. CASE KeepWorkersAlive
      BY <2>1, <3>1, <3>2, KeepAliveWaits
    <3>3. CASE UNCHANGED brokerToSync
      BY <2>1, <3>1, <3>3, NoJobSent
    <3> QED  BY <3>1, <3>2, <3>3
  <2> QED  BY <2>1, <2>2, <2>3, <2>4, <2>5, <2>6, <2>7 DEF BrokerNext, FrontendBuffer, Backend
<1>2. CASE \E b \in Buffers : StartBuffer(b) \/ BufferStep(b)
  BY <1>2, BufferWaits
<1>3. CASE \E w \in SyncWorkers : StartSync(w) \/ SyncStep(w)
  <2>1. PICK w \in SyncWorkers : StartSync(w) \/ SyncStep(w)
    BY <1>3
  <2>2. /\ SyncStart(w) \/ SyncNext(w) \/ SyncFirstSamples(w)
        /\ UNCHANGED <<brokerVars, bufferVars>>
    BY <2>1 DEF StartSync, SyncStep
  <2> QED  BY <2>2, WorkerWaits DEF brokerVars
<1>4. CASE (\E r \in Rrhs : RrhStarts(r) \/ RrhStep(r)) \/ DemodStep \/ UNCHANGED vars
  <2>1. UNCHANGED <<bufferVars, pending>>
    BY <1>4 DEF RrhStarts, RrhStep, DemodStep, vars, brokerVars
  <2>2. UNCHANGED <<bufferToBroker, brokerToBuffer, syncToBroker, brokerToSync>>
    BY <1>4 DEF RrhStarts, RequestBuffer, BufferGranted, RrhStep, RrhStops, RrhDetects, RrhWork,
                DemodStep, FrameFound, FrameDecoded, vars, sockets
  <2> QED  BY <2>1, <2>2, NoJobSent
<1> QED  BY <1>1, <1>2, <1>3, <1>4 DEF Next

(* At the start nobody waits, and nothing is on the way.                   *)
LEMMA WaitStart ==
  ASSUME Init
  PROVE  WaitInv
<1>1. /\ \A b \in Buffers : /\ bufferToBroker[b] = <<>> /\ brokerToBuffer[b] = <<>>
                            /\ m_waiting_for_worker[b] = 0
      /\ \A w \in SyncWorkers : syncToBroker[w] = <<>> /\ brokerToSync[w] = <<>>
      /\ pending = <<>>
  BY DEF Init, SocketsInit, BrokerInit, BufferInit
<1>2. \A M : Marked(<<>>, M) = {}
  BY DEF Marked
<1>3. ASSUME NEW b \in Buffers PROVE Finite(b) /\ Total(b) = 0
  <2>1. Asked(b) = 0 /\ Pended(b) = 0 /\ Answered(b) = 0
    BY <1>1, CountNone DEF Asked, Pended, Answered
  <2>2. Family("job", brokerToSync, JobsOf(b)) = {} /\ Family("reply", syncToBroker, SubscribedTo(b)) = {}
    BY <1>1, <1>2 DEF Family
  <2>3. Finite(b) /\ JobsOut(b) = 0 /\ Replied(b) = 0
    BY <2>2, FS_EmptySet DEF Finite, JobsOut, Replied
  <2> QED  BY <2>1, <2>3 DEF Total
<1> QED  BY <1>1, <1>3 DEF WaitInv

(* lora_rx_buffer_impl.cc 166-181 and 230-238: the number of workers a     *)
(* buffer waits for is the number of its requests that are on their way,   *)
(* from the buffer to the broker, there, to a worker, and back: none is    *)
(* lost and none is answered twice.                                        *)
THEOREM WaitingCounted == ASSUME RequestsApart PROVE Spec => []WaitingIsOutstanding
<1>1. TypeInv /\ ApartInv /\ AttributionAligned /\ WaitInv /\ [Next]_vars => WaitInv'
  BY WaitStep DEF TypeInv
<1>2. Init => WaitInv
  BY WaitStart
<1>3. TypeInv /\ WaitInv => WaitingIsOutstanding
  BY OutstandingCounted DEF WaitInv, WaitingIsOutstanding, TypeInv
<1> QED  BY <1>1, <1>2, <1>3, TypeInvariant, StayApart, AttributionStaysAligned, PTL DEF Spec
=============================================================================
