-------------------------- MODULE SampleClockProofs --------------------------
(***************************************************************************)
(* Proofs about SampleClock, for every size of windows, delay, time-out,   *)
(* period, error of the local clock and number of samples lost.            *)
(*                                                                         *)
(* Samples are numbered in the order in which they leave the radio.  The   *)
(* true time of a sample is its number and the samples lost before it,     *)
(* which are never more than those lost so far.  All clocks are compared   *)
(* with these numbers: compared with each other, their errors would seem   *)
(* to add up from message to message.                                      *)
(***************************************************************************)
EXTENDS SampleClock, QueueLemmas

StreamSample == [taken : Nat, tag : Int]
SinkFrame == [time : Int, taken : Nat, new : BOOLEAN]
SinkState == [frames : SUBSET SinkFrame, current : Int, latest : Int]
NewFrame == [time : Int, taken : Nat]
SampleMessage == [new : SUBSET NewFrame, time : Int, samples : Seq(Nat)]
WorkerState == [work_time : Int, detected : Int, is_new : BOOLEAN, tag_time : Int,
                first : Int, skipped : Int]

ClockTypeOK ==
  /\ now \in Nat /\ lost \in Nat /\ rx_time \in BOOLEAN
  /\ clock \in Int /\ m_got_first_pps_time \in BOOLEAN /\ m_last_resync \in Int
  /\ behind \in Nat /\ ahead \in Nat /\ slip \in Nat
  /\ stream \in Seq(StreamSample)
  /\ sink \in SinkState /\ published \in Seq(SampleMessage)
  /\ worker \in WorkerState

(* The number of the first sample that the sink has not been called with.  *)
Consumed == now - lost - Len(stream)

(* Time x stands for y, early by e at most and late by l.                  *)
Near(x, y, e, l) == y - e <= x /\ x <= y + l

(* The tag of a frame is as right as the detector's clock was at its worst. *)
TagsRight ==
  \A i \in DOMAIN stream :
    stream[i].tag # NoTime => Near(stream[i].tag, stream[i].taken, behind, ahead)

FramesRight(frames, b, a) == \A f \in frames : Near(f.time, f.taken, b, a)

(* A sample was taken as much later than its number says as were lost.     *)
SamplesNumbered ==
  \A i \in DOMAIN stream : stream[i].taken - (Consumed + i - 1) \in 0..lost

(* While it streams, the sink counts right from the tag it has last set    *)
(* its clock by; the first tag of a window may be before it by the slip.   *)
SinkRight(s, first, b, a, l) ==
  /\ FramesRight(s.frames, b, a)
  /\ s.frames # {} => Near(s.current, first, b, l)

SinkCounts == SinkRight(sink, Consumed, behind, ahead, MostLate)

(* The time of each sample of a message, counted from that of the message. *)
Stamped(m, b, a, e, l) ==
  /\ FramesRight(m.new, b, a)
  /\ Len(m.samples) >= 1
  /\ \A j \in DOMAIN m.samples : Near(m.time + j - 1, m.samples[j], e, l)

PublishedStamped ==
  \A i \in DOMAIN published : Stamped(published[i], behind, ahead, MostEarly, MostLate)

(* When all of the messages so far were dropped, the tag of a work has the *)
(* time from which on its samples are wanted.                              *)
WorkerCounts ==
  /\ worker.is_new => worker.first = NoTime
  /\ worker # NoWork /\ ~worker.is_new /\ worker.first = NoTime
       => worker.tag_time = worker.work_time - SYMB_PRETRIGGER
  /\ worker # NoWork => Near(worker.work_time, worker.detected, behind, ahead)
  /\ worker.first # NoTime => worker.tag_time - worker.first <= MostLate
  /\ FrameKept

ClockInv == /\ ClockTypeOK /\ TagsRight /\ SamplesNumbered /\ SinkCounts
            /\ PublishedStamped /\ WorkerCounts

-----------------------------------------------------------------------------
(* Tolerances, and numbers that the invariant is about                     *)

LEMMA Tolerances ==
  ASSUME ClockInv
  PROVE  /\ lost \in Nat /\ behind \in Nat /\ ahead \in Nat /\ slip \in Nat
         /\ MostEarly \in Nat /\ MostEarly = lost + behind
         /\ MostLate \in Nat /\ MostLate = lost + ahead + slip
BY DEF ClockInv, ClockTypeOK, MostEarly, MostLate

(* The errors are the largest so far, and never get smaller.               *)
Grow == /\ lost' \in Nat /\ behind' \in Nat /\ ahead' \in Nat /\ slip' \in Nat
        /\ lost <= lost' /\ behind <= behind' /\ ahead <= ahead' /\ slip <= slip'

LEMMA TolerancesGrow ==
  ASSUME ClockInv, Grow
  PROVE  /\ MostEarly' \in Nat /\ MostEarly' = lost' + behind' /\ MostEarly <= MostEarly'
         /\ MostLate' \in Nat /\ MostLate' = lost' + ahead' + slip' /\ MostLate <= MostLate'
<1>1. PICK l \in Nat, b \in Nat, a \in Nat, p \in Nat :
        l = lost' /\ b = behind' /\ a = ahead' /\ p = slip'
  BY DEF Grow
<1>2. lost <= l /\ behind <= b /\ ahead <= a /\ slip <= p
  BY <1>1 DEF Grow
<1>3. MostEarly' = l + b /\ MostLate' = l + a + p
  BY <1>1 DEF MostEarly, MostLate
<1>4. MostEarly <= l + b /\ MostLate <= l + a + p
  BY <1>2, Tolerances
<1>5. l + b \in Nat /\ l + a + p \in Nat
  OBVIOUS
<1> QED  BY <1>1, <1>3, <1>4, <1>5

LEMMA NearGrows ==
  ASSUME NEW x \in Int, NEW y \in Int, NEW e \in Nat, NEW l \in Nat,
         NEW e2 \in Nat, NEW l2 \in Nat, e <= e2, l <= l2, Near(x, y, e, l)
  PROVE  Near(x, y, e2, l2)
BY DEF Near

LEMMA FramesGrow ==
  ASSUME NEW frames, \A f \in frames : f.time \in Int /\ f.taken \in Nat,
         NEW b \in Nat, NEW a \in Nat, NEW b2 \in Nat, NEW a2 \in Nat, b <= b2, a <= a2,
         FramesRight(frames, b, a)
  PROVE  FramesRight(frames, b2, a2)
<1> SUFFICES ASSUME NEW f \in frames PROVE Near(f.time, f.taken, b2, a2)
  BY DEF FramesRight
<1>1. PICK x \in Int, y \in Int : x = f.time /\ y = f.taken
  OBVIOUS
<1>2. Near(x, y, b, a)
  BY <1>1 DEF FramesRight
<1>3. Near(x, y, b2, a2)
  BY <1>2, NearGrows
<1> QED  BY <1>1, <1>3

LEMMA SinkGrows ==
  ASSUME NEW s \in SinkState, NEW c \in Int, NEW b \in Nat, NEW a \in Nat, NEW l \in Nat,
         NEW b2 \in Nat, NEW a2 \in Nat, NEW l2 \in Nat, b <= b2, a <= a2, l <= l2,
         SinkRight(s, c, b, a, l)
  PROVE  SinkRight(s, c, b2, a2, l2)
<1>1. \A f \in s.frames : f.time \in Int /\ f.taken \in Nat
  BY DEF SinkState, SinkFrame
<1>2. FramesRight(s.frames, b2, a2)
  <2>1. FramesRight(s.frames, b, a)
    BY DEF SinkRight
  <2> QED  BY <1>1, <2>1, FramesGrow
<1>3. ASSUME s.frames # {} PROVE Near(s.current, c, b2, l2)
  <2>1. PICK x \in Int : x = s.current
    BY DEF SinkState
  <2>2. Near(x, c, b, l)
    BY <1>3, <2>1 DEF SinkRight
  <2>3. Near(x, c, b2, l2)
    BY <2>2, NearGrows
  <2> QED  BY <2>1, <2>3
<1> QED  BY <1>2, <1>3 DEF SinkRight

(* A message stays stamped when the clocks get worse.                      *)
LEMMA StampedGrows ==
  ASSUME NEW m \in SampleMessage,
         NEW b \in Nat, NEW a \in Nat, NEW e \in Nat, NEW l \in Nat,
         NEW b2 \in Nat, NEW a2 \in Nat, NEW e2 \in Nat, NEW l2 \in Nat,
         b <= b2, a <= a2, e <= e2, l <= l2, Stamped(m, b, a, e, l)
  PROVE  Stamped(m, b2, a2, e2, l2)
<1>1. \A f \in m.new : f.time \in Int /\ f.taken \in Nat
  BY DEF SampleMessage, NewFrame
<1>2. FramesRight(m.new, b2, a2)
  <2>1. FramesRight(m.new, b, a)
    BY DEF Stamped
  <2> QED  BY <1>1, <2>1, FramesGrow
<1>3. ASSUME NEW j \in DOMAIN m.samples
      PROVE  Near(m.time + j - 1, m.samples[j], e2, l2)
  <2>1. m.time \in Int /\ j \in Int /\ m.samples[j] \in Int
    BY Element DEF SampleMessage
  <2>2. PICK t \in Int, x \in Int : t = m.time + j - 1 /\ x = m.samples[j]
    BY <2>1
  <2>3. Near(t, x, e, l)
    BY <2>2 DEF Stamped
  <2>4. Near(t, x, e2, l2)
    BY <2>3, NearGrows
  <2> QED  BY <2>2, <2>4
<1> QED  BY <1>2, <1>3 DEF Stamped

LEMMA PublishedGrow ==
  ASSUME ClockInv, Grow
  PROVE  \A i \in DOMAIN published :
           Stamped(published[i], behind', ahead', MostEarly', MostLate')
<1> SUFFICES ASSUME NEW i \in DOMAIN published
             PROVE  Stamped(published[i], behind', ahead', MostEarly', MostLate')
  OBVIOUS
<1> DEFINE m == published[i]
<1>1. m \in SampleMessage /\ Stamped(m, behind, ahead, MostEarly, MostLate)
  BY Element DEF ClockInv, ClockTypeOK, PublishedStamped
<1> HIDE DEF m
<1>2. PICK b \in Nat, a \in Nat, e \in Nat, l \in Nat :
        b = behind /\ a = ahead /\ e = MostEarly /\ l = MostLate
  BY Tolerances
<1>3. PICK b2 \in Nat, a2 \in Nat, e2 \in Nat, l2 \in Nat :
        b2 = behind' /\ a2 = ahead' /\ e2 = MostEarly' /\ l2 = MostLate'
  BY TolerancesGrow DEF Grow
<1>4. b <= b2 /\ a <= a2 /\ e <= e2 /\ l <= l2
  BY <1>2, <1>3, TolerancesGrow DEF Grow
<1>5. Stamped(m, b, a, e, l)
  BY <1>1, <1>2
<1>6. Stamped(m, b2, a2, e2, l2)
  BY <1>1, <1>4, <1>5, StampedGrows
<1> QED  BY <1>3, <1>6 DEF m

(* A sample of the stream, and what its place says of it.                  *)
LEMMA SampleAt ==
  ASSUME ClockInv, NEW i \in DOMAIN stream
  PROVE  /\ i \in Nat /\ 1 <= i /\ i <= Len(stream) /\ Len(stream) \in Nat
         /\ stream[i] \in StreamSample /\ stream[i].taken \in Nat /\ stream[i].tag \in Int
         /\ stream[i].tag # NoTime => Near(stream[i].tag, stream[i].taken, behind, ahead)
         /\ Consumed + i - 1 <= stream[i].taken
         /\ stream[i].taken <= Consumed + i - 1 + lost
<1>1. stream \in Seq(StreamSample) /\ now \in Nat /\ lost \in Nat
  BY DEF ClockInv, ClockTypeOK
<1>2. stream[i] \in StreamSample
  BY <1>1, Element
<1>3. i \in Nat /\ 1 <= i /\ i <= Len(stream) /\ Len(stream) \in Nat
  BY <1>1
<1>4. Consumed \in Int
  BY <1>1, <1>3 DEF Consumed
<1>5. stream[i].taken \in Nat /\ stream[i].tag \in Int
  BY <1>2 DEF StreamSample
<1>6. PICK x \in Nat, k \in Int, l \in Nat : x = stream[i].taken /\ k = Consumed + i - 1 /\ l = lost
  BY <1>1, <1>3, <1>4, <1>5
<1>7. x - k \in 0..l
  BY <1>6 DEF ClockInv, SamplesNumbered
<1>8. k <= x /\ x <= k + l
  BY <1>7
<1>9. stream[i].tag # NoTime => Near(stream[i].tag, stream[i].taken, behind, ahead)
  BY DEF ClockInv, TagsRight
<1> QED  BY <1>2, <1>3, <1>5, <1>6, <1>8, <1>9

(* What the worker knows is not disturbed when the clocks get worse.       *)
LEMMA WorkerStays ==
  ASSUME ClockInv, Grow, UNCHANGED worker
  PROVE  WorkerCounts'
<1>1. /\ SYMB_PRETRIGGER \in Nat /\ worker.tag_time \in Int /\ worker.first \in Int
      /\ worker.skipped \in Int /\ worker.work_time \in Int /\ worker.detected \in Int
  BY ClockAssumption DEF ClockInv, ClockTypeOK, WorkerState
<1>2. PICK l \in Nat, b \in Nat, a \in Nat, m \in Nat :
        l = lost /\ b = behind /\ a = ahead /\ m = MostLate
  BY Tolerances
<1>3. PICK l2 \in Nat, b2 \in Nat, a2 \in Nat, m2 \in Nat :
        l2 = lost' /\ b2 = behind' /\ a2 = ahead' /\ m2 = MostLate'
  BY TolerancesGrow DEF Grow
<1>4. l <= l2 /\ b <= b2 /\ a <= a2 /\ m <= m2
  BY <1>2, <1>3, TolerancesGrow DEF Grow
<1>5. PICK g \in Int, f \in Int, s \in Int, w \in Int, d \in Int :
        /\ g = worker.tag_time /\ f = worker.first /\ s = worker.skipped
        /\ w = worker.work_time /\ d = worker.detected
  BY <1>1
<1>6. worker.first # NoTime => g - f <= m2
  <2>1. worker.first # NoTime => g - f <= m
    BY <1>2, <1>5 DEF ClockInv, WorkerCounts
  <2> QED  BY <1>4, <2>1
<1>7. s # NoTime => s < d - SYMB_PRETRIGGER + l2 + b2 + a2
  <2>1. s # NoTime => s < d - SYMB_PRETRIGGER + l + b + a
    BY <1>2, <1>5 DEF ClockInv, WorkerCounts, FrameKept
  <2> QED  BY <1>1, <1>4, <2>1
<1>8. worker # NoWork => Near(w, d, b2, a2)
  <2>1. worker # NoWork => Near(w, d, b, a)
    BY <1>2, <1>5 DEF ClockInv, WorkerCounts
  <2> QED  BY <1>4, <2>1, NearGrows
<1>9. /\ worker.is_new => worker.first = NoTime
      /\ worker # NoWork /\ ~worker.is_new /\ worker.first = NoTime
           => worker.tag_time = worker.work_time - SYMB_PRETRIGGER
  BY DEF ClockInv, WorkerCounts
<1>10. FrameKept'
  BY <1>3, <1>5, <1>7 DEF FrameKept
<1> QED  BY <1>3, <1>5, <1>6, <1>8, <1>9, <1>10 DEF WorkerCounts

-----------------------------------------------------------------------------
(* The radio and the detector                                              *)

LEMMA InitClock == Init => ClockInv
<1> SUFFICES ASSUME Init PROVE ClockInv
  OBVIOUS
<1>1. /\ stream = <<>> /\ published = <<>> /\ DOMAIN stream = {} /\ DOMAIN published = {}
      /\ worker = NoWork /\ sink.frames = {}
  BY DEF Init
<1>2. ClockTypeOK
  <2>1. StartTime \in Nat
    BY ClockAssumption
  <2>2. /\ now = StartTime /\ lost = 0 /\ rx_time = TRUE /\ clock = -1
        /\ m_got_first_pps_time = FALSE /\ m_last_resync = StartTime
        /\ behind = 0 /\ ahead = 0 /\ slip = 0
    BY DEF Init, NoTime
  <2>3. sink \in SinkState /\ worker \in WorkerState
    BY DEF Init, SinkState, WorkerState, NoWork, NoTime
  <2>4. stream \in Seq(StreamSample) /\ published \in Seq(SampleMessage)
    BY <1>1
  <2>5. now \in Nat /\ lost \in Nat /\ clock \in Int /\ m_last_resync \in Int
    BY <2>1, <2>2
  <2>6. behind \in Nat /\ ahead \in Nat /\ slip \in Nat
    BY <2>2
  <2>7. rx_time \in BOOLEAN /\ m_got_first_pps_time \in BOOLEAN
    BY <2>2
  <2> QED  BY <2>3, <2>4, <2>5, <2>6, <2>7 DEF ClockTypeOK
<1>3. TagsRight /\ SamplesNumbered /\ SinkCounts /\ PublishedStamped
  BY <1>1 DEF TagsRight, SamplesNumbered, SinkCounts, SinkRight, FramesRight, PublishedStamped
<1>4. WorkerCounts
  BY <1>1 DEF WorkerCounts, FrameKept, NoWork
<1> QED  BY <1>2, <1>3, <1>4 DEF ClockInv

(* Sink, messages and worker when the radio or the detector went on.       *)
LEMMA RestGrows ==
  ASSUME ClockInv, Grow, UNCHANGED <<sink, published, worker>>, Consumed' = Consumed
  PROVE  SinkCounts' /\ PublishedStamped' /\ WorkerCounts'
<1>1. SinkCounts'
  <2>1. PICK b \in Nat, a \in Nat, l \in Nat : b = behind /\ a = ahead /\ l = MostLate
    BY Tolerances
  <2>2. PICK b2 \in Nat, a2 \in Nat, l2 \in Nat : b2 = behind' /\ a2 = ahead' /\ l2 = MostLate'
    BY TolerancesGrow DEF Grow
  <2>3. b <= b2 /\ a <= a2 /\ l <= l2
    BY <2>1, <2>2, TolerancesGrow DEF Grow
  <2>4. Consumed \in Int /\ sink \in SinkState
    BY DEF ClockInv, ClockTypeOK, Consumed
  <2>5. SinkRight(sink, Consumed, b, a, l)
    BY <2>1 DEF ClockInv, SinkCounts
  <2>6. SinkRight(sink, Consumed, b2, a2, l2)
    BY <2>3, <2>4, <2>5, SinkGrows
  <2>7. sink' = sink /\ Consumed' = Consumed
    OBVIOUS
  <2>8. SinkRight(sink', Consumed', behind', ahead', MostLate')
    BY <2>2, <2>6, <2>7
  <2> QED  BY <2>8 DEF SinkCounts
<1>2. PublishedStamped'
  BY PublishedGrow DEF PublishedStamped
<1>3. WorkerCounts'
  BY WorkerStays
<1> QED  BY <1>1, <1>2, <1>3

(* The tags that are in the stream already.                                *)
LEMMA TagsStay ==
  ASSUME ClockInv, Grow, NEW i \in DOMAIN stream, stream[i].tag # NoTime
  PROVE  Near(stream[i].tag, stream[i].taken, behind', ahead')
<1>1. PICK x \in Int, y \in Int : x = stream[i].tag /\ y = stream[i].taken
  BY SampleAt
<1>2. PICK b \in Nat, a \in Nat : b = behind /\ a = ahead
  BY Tolerances
<1>3. PICK b2 \in Nat, a2 \in Nat : b2 = behind' /\ a2 = ahead'
  BY DEF Grow
<1>4. b <= b2 /\ a <= a2
  BY <1>2, <1>3 DEF Grow
<1>5. Near(x, y, b, a)
  BY <1>1, <1>2, SampleAt
<1>6. Near(x, y, b2, a2)
  BY <1>4, <1>5, NearGrows
<1> QED  BY <1>1, <1>3, <1>6

LEMMA OverflowClock == ASSUME ClockInv, Overflow PROVE ClockInv'
<1>1. /\ now \in Nat /\ lost \in Nat /\ now' = now + 1 /\ lost' = lost + 1 /\ rx_time'
      /\ UNCHANGED <<detector, rrh, published, worker>> /\ Len(stream) \in Nat
  BY DEF Overflow, ClockInv, ClockTypeOK
<1>2. Grow
  BY <1>1, Tolerances DEF Grow, detector, rrh
<1>3. Consumed' = Consumed /\ Consumed \in Int
  BY <1>1 DEF Consumed, rrh
<1>4. ClockTypeOK'
  BY <1>1 DEF ClockInv, ClockTypeOK, Overflow, detector, rrh
<1>5. TagsRight'
  BY <1>1, <1>2, TagsStay DEF TagsRight, rrh
<1>6. SamplesNumbered'
  <2> SUFFICES ASSUME NEW i \in DOMAIN stream
               PROVE  stream[i].taken - (Consumed + i - 1) \in 0..lost + 1
    BY <1>1, <1>3 DEF SamplesNumbered, rrh
  <2> QED  BY <1>1, <1>3, SampleAt
<1>7. UNCHANGED <<sink, published, worker>>
  BY <1>1 DEF rrh
<1>8. SinkCounts' /\ PublishedStamped' /\ WorkerCounts'
  BY <1>2, <1>3, <1>7, RestGrows
<1> QED  BY <1>4, <1>5, <1>6, <1>8 DEF ClockInv

(* Whatever the detector takes for the time, the histories cover it.       *)
LEMMA ErrorsRecorded ==
  ASSUME ClockInv, NEW t \in Int,
         behind' = Max({behind, now - t}), ahead' = Max({ahead, t - now})
  PROVE  /\ behind' \in Nat /\ ahead' \in Nat /\ behind <= behind' /\ ahead <= ahead'
         /\ Near(t, now, behind', ahead')
<1>1. PICK n \in Nat, b \in Nat, a \in Nat : n = now /\ b = behind /\ a = ahead
  BY DEF ClockInv, ClockTypeOK
<1>2. PICK b2, a2 : b2 = behind' /\ a2 = ahead'
  OBVIOUS
<1>3. b2 = IF b >= n - t THEN b ELSE n - t
  BY <1>1, <1>2, Greater
<1>4. a2 = IF a >= t - n THEN a ELSE t - n
  BY <1>1, <1>2, Greater
<1>5. /\ b2 \in Nat /\ a2 \in Nat /\ b <= b2 /\ a <= a2
      /\ n - b2 <= t /\ t <= n + a2
  BY <1>3, <1>4
<1> QED  BY <1>1, <1>2, <1>5 DEF Near

LEMMA DetectClock == ASSUME ClockInv, Detect PROVE ClockInv'
<1>1. PICK pps \in BOOLEAN, n \in InputItems :
        LET arrived == now - lost + n
            resync == ResyncDue(pps, arrived)
        IN  /\ m_got_first_pps_time' = (m_got_first_pps_time \/ pps)
            /\ m_last_resync' = IF resync THEN arrived ELSE LastResync(pps, arrived)
            /\ \E time \in CurrentTimes(resync) : DetectAt(time)
  BY DEF Detect
<1>2. PICK t \in CurrentTimes(ResyncDue(pps, now - lost + n)) : DetectAt(t)
  BY <1>1
<1>3. /\ now \in Nat /\ lost \in Nat /\ stream \in Seq(StreamSample) /\ clock \in Int
      /\ m_last_resync \in Int /\ m_got_first_pps_time \in BOOLEAN
      /\ LocalOffsets \subseteq Int /\ n \in Nat
  BY ClockAssumption DEF ClockInv, ClockTypeOK
<1>4. t \in Int
  BY <1>2, <1>3 DEF CurrentTimes, LocalTimes, RadioTimes
<1>5. m_last_resync' \in Int /\ m_got_first_pps_time' \in BOOLEAN
  <2>1. now - lost + n \in Int
    BY <1>3
  <2>2. LastResync(pps, now - lost + n) \in Int
    BY <1>3, <2>1 DEF LastResync
  <2> QED  BY <1>1, <1>3, <2>1, <2>2
<1>6. PICK tag \in {NoTime, t} : stream' = Append(stream, [taken |-> now, tag |-> tag])
  BY <1>2 DEF DetectAt
<1> DEFINE e == [taken |-> now, tag |-> tag]
<1>7. /\ clock' = t + 1 /\ now' = now + 1 /\ ~rx_time' /\ rx_time' \in BOOLEAN
      /\ UNCHANGED <<lost, sink, slip, published, worker>>
      /\ behind' = Max({behind, now - t}) /\ ahead' = Max({ahead, t - now})
  BY <1>2 DEF Detect, DetectAt
<1>8. /\ behind' \in Nat /\ ahead' \in Nat /\ behind <= behind' /\ ahead <= ahead'
      /\ Near(t, now, behind', ahead')
  BY <1>4, <1>7, ErrorsRecorded
<1>9. Grow
  <2>1. lost' \in Nat /\ slip' \in Nat /\ lost <= lost' /\ slip <= slip'
    BY <1>7, Tolerances
  <2> QED  BY <1>8, <2>1 DEF Grow
<1>10. e \in StreamSample /\ e.taken = now /\ e.tag \in {NoTime, t}
  BY <1>3, <1>4 DEF NoTime, StreamSample
<1>11. /\ stream' \in Seq(StreamSample) /\ Len(stream) \in Nat /\ Len(stream') = Len(stream) + 1
       /\ \A i \in DOMAIN stream : stream'[i] = stream[i]
       /\ stream'[Len(stream) + 1] = e /\ DOMAIN stream' = DOMAIN stream \cup {Len(stream) + 1}
  <2> HIDE DEF e
  <2>1. stream' = Append(stream, e)
    BY <1>6 DEF e
  <2> QED  BY <1>3, <1>10, <2>1, Appended
<1> HIDE DEF e
<1>12. Consumed' = Consumed /\ Consumed \in Int /\ now - (Consumed + Len(stream)) = lost
  BY <1>3, <1>7, <1>11 DEF Consumed
<1>13. ClockTypeOK'
  <2>1. now' \in Nat /\ lost' \in Nat /\ rx_time' \in BOOLEAN /\ clock' \in Int
    BY <1>3, <1>4, <1>7
  <2> QED  BY <1>5, <1>7, <1>9, <1>11, <2>1 DEF ClockInv, ClockTypeOK, Grow
<1>14. TagsRight'
  <2> SUFFICES ASSUME NEW i \in DOMAIN stream', stream'[i].tag # NoTime
               PROVE  Near(stream'[i].tag, stream'[i].taken, behind', ahead')
    BY DEF TagsRight
  <2>1. CASE i \in DOMAIN stream
    <3>1. stream'[i] = stream[i]
      BY <1>11, <2>1
    <3> QED  BY <1>9, <2>1, <3>1, TagsStay
  <2>2. CASE i = Len(stream) + 1
    <3>1. stream'[i].tag = t /\ stream'[i].taken = now
      BY <1>10, <1>11, <2>2
    <3> QED  BY <1>8, <3>1
  <2> QED  BY <1>11, <2>1, <2>2
<1>15. SamplesNumbered'
  <2> SUFFICES ASSUME NEW i \in DOMAIN stream'
               PROVE  stream'[i].taken - (Consumed + i - 1) \in 0..lost
    BY <1>7, <1>12 DEF SamplesNumbered
  <2>1. CASE i \in DOMAIN stream
    BY <1>11, <2>1 DEF ClockInv, SamplesNumbered
  <2>2. CASE i = Len(stream) + 1
    <3>1. stream'[i].taken = now /\ Consumed + i - 1 = Consumed + Len(stream)
      BY <1>10, <1>11, <1>12, <2>2
    <3> QED  BY <1>3, <1>12, <3>1
  <2> QED  BY <1>11, <2>1, <2>2
<1>16. SinkCounts' /\ PublishedStamped' /\ WorkerCounts'
  BY <1>7, <1>9, <1>12, RestGrows
<1> QED  BY <1>13, <1>14, <1>15, <1>16 DEF ClockInv

-----------------------------------------------------------------------------
(* The sink                                                                *)

(* Tags that are accepted set the clock as right as the detector's was,    *)
(* whichever they are, but for the distance of the last of them from the   *)
(* first tag of the window.                                                *)
LEMMA AcceptCounts ==
  ASSUME ClockInv, NEW n \in MinWindow..MaxWindow, n <= Len(stream),
         NEW accepted, accepted \subseteq Tags(n),
         NEW s \in SinkState, SinkRight(s, Consumed, behind, ahead, MostLate),
         NEW slip2, slip2 = Slipped(accepted, Tags(n))
  PROVE  LET t == Accept(s, accepted, Tags(n))
         IN  /\ slip2 \in Nat /\ slip <= slip2 /\ t \in SinkState
             /\ SinkRight(t, Consumed, behind, ahead, lost + ahead + slip2)
<1>1. CASE accepted = {}
  BY <1>1, Tolerances DEF Accept, Slipped
<1>2. CASE accepted # {}
  <2> DEFINE p == Max(accepted)
             q == Min(Tags(n))
             new == {[time |-> stream[i].tag, taken |-> stream[i].taken, new |-> TRUE] : i \in accepted}
  <2>1. /\ n \in Nat /\ n <= MaxWindow /\ MaxWindow \in Nat /\ now \in Nat
        /\ Len(stream) \in Nat
    BY ClockAssumption DEF ClockInv, ClockTypeOK
  <2>2. Tags(n) \subseteq 1..n /\ Tags(n) \subseteq Nat
    BY DEF Tags
  <2>3. p \in accepted /\ p \in 1..n
    <3>1. accepted \subseteq 1..n
      BY <2>2
    <3> QED  BY <1>2, <2>1, <3>1, Greatest
  <2>4. q \in Nat /\ q >= 1 /\ q <= p
    <3>1. q \in Tags(n) /\ \A y \in Tags(n) : q <= y
      BY <2>2, <2>3, Least
    <3> HIDE DEF p, q
    <3>2. q \in 1..n /\ p \in Tags(n)
      BY <2>2, <2>3, <3>1
    <3> QED  BY <3>1, <3>2
  <2>5. ASSUME NEW i \in accepted
        PROVE  /\ i \in DOMAIN stream /\ stream[i].tag \in Int /\ stream[i].taken \in Nat
               /\ Near(stream[i].tag, stream[i].taken, behind, ahead)
    <3>1. i \in 1..n /\ stream[i].tag # NoTime
      BY DEF Tags
    <3>2. i \in DOMAIN stream
      <4>1. stream \in Seq(StreamSample)
        BY DEF ClockInv, ClockTypeOK
      <4> QED  BY <2>1, <3>1, <4>1
    <3> QED  BY <3>1, <3>2, SampleAt
  <2>6. slip2 = Max({slip, p - q})
    BY <1>2 DEF Slipped
  <2> HIDE DEF p, q
  <2>7. PICK a \in Nat, b \in Nat : a = p /\ b = q
    BY <2>3, <2>4
  <2>8. slip2 \in Nat /\ slip <= slip2 /\ a - b <= slip2 /\ b <= a /\ 1 <= b
    <3>1. slip \in Nat /\ b <= a /\ 1 <= b
      BY <2>4, <2>7, Tolerances
    <3>2. slip2 = IF slip >= a - b THEN slip ELSE a - b
      BY <2>6, <2>7, <3>1, Greater
    <3> QED  BY <3>1, <3>2
  <2>9. PICK latest \in Int, x \in Nat : latest = stream[p].tag /\ x = stream[p].taken
    BY <2>3, <2>5
  <2>10. PICK c \in Int : c = Consumed
    BY <2>1, Tolerances DEF Consumed
  <2>11. PICK l \in Nat, e \in Nat, h \in Nat : l = lost /\ e = behind /\ h = ahead
    BY Tolerances
  <2>12. /\ c + a - 1 <= x /\ x <= c + a - 1 + l
         /\ x - e <= latest /\ latest <= x + h
    <3>1. Near(latest, x, e, h)
      BY <2>3, <2>5, <2>9, <2>11
    <3>2. Consumed + p - 1 <= stream[p].taken /\ stream[p].taken <= Consumed + p - 1 + lost
      BY <2>3, <2>5, SampleAt
    <3> QED  BY <2>7, <2>9, <2>10, <2>11, <3>1, <3>2 DEF Near
  <2>13. Near(latest - (b - 1), c, e, l + h + slip2)
    BY ONLY c \in Int, latest \in Int, x \in Nat, a \in Nat, b \in Nat, e \in Nat, l \in Nat,
            h \in Nat, <2>8, <2>12 DEF Near
  <2>14. new \subseteq SinkFrame
    <3> SUFFICES ASSUME NEW i \in accepted
                 PROVE  [time |-> stream[i].tag, taken |-> stream[i].taken, new |-> TRUE] \in SinkFrame
      OBVIOUS
    <3>1. stream[i].tag \in Int /\ stream[i].taken \in Nat
      BY <2>5
    <3> QED  BY <3>1 DEF SinkFrame
  <2>15. FramesRight(s.frames \cup new, behind, ahead)
    <3>1. FramesRight(s.frames, behind, ahead)
      BY DEF SinkRight
    <3>2. ASSUME NEW f \in new PROVE Near(f.time, f.taken, behind, ahead)
      <4>1. PICK i \in accepted : f = [time |-> stream[i].tag, taken |-> stream[i].taken, new |-> TRUE]
        OBVIOUS
      <4>2. f.time = stream[i].tag /\ f.taken = stream[i].taken
        BY <4>1
      <4> QED  BY <2>5, <4>2
    <3> QED  BY <3>1, <3>2 DEF FramesRight
  <2> HIDE DEF new
  <2>16. Accept(s, accepted, Tags(n)) =
           [frames |-> s.frames \cup new, current |-> latest - (b - 1), latest |-> latest]
    BY <1>2, <2>7, <2>9 DEF Accept, FirstTagOffset, new, p, q
  <2>17. s.frames \cup new \subseteq SinkFrame
    BY <2>14 DEF SinkState
  <2>18. Accept(s, accepted, Tags(n)) \in SinkState
    BY <2>16, <2>17 DEF SinkState
  <2>19. SinkRight(Accept(s, accepted, Tags(n)), Consumed, behind, ahead, lost + ahead + slip2)
    BY <2>10, <2>11, <2>13, <2>15, <2>16 DEF SinkRight
  <2> QED  BY <2>8, <2>18, <2>19
<1> QED  BY <1>1, <1>2

(* A message has the samples of the window, and the time of the clock.     *)
LEMMA MessageStamped ==
  ASSUME ClockInv, NEW n \in MinWindow..MaxWindow, n <= Len(stream), NEW l \in Nat,
         NEW s \in SinkState, s.frames # {}, SinkRight(s, Consumed, behind, ahead, l)
  PROVE  /\ Message(s, n) \in SampleMessage
         /\ Stamped(Message(s, n), behind, ahead, MostEarly, l)
<1> DEFINE f == [i \in 1..n |-> stream[i].taken]
           new == {[time |-> g.time, taken |-> g.taken] : g \in {h \in s.frames : h.new}}
<1>1. n \in Nat /\ n >= 1 /\ Len(stream) \in Nat /\ stream \in Seq(StreamSample) /\ now \in Nat
  BY ClockAssumption DEF ClockInv, ClockTypeOK
<1>2. ASSUME NEW j \in 1..n
      PROVE  /\ j \in Nat /\ stream[j].taken \in Nat
             /\ Consumed + j - 1 <= stream[j].taken /\ stream[j].taken <= Consumed + j - 1 + lost
  <2>1. j \in DOMAIN stream
    BY <1>1
  <2> QED  BY <2>1, SampleAt
<1>3. f \in [1..n -> Nat]
  BY <1>2
<1>4. f \in Seq(Nat) /\ Len(f) = n /\ DOMAIN f = 1..n
  <2> HIDE DEF f
  <2> QED  BY <1>1, <1>3, Tabulated
<1>5. new \subseteq NewFrame /\ FramesRight(new, behind, ahead)
  <2> SUFFICES ASSUME NEW k \in new PROVE k \in NewFrame /\ Near(k.time, k.taken, behind, ahead)
    BY DEF FramesRight
  <2>1. PICK g \in s.frames : k = [time |-> g.time, taken |-> g.taken]
    OBVIOUS
  <2>2. g \in SinkFrame /\ Near(g.time, g.taken, behind, ahead)
    BY DEF SinkState, SinkRight, FramesRight
  <2>3. g.time \in Int /\ g.taken \in Nat /\ k.time = g.time /\ k.taken = g.taken
    BY <2>1, <2>2 DEF SinkFrame
  <2> QED  BY <2>1, <2>2, <2>3 DEF NewFrame
<1> HIDE DEF f, new
<1>6. Message(s, n) = [new |-> new, time |-> s.current, samples |-> f]
  BY DEF Message, f, new
<1>7. PICK t \in Int, c \in Int, o \in Nat, b \in Nat :
        t = s.current /\ c = Consumed /\ o = lost /\ b = behind
  BY <1>1, Tolerances DEF SinkState, Consumed
<1>8. c - b <= t /\ t <= c + l
  BY <1>7 DEF SinkRight, Near
<1>9. ASSUME NEW j \in DOMAIN f
      PROVE  Near(s.current + j - 1, f[j], MostEarly, l)
  <2>1. f[j] = stream[j].taken /\ j \in 1..n
    BY <1>4 DEF f
  <2>2. PICK x \in Nat, k \in Nat : x = f[j] /\ k = j
    BY <1>2, <2>1
  <2>3. c + k - 1 <= x /\ x <= c + k - 1 + o
    BY <1>2, <1>7, <2>1, <2>2
  <2>4. Near(t + k - 1, x, o + b, l)
    BY <1>8, <2>3 DEF Near
  <2> QED  BY <1>7, <2>2, <2>4, Tolerances
<1>10. Message(s, n) \in SampleMessage
  BY <1>4, <1>5, <1>6, <1>7 DEF SampleMessage
<1> QED  BY <1>1, <1>4, <1>5, <1>6, <1>9, <1>10 DEF Stamped

(* A message that is sent takes its samples from the stream.               *)
LEMMA SentCounts ==
  ASSUME NEW t \in SinkState, t.frames # {}, NEW n \in Nat, NEW c \in Int,
         NEW b \in Nat, NEW a \in Nat, NEW l \in Nat, SinkRight(t, c, b, a, l)
  PROVE  Sent(t, n) \in SinkState /\ SinkRight(Sent(t, n), c + n, b, a, l)
<1> DEFINE kept == {[f EXCEPT !.new = FALSE] : f \in {g \in t.frames : ~TooOld(t, g)}}
<1>1. ASSUME NEW k \in kept PROVE k \in SinkFrame /\ Near(k.time, k.taken, b, a)
  <2>1. PICK f \in t.frames : k = [f EXCEPT !.new = FALSE]
    OBVIOUS
  <2>2. f \in SinkFrame /\ Near(f.time, f.taken, b, a)
    BY DEF SinkState, SinkRight, FramesRight
  <2>3. k = [time |-> f.time, taken |-> f.taken, new |-> FALSE]
    BY <2>1, <2>2 DEF SinkFrame
  <2>4. k.time = f.time /\ k.taken = f.taken /\ f.time \in Int /\ f.taken \in Nat
    BY <2>2, <2>3 DEF SinkFrame
  <2> QED  BY <2>2, <2>3, <2>4 DEF SinkFrame
<1> HIDE DEF kept
<1>2. Sent(t, n) = [frames |-> kept, current |-> t.current + n, latest |-> t.latest]
  BY DEF Sent, kept
<1>3. PICK x \in Int : x = t.current
  BY DEF SinkState
<1>4. x - 0 \in Int /\ t.latest \in Int /\ kept \subseteq SinkFrame
  BY <1>1 DEF SinkState
<1>5. Near(x, c, b, l)
  BY <1>3 DEF SinkRight
<1>6. Near(x + n, c + n, b, l) /\ x + n \in Int
  BY <1>5 DEF Near
<1>7. FramesRight(kept, b, a)
  BY <1>1 DEF FramesRight
<1> QED  BY <1>2, <1>3, <1>4, <1>6, <1>7 DEF SinkState, SinkRight

LEMMA SinkWorkClock ==
  ASSUME ClockInv, NEW n \in MinWindow..MaxWindow, NEW stop \in BOOLEAN, SinkWork(n, stop)
  PROVE  ClockInv'
<1> DEFINE s == IF stop THEN Stopped(sink) ELSE sink
<1>1. s \in SinkState /\ SinkRight(s, Consumed, behind, ahead, MostLate)
  <2>1. sink \in SinkState /\ SinkRight(sink, Consumed, behind, ahead, MostLate)
    BY DEF ClockInv, ClockTypeOK, SinkCounts
  <2>2. Stopped(sink) \in SinkState /\ Stopped(sink).frames = {}
    BY <2>1 DEF Stopped, SinkState
  <2> QED  BY <2>1, <2>2 DEF SinkRight, FramesRight
<1>2. PICK accepted \in SUBSET Tags(n) :
        Send(Accept(s, accepted, Tags(n)), n) /\ slip' = Slipped(accepted, Tags(n))
  BY DEF SinkWork
<1> DEFINE t == Accept(s, accepted, Tags(n))
<1> HIDE DEF s
<1>3. /\ n <= Len(stream) /\ stream' = SubSeq(stream, n + 1, Len(stream))
      /\ UNCHANGED <<radio, detector, worker>>
      /\ n \in Nat /\ Len(stream) \in Nat /\ now \in Nat
      /\ stream \in Seq(StreamSample) /\ published \in Seq(SampleMessage)
  BY ClockAssumption DEF SinkWork, ClockInv, ClockTypeOK
<1>4. PICK slip2 : slip2 = slip'
  OBVIOUS
<1>5. slip2 = Slipped(accepted, Tags(n))
  BY <1>2, <1>4
<1>6. /\ slip2 \in Nat /\ slip <= slip2 /\ t \in SinkState /\ Send(t, n)
      /\ SinkRight(t, Consumed, behind, ahead, lost + ahead + slip2)
  BY <1>1, <1>2, <1>3, <1>5, AcceptCounts
<1> HIDE DEF t
<1>7. UNCHANGED <<now, lost, rx_time, clock, m_got_first_pps_time, m_last_resync, behind, ahead, worker>>
  BY <1>3 DEF radio, detector
<1>8. Grow
  BY <1>4, <1>6, <1>7, Tolerances DEF Grow
<1>9. PICK l2 \in Nat : l2 = lost + ahead + slip2
  BY <1>6, Tolerances
<1>10. MostEarly' = MostEarly /\ MostLate' = l2 /\ SinkRight(t, Consumed, behind, ahead, l2)
  BY <1>4, <1>6, <1>7, <1>9 DEF MostEarly, MostLate
<1>11. /\ stream' \in Seq(StreamSample) /\ Len(stream') = Len(stream) - n
       /\ \A i \in DOMAIN stream' : i \in Nat /\ i + n \in DOMAIN stream /\ stream'[i] = stream[i + n]
  BY <1>3, Remaining
<1>12. Consumed' = Consumed + n /\ Consumed \in Int
  <2>1. PICK u \in Nat, o \in Nat, k \in Nat : u = now /\ o = lost /\ k = Len(stream)
    BY <1>3, Tolerances
  <2>2. PICK c \in Int : c = Consumed /\ c = u - o - k
    <3>1. PICK c \in Int : c = u - o - k
      OBVIOUS
    <3>2. Consumed = u - o - k
      BY <2>1 DEF Consumed
    <3> QED  BY <3>1, <3>2
  <2>3. Consumed' = u - o - (k - n)
    <3>1. now' = u /\ lost' = o /\ Len(stream') = k - n
      BY <1>7, <1>11, <2>1
    <3> QED  BY <3>1 DEF Consumed
  <2>4. PICK v \in Nat : v = n
    BY <1>3
  <2>5. u - o - (k - v) = c + v
    BY <2>2
  <2> QED  BY <2>2, <2>3, <2>4, <2>5
<1>13. sink' \in SinkState /\ SinkRight(sink', Consumed + n, behind, ahead, l2)
  <2>1. CASE t.frames = {} /\ sink' = t
    BY <1>6, <1>10, <2>1 DEF SinkRight
  <2>2. CASE t.frames # {} /\ sink' = Sent(t, n)
    BY <1>3, <1>6, <1>10, <1>12, <2>2, SentCounts, Tolerances
  <2> QED  BY <1>6, <2>1, <2>2 DEF Send
<1>14. published' \in Seq(SampleMessage) /\ PublishedStamped'
  <2>1. \A i \in DOMAIN published :
          Stamped(published[i], behind', ahead', MostEarly', MostLate')
    BY <1>8, PublishedGrow
  <2>2. CASE UNCHANGED published
    BY <1>3, <2>1, <2>2 DEF PublishedStamped
  <2>3. CASE t.frames # {} /\ published' = Append(published, Message(t, n))
    <3>1. Message(t, n) \in SampleMessage /\ Stamped(Message(t, n), behind, ahead, MostEarly, l2)
      BY <1>3, <1>6, <1>10, <2>3, MessageStamped
    <3>2. Stamped(Message(t, n), behind', ahead', MostEarly', MostLate')
      BY <1>7, <1>10, <3>1
    <3>3. /\ published' \in Seq(SampleMessage)
          /\ \A i \in DOMAIN published : published'[i] = published[i]
          /\ published'[Len(published) + 1] = Message(t, n)
          /\ DOMAIN published' = DOMAIN published \cup {Len(published) + 1}
      BY <1>3, <2>3, <3>1, Appended
    <3> QED  BY <2>1, <3>2, <3>3 DEF PublishedStamped
  <2> QED  BY <1>6, <2>2, <2>3 DEF Send
<1>15. ClockTypeOK'
  BY <1>7, <1>8, <1>11, <1>13, <1>14 DEF ClockInv, ClockTypeOK, Grow
<1>16. TagsRight'
  BY <1>7, <1>11 DEF ClockInv, TagsRight
<1>17. SamplesNumbered'
  <2> SUFFICES ASSUME NEW i \in DOMAIN stream'
               PROVE  stream'[i].taken - (Consumed + n + i - 1) \in 0..lost
    BY <1>7, <1>12 DEF SamplesNumbered
  <2>1. stream'[i] = stream[i + n] /\ i \in Nat /\ i + n \in DOMAIN stream
    BY <1>11
  <2>2. stream[i + n].taken - (Consumed + (i + n) - 1) \in 0..lost
    BY <2>1 DEF ClockInv, SamplesNumbered
  <2>3. Consumed + (i + n) - 1 = Consumed + n + i - 1
    BY <1>3, <1>12, <2>1
  <2> QED  BY <2>1, <2>2, <2>3
<1>18. SinkCounts'
  <2>1. SinkRight(sink', Consumed', behind', ahead', MostLate')
    BY <1>7, <1>10, <1>12, <1>13
  <2> QED  BY <2>1 DEF SinkCounts
<1>19. WorkerCounts'
  BY <1>7, <1>8, WorkerStays
<1> QED  BY <1>14, <1>15, <1>16, <1>17, <1>18, <1>19 DEF ClockInv

-----------------------------------------------------------------------------
(* The worker                                                              *)

(* The worker's steps leave the rest and the tolerances as they are.       *)
LEMMA WorkerAlone ==
  ASSUME ClockInv, UNCHANGED <<radio, detector, rrh>>,
         published' \in Seq(SampleMessage), PublishedStamped',
         worker' \in WorkerState, WorkerCounts'
  PROVE  ClockInv'
<1>1. UNCHANGED <<now, lost, rx_time, clock, m_got_first_pps_time, m_last_resync, behind, ahead,
                  stream, sink, slip>>
  BY DEF radio, detector, rrh
<1>2. ClockTypeOK' /\ TagsRight' /\ SamplesNumbered' /\ SinkCounts'
  BY <1>1 DEF ClockInv, ClockTypeOK, TagsRight, SamplesNumbered, SinkCounts, SinkRight, FramesRight,
              Consumed, MostLate
<1> QED  BY <1>2 DEF ClockInv

LEMMA StartWorkClock == ASSUME ClockInv, StartWork PROVE ClockInv'
<1>1. PICK i \in DOMAIN published : \E f \in published[i].new :
        worker' = [NoWork EXCEPT !.work_time = f.time, !.detected = f.taken, !.is_new = TRUE]
  BY DEF StartWork
<1>2. PICK f \in published[i].new :
        worker' = [NoWork EXCEPT !.work_time = f.time, !.detected = f.taken, !.is_new = TRUE]
  BY <1>1
<1>3. UNCHANGED <<radio, detector, rrh, published>>
  BY DEF StartWork
<1>4. f.time \in Int /\ f.taken \in Nat /\ Near(f.time, f.taken, behind, ahead)
  <2>1. published[i] \in SampleMessage /\ FramesRight(published[i].new, behind, ahead)
    BY Element DEF ClockInv, ClockTypeOK, PublishedStamped, Stamped
  <2> QED  BY <1>2, <2>1 DEF SampleMessage, NewFrame, FramesRight
<1>5. worker' = [work_time |-> f.time, detected |-> f.taken, is_new |-> TRUE, tag_time |-> NoTime,
                 first |-> NoTime, skipped |-> NoTime]
  BY <1>2 DEF NoWork
<1>6. worker' \in WorkerState
  BY <1>4, <1>5 DEF WorkerState, NoTime
<1>7. behind' = behind /\ ahead' = ahead
  BY <1>3 DEF detector
<1>8. WorkerCounts'
  BY <1>4, <1>5, <1>7 DEF WorkerCounts, FrameKept
<1>9. published' \in Seq(SampleMessage) /\ PublishedStamped'
  BY <1>3 DEF ClockInv, ClockTypeOK, PublishedStamped, MostEarly, MostLate, radio, detector, rrh
<1> QED  BY <1>3, <1>6, <1>8, <1>9, WorkerAlone

(* A message leaves the queue to the worker; the rest stays as it is.      *)
LEMMA TakenClock ==
  ASSUME ClockInv, published # <<>>, published' = Tail(published),
         UNCHANGED <<radio, detector, rrh>>, worker' \in WorkerState, WorkerCounts'
  PROVE  ClockInv'
<1>1. published \in Seq(SampleMessage)
  BY DEF ClockInv, ClockTypeOK
<1>2. /\ published' \in Seq(SampleMessage)
      /\ \A i \in DOMAIN published' : i + 1 \in DOMAIN published /\ published'[i] = published[i + 1]
  BY <1>1, Shifted
<1>3. behind' = behind /\ ahead' = ahead /\ MostEarly' = MostEarly /\ MostLate' = MostLate
  BY DEF radio, detector, rrh, MostEarly, MostLate
<1>4. PublishedStamped'
  BY <1>2, <1>3 DEF ClockInv, PublishedStamped
<1> QED  BY <1>2, <1>4, WorkerAlone

LEMMA OthersReadClock == ASSUME ClockInv, OthersRead PROVE ClockInv'
<1>1. worker' \in WorkerState /\ WorkerCounts'
  BY DEF OthersRead, ClockInv, ClockTypeOK, WorkerCounts, FrameKept, MostLate, radio, detector, rrh
<1> QED  BY <1>1, TakenClock DEF OthersRead

LEMMA EndWorkClock == ASSUME ClockInv, EndWork PROVE ClockInv'
<1>1. worker' = NoWork /\ UNCHANGED <<radio, detector, rrh, published>>
  BY DEF EndWork
<1>2. worker' \in WorkerState /\ WorkerCounts'
  BY <1>1 DEF NoWork, NoTime, WorkerState, WorkerCounts, FrameKept
<1>3. published' \in Seq(SampleMessage) /\ PublishedStamped'
  BY <1>1 DEF ClockInv, ClockTypeOK, PublishedStamped, MostEarly, MostLate, radio, detector, rrh
<1> QED  BY <1>1, <1>2, <1>3, WorkerAlone

(* The numbers of samples that are too early, and that are dropped.        *)
LEMMA SkipIs ==
  ASSUME ClockInv, NEW m \in SampleMessage
  PROVE  LET early == worker.work_time - SYMB_PRETRIGGER - m.time
             skip == SampToSkip(m)
         IN  /\ skip = IF early > 0 THEN early ELSE 0
             /\ Dropped(m) = IF skip <= Len(m.samples) THEN skip ELSE Len(m.samples)
<1> DEFINE early == worker.work_time - SYMB_PRETRIGGER - m.time
<1>1. /\ m.time \in Int /\ worker.work_time \in Int /\ SYMB_PRETRIGGER \in Nat
      /\ Len(m.samples) \in Nat
  BY ClockAssumption DEF ClockInv, ClockTypeOK, WorkerState, SampleMessage
<1>2. -(m.time - worker.work_time + SYMB_PRETRIGGER) = early /\ early \in Int
  BY <1>1
<1> HIDE DEF early
<1>3. Max({0, early}) = IF 0 >= early THEN 0 ELSE early
  BY <1>2, Greater
<1>4. SampToSkip(m) = IF early > 0 THEN early ELSE 0
  BY <1>2, <1>3 DEF SampToSkip
<1>5. SampToSkip(m) \in Int
  BY <1>2, <1>4
<1>6. Dropped(m) = IF SampToSkip(m) <= Len(m.samples) THEN SampToSkip(m) ELSE Len(m.samples)
  BY <1>1, <1>5, Lesser DEF Dropped
<1> QED  BY <1>4, <1>6 DEF early

LEMMA ReadSamplesClock == ASSUME ClockInv, ReadSamples PROVE ClockInv'
<1> DEFINE m == Head(published)
<1>1. m \in SampleMessage /\ Stamped(m, behind, ahead, MostEarly, MostLate)
  <2>1. published \in Seq(SampleMessage) /\ published # <<>>
    BY DEF ReadSamples, ClockInv, ClockTypeOK
  <2>2. m = published[1] /\ 1 \in DOMAIN published
    BY <2>1, Shifted
  <2> QED  BY <2>1, <2>2, Element DEF ClockInv, PublishedStamped
<1>2. /\ worker # NoWork /\ worker \in WorkerState
      /\ worker' = [worker EXCEPT
           !.is_new = FALSE,
           !.tag_time = IF worker.is_new THEN m.time + SampToSkip(m) ELSE @,
           !.first = IF @ = NoTime /\ Dropped(m) < Len(m.samples) THEN m.samples[Dropped(m) + 1] ELSE @,
           !.skipped = IF Dropped(m) > 0 THEN m.samples[Dropped(m)] ELSE @]
      /\ published # <<>> /\ published' = Tail(published)
      /\ UNCHANGED <<radio, detector, rrh>>
  BY DEF ReadSamples, ClockInv, ClockTypeOK
<1> HIDE DEF m
<1> DEFINE tag == IF worker.is_new THEN m.time + SampToSkip(m) ELSE worker.tag_time
           fst == IF worker.first = NoTime /\ Dropped(m) < Len(m.samples)
                  THEN m.samples[Dropped(m) + 1] ELSE worker.first
           last == IF Dropped(m) > 0 THEN m.samples[Dropped(m)] ELSE worker.skipped
<1>3. worker' = [work_time |-> worker.work_time, detected |-> worker.detected, is_new |-> FALSE,
                 tag_time |-> tag, first |-> fst, skipped |-> last]
  BY <1>2 DEF WorkerState
<1> HIDE DEF tag, fst, last
<1> DEFINE skip == SampToSkip(m)
           early == worker.work_time - SYMB_PRETRIGGER - m.time
           len == Len(m.samples)
           d == Dropped(m)
<1>4. /\ m.time \in Int /\ worker.work_time \in Int /\ worker.detected \in Int
      /\ SYMB_PRETRIGGER \in Nat /\ worker.tag_time \in Int
      /\ worker.first \in Int /\ worker.skipped \in Int
      /\ len \in Nat /\ len >= 1 /\ DOMAIN m.samples = 1..len
  BY <1>1, <1>2, ClockAssumption DEF ClockInv, ClockTypeOK, WorkerState, SampleMessage, Stamped
<1>5. /\ early \in Int /\ skip = IF early > 0 THEN early ELSE 0
      /\ d = IF skip <= len THEN skip ELSE len
  <2>1. early \in Int
    BY <1>4
  <2> QED  BY <1>1, <2>1, SkipIs
<1>6. skip \in Nat /\ d \in Nat /\ d <= skip /\ d <= len /\ (d < len => d = skip)
  <2> HIDE DEF skip, early, len, d
  <2>1. skip \in Nat
    BY <1>5
  <2> QED  BY <1>4, <1>5, <2>1
<1>7. ASSUME NEW j \in 1..len
      PROVE  /\ m.samples[j] \in Nat
             /\ m.samples[j] - MostEarly <= m.time + j - 1
             /\ m.time + j - 1 <= m.samples[j] + MostLate
  <2>1. m.samples \in Seq(Nat) /\ j \in DOMAIN m.samples
    BY <1>1, <1>4 DEF SampleMessage
  <2> QED  BY <1>1, <2>1, Element DEF Stamped, Near
<1> HIDE DEF skip, early, len, d
\* The first sample put out, and the last dropped, if there are any.
<1>8. ASSUME d < len
      PROVE  m.samples[d + 1] \in Nat /\ m.time + skip - m.samples[d + 1] <= MostLate
  <2>1. PICK j \in 1..len : j = d + 1
    BY <1>4, <1>6, <1>8
  <2>2. PICK x \in Nat, t \in Int, l \in Nat : x = m.samples[j] /\ t = m.time /\ l = MostLate
    BY <1>4, <1>7, Tolerances
  <2>3. t + j - 1 <= x + l
    BY <1>7, <2>2
  <2>4. t + skip - x <= l
    BY <1>6, <1>8, <2>1, <2>3
  <2> QED  BY <2>1, <2>2, <2>4
<1>9. ASSUME d > 0
      PROVE  m.samples[d] \in Nat /\ m.samples[d] < worker.detected - SYMB_PRETRIGGER + lost + behind + ahead
  <2>1. PICK j \in 1..len : j = d
    BY <1>4, <1>6, <1>9
  <2>2. PICK x \in Nat, t \in Int, w \in Int, g \in Int :
          x = m.samples[j] /\ t = m.time /\ w = worker.work_time /\ g = worker.detected
    BY <1>4, <1>7
  <2>3. PICK o \in Nat, b \in Nat, a \in Nat : o = lost /\ b = behind /\ a = ahead
    BY Tolerances
  <2>4. x - (o + b) <= t + j - 1
    BY <1>7, <2>2, <2>3, Tolerances
  <2>5. skip = early /\ early = w - SYMB_PRETRIGGER - t
    BY <1>5, <1>6, <1>9, <2>2 DEF early
  <2>6. w <= g + a
    BY <1>2, <2>2, <2>3 DEF ClockInv, WorkerCounts, Near
  <2>7. x < w - SYMB_PRETRIGGER + o + b
    BY <1>4, <1>6, <2>1, <2>4, <2>5
  <2>8. x < g - SYMB_PRETRIGGER + o + b + a
    BY <1>4, <2>6, <2>7
  <2> QED  BY <2>1, <2>2, <2>3, <2>8
<1>10. tag \in Int /\ fst \in Int /\ last \in Int
  BY <1>4, <1>6, <1>8, <1>9 DEF tag, fst, last, skip, d, len
<1>11. worker' \in WorkerState
  BY <1>3, <1>4, <1>10 DEF WorkerState
\* The time in the tag if no sample has been put out yet.
<1>12. ASSUME worker.is_new, d = len
       PROVE  tag = worker.work_time - SYMB_PRETRIGGER
  <2>1. skip = early
    BY <1>4, <1>5, <1>6, <1>12
  <2> QED  BY <1>4, <1>12, <2>1 DEF tag, skip, early
<1>13. worker.is_new => worker.first = NoTime
  BY DEF ClockInv, WorkerCounts
<1>14. fst = NoTime => tag = worker.work_time - SYMB_PRETRIGGER
  <2>1. ASSUME fst = NoTime
        PROVE  tag = worker.work_time - SYMB_PRETRIGGER
    <3>1. worker.first = NoTime
      BY <1>8, <2>1 DEF fst, NoTime, d, len
    <3>2. d = len
      BY <1>4, <1>6, <1>8, <2>1, <3>1 DEF fst, NoTime, d, len
    <3>3. CASE worker.is_new
      BY <1>12, <3>2, <3>3
    <3>4. CASE ~worker.is_new
      BY <1>2, <3>1, <3>4 DEF ClockInv, WorkerCounts, tag
    <3> QED  BY <3>3, <3>4
  <2> QED  BY <2>1
<1>15. fst # NoTime => tag - fst <= MostLate
  <2>1. CASE worker.first # NoTime
    BY <1>13, <2>1 DEF fst, tag, ClockInv, WorkerCounts
  <2>2. CASE worker.first = NoTime /\ d < len
    <3>1. PICK x \in Int, t \in Int, g \in Int, l \in Nat :
            x = fst /\ t = m.time /\ g = tag /\ l = MostLate
      BY <1>4, <1>10, Tolerances
    <3>2. t + skip - x <= l
      BY <1>4, <1>8, <2>2, <3>1 DEF fst, d, len
    <3>3. g <= t + skip
      <4>1. CASE worker.is_new
        BY <1>6, <3>1, <4>1 DEF tag, skip
      <4>2. CASE ~worker.is_new
        <5>1. g = worker.work_time - SYMB_PRETRIGGER
          BY <1>2, <2>2, <3>1, <4>2 DEF ClockInv, WorkerCounts, tag
        <5>2. skip >= early /\ early = worker.work_time - SYMB_PRETRIGGER - t
          BY <1>5, <3>1 DEF early
        <5> QED  BY <1>4, <1>6, <5>1, <5>2
      <4> QED  BY <4>1, <4>2
    <3>4. g - x <= l
      BY <1>6, <3>2, <3>3
    <3> QED  BY <3>1, <3>4
  <2>3. CASE worker.first = NoTime /\ ~(d < len)
    BY <2>3 DEF fst, d, len
  <2> QED  BY <2>1, <2>2, <2>3
<1>16. last # NoTime => last < worker.detected - SYMB_PRETRIGGER + lost + behind + ahead
  <2>1. CASE d > 0
    BY <1>9, <2>1 DEF last, d
  <2>2. CASE ~(d > 0)
    BY <2>2 DEF last, d, ClockInv, WorkerCounts, FrameKept
  <2> QED  BY <2>1, <2>2
<1>17. WorkerCounts'
  <2>1. lost' = lost /\ behind' = behind /\ ahead' = ahead /\ MostLate' = MostLate
    BY <1>2 DEF MostLate, radio, detector, rrh
  <2>2. Near(worker.work_time, worker.detected, behind, ahead)
    BY <1>2 DEF ClockInv, WorkerCounts
  <2> QED  BY <1>3, <1>14, <1>15, <1>16, <2>1, <2>2 DEF WorkerCounts, FrameKept
<1> QED  BY <1>2, <1>11, <1>17, TakenClock

-----------------------------------------------------------------------------
(* What follows                                                            *)

LEMMA NextClock == ClockInv /\ [Next]_vars => ClockInv'
<1> SUFFICES ASSUME ClockInv, [Next]_vars PROVE ClockInv'
  OBVIOUS
<1>1. CASE Overflow
  BY <1>1, OverflowClock
<1>2. CASE Detect
  BY <1>2, DetectClock
<1>3. ASSUME NEW n \in MinWindow..MaxWindow, NEW stop \in BOOLEAN, SinkWork(n, stop)
      PROVE  ClockInv'
  BY <1>3, SinkWorkClock
<1>4. CASE StartWork
  BY <1>4, StartWorkClock
<1>5. CASE ReadSamples
  BY <1>5, ReadSamplesClock
<1>6. CASE OthersRead
  BY <1>6, OthersReadClock
<1>7. CASE EndWork
  BY <1>7, EndWorkClock
<1>8. CASE UNCHANGED vars
  <2>1. UNCHANGED <<radio, detector, rrh>> /\ published' = published /\ worker' = worker
    BY <1>8 DEF vars
  <2>2. published' \in Seq(SampleMessage) /\ worker' \in WorkerState
    BY <2>1 DEF ClockInv, ClockTypeOK
  <2>3. PublishedStamped' /\ WorkerCounts'
    BY <2>1 DEF ClockInv, PublishedStamped, WorkerCounts, FrameKept, MostEarly, MostLate,
                radio, detector, rrh
  <2> QED  BY <2>1, <2>2, <2>3, WorkerAlone
<1> QED  BY <1>1, <1>2, <1>3, <1>4, <1>5, <1>6, <1>7, <1>8 DEF Next

LEMMA ClocksRun == Spec => []ClockInv
BY InitClock, NextClock, PTL DEF Spec

(* rrh_zmq_sink_impl.cc 200-207, 273-281: however the tags of frames lie   *)
(* in the windows the sink is called with, however often the detector's    *)
(* clock is set anew in between, and however many messages are sent, the   *)
(* time of a message is off its first sample by no more than the samples   *)
(* lost, the worst single error of the detector's clock and, if late, the  *)
(* slip.  worker_zmq_source_impl.cc 310-322: nor is the time in the tag of *)
(* a work later, also when whole messages were dropped in front of its     *)
(* samples.                                                                *)
THEOREM StampsAreLate == Spec => []StampsLate
<1>1. ClockInv => StampsLate
  <2> SUFFICES ASSUME ClockInv PROVE StampsLate
    OBVIOUS
  <2>1. ASSUME NEW i \in DOMAIN published
        PROVE  published[i].time - published[i].samples[1] \in (-MostEarly)..MostLate
    <3>1. published[i] \in SampleMessage /\ Stamped(published[i], behind, ahead, MostEarly, MostLate)
      BY Element DEF ClockInv, ClockTypeOK, PublishedStamped
    <3>2. published[i].samples \in Seq(Nat) /\ 1 \in DOMAIN published[i].samples
      BY <3>1 DEF SampleMessage, Stamped
    <3>3. PICK x \in Nat, t \in Int : x = published[i].samples[1] /\ t = published[i].time
      BY <3>1, <3>2, Element DEF SampleMessage
    <3>4. PICK e \in Nat, l \in Nat : e = MostEarly /\ l = MostLate
      BY Tolerances
    <3>5. x - e <= t + 1 - 1 /\ t + 1 - 1 <= x + l
      BY <3>1, <3>2, <3>3, <3>4 DEF Stamped, Near
    <3>6. t - x \in (-e)..l
      BY <3>5
    <3> QED  BY <3>3, <3>4, <3>6
  <2>2. worker.first # NoTime => worker.tag_time - worker.first <= MostLate
    BY DEF ClockInv, WorkerCounts
  <2> QED  BY <2>1, <2>2 DEF StampsLate
<1> QED  BY <1>1, ClocksRun, PTL

(* worker_zmq_source_impl.cc 299-314: a sample that a worker drops was     *)
(* taken SYMB_PRETRIGGER before the detection of its frame or earlier, but *)
(* for the samples lost and the difference between two settings of the     *)
(* detector's clock.  An RRH that always knows the time, as those with     *)
(* unix time tags and PPS do, has behind and ahead zero: its frames reach  *)
(* their workers whole, whatever the sink's clock says.                    *)
THEOREM FramesAreKept == Spec => []FrameKept
<1>1. ClockInv => FrameKept
  BY DEF ClockInv, WorkerCounts
<1> QED  BY <1>1, ClocksRun, PTL
=============================================================================
