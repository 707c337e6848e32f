---------------------------- MODULE SampleClock ----------------------------
(***************************************************************************)
(* The time of samples on their way from the radio of an RRH to a          *)
(* synchronization worker: lora_frame_detector_single_sf keeps a clock and *)
(* writes it into the tags of the frames it detects; rrh_zmq_sink keeps    *)
(* its own, set by those tags, and sends it with every message of samples; *)
(* worker_zmq_source drops what is too early for its work by that time.    *)
(*                                                                         *)
(* A tick is half a symbol, by which the detector advances, and one sample *)
(* of this model; the RRH has one channel and one spreading factor.  A     *)
(* sample is known by the true time it was taken at.  The radio may know   *)
(* the time or not, and may have a pulse per second (PPS) or not.  Where   *)
(* it does not, the detector takes the local clock, read when the sample   *)
(* is handled.  Corrections at the PPS are far shorter than a tick and     *)
(* left out; that a PPS puts off the next use of the local clock is not.   *)
(*                                                                         *)
(* What lies between the RRH and the worker is in RxBuffer: messages       *)
(* arrive in order, and a worker has those from the announcement of its    *)
(* frame on, or from earlier on if the channel was being published         *)
(* already.                                                                *)
(***************************************************************************)
EXTENDS Integers, Sequences, FiniteSetsExt

CONSTANTS
  NEW_FRAME_MIN_DELAY,    \* ticks between detections of different frames
  FRAME_DETECT_TIME_OUT,  \* ticks after which a frame is not streamed for any more
  SYMB_PRETRIGGER,        \* ticks before a frame's detection that its worker wants
  RESYNC_PERIOD,          \* samples without PPS after which the local clock is taken
  LocalOffsets,           \* how far the local clock may be from the time of a sample
  InputItems,             \* samples ahead in the detector's input, beyond what it needs
  MinWindow, MaxWindow,   \* how many samples the sink is called with
  StartTime,              \* true time of the first sample
  MaxTime,                \* bounds: true time of the last sample,
  MaxLost,                \* samples lost by overflows of the radio,
  MaxQueue                \* messages on their way to the worker

ASSUME ClockAssumption ==
  /\ NEW_FRAME_MIN_DELAY \in Nat /\ FRAME_DETECT_TIME_OUT \in Nat /\ SYMB_PRETRIGGER \in Nat
  /\ RESYNC_PERIOD \in Nat /\ InputItems \subseteq Nat
  /\ MinWindow \in Nat \ {0} /\ MaxWindow \in Nat /\ MinWindow <= MaxWindow
  /\ StartTime \in Nat /\ MaxTime \in Nat /\ MaxLost \in Nat /\ MaxQueue \in Nat
  /\ LocalOffsets \subseteq Int /\ \A o \in LocalOffsets : StartTime + o >= 0

VARIABLES
  now,           \* true time of the next sample
  lost,          \* samples lost so far
  rx_time,       \* the next sample has a time tag of the radio
  clock,         \* m_current_time of the detector
  m_got_first_pps_time,
  m_last_resync, \* samples that had arrived then, counted from StartTime on
  stream,        \* samples between detector and sink, with the tags of frames
  sink,          \* frames streamed, m_current_time and the time of the latest frame
  published,     \* messages on their way to the worker
  worker,        \* what worker_zmq_source knows, and what it made of its samples
  \* Histories, the largest so far: how late and early the detector's clock was,
  behind, ahead,
  slip           \* and how far the last tag accepted was from the first of its window

radio    == <<now, lost, rx_time>>
detector == <<clock, m_got_first_pps_time, m_last_resync, behind, ahead>>
rrh      == <<stream, sink, slip>>
vars     == <<radio, detector, rrh, published, worker>>

NoTime == -1
NoWork == [work_time |-> NoTime, detected |-> NoTime, is_new |-> FALSE, tag_time |-> NoTime,
           first |-> NoTime, skipped |-> NoTime]

Init ==
  /\ now = StartTime /\ lost = 0 /\ rx_time = TRUE
  /\ clock = NoTime /\ m_got_first_pps_time = FALSE /\ m_last_resync = StartTime
  /\ stream = <<>>
  /\ sink = [frames |-> {}, current |-> NoTime, latest |-> 0]
  /\ published = <<>>
  /\ worker = NoWork
  /\ behind = 0 /\ ahead = 0 /\ slip = 0

-----------------------------------------------------------------------------
(* The radio and the detector.                                             *)

(* The radio drops samples and says so by a time tag on the next one.      *)
Overflow ==
  /\ now > StartTime /\ lost < MaxLost /\ now < MaxTime
  /\ now' = now + 1 /\ lost' = lost + 1 /\ rx_time' = TRUE
  /\ UNCHANGED <<detector, rrh, published, worker>>

(* The local clock reads the time at which the sample is handled, which    *)
(* is later than it was taken, and has an error of its own.                *)
LocalTimes == {now + o : o \in LocalOffsets}

(* A time tag that is no unix time is replaced by the local clock.         *)
RadioTimes == IF rx_time THEN {now} \cup LocalTimes ELSE {clock}

(* The second PPS and those after it show that the clock is kept right.    *)
LastResync(pps, arrived) ==
  IF pps /\ m_got_first_pps_time THEN arrived ELSE m_last_resync

ResyncDue(pps, arrived) == arrived - LastResync(pps, arrived) > RESYNC_PERIOD

CurrentTimes(resync) == IF resync THEN LocalTimes ELSE RadioTimes

(* The metric of the samples ahead may be over the threshold at any step,  *)
(* and the tag of a frame then has the current time.                       *)
DetectAt(time) ==
  /\ \E tag \in {NoTime, time} : stream' = Append(stream, [taken |-> now, tag |-> tag])
  /\ clock' = time + 1
  /\ behind' = Max({behind, now - time}) /\ ahead' = Max({ahead, time - now})

(* A step of half a symbol; what has arrived in the input never gets less. *)
Detect ==
  /\ now <= MaxTime /\ Len(stream) < MaxWindow
  /\ \E pps \in BOOLEAN, n \in InputItems :
       LET arrived == now - lost + n
           resync == ResyncDue(pps, arrived)
       IN  /\ arrived >= m_last_resync
           /\ m_got_first_pps_time' = (m_got_first_pps_time \/ pps)
           /\ m_last_resync' = IF resync THEN arrived ELSE LastResync(pps, arrived)
           /\ \E time \in CurrentTimes(resync) : DetectAt(time)
  /\ now' = now + 1 /\ rx_time' = FALSE
  /\ UNCHANGED <<lost, sink, slip, published, worker>>

-----------------------------------------------------------------------------
(* rrh_zmq_sink.                                                           *)

(* Places of the tags in the next n samples.                               *)
Tags(n) == {i \in 1..n : stream[i].tag # NoTime}

(* A tag soon after a frame of the list is a second detection of it, and   *)
(* one that is accepted is in the list when the next tag is looked at.     *)
(* There is one set of tags that are accepted.                             *)
Listed(s, accepted, i) ==
  {f.time : f \in s.frames} \cup {stream[j].tag : j \in {k \in accepted : k < i}}

Accepted(s, n, accepted) ==
  accepted = {i \in Tags(n) :
                \A time \in Listed(s, accepted, i) : stream[i].tag - time >= NEW_FRAME_MIN_DELAY}

(* The clock is set to the time of the first sample in the window, counted *)
(* back from the tag by the offset of the window's first tag.              *)
FirstTagOffset_Broken(tags) == Min(tags)

FirstTagOffset(tags) == Min(tags) - 1

Accept(s, accepted, tags) ==
  IF accepted = {} THEN s
  ELSE LET latest == stream[Max(accepted)].tag
       IN  [frames  |-> s.frames \cup
                          {[time |-> stream[i].tag, taken |-> stream[i].taken, new |-> TRUE] : i \in accepted},
            current |-> latest - FirstTagOffset(tags),
            latest  |-> latest]

Slipped(accepted, tags) ==
  IF accepted = {} THEN slip ELSE Max({slip, Max(accepted) - Min(tags)})

Stopped(s) == [s EXCEPT !.frames = {}]

(* A frame is sent as new once, and leaves the list behind a message when  *)
(* it is too old.                                                          *)
TooOld(s, f) == s.latest - f.time > FRAME_DETECT_TIME_OUT

Sent(s, n) ==
  [frames  |-> {[f EXCEPT !.new = FALSE] : f \in {g \in s.frames : ~TooOld(s, g)}},
   current |-> s.current + n,
   latest  |-> s.latest]

Message(s, n) ==
  [new     |-> {[time |-> f.time, taken |-> f.taken] : f \in {g \in s.frames : g.new}},
   time    |-> s.current,
   samples |-> [i \in 1..n |-> stream[i].taken]]

Send(s, n) ==
  \/ s.frames = {} /\ sink' = s /\ UNCHANGED published
  \/ /\ s.frames # {} /\ Len(published) < MaxQueue
     /\ sink' = Sent(s, n) /\ published' = Append(published, Message(s, n))

SinkWork(n, stop) ==
  LET s == IF stop THEN Stopped(sink) ELSE sink IN
  /\ Len(stream) >= n
  /\ \E accepted \in SUBSET Tags(n) :
       /\ Accepted(s, n, accepted) /\ Send(Accept(s, accepted, Tags(n)), n)
       /\ slip' = Slipped(accepted, Tags(n))
  /\ stream' = SubSeq(stream, n + 1, Len(stream))
  /\ UNCHANGED <<radio, detector, worker>>

-----------------------------------------------------------------------------
(* worker_zmq_source.                                                      *)

StartWork ==
  /\ worker = NoWork
  /\ \E i \in DOMAIN published : \E f \in published[i].new :
       worker' = [NoWork EXCEPT !.work_time = f.time, !.detected = f.taken, !.is_new = TRUE]
  /\ UNCHANGED <<radio, detector, rrh, published>>

(* A message behind which the work begins is dropped as a whole, and the   *)
(* tag, whose time is beyond it by then, goes in front of what follows.    *)
SampToSkip_Broken(m) == Max({0, worker.work_time - m.time})

SampToSkip(m) == Max({0, -(m.time - worker.work_time + SYMB_PRETRIGGER)})

(* How many samples of a message are dropped.                              *)
Dropped(m) == Min({SampToSkip(m), Len(m.samples)})

ReadSamples ==
  /\ worker # NoWork /\ published # <<>>
  /\ LET m == Head(published) IN
       worker' = [worker EXCEPT
         !.is_new = FALSE,
         !.tag_time = IF worker.is_new THEN m.time + SampToSkip(m) ELSE @,
         !.first = IF @ = NoTime /\ Dropped(m) < Len(m.samples) THEN m.samples[Dropped(m) + 1] ELSE @,
         !.skipped = IF Dropped(m) > 0 THEN m.samples[Dropped(m)] ELSE @]
  /\ published' = Tail(published)
  /\ UNCHANGED <<radio, detector, rrh>>

(* Messages for other workers, and the end of a work.                      *)
OthersRead ==
  /\ worker = NoWork /\ published # <<>>
  /\ published' = Tail(published)
  /\ UNCHANGED <<radio, detector, rrh, worker>>

EndWork ==
  /\ worker # NoWork
  /\ worker' = NoWork
  /\ UNCHANGED <<radio, detector, rrh, published>>

Next ==
  \/ Overflow \/ Detect
  \/ \E n \in MinWindow..MaxWindow, stop \in BOOLEAN : SinkWork(n, stop)
  \/ StartWork \/ ReadSamples \/ OthersRead \/ EndWork

Spec == Init /\ [][Next]_vars

-----------------------------------------------------------------------------
(* What the clocks may be wrong by: the detector's is as right as the time *)
(* it was set to last, and those that count samples miss what is lost.     *)
MostEarly == lost + behind
MostLate  == lost + ahead + slip

(* The time sent with a message is that of its first sample, but for the   *)
(* samples lost, for the worst setting of the detector's clock so far, by  *)
(* a time tag or a resync in the middle of a stream, and for the slip.     *)
(* Errors do not add up from message to message, nor from one setting of a *)
(* clock to the next.  The time in the tag of a work is not later either   *)
(* than the first sample put out, by more than that.                       *)
StampsLate ==
  /\ \A i \in DOMAIN published :
       published[i].time - published[i].samples[1] \in -MostEarly..MostLate
  /\ worker.first # NoTime => worker.tag_time - worker.first <= MostLate

(* The samples of a frame reach its worker, with those that the RRH took   *)
(* shortly before its detection: what the worker drops as too early is     *)
(* earlier, but for the samples lost and for the difference between two    *)
(* settings of the detector's clock, if it was set anew between the tag of *)
(* the frame and the tag that the sink has its time from.  The slip of the *)
(* sink's clock does no harm, since it is late and drops less.             *)
FrameKept ==
  worker.skipped # NoTime =>
    worker.skipped < worker.detected - SYMB_PRETRIGGER + lost + behind + ahead

(* rrh_zmq_sink_impl.cc 273 sends the "time of first sample".  It should   *)
(* be that while the detector's clock is right and nothing is lost.        *)
FirstSampleTimed ==
  lost = 0 /\ behind = 0 /\ ahead = 0 =>
    \A i \in DOMAIN published : published[i].time = published[i].samples[1]

-----------------------------------------------------------------------------
(* A local clock that is early, or late by less than or by a time-out.     *)
SampleOffsets == {-1, 2}
=============================================================================
