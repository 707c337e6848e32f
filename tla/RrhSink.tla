------------------------------ MODULE RrhSink ------------------------------
(***************************************************************************)
(* rrh_zmq_sink: the RRH asks the broker for a buffer, then streams a      *)
(* channel to it as long as the channel's list of frames is not empty.     *)
(* A message to the buffer is modelled when it carries the header of a new *)
(* frame; the others only carry samples.                                   *)
(***************************************************************************)
EXTENDS Sockets

CONSTANTS
  Detections,           \* the frames the detectors find
  NEW_FRAME_MIN_DELAY,  \* of a spreading factor, in ticks: a detection closer to
                        \* a frame being streamed is dropped
  FRAME_DETECT_TIME_OUT \* in ticks: an older frame leaves the list

ASSUME RrhAssumption ==
  /\ Detections \subseteq [rrh : Rrhs, frame : Frame]
  /\ NEW_FRAME_MIN_DELAY \in [Sfs -> Nat]
  /\ FRAME_DETECT_TIME_OUT \in Nat

VARIABLES
  m_buffer_addr,   \* the RRH's buffer, once the broker has named one
  requested,       \* the RRH has sent NEW_BUFFER
  m_frame_list,    \* channel -> frames being streamed
  detected         \* detections the detectors have made so far

rrhVars == <<m_buffer_addr, requested, m_frame_list, detected>>

RrhTypeOK ==
  /\ m_buffer_addr \in [Rrhs -> SUBSET Buffers]
  /\ requested \in [Rrhs -> BOOLEAN]
  /\ m_frame_list \in [Rrhs -> [Channels -> SUBSET Frame]]
  /\ detected \in SUBSET Detections

RrhInit ==
  /\ m_buffer_addr = [r \in Rrhs |-> {}]
  /\ requested = [r \in Rrhs |-> FALSE]
  /\ m_frame_list = [r \in Rrhs |-> [c \in Channels |-> {}]]
  /\ detected = {}

(* The constructor, in two halves: the request and its blocking answer.    *)
RequestBuffer(r) ==
  /\ ~requested[r]
  /\ requested' = [requested EXCEPT ![r] = TRUE]
  /\ rrhToBroker' = Send(rrhToBroker, r, NewBuffer)
  /\ UNCHANGED <<m_buffer_addr, m_frame_list, detected, brokerToRrh, rrhToBuffer,
                 bufferToBroker, brokerToBuffer, syncToBroker, brokerToSync,
                 demodToBroker>>

BufferGranted(r) ==
  /\ requested[r] /\ m_buffer_addr[r] = {}
  /\ brokerToRrh[r] # <<>>
  /\ m_buffer_addr' = [m_buffer_addr EXCEPT ![r] = {Head(brokerToRrh[r]).buffer}]
  /\ brokerToRrh' = Receive(brokerToRrh, r)
  /\ UNCHANGED <<requested, m_frame_list, detected, rrhToBroker, rrhToBuffer,
                 bufferToBroker, brokerToBuffer, syncToBroker, brokerToSync,
                 demodToBroker>>

(* The frames of one channel are tagged in the order of their times.       *)
NextDetections(r) ==
  {d \in Detections \ detected :
     /\ d.rrh = r
     /\ \A e \in Detections \ detected :
          e.rrh = r /\ e.frame.channel = d.frame.channel => d.frame.time <= e.frame.time}

(* A detection soon after a frame of the list is a second detection of it. *)
Accepted(f, list) ==
  \A g \in list[f.channel] : g.sf = f.sf => f.time - g.time >= NEW_FRAME_MIN_DELAY[f.sf]

(* Every frame of the list is sent, then dropped if it is too old.         *)
Recent(list, latest) ==
  [c \in Channels |-> {g \in list[c] : latest - g.time <= FRAME_DETECT_TIME_OUT}]

Ended(list, c) == [list EXCEPT ![c] = {}]
With(list, f)  == [list EXCEPT ![f.channel] = @ \cup {f}]

(* One call of work(): a stop of the broker, if one has come, ends the     *)
(* streams of its channel; a detection, if there is one, starts a stream.  *)
RrhWork(r, stop, d) ==
  LET list == IF stop THEN Ended(m_frame_list[r], Head(brokerToRrh[r]).channel)
                      ELSE m_frame_list[r]
  IN /\ brokerToRrh' = IF stop THEN Receive(brokerToRrh, r) ELSE brokerToRrh
     /\ detected' = detected \cup d
     /\ \/ /\ \A e \in d : ~Accepted(e.frame, list)
           /\ m_frame_list' = [m_frame_list EXCEPT ![r] = list]
           /\ UNCHANGED rrhToBuffer
        \/ \E e \in d : \E b \in m_buffer_addr[r] :
           /\ Accepted(e.frame, list)
           /\ m_frame_list' = [m_frame_list EXCEPT ![r] =
                 Recent(With(list, e.frame), e.frame.time)]
           /\ rrhToBuffer' = Send(rrhToBuffer, b, e.frame)
     /\ UNCHANGED <<m_buffer_addr, requested, rrhToBroker, bufferToBroker,
                    brokerToBuffer, syncToBroker, brokerToSync, demodToBroker>>

RrhStops(r)   == m_buffer_addr[r] # {} /\ brokerToRrh[r] # <<>> /\ RrhWork(r, TRUE, {})
RrhDetects(r) == /\ m_buffer_addr[r] # {}
                 /\ \E d \in NextDetections(r) :
                      \/ RrhWork(r, FALSE, {d})
                      \/ brokerToRrh[r] # <<>> /\ RrhWork(r, TRUE, {d})
=============================================================================
