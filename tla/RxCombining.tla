---------------------------- MODULE RxCombining ----------------------------
(***************************************************************************)
(* Inside a demodulation worker: rx_combining takes the streams that the   *)
(* synchronization workers of a work send it, combines them symbol by      *)
(* symbol and hands the result to the decoding chain, which tells it from  *)
(* the decoded header how many symbols the frame has.                      *)
(*                                                                         *)
(* Works are numbered in the order in which the broker hands them to this  *)
(* worker; it hands out the next when DEMOD_DONE of the one before has     *)
(* come (DemodExclusive of BbuProperties).  A symbol of a stream is        *)
(* <<worker, work, number>>: samples, probabilities and LLRs are functions *)
(* of it.  m_output_symbol_count stands for numb_processed_symb too: both  *)
(* are set to 0 and incremented together.                                  *)
(***************************************************************************)
EXTENDS Integers, Sequences, FiniteSetsExt

CONSTANTS
  Works,               \* numbers of the works
  SyncWorkers,         \* identities of the zmq_dealer_sinks
  Streams,             \* <<worker, work>>: the worker finds the work's frame
  Headers,             \* of the frame of each work
  Sf, Ldro,            \* spreading factor; 1 if low data-rate optimisation is on, or 0
  MAX_COMBINED_RRH,
  Assumed,             \* what is assumed of the timing, a subset of Assumptions
  Chunks,              \* bound: numbers of symbols of a message
  MaxSymbols,          \* bound: symbols of a stream
  QueueLimit           \* bound: messages of a worker under way

(* "wait":  RRH_WAIT_MS is long enough for all streams of a work;          *)
(* "first": a message has its tag at the beginning of its samples.         *)
Assumptions == {"wait", "first"}

PhyHeaders == [pay_len : Nat, has_crc : {0, 1}, cr : 1..4]

ASSUME CombiningAssumption ==
  /\ Works \subseteq Nat \ {0}
  /\ Streams \subseteq SyncWorkers \X Works
  /\ Headers \in [Works -> PhyHeaders]
  /\ Sf \in 7..12 /\ Ldro \in {0, 1}
  /\ MAX_COMBINED_RRH \in Nat \ {0}
  /\ Assumed \subseteq Assumptions
  /\ Chunks \subseteq Nat \ {0}
  /\ MaxSymbols \in Nat /\ QueueLimit \in Nat

VARIABLES
  m_rrh_params,                 \* streams being combined, in order of arrival
  m_work_id,
  m_first_rrh_time_received,
  m_waiting,
  m_output_symbol_count,
  m_decoded_header,
  m_symb_numb,
  m_work_done,
  m_input_socket,   \* messages under way from each synchronization worker
  sent,             \* of each worker: the stream it sends and its symbols so far
  started,          \* streams that have been started
  frames,           \* frames output so far, the last one maybe incomplete
  headers,          \* results of header_decoder, one per frame
  handled,          \* how many of them frame_info_handler has seen
  finished          \* works for which DEMOD_DONE was sent

combVars == <<m_rrh_params, m_work_id, m_first_rrh_time_received, m_waiting,
              m_output_symbol_count, m_decoded_header, m_symb_numb, m_work_done>>
senderVars == <<m_input_socket, sent, started>>
chainVars == <<headers, finished>>
vars == <<combVars, senderVars, chainVars, handled, frames>>

None == 0                  \* no tag, no work, an invalid header
HEADER_SYMBOLS == 8        \* the literal 8 of the code

Symbol(s, w, n) == <<s, w, n>>
Symbols(s, w, from, to) == [i \in 1..(to - from + 1) |-> Symbol(s, w, from + i - 1)]
Message(tag, samples) == [tag |-> tag, samples |-> samples]

CeilDiv(a, b) == -((-a) \div b)

(* Number of symbols of a frame, from its header.                          *)
SymbNumb_Broken(h) ==
  HEADER_SYMBOLS
    + CeilDiv(2 * h.pay_len - 4 * Sf + 2 + 5 + 4 * h.has_crc, Sf - 2 * Ldro) * (4 + h.cr)

SymbNumb(h) ==
  HEADER_SYMBOLS
    + CeilDiv(2 * h.pay_len - Sf + 2 + 5 + 4 * h.has_crc, Sf - 2 * Ldro) * (4 + h.cr)

TypeOK ==
  /\ \A i \in DOMAIN m_rrh_params : m_rrh_params[i].rrh_id \in SyncWorkers
  /\ Len(m_rrh_params) <= MAX_COMBINED_RRH
  /\ m_work_id \in Works \cup {None}
  /\ {m_first_rrh_time_received, m_waiting, m_decoded_header, m_work_done} \subseteq BOOLEAN
  /\ m_output_symbol_count \in Nat /\ m_symb_numb \in Nat
  /\ \A s \in SyncWorkers : Len(m_input_socket[s]) <= QueueLimit
  /\ started \subseteq Streams /\ finished \subseteq Works
  /\ handled \in 0..Len(headers) /\ Len(headers) \in 0..Len(frames)

Init ==
  /\ m_rrh_params = <<>> /\ m_work_id = None
  /\ m_first_rrh_time_received = FALSE
  /\ m_waiting = FALSE                   \* not read before it is set
  /\ m_output_symbol_count = 0
  /\ m_decoded_header = FALSE            \* not read before it is set
  /\ m_symb_numb = 0 /\ m_work_done = FALSE
  /\ m_input_socket = [s \in SyncWorkers |-> <<>>]
  /\ sent = [s \in SyncWorkers |-> [work |-> None, count |-> 0]]
  /\ started = {} /\ frames = <<>> /\ headers = <<>> /\ handled = 0 /\ finished = {}

-----------------------------------------------------------------------------
(* The synchronization workers: lora_frame_sync outputs symbols from the   *)
(* start of a frame on, without end, and zmq_dealer_sink sends what it     *)
(* finds in its input in one message, with the tags in it.                 *)

Deliver(s, m) ==
  /\ Len(m_input_socket[s]) < QueueLimit
  /\ m_input_socket' = [m_input_socket EXCEPT ![s] = Append(@, m)]

(* The last symbol of the stream before, when it is still in the input.    *)
Tails(s) ==
  {<<>>} \cup IF "first" \in Assumed \/ sent[s].work = None THEN {}
              ELSE {<<Symbol(s, sent[s].work, sent[s].count + 1)>>}

StartStream(s, w) ==
  /\ <<s, w>> \in Streams
  /\ \A v \in Works : <<s, v>> \in started => v < w
  /\ \A v \in Works : v < w => v \in finished
  /\ \E n \in Chunks, tail \in Tails(s) :
       /\ Deliver(s, Message(w, tail \o Symbols(s, w, 1, n)))
       /\ sent' = [sent EXCEPT ![s] = [work |-> w, count |-> n]]
  /\ started' = started \cup {<<s, w>>}
  /\ UNCHANGED <<combVars, chainVars, handled, frames>>

ContinueStream(s) ==
  LET w == sent[s].work IN
  /\ w # None
  /\ sent[s].count < MaxSymbols
  /\ \E n \in Chunks :
       /\ Deliver(s, Message(None, Symbols(s, w, sent[s].count + 1, sent[s].count + n)))
       /\ sent' = [sent EXCEPT ![s].count = @ + n]
  /\ UNCHANGED <<combVars, chainVars, handled, frames, started>>
-----------------------------------------------------------------------------
(* rx_combining.                                                           *)

IsNewStream(s) == \A i \in DOMAIN m_rrh_params : m_rrh_params[i].rrh_id # s

(* A header tag is the first of its frame, or that of one more stream that *)
(* may be combined with those that are there.                              *)
IsFirst(m) == m.tag # None /\ m_rrh_params = <<>>
Accepted(m) ==
  /\ m.tag # None
  /\ IsFirst(m) \/ (m_waiting /\ m.tag = m_work_id)
  /\ Len(m_rrh_params) < MAX_COMBINED_RRH

Stored(i, m) == [m_rrh_params EXCEPT ![i].rx_samples = @ \o m.samples]

(* What a message of s makes of the streams.  Nobody sets rrh_local_id for *)
(* a tag that is not accepted: its samples go to whatever stream the       *)
(* variable happens to name (numbers of no stream are left out).           *)
ParamsAfter(s, m) ==
  IF ~IsNewStream(s)
  THEN {Stored(i, m) : i \in {j \in DOMAIN m_rrh_params : m_rrh_params[j].rrh_id = s}}
  ELSE IF m.tag = None THEN {m_rrh_params}
  ELSE IF Accepted(m) THEN {Append(m_rrh_params, [rrh_id |-> s, rx_samples |-> m.samples])}
  ELSE {Stored(i, m) : i \in DOMAIN m_rrh_params}

(* The first tag starts the clock; leftovers, when there is no stream, find *)
(* nothing to wait for.                                                    *)
ClockAfter_Broken(m) == IsFirst(m) \/ (m_first_rrh_time_received /\ m.tag # None)

ClockAfter(m) ==
  IsFirst(m) \/ (m_first_rrh_time_received /\ ~(m.tag = None /\ m_rrh_params = <<>>))

StillDecoded_Broken(m) == m_decoded_header

StillDecoded(m) == m_decoded_header /\ ~IsFirst(m)

ReceiveMessage(s, m) ==
  /\ m_rrh_params' \in ParamsAfter(s, m)
  /\ m_first_rrh_time_received' = ClockAfter(m)
  /\ m_work_id' = IF IsFirst(m) THEN m.tag ELSE m_work_id
  /\ m_decoded_header' = StillDecoded(m)

Opened(m) == m_waiting \/ IsFirst(m)

SymbolsReady(params) ==
  Min({Len(params[i].rx_samples) : i \in DOMAIN params}) - m_output_symbol_count

(* The loop stops before the ninth symbol until the header is decoded, and *)
(* after the last symbol of the frame.                                     *)
Stopping(decoded) == IF decoded THEN m_symb_numb ELSE HEADER_SYMBOLS

SymbolsToOutput_Broken(params, decoded) ==
  IF decoded THEN SymbolsReady(params)
  ELSE Min({SymbolsReady(params), HEADER_SYMBOLS - m_output_symbol_count})

SymbolsToOutputShort_Broken(params, decoded) ==
  Min({SymbolsReady(params),
       (IF decoded THEN m_symb_numb - 1 ELSE HEADER_SYMBOLS) - m_output_symbol_count})

SymbolsToOutput(params, decoded) ==
  LET ready == SymbolsReady(params)
      left == Stopping(decoded) - m_output_symbol_count
  IN  IF (decoded /\ left > 0) \/ (~decoded /\ left >= 0) THEN Min({ready, left}) ELSE ready

Combined(params, n) == [i \in DOMAIN params |-> params[i].rx_samples[n]]

NewFrame(work, params) ==
  [work |-> work, streams |-> [i \in DOMAIN params |-> params[i].rrh_id], symbols |-> <<>>]

Begun(work, params) ==
  IF m_output_symbol_count = 0 THEN Append(frames, NewFrame(work, params)) ELSE frames

WithSymbols_Broken(fs, params, n) ==
  [fs EXCEPT ![Len(fs)].symbols = @ \o [k \in 1..n |-> Combined(params, k)]]

WithSymbols(fs, params, n) ==
  [fs EXCEPT ![Len(fs)].symbols =
     @ \o [k \in 1..n |-> Combined(params, m_output_symbol_count + k)]]

TimeIsUp(work, params) ==
  "wait" \in Assumed => {s \in SyncWorkers : <<s, work>> \in Streams}
                          \subseteq {params[i].rrh_id : i \in DOMAIN params}

(* The rest of general_work, after a message or without one.  Of a running *)
(* clock there is a stream, so line 652 is not reached.                    *)
Combine(waiting) ==
  \/ /\ m_first_rrh_time_received' => waiting
     /\ m_waiting' = waiting
     /\ UNCHANGED <<m_output_symbol_count, m_work_done, frames>>
  \/ /\ m_first_rrh_time_received'
     /\ waiting => TimeIsUp(m_work_id', m_rrh_params')
     /\ m_waiting' = FALSE
     /\ LET n == SymbolsToOutput(m_rrh_params', m_decoded_header') IN
          /\ m_output_symbol_count' = m_output_symbol_count + n
          /\ frames' = IF n = 0 THEN frames
                       ELSE WithSymbols(Begun(m_work_id', m_rrh_params'), m_rrh_params', n)
          /\ m_work_done' = (n > 0 /\ m_decoded_header' /\ m_output_symbol_count' = m_symb_numb)

(* general_work with a message of one of the workers,                      *)
WorkOnMessage(s) ==
  /\ ~m_work_done /\ m_input_socket[s] # <<>>
  /\ LET m == Head(m_input_socket[s]) IN ReceiveMessage(s, m) /\ Combine(Opened(m))
  /\ m_input_socket' = [m_input_socket EXCEPT ![s] = Tail(@)]
  /\ UNCHANGED <<m_symb_numb, sent, started, chainVars, handled>>

(* and without one.                                                        *)
WorkOnNothing ==
  /\ ~m_work_done /\ \A s \in SyncWorkers : m_input_socket[s] = <<>>
  /\ UNCHANGED <<m_rrh_params, m_first_rrh_time_received, m_work_id, m_decoded_header>>
  /\ Combine(m_waiting)
  /\ UNCHANGED <<m_symb_numb, senderVars, chainVars, handled>>

(* The beginning of general_work, up to the poll in which other threads    *)
(* may overtake it.                                                        *)
free_worker_for_next_work ==
  /\ m_work_done
  /\ m_input_socket' = [s \in SyncWorkers |-> <<>>]
  /\ m_rrh_params' = <<>>
  /\ m_output_symbol_count' = 0 /\ m_symb_numb' = 0
  /\ m_first_rrh_time_received' = FALSE /\ m_work_done' = FALSE
  /\ UNCHANGED <<m_work_id, m_waiting, m_decoded_header, sent, started, chainVars, handled, frames>>

(* A message of header_decoder; the thread of rx_combining handles it      *)
(* between two calls of general_work.                                      *)
frame_info_handler ==
  /\ handled < Len(headers)
  /\ handled' = handled + 1
  /\ LET symb_numb == headers[handled + 1] IN
       IF symb_numb = None
       THEN m_work_done' = TRUE /\ UNCHANGED <<m_symb_numb, m_decoded_header>>
       ELSE m_symb_numb' = symb_numb /\ m_decoded_header' = TRUE /\ UNCHANGED m_work_done
  /\ UNCHANGED <<m_rrh_params, m_work_id, m_first_rrh_time_received, m_waiting,
                 m_output_symbol_count, senderVars, chainVars, frames>>

-----------------------------------------------------------------------------
(* The decoding chain behind rx_combining.                                 *)

Undecoded == Len(headers) + 1

(* header_decoder gets the first block of the next frame; its checksum may *)
(* fail, and an empty frame is taken for an error.                         *)
DecodeHeader ==
  /\ Undecoded \in DOMAIN frames
  /\ Len(frames[Undecoded].symbols) >= HEADER_SYMBOLS
  /\ LET h == Headers[frames[Undecoded].work] IN
       \E result \in {None} \cup (IF h.pay_len = 0 THEN {} ELSE {SymbNumb(h)}) :
         headers' = Append(headers, result)
  /\ UNCHANGED <<combVars, senderVars, handled, frames, finished>>

(* worker_zmq_sink gets the payload, or the tag of an invalid header, and  *)
(* sends DEMOD_DONE.                                                       *)
Complete(f) ==
  f \in DOMAIN headers /\ (headers[f] = None \/ Len(frames[f].symbols) >= headers[f])

DemodDone(f) ==
  /\ Complete(f)
  /\ finished' = finished \cup {frames[f].work}
  /\ UNCHANGED <<combVars, senderVars, headers, handled, frames>>

Next ==
  \/ \E s \in SyncWorkers : \/ \E w \in Works : StartStream(s, w)
                            \/ ContinueStream(s) \/ WorkOnMessage(s)
  \/ WorkOnNothing \/ free_worker_for_next_work \/ frame_info_handler
  \/ DecodeHeader \/ \E f \in DOMAIN frames : DemodDone(f)

Spec == Init /\ [][Next]_vars
=============================================================================
