------------------------ MODULE CombiningProperties ------------------------
(***************************************************************************)
(* What rx_combining promises, and that it implements FrameOutput.         *)
(***************************************************************************)
EXTENDS RxCombining

(* A combined symbol is made of the symbols with its number of all streams *)
(* of its frame, and of no other work: a stream that were one symbol off,  *)
(* or held samples of a former work, would spoil the sum.                  *)
StreamsInStep ==
  \A f \in DOMAIN frames : \A n \in DOMAIN frames[f].symbols :
    frames[f].symbols[n] =
      [i \in DOMAIN frames[f].streams |-> Symbol(frames[f].streams[i], frames[f].work, n)]

(* A frame whose header was decoded never has more symbols than its header *)
(* says, provided that it has more than the header's own eight.            *)
FrameEnds ==
  m_decoded_header /\ m_symb_numb > HEADER_SYMBOLS => m_output_symbol_count <= m_symb_numb

(* A frame that ends with its header ends there.  The code does not do so: *)
(* see HeaderOnly.cfg.                                                     *)
HeaderFrameEnds ==
  m_decoded_header /\ m_symb_numb = HEADER_SYMBOLS => m_output_symbol_count <= m_symb_numb

(* The clock runs exactly as long as there is a stream, so the branch that *)
(* finds time over and no stream is dead, and no frame waits for a clock   *)
(* that does not run.                                                      *)
ClockRunsForStreams == m_first_rrh_time_received <=> m_rrh_params # <<>>

(* What frame_info_handler has told of each frame.                         *)
Known(f) ==
  IF f > handled THEN -1 ELSE IF headers[f] = None THEN -2 ELSE headers[f]

Output == INSTANCE FrameOutput WITH
  Lengths <- {SymbNumb(Headers[w]) : w \in Works},
  output <- [f \in DOMAIN frames |-> [work   |-> frames[f].work,
                                      count  |-> Len(frames[f].symbols),
                                      length |-> Known(f)]]

(* Frames leave rx_combining as FrameOutput says.                          *)
FramesInOrder == Output!OutputSpec

(***************************************************************************)
(* The threads run on, workers stream until they are told to stop, and the *)
(* wait for more streams ends.                                             *)
(***************************************************************************)
Fairness ==
  /\ \A s \in SyncWorkers :
       /\ \A w \in Works : WF_vars(StartStream(s, w))
       /\ WF_vars(ContinueStream(s))
       /\ WF_vars(WorkOnMessage(s))
  /\ WF_vars(WorkOnNothing /\ ~m_waiting')
  /\ WF_vars(free_worker_for_next_work)
  /\ WF_vars(frame_info_handler)
  /\ WF_vars(DecodeHeader)
  /\ WF_vars(\E f \in DOMAIN frames : DemodDone(f))

FairSpec == Spec /\ Fairness

(* rx_combining is free for a work before the work's first message comes.  *)
Prompt ==
  \A s \in SyncWorkers : \A i \in DOMAIN m_input_socket[s] :
    LET w == m_input_socket[s][i].tag IN
      w # None => ~m_work_done /\ (m_rrh_params = <<>> \/ w = m_work_id)

(* Every work gets its frame out and reports it, with leftovers of former  *)
(* works in the sockets, invalid headers, and streams at different speeds, *)
(* provided that no tag is thrown away with the leftovers.                 *)
WorksFinish == []Prompt => \A w \in Works : <>(w \in finished)
=============================================================================
