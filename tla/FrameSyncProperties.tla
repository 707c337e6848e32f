------------------------ MODULE FrameSyncProperties ------------------------
(***************************************************************************)
(* What lora_frame_sync promises, and that its output is a SymbolStream.   *)
(***************************************************************************)
EXTENDS FrameSync

(* A preamble is believed in only after enough repetitions, and there are  *)
(* as many windows to choose the strongest from as were counted: the SYNC  *)
(* of one frame and the DETECT of the next share these counters, and a tag *)
(* may come at any moment between the two.                                 *)
RepetitionsCounted ==
  /\ m_found_repetitions <=> m_n_repetitions >= m_n_repetitions_req
  /\ Len(m_preamb_up_vals) = IF m_n_repetitions = 1 THEN 0 ELSE m_n_repetitions
  /\ m_state = "SYNC" => m_found_repetitions

(* Neither the earliest candidate, with its symbol of margin, nor the      *)
(* symbols output are behind what the block keeps of its input.            *)
ReadsInMargin ==
  /\ m_state = "SYNC" => CandidateStart(0) - 1 >= pos - m_buffer_read_offset
  /\ m_synchro_read_offset <= m_buffer_read_offset

(* A frame is synchronized with only when the tag of its work is at hand:  *)
(* a second frame of the same work, or one found before any work, would    *)
(* have no demodulation worker to go to.                                   *)
HeaderHasTag == m_state = "SYNC" => m_received_frame_tag

(* The position and all repetitions are of the work of the tag.  The first *)
(* of m_preamb_up_vals is the window before the repetitions.               *)
OfOneWork ==
  /\ WorkAt(pos) = m_frame_tag
  /\ \A i \in 2..Len(m_preamb_up_vals) : WorkAt(m_preamb_up_vals[i]) = m_frame_tag

(* The strongest repetition is one of the candidates: the number of        *)
(* repetitions, which was counted over several calls, and the distance the *)
(* last of them moved the position fit together.                           *)
StrongestIsCandidate ==
  m_state = "SYNC" /\ OfOneWork /\ max_idx > 0 =>
    m_preamb_up_vals[max_idx + 1] \in {CandidateStart(c) : c \in Candidates}

LastFrame == IF output = <<>> THEN [work |-> 0, symbols |-> <<>>] ELSE output[Len(output)]

Stream == INSTANCE SymbolStream WITH current <- LastFrame

(* The output is a stream as rx_combining expects it: although calls get   *)
(* any number of symbols and of room, and a tag ends a frame anywhere.     *)
OutputIsStream == Stream!StreamSpec

-----------------------------------------------------------------------------
(* GNU Radio calls the block as long as there is enough input.             *)
FairSpec == Spec /\ WF_vars(general_work)

(* No work comes so soon that the block is still busy with the one before: *)
(* at least m_n_up symbols of it, none of its preamble found and not       *)
(* synchronized with, and none skipped.                                    *)
Apart ==
  /\ \A w \in DOMAIN tags : w > 1 => tags[w] - tags[w - 1] >= m_n_up
  /\ \A w \in DOMAIN tags : w > m_frame_tag => tags[w] >= pos /\ ~m_found_repetitions

(* The block always catches up with its input: neither a preamble that is  *)
(* rejected nor repetitions that do not end keep it at a position.         *)
CatchesUp == []Apart => []<>(written - pos < m_n_up)

(* No tag is overtaken: a tag in front of the position is that of a frame  *)
(* the block has already started with (lora_frame_sync_impl.cc 465).       *)
NoTagMissed == \A w \in DOMAIN tags : tags[w] < pos => w <= m_frame_tag
=============================================================================
