----------------------------- MODULE FrameSync -----------------------------
(***************************************************************************)
(* lora_frame_sync: it searches the samples of a work for the preamble of  *)
(* a frame, synchronizes with it and outputs the symbols that follow.  The *)
(* samples are those worker_zmq_source outputs, job after job, with a tag  *)
(* at the first sample of each work.                                       *)
(*                                                                         *)
(* A position is a symbol of the input; pos is that of                     *)
(* in[m_buffer_read_offset], behind which the block keeps the symbols it   *)
(* has consumed.  What moves by less than a symbol (k_hat, STO, SFO) is    *)
(* left out, and works have the same spreading factor, the largest, for    *)
(* which the forecast is the tightest.                                     *)
(***************************************************************************)
EXTENDS Integers, Sequences, FiniteSets

CONSTANTS
  LastWork,                     \* works are numbered 1..LastWork
  m_n_repetitions_req,
  m_max_additional_symbols,
  m_n_up,                       \* symbols of a preamble
  m_n_sync_candidates,
  MaxSymbols,                   \* bound: symbols of a work
  MaxOutput                     \* bound: symbols that fit into the output

(* The network identifiers and the 2.25 downchirps after the preamble.     *)
SFD_SYMBOLS == 4

MaxRepetitions == m_n_repetitions_req + m_max_additional_symbols

m_buffer_read_offset == MaxRepetitions + 1

(* The second and third are true of the numbers in the code: a preamble    *)
(* may be consumed as soon as it is recognised.                            *)
ASSUME FrameSyncAssumption ==
  /\ {LastWork, m_n_up, m_n_sync_candidates, MaxSymbols, MaxOutput} \subseteq Nat \ {0}
  /\ m_n_repetitions_req \in Nat /\ m_n_repetitions_req >= 2 /\ m_max_additional_symbols \in Nat
  /\ m_n_sync_candidates - 1 + SFD_SYMBOLS <= m_buffer_read_offset

VARIABLES
  written,               \* symbols in the input so far
  tags,                  \* of each work: position of its tag
  pos,
  windows,               \* iterations left of the loop of DETECT; 0 between calls
  m_state,
  m_prev_bin_idx,        \* position of the window it was found in
  m_preamb_up_vals,      \* positions of the windows they were found in
  m_n_repetitions,
  m_found_repetitions,
  max_idx,               \* the strongest of the last m_preamb_up_vals
  m_frame_tag,           \* the work it is of
  m_received_frame_tag,
  m_is_first_sample,
  m_synchro_read_offset, \* how far it is behind pos
  output                 \* frames: the work of the header, positions of the symbols

inputVars == <<written, tags>>
detectVars == <<m_prev_bin_idx, m_preamb_up_vals, m_n_repetitions, m_found_repetitions>>
tagVars == <<m_frame_tag, m_received_frame_tag>>
outputVars == <<m_is_first_sample, m_synchro_read_offset, output>>
vars == <<inputVars, pos, windows, m_state, detectVars, max_idx, tagVars, outputVars>>

None == 0
States == {"DETECT", "SYNC", "SFO_COMPENSATION", "OVERRUN"}

(* Zeros that blocks::delay puts in front of the first sample.             *)
Prefill == m_n_up + 1

Frames == [work : 0..LastWork, symbols : Seq(Int)]

TypeOK ==
  /\ written \in Nat /\ tags \in Seq(Nat) /\ Len(tags) <= LastWork
  /\ pos \in Nat /\ windows \in Nat
  /\ m_state \in States
  /\ m_prev_bin_idx \in Int /\ m_preamb_up_vals \in Seq(Int)
  /\ m_n_repetitions \in 1..MaxRepetitions
  /\ m_found_repetitions \in BOOLEAN /\ max_idx \in Nat
  /\ m_frame_tag \in 0..Len(tags) /\ m_received_frame_tag \in BOOLEAN
  /\ m_is_first_sample \in BOOLEAN /\ m_synchro_read_offset \in Nat
  /\ output \in Seq(Frames)

Init ==
  /\ written = Prefill /\ tags = <<>> /\ pos = 0 /\ windows = 0
  /\ m_state = "DETECT"
  /\ m_prev_bin_idx = -1 /\ m_preamb_up_vals = <<>>
  /\ m_n_repetitions = 1 /\ m_found_repetitions = FALSE /\ max_idx = 0
  /\ m_frame_tag = None /\ m_received_frame_tag = FALSE
  /\ m_is_first_sample = FALSE          \* not read before it is set
  /\ m_synchro_read_offset = 0          \* not read before it is set
  /\ output = <<>>

-----------------------------------------------------------------------------
(* worker_zmq_source: the first samples of a job get the job's tag, and a  *)
(* job may end after any number of samples, or of none.                    *)

NewWork ==
  /\ Len(tags) < LastWork
  /\ tags' = Append(tags, written)
  /\ UNCHANGED <<written, pos, windows, m_state, detectVars, max_idx, tagVars, outputVars>>

MoreSamples ==
  /\ tags # <<>> /\ written - tags[Len(tags)] < MaxSymbols
  /\ written' = written + 1
  /\ UNCHANGED <<tags, pos, windows, m_state, detectVars, max_idx, tagVars, outputVars>>

(* The work that a symbol of the input is of; none for the zeros.          *)
WorkAt(p) == Cardinality({w \in DOMAIN tags : tags[w] <= p})

-----------------------------------------------------------------------------
(* The beginning of general_work.                                          *)

(* GNU Radio calls it when the input has what forecast asks for.           *)
Called_Broken == windows = 0 /\ written >= pos /\ m_state # "OVERRUN"

Called == windows = 0 /\ written - pos >= m_n_up /\ m_state # "OVERRUN"

(* Tags in the part of the input after m_buffer_read_offset.               *)
TagsInWindow == {w \in DOMAIN tags : pos <= tags[w] /\ tags[w] < written}

IsFirstTag(w) == w \in TagsInWindow /\ \A v \in TagsInWindow : w <= v

(* Everything in front of a tag is dropped, whatever the state.            *)
FlushToTag ==
  /\ Called
  /\ \E w \in TagsInWindow : IsFirstTag(w) /\ tags[w] > pos /\ pos' = tags[w]
  /\ UNCHANGED <<inputVars, windows, m_state, detectVars, max_idx, tagVars, outputVars>>

(* The samples of a work that are there, up to the next tag if there is one *)
SamplesOf(w) == (IF w + 1 \in TagsInWindow THEN tags[w + 1] ELSE written) - pos

(* A new frame.  The loop bound max_items / m_samples_per_symbol - m_n_up + 1 *)
(* is unsigned: when it wraps the loop runs out of the input, and the model *)
(* ends.  That less than m_n_up symbols are in the input (line 515) is     *)
(* impossible after Called.                                                *)
StartFrame(w) ==
  /\ Called /\ IsFirstTag(w) /\ tags[w] = pos
  /\ m_frame_tag' = w /\ m_received_frame_tag' = TRUE
  /\ IF SamplesOf(w) >= m_n_up - 1
     THEN m_state' = "DETECT" /\ windows' = SamplesOf(w) - m_n_up + 1
     ELSE m_state' = "OVERRUN" /\ UNCHANGED windows
  /\ UNCHANGED <<inputVars, pos, detectVars, max_idx, outputVars>>

CalledFor(state) == Called /\ TagsInWindow = {} /\ m_state = state

-----------------------------------------------------------------------------
(* DETECT: windows of m_n_up symbols, one symbol apart, whose strongest    *)
(* bin is again and again the same.                                        *)

Detect ==
  /\ CalledFor("DETECT")
  /\ windows' = written - pos - m_n_up + 1
  /\ UNCHANGED <<inputVars, pos, m_state, detectVars, max_idx, tagVars, outputVars>>

(* Noise repeats itself by chance, zeros are no repetition.                *)
MayRepeat_Broken == m_n_repetitions <= MaxRepetitions /\ WorkAt(pos) # None

MayRepeat == m_n_repetitions < MaxRepetitions /\ WorkAt(pos) # None

NextWindow ==
  /\ m_prev_bin_idx' = pos
  /\ pos' = pos + 1 /\ windows' = windows - 1
  /\ UNCHANGED <<inputVars, m_state, max_idx, tagVars, outputVars>>

Repeated ==
  /\ windows > 0 /\ MayRepeat
  /\ m_preamb_up_vals' =
       (IF m_n_repetitions = 1 THEN Append(m_preamb_up_vals, m_prev_bin_idx)
                               ELSE m_preamb_up_vals) \o <<pos>>
  /\ m_n_repetitions' = m_n_repetitions + 1
  /\ m_found_repetitions' = (m_found_repetitions \/ m_n_repetitions' >= m_n_repetitions_req)
  /\ NextWindow

NotRepeated ==
  /\ windows > 0 /\ ~m_found_repetitions
  /\ m_n_repetitions' = 1 /\ m_preamb_up_vals' = <<>>
  /\ UNCHANGED m_found_repetitions
  /\ NextWindow

(* From the end of the repetitions to the first candidate; a step back     *)
(* (negative consumption) is ignored by GNU Radio.                         *)
ToFirstCandidate(idx) ==
  IF idx > (m_n_sync_candidates - 1) \div 2 THEN idx - (m_n_sync_candidates - 1) \div 2 ELSE 0

RepetitionsEnd ==
  /\ windows > 0 /\ m_found_repetitions
  /\ m_state' = "SYNC" /\ windows' = 0
  /\ \E i \in DOMAIN m_preamb_up_vals :
       max_idx' = i - 1 /\ pos' = pos + ToFirstCandidate(i - 1)
  /\ UNCHANGED <<inputVars, detectVars, tagVars, outputVars>>

-----------------------------------------------------------------------------
(* SYNC: of m_n_sync_candidates places for the beginning of the preamble,  *)
(* the one with the best SNR.                                              *)

CandidateStart_Broken(c) == pos - m_n_repetitions_req + c

CandidateStart(c) == pos - m_n_repetitions + c

Candidates == 0..m_n_sync_candidates - 1

ForgetRepetitions_Broken ==
  /\ m_preamb_up_vals' = <<>>
  /\ m_synchro_read_offset' = m_n_repetitions
  /\ m_n_repetitions' = 1
  /\ UNCHANGED <<inputVars, windows, m_prev_bin_idx, m_found_repetitions, max_idx, output>>

ForgetRepetitions ==
  /\ m_preamb_up_vals' = <<>> /\ m_found_repetitions' = FALSE
  /\ m_synchro_read_offset' = m_n_repetitions
  /\ m_n_repetitions' = 1
  /\ UNCHANGED <<inputVars, windows, m_prev_bin_idx, max_idx, output>>

(* The two estimates of its SNR are too different.                         *)
SyncRejected_Broken ==
  /\ CalledFor("SYNC")
  /\ m_state' = "DETECT"
  /\ UNCHANGED <<inputVars, pos, windows, detectVars, max_idx, tagVars, outputVars>>

SyncRejectedUntagged_Broken ==
  /\ CalledFor("SYNC")
  /\ ForgetRepetitions
  /\ m_state' = "DETECT" /\ m_received_frame_tag' = FALSE
  /\ UNCHANGED <<pos, m_frame_tag, m_is_first_sample>>

SyncRejected ==
  /\ CalledFor("SYNC")
  /\ ForgetRepetitions
  /\ m_state' = "DETECT"
  /\ UNCHANGED <<pos, tagVars, m_is_first_sample>>

Synchronized ==
  /\ CalledFor("SYNC")
  /\ ForgetRepetitions
  /\ m_state' = "SFO_COMPENSATION"
  /\ \E c \in Candidates : pos' = pos + c + m_n_up + SFD_SYMBOLS
  /\ m_frame_tag' = IF m_received_frame_tag THEN m_frame_tag ELSE None
  /\ m_received_frame_tag' = FALSE
  /\ m_is_first_sample' = TRUE

-----------------------------------------------------------------------------
(* SFO_COMPENSATION: symbols out, up to the next tag.  Nobody connects     *)
(* frame_info, so m_symb_numb is 0 and a frame has no last symbol.         *)

SymbolsRead(n) == [i \in 1..n |-> pos - m_synchro_read_offset + i - 1]

SfoCompensation ==
  /\ CalledFor("SFO_COMPENSATION")
  /\ \E room \in 1..MaxOutput :
       LET n == IF room < written - pos THEN room ELSE written - pos IN
         /\ output' =
              IF m_is_first_sample
              THEN Append(output, [work |-> m_frame_tag, symbols |-> SymbolsRead(n)])
              ELSE [output EXCEPT ![Len(output)].symbols = @ \o SymbolsRead(n)]
         /\ pos' = pos + n
  /\ m_is_first_sample' = FALSE
  /\ UNCHANGED <<inputVars, windows, m_state, detectVars, max_idx, tagVars, m_synchro_read_offset>>

general_work ==
  \/ FlushToTag \/ \E w \in DOMAIN tags : StartFrame(w)
  \/ Detect \/ Repeated \/ NotRepeated \/ RepetitionsEnd
  \/ SyncRejected \/ Synchronized \/ SfoCompensation

Next == NewWork \/ MoreSamples \/ general_work

Spec == Init /\ [][Next]_vars
=============================================================================
