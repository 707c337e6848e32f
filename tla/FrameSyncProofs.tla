-------------------------- MODULE FrameSyncProofs --------------------------
(***************************************************************************)
(* Proofs about FrameSync, for any number of works and symbols and any     *)
(* numbers of repetitions, candidates and preamble symbols.                *)
(***************************************************************************)
EXTENDS FrameSyncProperties, SequenceTheorems, FiniteSetTheorems, TLAPS

(* The loop of DETECT stays inside the input that was there at its start.  *)
LoopInInput ==
  windows > 0 => m_state = "DETECT" /\ pos + windows + m_n_up - 1 <= written

TagsOrdered ==
  \A w \in DOMAIN tags :
    tags[w] <= written /\ \A v \in DOMAIN tags : v <= w => tags[v] <= tags[w]

(* Before the first tag is taken nothing has repeated itself, and no tag   *)
(* has been passed.                                                        *)
NothingBeforeTag ==
  m_state = "DETECT" /\ ~m_received_frame_tag =>
    /\ m_n_repetitions = 1
    /\ pos + windows <= written
    /\ \A w \in DOMAIN tags : pos + windows <= tags[w]

Inv ==
  /\ TypeOK /\ RepetitionsCounted /\ ReadsInMargin /\ HeaderHasTag
  /\ LoopInInput /\ TagsOrdered /\ NothingBeforeTag

(* A function of the first n numbers is a sequence.                        *)
LEMMA FunctionIsSeq ==
  ASSUME NEW S, NEW n \in Nat, NEW f \in [1..n -> S]
  PROVE  f \in Seq(S)
BY SeqDef

(* A frame with more symbols is a frame.                                   *)
LEMMA LastFrameGrows ==
  ASSUME NEW s \in Seq(Frames), NEW more \in Seq(Int)
  PROVE  [s EXCEPT ![Len(s)].symbols = @ \o more] \in Seq(Frames)
<1>1. ASSUME NEW f \in Frames PROVE [f EXCEPT !.symbols = @ \o more] \in Frames
  <2>1. f.symbols \in Seq(Int)
    BY DEF Frames
  <2>2. f.symbols \o more \in Seq(Int)
    BY <2>1
  <2> QED BY <2>2 DEF Frames
<1> DEFINE t == [s EXCEPT ![Len(s)].symbols = @ \o more]
<1>0. s \in [1..Len(s) -> Frames] /\ Len(s) \in Nat /\ DOMAIN s = 1..Len(s)
  BY LenProperties
<1>2. t = [i \in DOMAIN s |-> IF i = Len(s) THEN [s[i] EXCEPT !.symbols = @ \o more] ELSE s[i]]
  BY <1>0, Zenon
<1>3. ASSUME NEW i \in 1..Len(s) PROVE t[i] \in Frames
  <2>1. s[i] \in Frames
    OBVIOUS
  <2>2. CASE i = Len(s)
    <3>1. t[i] = [s[i] EXCEPT !.symbols = @ \o more]
      BY <1>0, <1>2, <2>2
    <3> QED BY <1>1, <2>1, <3>1
  <2>3. CASE i # Len(s)
    <3>1. t[i] = s[i]
      BY <1>0, <1>2, <2>3
    <3> QED BY <2>1, <3>1
  <2> QED BY <2>2, <2>3
<1> HIDE DEF t
<1>4. t \in [1..Len(s) -> Frames]
  BY <1>0, <1>2, <1>3
<1>5. t \in Seq(Frames)
  BY <1>4, FunctionIsSeq, LenProperties
<1> QED BY <1>5 DEF t

(* The work of a position is one whose tag is not behind it.               *)
LEMMA WorkHasTag ==
  ASSUME NEW p, WorkAt(p) # None
  PROVE  \E w \in DOMAIN tags : tags[w] <= p
<1> SUFFICES ASSUME ~\E w \in DOMAIN tags : tags[w] <= p PROVE FALSE
  OBVIOUS
<1>1. {w \in DOMAIN tags : tags[w] <= p} = {}
  OBVIOUS
<1> QED BY <1>1, FS_EmptySet DEF WorkAt, None

(* What the assumption says of the numbers of symbols.                     *)
LEMMA Constants ==
  /\ LastWork \in Nat /\ m_n_up \in Nat \ {0} /\ m_n_sync_candidates \in Nat
  /\ m_n_repetitions_req \in Nat /\ m_n_repetitions_req >= 2
  /\ MaxRepetitions \in Nat /\ MaxRepetitions >= m_n_repetitions_req
  /\ m_buffer_read_offset = MaxRepetitions + 1
  BY FrameSyncAssumption DEF MaxRepetitions, m_buffer_read_offset

(* The synchronizer starts with nothing counted and no tag.                *)
LEMMA InitInv == Init => Inv
<1> SUFFICES ASSUME Init PROVE Inv
  OBVIOUS
<1> USE Constants DEF Init, None, Prefill
<1>1. TypeOK
  <2>1. written \in Nat /\ m_n_repetitions \in 1..MaxRepetitions /\ m_prev_bin_idx \in Int
    OBVIOUS
  <2>2. tags \in Seq(Nat) /\ Len(tags) <= LastWork /\ m_frame_tag \in 0..Len(tags)
    OBVIOUS
  <2>3. m_preamb_up_vals \in Seq(Int) /\ output \in Seq(Frames)
    OBVIOUS
  <2> QED BY <2>1, <2>2, <2>3 DEF TypeOK, States
<1>2. RepetitionsCounted
  BY DEF RepetitionsCounted
<1>3. ReadsInMargin
  BY DEF ReadsInMargin
<1>4. HeaderHasTag /\ LoopInInput
  BY DEF HeaderHasTag, LoopInInput
<1>5. TagsOrdered /\ NothingBeforeTag
  BY DEF TagsOrdered, NothingBeforeTag
<1> QED BY <1>1, <1>2, <1>3, <1>4, <1>5 DEF Inv

-----------------------------------------------------------------------------
(* The input.                                                              *)

(* A tag is written at the end of the input, behind all others.            *)
LEMMA NewWorkInv ==
  ASSUME Inv, NewWork
  PROVE  Inv'
<1> USE Constants DEF Inv, NewWork, inputVars, detectVars, tagVars, outputVars
<1>a. tags \in Seq(Nat) /\ written \in Nat
  BY DEF TypeOK
<1>b. /\ tags' \in Seq(Nat) /\ Len(tags') = Len(tags) + 1 /\ DOMAIN tags' = 1..Len(tags) + 1
      /\ \A w \in DOMAIN tags : w \in DOMAIN tags' /\ tags'[w] = tags[w]
      /\ tags'[Len(tags) + 1] = written
      /\ \A w \in DOMAIN tags' : w \in DOMAIN tags \/ w = Len(tags) + 1
  BY <1>a
<1>1. TypeOK'
  BY <1>b DEF TypeOK, States
<1>2. RepetitionsCounted'
  BY DEF TypeOK, RepetitionsCounted
<1>3. ReadsInMargin'
  BY DEF TypeOK, ReadsInMargin, CandidateStart
<1>4. HeaderHasTag'
  BY DEF HeaderHasTag
<1>5. LoopInInput'
  BY DEF TypeOK, LoopInInput
<1>6. TagsOrdered'
  BY <1>a, <1>b DEF TagsOrdered
<1>7. NothingBeforeTag'
  BY <1>a, <1>b DEF TypeOK, NothingBeforeTag
<1> QED BY <1>1, <1>2, <1>3, <1>4, <1>5, <1>6, <1>7

(* More input moves no tag and no position.                                *)
LEMMA MoreSamplesInv ==
  ASSUME Inv, MoreSamples
  PROVE  Inv'
<1> USE Constants DEF Inv, MoreSamples, inputVars, detectVars, tagVars, outputVars
<1>1. TypeOK'
  BY DEF TypeOK, States
<1>2. RepetitionsCounted'
  BY DEF TypeOK, RepetitionsCounted
<1>3. ReadsInMargin'
  BY DEF TypeOK, ReadsInMargin, CandidateStart
<1>4. HeaderHasTag'
  BY DEF HeaderHasTag
<1>5. LoopInInput'
  BY DEF TypeOK, LoopInInput
<1>6. TagsOrdered'
  BY DEF TypeOK, TagsOrdered
<1>7. NothingBeforeTag'
  BY DEF TypeOK, NothingBeforeTag
<1> QED BY <1>1, <1>2, <1>3, <1>4, <1>5, <1>6, <1>7

-----------------------------------------------------------------------------
(* The beginning of general_work.                                          *)

(* What lies in front of the tag is consumed.                              *)
LEMMA FlushToTagInv ==
  ASSUME Inv, FlushToTag
  PROVE  Inv'
<1> USE Constants DEF Inv, FlushToTag, inputVars, detectVars, tagVars, outputVars
<1>a. windows = 0 /\ written \in Nat /\ pos \in Nat /\ tags \in Seq(Nat)
  BY DEF TypeOK, Called
<1>b. PICK w \in DOMAIN tags : /\ IsFirstTag(w) /\ tags[w] > pos /\ pos' = tags[w]
                              /\ tags[w] < written /\ tags[w] \in Nat
  BY <1>a DEF TagsInWindow
<1>c. ASSUME NEW v \in DOMAIN tags, pos <= tags[v] PROVE tags[w] <= tags[v]
  <2>1. CASE v \in TagsInWindow
    <3>1. w <= v
      BY <1>b, <2>1 DEF IsFirstTag
    <3> QED BY <1>b, <3>1 DEF TagsOrdered
  <2>2. CASE v \notin TagsInWindow
    <3>1. tags[v] \in Nat /\ ~(tags[v] < written)
      BY <1>a, <1>c, <2>2 DEF TagsInWindow
    <3> QED BY <1>a, <1>b, <3>1
  <2> QED BY <2>1, <2>2
<1>1. TypeOK'
  BY <1>b DEF TypeOK, States
<1>2. RepetitionsCounted'
  BY DEF TypeOK, RepetitionsCounted
<1>3. ReadsInMargin'
  BY <1>a, <1>b DEF TypeOK, ReadsInMargin, CandidateStart
<1>4. HeaderHasTag'
  BY DEF HeaderHasTag
<1>5. LoopInInput'
  BY <1>a DEF LoopInInput
<1>6. TagsOrdered'
  BY DEF TagsOrdered
<1>7. NothingBeforeTag'
  BY <1>a, <1>b, <1>c DEF TypeOK, NothingBeforeTag
<1> QED BY <1>1, <1>2, <1>3, <1>4, <1>5, <1>6, <1>7

(* The tag of a work is taken and DETECT begins inside the input.          *)
LEMMA StartFrameInv ==
  ASSUME Inv, NEW w \in DOMAIN tags, StartFrame(w)
  PROVE  Inv'
<1> USE Constants DEF Inv, StartFrame, inputVars, detectVars, tagVars, outputVars
<1>a. windows = 0 /\ written \in Nat /\ pos \in Nat /\ tags \in Seq(Nat) /\ w \in DOMAIN tags
  BY DEF TypeOK, Called
<1>b. SamplesOf(w) \in Int /\ pos + SamplesOf(w) <= written
  <2>1. CASE w + 1 \in TagsInWindow
    <3>1. tags[w + 1] \in Nat /\ tags[w + 1] <= written
      BY <1>a, <2>1 DEF TagsInWindow
    <3> QED BY <1>a, <2>1, <3>1 DEF SamplesOf
  <2>2. CASE w + 1 \notin TagsInWindow
    BY <1>a, <2>2 DEF SamplesOf
  <2> QED BY <2>1, <2>2
<1>c. m_received_frame_tag' /\ m_state' \in {"DETECT", "OVERRUN"} /\ windows' \in Nat
  BY <1>a, <1>b
<1>1. TypeOK'
  BY <1>a, <1>c DEF TypeOK, States
<1>2. RepetitionsCounted'
  BY <1>c DEF RepetitionsCounted
<1>3. ReadsInMargin'
  BY <1>c DEF TypeOK, ReadsInMargin
<1>4. HeaderHasTag'
  BY <1>c DEF HeaderHasTag
<1>5. LoopInInput'
  BY <1>a, <1>b DEF LoopInInput
<1>6. TagsOrdered'
  BY DEF TagsOrdered
<1>7. NothingBeforeTag'
  BY <1>c DEF NothingBeforeTag
<1> QED BY <1>1, <1>2, <1>3, <1>4, <1>5, <1>6, <1>7

-----------------------------------------------------------------------------
(* DETECT.                                                                 *)

(* A call in DETECT looks at as many windows as the input has.             *)
LEMMA DetectInv ==
  ASSUME Inv, Detect
  PROVE  Inv'
<1> USE Constants DEF Inv, Detect, inputVars, detectVars, tagVars, outputVars
<1>a. /\ windows = 0 /\ written \in Nat /\ pos \in Nat /\ tags \in Seq(Nat)
      /\ written - pos >= m_n_up /\ m_state = "DETECT" /\ TagsInWindow = {}
  BY DEF TypeOK, Called, CalledFor
<1>b. windows' \in Nat /\ pos + windows' + m_n_up - 1 = written /\ pos + windows' <= written
  BY <1>a
<1>c. ASSUME NEW w \in DOMAIN tags, pos <= tags[w] PROVE pos + windows' <= tags[w]
  <2>1. tags[w] \in Nat /\ ~(tags[w] < written)
    BY <1>a, <1>c DEF TagsInWindow
  <2> QED BY <1>a, <1>b, <2>1
<1>1. TypeOK'
  BY <1>b DEF TypeOK
<1>2. RepetitionsCounted'
  BY DEF TypeOK, RepetitionsCounted
<1>3. ReadsInMargin'
  BY DEF TypeOK, ReadsInMargin, CandidateStart
<1>4. HeaderHasTag'
  BY DEF HeaderHasTag
<1>5. LoopInInput'
  BY <1>a, <1>b DEF LoopInInput
<1>6. TagsOrdered'
  BY DEF TagsOrdered
<1>7. NothingBeforeTag'
  BY <1>a, <1>b, <1>c DEF TypeOK, NothingBeforeTag
<1> QED BY <1>1, <1>2, <1>3, <1>4, <1>5, <1>6, <1>7

(* One more repetition is counted, of a work whose tag has been taken.     *)
LEMMA RepeatedInv ==
  ASSUME Inv, Repeated
  PROVE  Inv'
<1> USE Constants DEF Inv, Repeated, inputVars, detectVars, tagVars, outputVars
<1> USE DEF NextWindow
<1>a. /\ windows \in Nat /\ windows > 0 /\ pos \in Nat /\ m_state = "DETECT"
      /\ pos' = pos + 1 /\ windows' = windows - 1 /\ pos' + windows' = pos + windows
  BY DEF TypeOK, LoopInInput
<1>b. m_received_frame_tag
  <2> SUFFICES ASSUME ~m_received_frame_tag PROVE FALSE
    OBVIOUS
  <2>1. PICK w \in DOMAIN tags : tags[w] <= pos
    BY WorkHasTag DEF MayRepeat
  <2>2. pos + windows <= tags[w] /\ tags[w] \in Nat
    BY <1>a DEF NothingBeforeTag, TypeOK
  <2> QED BY <1>a, <2>1, <2>2
<1>c. /\ m_n_repetitions \in 1..MaxRepetitions /\ m_n_repetitions < MaxRepetitions
      /\ m_n_repetitions' = m_n_repetitions + 1
  BY DEF TypeOK, MayRepeat
<1>d. /\ m_preamb_up_vals' \in Seq(Int)
      /\ Len(m_preamb_up_vals') = m_n_repetitions + 1
  <2>1. m_preamb_up_vals \in Seq(Int) /\ m_prev_bin_idx \in Int /\ pos \in Int
    BY DEF TypeOK
  <2>2. CASE m_n_repetitions = 1
    <3>1. Len(m_preamb_up_vals) = 0
      BY <2>2 DEF RepetitionsCounted
    <3>2. m_preamb_up_vals' = Append(m_preamb_up_vals, m_prev_bin_idx) \o <<pos>>
      BY <2>2
    <3> QED BY <2>1, <2>2, <3>1, <3>2
  <2>3. CASE m_n_repetitions # 1
    <3>1. Len(m_preamb_up_vals) = m_n_repetitions
      BY <2>3 DEF RepetitionsCounted
    <3>2. m_preamb_up_vals' = m_preamb_up_vals \o <<pos>>
      BY <2>3
    <3> QED BY <2>1, <2>3, <3>1, <3>2
  <2> QED BY <2>2, <2>3
<1>e. m_found_repetitions' \in BOOLEAN
  BY DEF TypeOK
<1>1. TypeOK'
  BY <1>a, <1>c, <1>d, <1>e DEF TypeOK
<1>2. RepetitionsCounted'
  <2>1. m_found_repetitions' <=> m_found_repetitions \/ m_n_repetitions' >= m_n_repetitions_req
    OBVIOUS
  <2>2. m_found_repetitions <=> m_n_repetitions >= m_n_repetitions_req
    BY DEF RepetitionsCounted
  <2>3. m_n_repetitions >= m_n_repetitions_req => m_n_repetitions' >= m_n_repetitions_req
    BY <1>c
  <2>4. m_found_repetitions' <=> m_n_repetitions' >= m_n_repetitions_req
    BY <2>1, <2>2, <2>3
  <2>5. m_state' # "SYNC" /\ m_n_repetitions' # 1 /\ m_n_repetitions' = m_n_repetitions + 1
    BY <1>a, <1>c
  <2> QED BY <1>d, <2>4, <2>5 DEF RepetitionsCounted
<1>3. ReadsInMargin'
  BY <1>a DEF ReadsInMargin
<1>4. HeaderHasTag'
  BY <1>b DEF HeaderHasTag
<1>5. LoopInInput'
  BY <1>a DEF TypeOK, LoopInInput
<1>6. TagsOrdered'
  BY DEF TagsOrdered
<1>7. NothingBeforeTag'
  BY <1>b DEF NothingBeforeTag
<1> QED BY <1>1, <1>2, <1>3, <1>4, <1>5, <1>6, <1>7

(* Too few repetitions are forgotten.                                      *)
LEMMA NotRepeatedInv ==
  ASSUME Inv, NotRepeated
  PROVE  Inv'
<1> USE Constants DEF Inv, NotRepeated, inputVars, detectVars, tagVars, outputVars
<1> USE DEF NextWindow
<1>a. /\ windows \in Nat /\ windows > 0 /\ pos \in Nat /\ m_state = "DETECT"
      /\ pos' = pos + 1 /\ windows' = windows - 1 /\ pos' + windows' = pos + windows
  BY DEF TypeOK, LoopInInput
<1>1. TypeOK'
  <2>1. m_preamb_up_vals' \in Seq(Int)
    OBVIOUS
  <2> QED BY <1>a, <2>1 DEF TypeOK
<1>2. RepetitionsCounted'
  BY <1>a DEF RepetitionsCounted
<1>3. ReadsInMargin'
  BY <1>a DEF ReadsInMargin
<1>4. HeaderHasTag'
  BY DEF HeaderHasTag
<1>5. LoopInInput'
  BY <1>a DEF TypeOK, LoopInInput
<1>6. TagsOrdered'
  BY DEF TagsOrdered
<1>7. NothingBeforeTag'
  BY <1>a DEF NothingBeforeTag
<1> QED BY <1>1, <1>2, <1>3, <1>4, <1>5, <1>6, <1>7

(* Enough repetitions end; the search begins where one of them was.        *)
LEMMA RepetitionsEndInv ==
  ASSUME Inv, RepetitionsEnd
  PROVE  Inv'
<1> USE Constants DEF Inv, RepetitionsEnd, inputVars, detectVars, tagVars, outputVars
<1>a. m_state = "DETECT" /\ pos \in Nat /\ windows' = 0 /\ m_state' = "SYNC"
  BY DEF TypeOK, LoopInInput
<1>b. max_idx' \in Nat /\ pos' \in Nat
  <2>1. PICK i \in DOMAIN m_preamb_up_vals :
          max_idx' = i - 1 /\ pos' = pos + ToFirstCandidate(i - 1)
    OBVIOUS
  <2>2. i - 1 \in Nat
    BY <2>1 DEF TypeOK
  <2>3. (m_n_sync_candidates - 1) \div 2 \in Int
    OBVIOUS
  <2>4. ToFirstCandidate(i - 1) \in Nat
    BY <2>2, <2>3 DEF ToFirstCandidate
  <2> QED BY <1>a, <2>1, <2>2, <2>4
<1>c. m_received_frame_tag
  BY <1>a DEF NothingBeforeTag, RepetitionsCounted
<1>1. TypeOK'
  BY <1>a, <1>b DEF TypeOK, States
<1>2. RepetitionsCounted'
  BY DEF TypeOK, RepetitionsCounted
<1>3. ReadsInMargin'
  BY <1>a, <1>b DEF TypeOK, ReadsInMargin, CandidateStart
<1>4. HeaderHasTag'
  BY <1>c DEF HeaderHasTag
<1>5. LoopInInput'
  BY <1>a DEF LoopInInput
<1>6. TagsOrdered'
  BY DEF TagsOrdered
<1>7. NothingBeforeTag'
  BY <1>a DEF NothingBeforeTag
<1> QED BY <1>1, <1>2, <1>3, <1>4, <1>5, <1>6, <1>7

-----------------------------------------------------------------------------
(* SYNC and SFO_COMPENSATION.                                              *)

(* No preamble was found; counting begins anew.                            *)
LEMMA SyncRejectedInv ==
  ASSUME Inv, SyncRejected
  PROVE  Inv'
<1> USE Constants DEF Inv, SyncRejected, inputVars, detectVars, tagVars, outputVars
<1> USE DEF ForgetRepetitions
<1>a. /\ windows = 0 /\ m_state = "SYNC" /\ pos \in Nat
      /\ m_n_repetitions \in 1..MaxRepetitions /\ m_n_repetitions' = 1
      /\ m_synchro_read_offset' = m_n_repetitions /\ windows' = 0
  BY DEF TypeOK, CalledFor, Called
<1>b. m_preamb_up_vals' \in Seq(Int) /\ Len(m_preamb_up_vals') = 0
  OBVIOUS
<1>1. TypeOK'
  <2>1. m_state' \in States /\ m_n_repetitions' \in 1..MaxRepetitions
    BY <1>a DEF States
  <2>2. m_found_repetitions' \in BOOLEAN /\ m_is_first_sample' \in BOOLEAN /\ m_received_frame_tag' \in BOOLEAN
    BY DEF TypeOK
  <2> QED BY <1>a, <1>b, <2>1, <2>2 DEF TypeOK
<1>2. RepetitionsCounted'
  BY <1>a, <1>b DEF RepetitionsCounted
<1>3. ReadsInMargin'
  BY <1>a DEF ReadsInMargin
<1>4. HeaderHasTag'
  BY DEF HeaderHasTag
<1>5. LoopInInput'
  BY <1>a DEF LoopInInput
<1>6. TagsOrdered'
  BY DEF TagsOrdered
<1>7. NothingBeforeTag'
  BY <1>a DEF HeaderHasTag, NothingBeforeTag
<1> QED BY <1>1, <1>2, <1>3, <1>4, <1>5, <1>6, <1>7

(* The position is moved to the header, and output may start.              *)
LEMMA SynchronizedInv ==
  ASSUME Inv, Synchronized
  PROVE  Inv'
<1> USE Constants DEF Inv, Synchronized, inputVars, detectVars, tagVars, outputVars
<1> USE DEF ForgetRepetitions
<1>a. /\ windows = 0 /\ m_state = "SYNC" /\ pos \in Nat
      /\ m_n_repetitions \in 1..MaxRepetitions /\ m_n_repetitions' = 1
      /\ m_synchro_read_offset' = m_n_repetitions /\ windows' = 0
  BY DEF TypeOK, CalledFor, Called
<1>b. m_preamb_up_vals' \in Seq(Int) /\ Len(m_preamb_up_vals') = 0
  OBVIOUS
<1>c. pos' \in Nat /\ m_frame_tag' \in 0..Len(tags)
  BY <1>a DEF TypeOK, Candidates, SFD_SYMBOLS, None
<1>1. TypeOK'
  <2>1. m_state' \in States /\ m_n_repetitions' \in 1..MaxRepetitions
    BY <1>a DEF States
  <2>2. m_found_repetitions' \in BOOLEAN /\ m_is_first_sample' \in BOOLEAN /\ m_received_frame_tag' \in BOOLEAN
    BY DEF TypeOK
  <2> QED BY <1>a, <1>b, <1>c, <2>1, <2>2 DEF TypeOK
<1>2. RepetitionsCounted'
  BY <1>a, <1>b DEF RepetitionsCounted
<1>3. ReadsInMargin'
  BY <1>a DEF ReadsInMargin
<1>4. HeaderHasTag'
  BY DEF HeaderHasTag
<1>5. LoopInInput'
  BY <1>a DEF LoopInInput
<1>6. TagsOrdered'
  BY DEF TagsOrdered
<1>7. NothingBeforeTag'
  BY <1>a DEF NothingBeforeTag
<1> QED BY <1>1, <1>2, <1>3, <1>4, <1>5, <1>6, <1>7

(* Symbols are output; the first of a frame have the tag of its work.      *)
LEMMA SfoCompensationInv ==
  ASSUME Inv, SfoCompensation
  PROVE  Inv'
<1> USE Constants DEF Inv, SfoCompensation, inputVars, detectVars, tagVars, outputVars
<1>a. /\ windows = 0 /\ m_state = "SFO_COMPENSATION" /\ pos \in Nat /\ written \in Nat
      /\ written - pos >= m_n_up /\ m_synchro_read_offset \in Nat
  BY DEF TypeOK, CalledFor, Called
<1>b. PICK room \in 1..MaxOutput :
        LET n == IF room < written - pos THEN room ELSE written - pos IN
          /\ output' =
               IF m_is_first_sample
               THEN Append(output, [work |-> m_frame_tag, symbols |-> SymbolsRead(n)])
               ELSE [output EXCEPT ![Len(output)].symbols = @ \o SymbolsRead(n)]
          /\ pos' = pos + n
  OBVIOUS
<1> DEFINE n == IF room < written - pos THEN room ELSE written - pos
<1>c. n \in Nat
  BY <1>a
<1>d. SymbolsRead(n) \in Seq(Int)
  <2> HIDE DEF n
  <2>1. SymbolsRead(n) \in [1..n -> Int]
    BY SMTT(30), <1>a, <1>c DEF SymbolsRead
  <2> QED BY <1>c, <2>1, FunctionIsSeq
<1>e. output' \in Seq(Frames)
  <2> HIDE DEF n
  <2>1. output \in Seq(Frames)
    BY DEF TypeOK
  <2>2. CASE m_is_first_sample
    <3>1. [work |-> m_frame_tag, symbols |-> SymbolsRead(n)] \in Frames
      BY SMTT(30), <1>d DEF TypeOK, Frames
    <3>2. output' = Append(output, [work |-> m_frame_tag, symbols |-> SymbolsRead(n)])
      BY <1>b, <2>2 DEF n
    <3> QED BY <2>1, <3>1, <3>2, AppendProperties
  <2>3. CASE ~m_is_first_sample
    <3>1. output' = [output EXCEPT ![Len(output)].symbols = @ \o SymbolsRead(n)]
      BY <1>b, <2>3 DEF n
    <3> QED BY <1>d, <2>1, <3>1, LastFrameGrows
  <2> QED BY <2>2, <2>3
<1>f. pos' \in Nat
  BY SMTT(30), <1>a, <1>b, <1>c
<1>1. TypeOK'
  BY <1>a, <1>e, <1>f DEF TypeOK
<1>2. RepetitionsCounted'
  BY DEF TypeOK, RepetitionsCounted
<1>3. ReadsInMargin'
  BY <1>a DEF ReadsInMargin
<1>4. HeaderHasTag'
  BY DEF HeaderHasTag
<1>5. LoopInInput'
  BY <1>a DEF LoopInInput
<1>6. TagsOrdered'
  BY DEF TagsOrdered
<1>7. NothingBeforeTag'
  BY <1>a DEF NothingBeforeTag
<1> QED BY <1>1, <1>2, <1>3, <1>4, <1>5, <1>6, <1>7

-----------------------------------------------------------------------------
(* Every step keeps the invariant.                                         *)
LEMMA NextInv == Inv /\ [Next]_vars => Inv'
<1> SUFFICES ASSUME Inv, [Next]_vars PROVE Inv'
  OBVIOUS
<1>1. CASE NewWork
  BY <1>1, NewWorkInv
<1>2. CASE MoreSamples
  BY <1>2, MoreSamplesInv
<1>3. CASE general_work
  <2>1. CASE FlushToTag
    BY <2>1, FlushToTagInv
  <2>2. CASE \E w \in DOMAIN tags : StartFrame(w)
    BY <2>2, StartFrameInv
  <2>3. CASE Detect
    BY <2>3, DetectInv
  <2>4. CASE Repeated
    BY <2>4, RepeatedInv
  <2>5. CASE NotRepeated
    BY <2>5, NotRepeatedInv
  <2>6. CASE RepetitionsEnd
    BY <2>6, RepetitionsEndInv
  <2>7. CASE SyncRejected
    BY <2>7, SyncRejectedInv
  <2>8. CASE Synchronized
    BY <2>8, SynchronizedInv
  <2>9. CASE SfoCompensation
    BY <2>9, SfoCompensationInv
  <2> QED BY <1>3, <2>1, <2>2, <2>3, <2>4, <2>5, <2>6, <2>7, <2>8, <2>9 DEF general_work
<1>4. CASE UNCHANGED vars
  BY <1>4 DEF vars, inputVars, detectVars, tagVars, outputVars, Inv, TypeOK, RepetitionsCounted,
              ReadsInMargin, CandidateStart, HeaderHasTag, LoopInInput, TagsOrdered, NothingBeforeTag
<1> QED BY <1>1, <1>2, <1>3, <1>4 DEF Next

(* Every variable of the synchronizer keeps its type; in particular the    *)
(* position stays a position, whatever is consumed or not consumed.        *)
THEOREM SyncTypeCorrect == Spec => []TypeOK
<1>1. Inv => TypeOK
  BY DEF Inv
<1> QED BY <1>1, InitInv, NextInv, PTL DEF Spec

(* The counters of repetitions fit together through every sequence of      *)
(* tags, rejections and calls.                                             *)
THEOREM RepetitionsStayCounted == Spec => []RepetitionsCounted
<1>1. Inv => RepetitionsCounted
  BY DEF Inv
<1> QED BY <1>1, InitInv, NextInv, PTL DEF Spec

(* The margin of the input is large enough for what is read in it, for any *)
(* number of repetitions asked for and accepted.                           *)
THEOREM ReadsStayInMargin == Spec => []ReadsInMargin
<1>1. Inv => ReadsInMargin
  BY DEF Inv
<1> QED BY <1>1, InitInv, NextInv, PTL DEF Spec

(* A preamble is synchronized with only while the tag of its work is held. *)
THEOREM HeadersHaveTags == Spec => []HeaderHasTag
<1>1. Inv => HeaderHasTag
  BY DEF Inv
<1> QED BY <1>1, InitInv, NextInv, PTL DEF Spec

-----------------------------------------------------------------------------
(* The strongest repetition is a candidate                                  *)

(* q is d symbols behind p, or of a later work.                            *)
Follows(p, q, d) == p < q /\ (WorkAt(p) = WorkAt(q) => q = p + d)

(* The windows repetitions were found in, and the one that is next.        *)
Windows == 2 .. Len(m_preamb_up_vals)

WindowsFollow ==
  /\ \A i, j \in Windows : i < j => Follows(m_preamb_up_vals[i], m_preamb_up_vals[j], j - i)
  /\ \A i \in Windows :
       /\ m_preamb_up_vals[i] < written /\ m_preamb_up_vals[i] < pos
       /\ m_state = "DETECT" => Follows(m_preamb_up_vals[i], pos, Len(m_preamb_up_vals) + 1 - i)

(* The strongest is one of them, and a candidate if all are of one work.   *)
StrongestPlaced ==
  m_state = "SYNC" /\ max_idx > 0 =>
    /\ max_idx + 1 \in Windows
    /\ (\A i \in Windows : WorkAt(m_preamb_up_vals[i]) = WorkAt(pos)) =>
         \E c \in Candidates : m_preamb_up_vals[max_idx + 1] = CandidateStart(c)

WindowInv == Inv /\ WindowsFollow /\ StrongestPlaced

-----------------------------------------------------------------------------
(* The works of positions.                                                 *)

(* A tag between two positions, or none, and their works.                  *)
LEMMA WorksInOrder ==
  ASSUME TypeOK, NEW p \in Int, NEW q \in Int, p <= q
  PROVE  /\ WorkAt(p) \in Nat /\ WorkAt(q) \in Nat /\ WorkAt(p) <= WorkAt(q)
         /\ \A w \in DOMAIN tags : p < tags[w] /\ tags[w] <= q => WorkAt(p) < WorkAt(q)
<1> DEFINE P == {w \in DOMAIN tags : tags[w] <= p}
           Q == {w \in DOMAIN tags : tags[w] <= q}
           D == DOMAIN tags
<1>1. /\ D = 1 .. Len(tags) /\ Len(tags) \in Nat
      /\ \A w \in D : tags[w] \in Nat
  BY DEF TypeOK
<1>2. IsFiniteSet(D)
  BY <1>1, FS_Interval
<1>3. P \subseteq D /\ Q \subseteq D /\ P \subseteq Q
  BY <1>1
<1>4. WorkAt(p) = Cardinality(P) /\ WorkAt(q) = Cardinality(Q)
  BY DEF WorkAt
<1>5. \A w \in DOMAIN tags : p < tags[w] /\ tags[w] <= q => w \in Q /\ w \notin P
  BY <1>1
<1> HIDE DEF P, Q, D
<1>6. IsFiniteSet(Q) /\ IsFiniteSet(P)
  BY <1>2, <1>3, FS_Subset
<1>7. /\ Cardinality(P) \in Nat /\ Cardinality(Q) \in Nat /\ Cardinality(P) <= Cardinality(Q)
  BY <1>3, <1>6, FS_Subset, FS_CardinalityType
<1>8. ASSUME NEW w, w \in Q, w \notin P PROVE Cardinality(P) < Cardinality(Q)
  <2>1. Cardinality(P) = Cardinality(Q) => P = Q
    BY <1>3, <1>6, FS_Subset
  <2>2. P # Q
    BY <1>8
  <2> QED  BY <1>7, <2>1, <2>2
<1> QED  BY <1>4, <1>5, <1>7, <1>8

(* A tag at the end of the input is behind every position that was read.   *)
LEMMA WorksKept ==
  ASSUME TypeOK, NewWork, NEW p \in Int
  PROVE  /\ p < written => WorkAt(p)' = WorkAt(p)
         /\ WorkAt(p) <= WorkAt(p)'
<1> DEFINE P == {w \in DOMAIN tags : tags[w] <= p}
           Q == {w \in DOMAIN tags' : tags'[w] <= p}
           D == DOMAIN tags'
<1>1. tags \in Seq(Nat) /\ written \in Nat
  BY DEF TypeOK
<1>2. /\ D = 1 .. (Len(tags) + 1) /\ Len(tags) \in Nat
      /\ \A w \in DOMAIN tags : w \in D /\ tags'[w] = tags[w]
      /\ tags'[Len(tags) + 1] = written
      /\ \A w \in D : w \in DOMAIN tags \/ w = Len(tags) + 1
  BY <1>1 DEF NewWork
<1>3. IsFiniteSet(D)
  BY <1>2, FS_Interval
<1>4. P \subseteq Q /\ Q \subseteq D
  BY <1>2
<1>5. ASSUME p < written PROVE P = Q
  BY <1>1, <1>2, <1>5
<1>6. WorkAt(p) = Cardinality(P) /\ WorkAt(p)' = Cardinality(Q)
  BY DEF WorkAt
<1> HIDE DEF P, Q, D
<1>7. IsFiniteSet(Q)
  BY <1>3, <1>4, FS_Subset
<1>8. Cardinality(P) <= Cardinality(Q)
  BY <1>4, <1>7, FS_Subset
<1> QED  BY <1>5, <1>6, <1>8

(* What follows a position that was read still does when a work begins.    *)
LEMMA FollowsKept ==
  ASSUME TypeOK, NewWork, NEW p \in Int, NEW q \in Int, p < written, NEW d
  PROVE  /\ Follows(p, q, d) => Follows(p, q, d)'
         /\ p < q /\ WorkAt(p)' = WorkAt(q)' => WorkAt(p) = WorkAt(q)
<1>1. /\ WorkAt(p)' = WorkAt(p) /\ WorkAt(q) <= WorkAt(q)'
  BY WorksKept
<1>2. p < q => WorkAt(p) \in Nat /\ WorkAt(q) \in Nat /\ WorkAt(p) <= WorkAt(q)
  BY WorksInOrder
<1>3. ASSUME p < q, WorkAt(p)' = WorkAt(q)' PROVE WorkAt(p) = WorkAt(q)
  BY <1>1, <1>2, <1>3
<1> QED  BY <1>3 DEF Follows
(* In a window that starts with a tag another work begins.                 *)
LEMMA FollowsToTag ==
  ASSUME TypeOK, NEW w \in DOMAIN tags, NEW p \in Int, p < tags[w], NEW d
  PROVE  Follows(p, tags[w], d)
<1>1. tags[w] \in Int
  BY DEF TypeOK
<1>2. WorkAt(p) < WorkAt(tags[w]) /\ WorkAt(p) \in Nat /\ WorkAt(tags[w]) \in Nat
  BY <1>1, WorksInOrder
<1> QED  BY <1>2 DEF Follows

(* The next window is one symbol further.                                  *)
LEMMA FollowsOn ==
  ASSUME TypeOK, NEW p \in Int, NEW q \in Int, NEW d \in Int, Follows(p, q, d)
  PROVE  Follows(p, q + 1, d + 1)
<1>1. p < q /\ q <= q + 1 /\ p <= q /\ q + 1 \in Int
  BY DEF Follows
<1>2. /\ WorkAt(p) \in Nat /\ WorkAt(q) \in Nat /\ WorkAt(q + 1) \in Nat
      /\ WorkAt(p) <= WorkAt(q) /\ WorkAt(q) <= WorkAt(q + 1)
  BY <1>1, WorksInOrder
<1>3. WorkAt(p) = WorkAt(q + 1) => WorkAt(p) = WorkAt(q)
  BY <1>2
<1> QED  BY <1>1, <1>3 DEF Follows

-----------------------------------------------------------------------------
(* Steps.                                                                  *)

(* Nothing of what was found is left.                                      *)
LEMMA NoWindows ==
  ASSUME m_preamb_up_vals' = <<>>, m_state' # "SYNC"
  PROVE  WindowsFollow' /\ StrongestPlaced'
<1>1. Windows' = {}
  BY DEF Windows
<1> QED  BY <1>1 DEF WindowsFollow, StrongestPlaced

(* What was found stays, and the position moves behind it.                 *)
LEMMA WindowsStay ==
  ASSUME Inv, WindowsFollow, UNCHANGED <<tags, m_preamb_up_vals>>,
         written' \in Int, pos' \in Int, written <= written', pos <= pos',
         m_state' = "DETECT" =>
           \A i \in Windows : Follows(m_preamb_up_vals[i], pos', Len(m_preamb_up_vals) + 1 - i)
  PROVE  WindowsFollow'
<1>1. Windows' = Windows
  BY DEF Windows
<1>2. \A p, q, d : Follows(p, q, d)' <=> Follows(p, q, d)
  BY DEF Follows, WorkAt
<1>3. ASSUME NEW i \in Windows
      PROVE  /\ m_preamb_up_vals[i] \in Int
             /\ m_preamb_up_vals[i] < written' /\ m_preamb_up_vals[i] < pos'
  <2>1. m_preamb_up_vals[i] < written /\ m_preamb_up_vals[i] < pos
    BY <1>3 DEF WindowsFollow
  <2>2. m_preamb_up_vals[i] \in Int /\ written \in Int /\ pos \in Int
    BY <1>3 DEF Inv, TypeOK, Windows
  <2> QED  BY <2>1, <2>2
<1>4. m_state' = "DETECT" =>
        \A i \in Windows : Follows(m_preamb_up_vals[i], pos, Len(m_preamb_up_vals) + 1 - i)'
  BY <1>2
<1>5. \A i, j \in Windows : i < j => Follows(m_preamb_up_vals[i], m_preamb_up_vals[j], j - i)'
  BY <1>2 DEF WindowsFollow
<1> QED  BY <1>1, <1>3, <1>4, <1>5 DEF WindowsFollow

LEMMA NewWorkWindows ==
  ASSUME Inv, WindowsFollow, StrongestPlaced, NewWork
  PROVE  WindowsFollow' /\ StrongestPlaced'
<1> DEFINE vals == m_preamb_up_vals
<1>1. UNCHANGED <<written, pos, m_state, m_preamb_up_vals, max_idx, m_n_repetitions>>
  BY DEF NewWork, detectVars
<1>2. Windows' = Windows
  BY <1>1 DEF Windows
<1>3. \A i \in Windows : vals[i] \in Int /\ vals[i] < written /\ vals[i] < pos
  BY DEF WindowsFollow, Windows, Inv, TypeOK
<1>4. TypeOK /\ pos \in Int
  BY DEF Inv, TypeOK
<1>5. \A i, j \in Windows : i < j => Follows(vals[i], vals[j], j - i)'
  <2> SUFFICES ASSUME NEW i \in Windows, NEW j \in Windows, i < j
               PROVE  Follows(vals[i], vals[j], j - i)'
    OBVIOUS
  <2>1. Follows(vals[i], vals[j], j - i)
    BY DEF WindowsFollow
  <2> QED  BY <1>1, <1>3, <1>4, <2>1, FollowsKept
<1>6. ASSUME NEW i \in Windows, m_state' = "DETECT" PROVE Follows(vals[i], pos, Len(vals) + 1 - i)'
  <2>1. Follows(vals[i], pos, Len(vals) + 1 - i)
    BY <1>1, <1>6 DEF WindowsFollow
  <2> QED  BY <1>1, <1>3, <1>4, <2>1, FollowsKept
<1>7. WindowsFollow'
  BY <1>1, <1>2, <1>3, <1>5, <1>6 DEF WindowsFollow
<1>8. StrongestPlaced'
  <2> SUFFICES ASSUME m_state = "SYNC", max_idx > 0, max_idx + 1 \in Windows,
                      \A i \in Windows : WorkAt(vals[i])' = WorkAt(pos)'
               PROVE  \E c \in Candidates : vals[max_idx + 1] = CandidateStart(c)
    BY <1>1, <1>2 DEF StrongestPlaced, CandidateStart
  <2>1. \A i \in Windows : WorkAt(vals[i]) = WorkAt(pos)
    BY <1>1, <1>3, <1>4, FollowsKept
  <2> QED  BY <2>1 DEF StrongestPlaced
<1> QED  BY <1>7, <1>8

(* DETECT and the calls that only begin or move on leave them as they are. *)
LEMMA BeginWindows ==
  ASSUME Inv, WindowsFollow, StrongestPlaced,
         MoreSamples \/ FlushToTag \/ Detect \/ \E w \in DOMAIN tags : StartFrame(w)
  PROVE  WindowsFollow' /\ StrongestPlaced'
<1>1. UNCHANGED <<tags, m_preamb_up_vals, m_n_repetitions, max_idx>>
  BY DEF MoreSamples, FlushToTag, Detect, StartFrame, inputVars, detectVars
<1>2. /\ written \in Nat /\ pos \in Nat /\ tags \in Seq(Nat) /\ TypeOK
      /\ \A i \in Windows : m_preamb_up_vals[i] \in Int /\ m_preamb_up_vals[i] < pos
  BY DEF Inv, TypeOK, Windows, WindowsFollow
<1>3. \A p : WorkAt(p)' = WorkAt(p)
  BY <1>1 DEF WorkAt
<1>4. CASE MoreSamples \/ Detect
  <2>1. UNCHANGED <<pos, m_state>> /\ written' \in Int /\ written <= written'
    BY <1>2, <1>4 DEF MoreSamples, Detect, inputVars
  <2>2. WindowsFollow'
    BY <1>1, <1>2, <2>1, WindowsStay DEF WindowsFollow
  <2>3. StrongestPlaced'
    BY <1>1, <1>3, <2>1 DEF StrongestPlaced, Windows, CandidateStart
  <2> QED  BY <2>2, <2>3
<1>5. CASE FlushToTag
  <2>1. PICK w \in DOMAIN tags : tags[w] > pos /\ pos' = tags[w]
    BY <1>5 DEF FlushToTag, TagsInWindow
  <2>2. pos' \in Int /\ pos <= pos' /\ written' = written /\ m_state' = m_state
    BY <1>2, <1>5, <2>1 DEF FlushToTag, inputVars
  <2>3. \A i \in Windows : m_preamb_up_vals[i] < tags[w]
    BY <1>2, <2>1
  <2>4. \A i \in Windows : \A d : Follows(m_preamb_up_vals[i], tags[w], d)
    BY <1>2, <2>3, FollowsToTag
  <2>5. WindowsFollow'
    <3>1. \A i \in Windows : Follows(m_preamb_up_vals[i], pos', Len(m_preamb_up_vals) + 1 - i)
      BY <2>1, <2>4
    <3>2. written' \in Int /\ written <= written'
      BY <1>2, <2>2
    <3> QED  BY <1>1, <2>2, <3>1, <3>2, WindowsStay
  <2>6. \A i \in Windows : WorkAt(m_preamb_up_vals[i]) # WorkAt(tags[w])
    <3> SUFFICES ASSUME NEW i \in Windows
                 PROVE  WorkAt(m_preamb_up_vals[i]) # WorkAt(tags[w])
      OBVIOUS
    <3> DEFINE v == m_preamb_up_vals[i]
               t == tags[w]
    <3>1. v \in Int /\ t \in Int /\ v < t /\ v <= t /\ t <= t /\ tags[w] = t
      BY <1>2, <2>3
    <3> HIDE DEF v, t
    <3>2. /\ WorkAt(v) \in Nat /\ WorkAt(t) \in Nat /\ WorkAt(v) < WorkAt(t)
      BY <1>2, <3>1, WorksInOrder
    <3> QED  BY <3>2 DEF v, t
  <2>7. StrongestPlaced'
    <3>1. m_state' = "SYNC" /\ max_idx' > 0 => max_idx + 1 \in Windows
      BY <1>1, <2>2 DEF StrongestPlaced
    <3>2. \A i \in Windows : WorkAt(m_preamb_up_vals[i])' # WorkAt(pos)'
      BY <1>1, <1>3, <2>1, <2>6
    <3> QED  BY <1>1, <3>1, <3>2 DEF StrongestPlaced, Windows
  <2> QED  BY <2>5, <2>7
<1>6. ASSUME NEW w \in DOMAIN tags, StartFrame(w) PROVE WindowsFollow' /\ StrongestPlaced'
  <2>1. tags[w] = pos /\ pos' = pos /\ written' = written /\ m_state' # "SYNC"
    BY <1>6 DEF StartFrame, inputVars
  <2>2. \A i \in Windows : \A d : Follows(m_preamb_up_vals[i], tags[w], d)
    BY <1>2, <2>1, FollowsToTag
  <2>3. WindowsFollow'
    BY <1>1, <1>2, <2>1, <2>2, WindowsStay
  <2> QED  BY <2>1, <2>3 DEF StrongestPlaced
<1> QED  BY <1>4, <1>5, <1>6

(* A repetition: the window joins those that were found.                   *)
LEMMA RepeatedWindows ==
  ASSUME Inv, WindowsFollow, Repeated
  PROVE  WindowsFollow' /\ StrongestPlaced'
<1> DEFINE n == Len(m_preamb_up_vals')
<1>1. /\ UNCHANGED <<written, tags>> /\ pos' = pos + 1 /\ m_state' = "DETECT"
      /\ m_state = "DETECT" /\ pos \in Nat /\ written \in Nat /\ pos < written
  <2>1. windows \in Nat /\ windows > 0 /\ m_n_up \in Nat \ {0}
    BY Constants DEF Repeated, Inv, TypeOK
  <2>2. pos \in Nat /\ written \in Nat /\ m_state = "DETECT" /\ pos + windows + m_n_up - 1 <= written
    BY <2>1 DEF Inv, TypeOK, LoopInInput
  <2> QED  BY <2>1, <2>2 DEF Repeated, NextWindow, inputVars
<1>2. /\ n \in Nat /\ n >= 2 /\ m_preamb_up_vals' \in Seq(Int) /\ m_preamb_up_vals'[n] = pos
      /\ \A i \in 2 .. (n - 1) : i \in Windows /\ m_preamb_up_vals'[i] = m_preamb_up_vals[i]
      /\ n > 2 => Len(m_preamb_up_vals) + 1 = n
  <2>1. m_preamb_up_vals \in Seq(Int) /\ m_prev_bin_idx \in Int /\ m_n_repetitions \in Nat /\ m_n_repetitions > 0
    BY DEF Inv, TypeOK
  <2>2. CASE m_n_repetitions = 1
    <3>1. m_preamb_up_vals = <<>>
      BY <2>1, <2>2, EmptySeq DEF Inv, RepetitionsCounted
    <3>2. m_preamb_up_vals' = Append(<<>>, m_prev_bin_idx) \o <<pos>>
      BY <2>2, <3>1 DEF Repeated
    <3> QED  BY <1>1, <2>1, <3>2
  <2>3. CASE m_n_repetitions # 1
    <3>1. Len(m_preamb_up_vals) = m_n_repetitions
      BY <2>3 DEF Inv, RepetitionsCounted
    <3>2. m_preamb_up_vals' = m_preamb_up_vals \o <<pos>>
      BY <2>3 DEF Repeated
    <3> QED  BY <1>1, <2>1, <2>3, <3>1, <3>2 DEF Windows
  <2> QED  BY <2>2, <2>3
<1>3. Windows' = 2 .. n
  BY DEF Windows
<1> HIDE DEF n
<1>4. \A p, q, d : Follows(p, q, d)' <=> Follows(p, q, d)
  BY <1>1 DEF Follows, WorkAt
<1>5. ASSUME NEW i \in Windows
      PROVE  /\ Follows(m_preamb_up_vals[i], pos, Len(m_preamb_up_vals) + 1 - i)
             /\ m_preamb_up_vals[i] \in Int /\ m_preamb_up_vals[i] < written /\ m_preamb_up_vals[i] < pos
             /\ Len(m_preamb_up_vals) + 1 - i \in Int
  BY <1>1 DEF WindowsFollow, Windows, Inv, TypeOK
<1>6. Follows(pos, pos + 1, 1)
  BY <1>1 DEF Follows
<1>7. TypeOK
  BY DEF Inv
<1>8. ASSUME NEW i \in 2 .. (n - 1)
      PROVE  /\ Follows(m_preamb_up_vals'[i], pos, n - i)
             /\ Follows(m_preamb_up_vals'[i], pos + 1, n + 1 - i)
             /\ m_preamb_up_vals'[i] < written /\ m_preamb_up_vals'[i] < pos + 1
  <2> DEFINE v == m_preamb_up_vals[i]
             d == Len(m_preamb_up_vals) + 1 - i
  <2>1. n > 2 /\ i \in Int
    BY <1>2
  <2>a. i \in Windows /\ m_preamb_up_vals'[i] = v
    BY <1>2
  <2>2. d = n - i /\ d + 1 = n + 1 - i
    BY <1>2, <2>1
  <2>3. Follows(v, pos, d) /\ v \in Int /\ v < written /\ v < pos /\ d \in Int
    BY <1>5, <2>a
  <2> HIDE DEF v, d
  <2>4. Follows(v, pos + 1, d + 1) /\ v < pos + 1
    BY <1>1, <1>7, <2>3, FollowsOn
  <2> QED  BY <2>a, <2>2, <2>3, <2>4
<1>9. \A i, j \in 2 .. n : i < j => Follows(m_preamb_up_vals'[i], m_preamb_up_vals'[j], j - i)
  <2> SUFFICES ASSUME NEW i \in 2 .. n, NEW j \in 2 .. n, i < j
               PROVE  Follows(m_preamb_up_vals'[i], m_preamb_up_vals'[j], j - i)
    OBVIOUS
  <2>1. CASE j = n
    BY <1>2, <1>8, <2>1
  <2>2. CASE j # n
    <3>1. i \in Windows /\ j \in Windows /\ m_preamb_up_vals'[i] = m_preamb_up_vals[i]
          /\ m_preamb_up_vals'[j] = m_preamb_up_vals[j]
      BY <1>2, <2>2
    <3> QED  BY <3>1 DEF WindowsFollow
  <2> QED  BY <2>1, <2>2
<1>10. \A i \in 2 .. n : /\ Follows(m_preamb_up_vals'[i], pos + 1, n + 1 - i)
                         /\ m_preamb_up_vals'[i] < written /\ m_preamb_up_vals'[i] < pos + 1
  <2> SUFFICES ASSUME NEW i \in 2 .. n
               PROVE  /\ Follows(m_preamb_up_vals'[i], pos + 1, n + 1 - i)
                      /\ m_preamb_up_vals'[i] < written /\ m_preamb_up_vals'[i] < pos + 1
    OBVIOUS
  <2>1. CASE i = n
    <3>1. n + 1 - i = 1 /\ m_preamb_up_vals'[i] = pos /\ pos < pos + 1
      BY <1>1, <1>2, <2>1
    <3> QED  BY <1>1, <1>6, <3>1
  <2>2. CASE i # n
    <3>1. i \in 2 .. (n - 1)
      BY <1>2, <2>2
    <3> QED  BY <1>8, <3>1
  <2> QED  BY <2>1, <2>2
<1>11. WindowsFollow'
  BY <1>1, <1>3, <1>4, <1>9, <1>10 DEF WindowsFollow, n
<1> QED  BY <1>1, <1>11 DEF StrongestPlaced

(* The repetitions end: the position moves from the window behind the last *)
(* of them to the first candidate.                                         *)
LEMMA EndWindows ==
  ASSUME Inv, WindowsFollow, RepetitionsEnd
  PROVE  WindowsFollow' /\ StrongestPlaced'
<1> DEFINE n    == Len(m_preamb_up_vals)
           half == (m_n_sync_candidates - 1) \div 2
<1>1. /\ UNCHANGED <<written, tags, m_preamb_up_vals, m_n_repetitions>>
      /\ m_state' = "SYNC" /\ m_state = "DETECT"
  BY DEF RepetitionsEnd, inputVars, detectVars, Inv, TypeOK, LoopInInput
<1>2. PICK i \in DOMAIN m_preamb_up_vals : max_idx' = i - 1 /\ pos' = pos + ToFirstCandidate(i - 1)
  BY DEF RepetitionsEnd
<1>3. /\ pos \in Nat /\ written \in Nat /\ m_preamb_up_vals \in Seq(Int) /\ TypeOK
      /\ n \in Nat /\ i \in 1 .. n
  BY <1>2 DEF Inv, TypeOK
<1>4. half \in Nat /\ half <= m_n_sync_candidates - 1 /\ m_n_sync_candidates \in Nat \ {0}
  BY FrameSyncAssumption
<1>5. /\ ToFirstCandidate(i - 1) = IF i - 1 > half THEN i - 1 - half ELSE 0
      /\ ToFirstCandidate(i - 1) \in Nat
  <2>1. ToFirstCandidate(i - 1) = IF i - 1 > half THEN i - 1 - half ELSE 0
    BY DEF ToFirstCandidate
  <2> HIDE DEF half
  <2> QED  BY <1>3, <1>4, <2>1
<1>6. m_n_repetitions = n
  BY <1>2, <1>3 DEF Inv, RepetitionsCounted, RepetitionsEnd, TypeOK
<1> HIDE DEF half
<1>7. pos' \in Int /\ pos <= pos'
  BY <1>2, <1>3, <1>5
<1>8. WindowsFollow'
  BY <1>1, <1>3, <1>7, WindowsStay
<1>9. StrongestPlaced'
  <2> SUFFICES ASSUME max_idx' > 0,
                      \A j \in Windows : WorkAt(m_preamb_up_vals[j]) = WorkAt(pos')
               PROVE  /\ i \in Windows
                      /\ \E c \in Candidates : m_preamb_up_vals[i] = pos' - n + c
    BY SMTT(30), <1>1, <1>2, <1>3, <1>6 DEF StrongestPlaced, Windows, WorkAt, CandidateStart
  <2>1. i > 1
    BY <1>2, <1>3
  <2>2. i \in Windows
    BY <1>3, <2>1 DEF Windows
  <2> DEFINE v == m_preamb_up_vals[i]
  <2>3. v \in Int /\ v < pos /\ Follows(v, pos, n + 1 - i)
    BY <1>1, <1>3, <2>2 DEF WindowsFollow
  <2>4. WorkAt(v) = WorkAt(pos')
    BY <2>2
  <2> HIDE DEF v, n
  <2>5. WorkAt(v) = WorkAt(pos)
    <3> DEFINE q == pos'
    <3>1. q \in Int /\ pos <= q /\ v <= pos /\ pos \in Int /\ WorkAt(v) = WorkAt(q)
      BY <1>3, <1>7, <2>3, <2>4
    <3> HIDE DEF q
    <3>2. /\ WorkAt(v) \in Nat /\ WorkAt(pos) \in Nat /\ WorkAt(q) \in Nat
          /\ WorkAt(v) <= WorkAt(pos) /\ WorkAt(pos) <= WorkAt(q)
      BY <1>3, <2>3, <3>1, WorksInOrder
    <3> QED  BY <3>1, <3>2
  <2>6. pos = v + (n + 1 - i)
    BY <2>3, <2>5 DEF Follows
  <2> DEFINE c == IF i - 1 > half THEN half ELSE i - 1
  <2>7. c \in Candidates
    BY <1>3, <1>4, <2>1 DEF Candidates
  <2>8. pos' = pos + (i - 1) - c
    BY <1>2, <1>3, <1>4, <1>5
  <2>9. v = pos' - n + c
    <3>1. n \in Int /\ c \in Int /\ i \in Int
      BY <1>3, <1>4
    <3> HIDE DEF c
    <3>2. pos' = (v + (n + 1 - i)) + (i - 1) - c
      BY <2>6, <2>8
    <3> QED  BY <2>3, <3>1, <3>2
  <2> QED  BY <2>2, <2>7, <2>9 DEF v
<1> QED  BY <1>8, <1>9

(* The strongest repetition is found again among the candidates, in every  *)
(* step.                                                                   *)
LEMMA NextWindows == Inv /\ WindowsFollow /\ StrongestPlaced /\ [Next]_vars
                       => WindowsFollow' /\ StrongestPlaced'
<1> SUFFICES ASSUME Inv, WindowsFollow, StrongestPlaced, [Next]_vars
             PROVE  WindowsFollow' /\ StrongestPlaced'
  OBVIOUS
<1>1. CASE NewWork \/ Repeated \/ RepetitionsEnd
  BY <1>1, NewWorkWindows, RepeatedWindows, EndWindows
<1>2. CASE MoreSamples \/ FlushToTag \/ Detect \/ \E w \in DOMAIN tags : StartFrame(w)
  BY <1>2, BeginWindows
<1>3. CASE NotRepeated
  <2>1. m_preamb_up_vals' = <<>> /\ m_state' # "SYNC"
    BY <1>3 DEF NotRepeated, NextWindow, Inv, LoopInInput, TypeOK
  <2> QED  BY <2>1, NoWindows
<1>4. CASE SyncRejected \/ Synchronized
  <2>1. m_preamb_up_vals' = <<>> /\ m_state' # "SYNC"
    BY <1>4 DEF SyncRejected, Synchronized, ForgetRepetitions
  <2> QED  BY <2>1, NoWindows
<1>5. CASE SfoCompensation
  <2>1. /\ UNCHANGED <<written, tags, m_preamb_up_vals, m_state>> /\ m_state = "SFO_COMPENSATION"
    BY <1>5 DEF SfoCompensation, CalledFor, inputVars, detectVars
  <2>2. pos' \in Int /\ pos <= pos' /\ written \in Int
    <3>1. pos \in Nat /\ written \in Nat /\ m_n_up \in Nat /\ written - pos >= m_n_up
      BY <1>5, Constants DEF SfoCompensation, CalledFor, Called, Inv, TypeOK
    <3>2. PICK room \in 1 .. MaxOutput :
            pos' = pos + (IF room < written - pos THEN room ELSE written - pos)
      BY <1>5 DEF SfoCompensation
    <3>3. room \in Nat
      BY FrameSyncAssumption
    <3> QED  BY <3>1, <3>2, <3>3
  <2>3. WindowsFollow'
    BY <2>1, <2>2, WindowsStay
  <2> QED  BY <2>1, <2>3 DEF StrongestPlaced
<1>6. CASE UNCHANGED vars
  <2>1. UNCHANGED <<written, tags, pos, m_preamb_up_vals, m_state, max_idx, m_n_repetitions>>
    BY <1>6 DEF vars, inputVars, detectVars
  <2>2. written' \in Int /\ pos' \in Int /\ written <= written' /\ pos <= pos'
    BY <2>1 DEF Inv, TypeOK
  <2>3. WindowsFollow'
    BY <2>1, <2>2, WindowsStay DEF WindowsFollow
  <2>4. StrongestPlaced'
    BY <2>1 DEF StrongestPlaced, Windows, WorkAt, CandidateStart
  <2> QED  BY <2>3, <2>4
<1> QED  BY <1>1, <1>2, <1>3, <1>4, <1>5, <1>6 DEF Next, general_work

(* lora_frame_sync_impl.cc 560-690: the strongest repetition is one of the *)
(* candidates that SYNC tries, however many calls the repetitions took and *)
(* whatever tags came between them.                                        *)
THEOREM StrongestStaysCandidate == Spec => []StrongestIsCandidate
<1>1. Init => WindowsFollow /\ StrongestPlaced
  <2> SUFFICES ASSUME Init PROVE WindowsFollow /\ StrongestPlaced
    OBVIOUS
  <2>1. Windows = {} /\ m_state # "SYNC"
    BY DEF Init, Windows
  <2> QED  BY <2>1 DEF WindowsFollow, StrongestPlaced
<1>2. StrongestPlaced => StrongestIsCandidate
  BY DEF StrongestPlaced, StrongestIsCandidate, OfOneWork, Windows
<1>3. Spec => []Inv
  BY InitInv, NextInv, PTL DEF Spec
<1> QED  BY <1>1, <1>2, <1>3, NextWindows, PTL DEF Spec

-----------------------------------------------------------------------------
(* lora_frame_sync implements SymbolStream: each step of it begins a       *)
(* frame, continues one or leaves its output alone.                        *)

(* The works of all frames so far are behind the position.                 *)
WorksBehind ==
  /\ LastFrame.work \in 0..Len(tags)
  /\ LastFrame.work > 0 => tags[LastFrame.work] < pos
  /\ m_frame_tag > 0 => tags[m_frame_tag] <= pos

(* The tag that is held is of a work that has had no frame.                *)
TagIsNew ==
  /\ m_received_frame_tag => m_frame_tag > LastFrame.work
  /\ m_state = "SFO_COMPENSATION" =>
       /\ ~m_received_frame_tag
       /\ m_is_first_sample =>
            m_frame_tag > LastFrame.work /\ tags[m_frame_tag] < pos

(* A frame goes on where it was left, unless a tag is there to end it.     *)
NoGap ==
  /\ output # <<>> => Stream!IsFrame(LastFrame)
  /\ m_state = "SFO_COMPENSATION" /\ ~m_is_first_sample /\ TagsInWindow = {} =>
       /\ output # <<>>
       /\ LastFrame.symbols[1] + Len(LastFrame.symbols) = pos - m_synchro_read_offset

StreamInv == Inv /\ WorksBehind /\ TagIsNew /\ NoGap

(* The last frame of the output is a frame, if there is one.               *)
LEMMA LastFrameType ==
  ASSUME TypeOK
  PROVE  /\ LastFrame.work \in Int /\ LastFrame.symbols \in Seq(Int)
         /\ output # <<>> => LastFrame \in Frames
<1>1. CASE output = <<>>
  BY <1>1 DEF LastFrame
<1>2. CASE output # <<>>
  <2>1. LastFrame \in Frames
    <3>1. output \in Seq(Frames) /\ Len(output) \in Nat \ {0}
      BY <1>2, EmptySeq DEF TypeOK
    <3> QED BY <1>2, <3>1 DEF LastFrame
  <2> QED BY <2>1, Constants DEF Frames
<1> QED BY <1>1, <1>2

(* Nothing has been output at first.                                       *)
LEMMA InitStream == Init => StreamInv /\ Stream!StreamInit
<1> SUFFICES ASSUME Init PROVE StreamInv /\ Stream!StreamInit
  OBVIOUS
<1>1. LastFrame = [work |-> 0, symbols |-> <<>>] /\ LastFrame.work = 0
  BY DEF Init, LastFrame
<1>2. Len(tags) = 0
  BY DEF Init
<1>3. WorksBehind
  BY <1>1, <1>2 DEF Init, WorksBehind, None
<1>4. TagIsNew /\ NoGap
  BY DEF Init, TagIsNew, NoGap
<1> QED BY <1>1, <1>3, <1>4, InitInv DEF StreamInv, Stream!StreamInit

-----------------------------------------------------------------------------
(* The steps that output nothing.                                          *)

(* New input adds tags and takes none away.                                *)
LEMMA InputStream ==
  ASSUME StreamInv, NewWork \/ MoreSamples
  PROVE  (WorksBehind /\ TagIsNew /\ NoGap)' /\ UNCHANGED LastFrame
<1> USE Constants DEF StreamInv
<1>1. /\ UNCHANGED <<pos, m_state, m_frame_tag, m_received_frame_tag>>
      /\ UNCHANGED <<m_is_first_sample, m_synchro_read_offset, output>>
  BY DEF NewWork, MoreSamples, tagVars, outputVars
<1>2. UNCHANGED LastFrame
  BY <1>1 DEF LastFrame
<1>3. /\ tags \in Seq(Nat) /\ Len(tags) \in Nat /\ Len(tags') \in Nat /\ Len(tags) <= Len(tags')
      /\ \A w \in 1..Len(tags) : tags'[w] = tags[w]
      /\ written \in Nat /\ written' \in Nat /\ written' >= written
      /\ DOMAIN tags = 1..Len(tags) /\ DOMAIN tags' = 1..Len(tags')
  <2>1. tags \in Seq(Nat) /\ written \in Nat
    BY DEF Inv, TypeOK
  <2>2. CASE NewWork
    BY <2>1, <2>2, AppendProperties, LenProperties DEF NewWork
  <2>3. CASE MoreSamples
    BY <2>1, <2>3, LenProperties DEF MoreSamples
  <2> QED BY <2>2, <2>3
<1>4. LastFrame.work \in 0..Len(tags) /\ m_frame_tag \in 0..Len(tags) /\ pos \in Nat
  BY DEF Inv, TypeOK, WorksBehind
<1>5. WorksBehind'
  BY <1>1, <1>2, <1>3, <1>4 DEF WorksBehind
<1>6. TagIsNew'
  BY <1>1, <1>2, <1>3, <1>4 DEF TagIsNew
<1>7. NoGap'
  <2>1. ASSUME NEW w \in TagsInWindow PROVE w \in TagsInWindow'
    <3>1. w \in 1..Len(tags) /\ tags[w] \in Nat /\ pos <= tags[w] /\ tags[w] < written
      BY <1>3 DEF TagsInWindow
    <3>2. w \in DOMAIN tags' /\ pos' <= tags'[w] /\ tags'[w] < written'
      BY <1>1, <1>3, <3>1
    <3> QED BY <3>2 DEF TagsInWindow
  <2>2. TagsInWindow' = {} => TagsInWindow = {}
    BY <2>1
  <2> QED BY <1>1, <1>2, <2>2 DEF NoGap, Stream!IsFrame, Stream!Consecutive
<1> QED BY <1>2, <1>5, <1>6, <1>7

(* The position only grows, and the tag that is taken is at the position.  *)
LEMMA SearchStream ==
  ASSUME StreamInv, FlushToTag \/ Detect \/ Repeated \/ NotRepeated \/ RepetitionsEnd
  PROVE  (WorksBehind /\ TagIsNew /\ NoGap)' /\ UNCHANGED LastFrame
<1> USE Constants DEF StreamInv
<1>1. /\ UNCHANGED <<tags, written, m_frame_tag, m_received_frame_tag>>
      /\ UNCHANGED <<m_is_first_sample, m_synchro_read_offset, output>>
  BY DEF FlushToTag, Detect, Repeated, NotRepeated, RepetitionsEnd, NextWindow,
         inputVars, tagVars, outputVars
<1>2. UNCHANGED LastFrame
  BY <1>1 DEF LastFrame
<1>3. pos \in Nat /\ tags \in Seq(Nat) /\ m_frame_tag \in 0..Len(tags)
  BY DEF Inv, TypeOK
<1>4. pos' \in Nat /\ pos' >= pos
  <2>1. CASE FlushToTag
    BY <1>3, <2>1 DEF FlushToTag, TagsInWindow
  <2>2. CASE Detect
    BY <1>3, <2>2 DEF Detect
  <2>3. CASE Repeated \/ NotRepeated
    BY <1>3, <2>3 DEF Repeated, NotRepeated, NextWindow
  <2>4. CASE RepetitionsEnd
    <3>1. PICK i \in DOMAIN m_preamb_up_vals : pos' = pos + ToFirstCandidate(i - 1)
      BY <2>4 DEF RepetitionsEnd
    <3>2. i - 1 \in Nat
      BY <3>1 DEF Inv, TypeOK
    <3>3. (m_n_sync_candidates - 1) \div 2 \in Int
      OBVIOUS
    <3>4. ToFirstCandidate(i - 1) \in Nat
      BY <3>2, <3>3 DEF ToFirstCandidate
    <3> QED BY <1>3, <3>1, <3>4
  <2> QED BY <2>1, <2>2, <2>3, <2>4
<1>5. m_state' = "SFO_COMPENSATION" => m_state = "SFO_COMPENSATION" /\ FlushToTag
  BY DEF FlushToTag, Detect, CalledFor, Repeated, NotRepeated, NextWindow, RepetitionsEnd,
         Inv, LoopInInput, TypeOK
<1>6. WorksBehind'
  BY <1>1, <1>2, <1>3, <1>4 DEF WorksBehind
<1>7. TagIsNew'
  <2>1. m_state = "SFO_COMPENSATION" /\ m_is_first_sample => m_frame_tag \in 1..Len(tags)
    BY <1>3 DEF TagIsNew, WorksBehind
  <2> QED BY <1>1, <1>2, <1>3, <1>4, <1>5, <2>1 DEF TagIsNew
<1>8. NoGap'
  <2>1. ASSUME FlushToTag PROVE TagsInWindow' # {}
    <3>1. PICK w \in TagsInWindow : tags[w] > pos /\ pos' = tags[w]
      BY <2>1 DEF FlushToTag
    <3> QED BY <1>1, <1>3, <3>1 DEF TagsInWindow
  <2> QED BY <1>1, <1>2, <1>5, <2>1 DEF NoGap, Stream!IsFrame, Stream!Consecutive
<1> QED BY <1>2, <1>6, <1>7, <1>8

(* To take a tag outputs nothing; the tag is of a later work.              *)
LEMMA StartStream ==
  ASSUME StreamInv, NEW w \in DOMAIN tags, StartFrame(w)
  PROVE  (WorksBehind /\ TagIsNew /\ NoGap)' /\ UNCHANGED LastFrame
<1> USE Constants DEF StreamInv
<1>1. /\ UNCHANGED <<tags, written, pos, m_is_first_sample, m_synchro_read_offset, output>>
      /\ m_frame_tag' = w /\ m_state' # "SFO_COMPENSATION" /\ tags[w] = pos
  BY DEF StartFrame, inputVars, outputVars
<1>2. UNCHANGED LastFrame
  BY <1>1 DEF LastFrame
<1>3. /\ pos \in Nat /\ tags \in Seq(Nat) /\ DOMAIN tags = 1..Len(tags)
      /\ LastFrame.work \in 0..Len(tags)
  BY LenProperties DEF Inv, TypeOK, WorksBehind
<1>4. w > LastFrame.work
  <2> SUFFICES ASSUME w <= LastFrame.work PROVE FALSE
    BY <1>3
  <2>1. LastFrame.work \in DOMAIN tags /\ LastFrame.work > 0
    BY <1>3
  <2>2. tags[w] <= tags[LastFrame.work]
    BY <2>1 DEF Inv, TagsOrdered
  <2>3. tags[LastFrame.work] < pos /\ tags[LastFrame.work] \in Nat
    BY <1>3, <2>1 DEF WorksBehind
  <2> QED BY <1>1, <1>3, <2>2, <2>3
<1>5. WorksBehind'
  BY <1>1, <1>2, <1>3 DEF WorksBehind
<1>6. TagIsNew' /\ NoGap'
  BY <1>1, <1>2, <1>4 DEF TagIsNew, NoGap, Stream!IsFrame, Stream!Consecutive
<1> QED BY <1>2, <1>5, <1>6

(* The search for a preamble outputs nothing.                              *)
LEMMA SyncStream ==
  ASSUME StreamInv, SyncRejected \/ Synchronized
  PROVE  (WorksBehind /\ TagIsNew /\ NoGap)' /\ UNCHANGED LastFrame
<1> USE Constants DEF StreamInv
<1>1. /\ UNCHANGED <<tags, written, output>>
      /\ m_state = "SYNC"
  BY DEF SyncRejected, Synchronized, ForgetRepetitions, CalledFor, inputVars
<1>2. UNCHANGED LastFrame
  BY <1>1 DEF LastFrame
<1>3. /\ pos \in Nat /\ tags \in Seq(Nat) /\ DOMAIN tags = 1..Len(tags)
      /\ LastFrame.work \in 0..Len(tags) /\ m_frame_tag \in 0..Len(tags)
  BY LenProperties DEF Inv, TypeOK, WorksBehind
<1>4. m_received_frame_tag /\ m_frame_tag > LastFrame.work /\ m_frame_tag \in DOMAIN tags
  BY <1>1, <1>3 DEF Inv, HeaderHasTag, TagIsNew
<1>5. tags[m_frame_tag] \in Nat /\ tags[m_frame_tag] <= pos
  BY <1>3, <1>4 DEF WorksBehind
<1>6. UNCHANGED m_frame_tag
  BY <1>4 DEF SyncRejected, Synchronized, tagVars
<1>7. pos' \in Nat /\ pos' >= pos
  BY <1>3 DEF SyncRejected, Synchronized, Candidates, SFD_SYMBOLS
<1>8. WorksBehind'
  BY <1>1, <1>2, <1>3, <1>6, <1>7 DEF WorksBehind
<1>9. CASE SyncRejected
  <2>1. m_state' # "SFO_COMPENSATION"
    BY <1>9 DEF SyncRejected
  <2> QED BY <1>1, <1>2, <1>4, <1>6, <1>8, <2>1 DEF TagIsNew, NoGap, Stream!IsFrame, Stream!Consecutive
<1>10. CASE Synchronized
  <2>1. pos' > pos /\ m_is_first_sample' /\ ~m_received_frame_tag'
    BY <1>3, <1>10 DEF Synchronized, Candidates, SFD_SYMBOLS
  <2>2. TagIsNew'
    BY <1>1, <1>2, <1>3, <1>4, <1>5, <1>6, <1>7, <2>1 DEF TagIsNew
  <2>3. NoGap'
    BY <1>1, <1>2, <2>1 DEF NoGap, Stream!IsFrame, Stream!Consecutive
  <2> QED BY <1>2, <1>8, <2>2, <2>3
<1> QED BY <1>9, <1>10

-----------------------------------------------------------------------------
(* The step that outputs symbols.                                          *)

(* The symbols that a call outputs are consecutive.                        *)
LEMMA SymbolsFollow ==
  ASSUME TypeOK, NEW n \in Nat \ {0}
  PROVE  /\ SymbolsRead(n) \in Seq(Int) /\ Len(SymbolsRead(n)) = n
         /\ \A i \in 1..n : SymbolsRead(n)[i] = pos - m_synchro_read_offset + i - 1
<1>1. pos - m_synchro_read_offset \in Int
  BY DEF TypeOK
<1>2. SymbolsRead(n) \in [1..n -> Int]
  BY <1>1 DEF SymbolsRead
<1>3. SymbolsRead(n) \in Seq(Int)
  BY <1>2, FunctionIsSeq
<1>4. Len(SymbolsRead(n)) = n
  BY <1>2, <1>3, LenProperties
<1> QED BY <1>3, <1>4 DEF SymbolsRead

(* A frame that goes on where it was left stays a frame.                   *)
LEMMA FrameContinues ==
  ASSUME TypeOK, NEW n \in Nat \ {0}, NEW s \in Seq(Int), s # <<>>, Stream!Consecutive(s),
         s[1] + Len(s) = pos - m_synchro_read_offset
  PROVE  LET t == s \o SymbolsRead(n) IN
         /\ t # <<>> /\ Stream!Consecutive(t) /\ t[1] = s[1]
         /\ Len(t) = Len(s) + n /\ t[1] + Len(t) = pos + n - m_synchro_read_offset
<1> DEFINE t == s \o SymbolsRead(n)
<1>1. pos \in Nat /\ m_synchro_read_offset \in Nat /\ Len(s) \in Nat \ {0} /\ s[1] \in Int
  BY EmptySeq DEF TypeOK
<1>2. /\ SymbolsRead(n) \in Seq(Int) /\ Len(SymbolsRead(n)) = n
      /\ \A i \in 1..n : SymbolsRead(n)[i] = pos - m_synchro_read_offset + i - 1
  BY SymbolsFollow
<1>3. /\ t \in Seq(Int) /\ Len(t) = Len(s) + n
      /\ \A i \in 1..Len(s) + n :
           t[i] = IF i <= Len(s) THEN s[i] ELSE SymbolsRead(n)[i - Len(s)]
  BY SMTT(30), <1>1, <1>2
<1> HIDE DEF t
<1>4. t[1] = s[1] /\ t # <<>>
  BY <1>1, <1>3
<1>5. ASSUME NEW i \in DOMAIN t PROVE t[i] = t[1] + i - 1
  <2>1. i \in 1..Len(s) + n
    BY <1>3, LenProperties
  <2>2. CASE i <= Len(s)
    <3>1. i \in DOMAIN s
      BY <1>1, <2>1, <2>2
    <3> QED BY <1>3, <1>4, <2>1, <2>2, <3>1 DEF Stream!Consecutive
  <2>3. CASE i > Len(s)
    <3>1. i - Len(s) \in 1..n
      BY <1>1, <2>1, <2>3
    <3>2. SymbolsRead(n)[i - Len(s)] = pos - m_synchro_read_offset + (i - Len(s)) - 1
      BY <1>2, <3>1
    <3>3. t[i] = SymbolsRead(n)[i - Len(s)]
      BY SMTT(30), <1>1, <1>3, <2>1, <2>3
    <3>4. pos - m_synchro_read_offset + (i - Len(s)) - 1 = s[1] + i - 1
      BY <1>1, <2>1
    <3> QED BY <1>4, <3>2, <3>3, <3>4
  <2> QED BY <1>1, <2>1, <2>2, <2>3
<1>6. Stream!Consecutive(t)
  BY <1>5 DEF Stream!Consecutive
<1>7. t[1] + Len(t) = pos + n - m_synchro_read_offset
  BY <1>1, <1>3, <1>4
<1> QED BY <1>3, <1>4, <1>6, <1>7 DEF t

(* An output begins a later frame or goes on with the last one.            *)
LEMMA OutputStream ==
  ASSUME StreamInv, SfoCompensation
  PROVE  (WorksBehind /\ TagIsNew /\ NoGap)' /\ (Stream!NextFrame \/ Stream!MoreSymbols)
<1> USE Constants DEF StreamInv
<1>1. /\ UNCHANGED <<tags, written, m_state, m_frame_tag, m_received_frame_tag, m_synchro_read_offset>>
      /\ m_state = "SFO_COMPENSATION" /\ TagsInWindow = {} /\ ~m_is_first_sample'
      /\ written - pos >= m_n_up
  BY DEF SfoCompensation, CalledFor, Called, inputVars, tagVars
<1>2. /\ pos \in Nat /\ written \in Nat /\ tags \in Seq(Nat) /\ DOMAIN tags = 1..Len(tags)
      /\ LastFrame.work \in 0..Len(tags) /\ m_frame_tag \in 0..Len(tags)
      /\ output \in Seq(Frames) /\ Len(output) \in Nat /\ m_synchro_read_offset \in Nat
  BY LenProperties DEF Inv, TypeOK, WorksBehind
<1>3. PICK n \in Nat \ {0} :
        /\ output' =
             IF m_is_first_sample
             THEN Append(output, [work |-> m_frame_tag, symbols |-> SymbolsRead(n)])
             ELSE [output EXCEPT ![Len(output)].symbols = @ \o SymbolsRead(n)]
        /\ pos' = pos + n
  <2>1. PICK room \in 1..MaxOutput :
          LET n == IF room < written - pos THEN room ELSE written - pos IN
            /\ output' =
                 IF m_is_first_sample
                 THEN Append(output, [work |-> m_frame_tag, symbols |-> SymbolsRead(n)])
                 ELSE [output EXCEPT ![Len(output)].symbols = @ \o SymbolsRead(n)]
            /\ pos' = pos + n
    BY DEF SfoCompensation
  <2>2. (IF room < written - pos THEN room ELSE written - pos) \in Nat \ {0}
    BY <1>1, <1>2
  <2> QED BY <2>1, <2>2
<1>4. /\ SymbolsRead(n) \in Seq(Int) /\ Len(SymbolsRead(n)) = n
      /\ \A i \in 1..n : SymbolsRead(n)[i] = pos - m_synchro_read_offset + i - 1
  BY SymbolsFollow DEF Inv
<1>5. CASE m_is_first_sample
  <2>1. m_frame_tag > LastFrame.work /\ tags[m_frame_tag] < pos
    BY <1>1, <1>5 DEF TagIsNew
  <2>2. LastFrame' = [work |-> m_frame_tag, symbols |-> SymbolsRead(n)]
    <3>1. [work |-> m_frame_tag, symbols |-> SymbolsRead(n)] \in Frames
      BY <1>2, <1>4 DEF Frames, Inv, TypeOK
    <3>2. output' = Append(output, [work |-> m_frame_tag, symbols |-> SymbolsRead(n)])
      BY <1>3, <1>5
    <3>3. /\ output' # <<>> /\ Len(output') = Len(output) + 1
          /\ output'[Len(output) + 1] = [work |-> m_frame_tag, symbols |-> SymbolsRead(n)]
      BY <1>2, <3>1, <3>2, AppendProperties
    <3> QED BY <3>3 DEF LastFrame
  <2>3. LastFrame'.work = m_frame_tag /\ LastFrame'.symbols = SymbolsRead(n)
    BY <2>2
  <2>4. SymbolsRead(n) # <<>> /\ SymbolsRead(n)[1] = pos - m_synchro_read_offset
    BY <1>2, <1>4
  <2>5. Stream!Consecutive(SymbolsRead(n))
    BY <1>2, <1>4, <2>4 DEF Stream!Consecutive
  <2>6. Stream!NextFrame
    BY <2>1, <2>3, <2>4, <2>5 DEF Stream!NextFrame, Stream!IsFrame, Stream!Consecutive
  <2>7. Stream!IsFrame(LastFrame)'
    BY <2>3, <2>4, <2>5 DEF Stream!IsFrame, Stream!Consecutive
  <2>a. output' # <<>>
    BY <2>3, <2>4 DEF LastFrame
  <2>8. LastFrame'.symbols[1] + Len(LastFrame'.symbols) = pos' - m_synchro_read_offset'
    BY <1>1, <1>2, <1>3, <1>4, <2>3, <2>4
  <2>9. WorksBehind'
    <3>1. m_frame_tag \in DOMAIN tags /\ tags[m_frame_tag] \in Nat
      BY <1>2, <2>1
    <3>2. tags[m_frame_tag] < pos'
      BY <1>2, <1>3, <2>1, <3>1
    <3>3. tags[m_frame_tag] <= pos'
      BY <1>2, <1>3, <3>1, <3>2
    <3> QED BY <1>1, <1>2, <2>3, <3>2, <3>3 DEF WorksBehind
  <2>10. TagIsNew'
    BY <1>1 DEF TagIsNew
  <2> QED BY <2>6, <2>7, <2>a, <2>8, <2>9, <2>10 DEF NoGap
<1>6. CASE ~m_is_first_sample
  <2>1. /\ output # <<>> /\ Stream!IsFrame(LastFrame)
        /\ LastFrame.symbols[1] + Len(LastFrame.symbols) = pos - m_synchro_read_offset
    BY <1>1, <1>6 DEF NoGap
  <2>2. LastFrame \in Frames /\ LastFrame.symbols \in Seq(Int)
    BY <2>1, LastFrameType DEF Inv
  <2>3. LastFrame.symbols # <<>> /\ Stream!Consecutive(LastFrame.symbols)
    BY <2>1 DEF Stream!IsFrame, Stream!Consecutive
  <2> DEFINE t == LastFrame.symbols \o SymbolsRead(n)
  <2>4. /\ t # <<>> /\ Stream!Consecutive(t) /\ t[1] = LastFrame.symbols[1]
        /\ Len(t) = Len(LastFrame.symbols) + n /\ t[1] + Len(t) = pos + n - m_synchro_read_offset
    BY <2>1, <2>2, <2>3, FrameContinues DEF Inv
  <2>5. LastFrame'.work = LastFrame.work /\ LastFrame'.symbols = t /\ output' # <<>>
    <3>1. output' = [output EXCEPT ![Len(output)].symbols = @ \o SymbolsRead(n)]
      BY <1>3, <1>6
    <3>2. Len(output) \in DOMAIN output /\ Len(output) \in 1..Len(output)
      BY <1>2, <2>1, EmptySeq, LenProperties
    <3>3. output' = [i \in DOMAIN output |-> IF i = Len(output)
                       THEN [output[i] EXCEPT !.symbols = @ \o SymbolsRead(n)] ELSE output[i]]
      BY <3>1, <3>2, Zenon
    <3>4. Len(output') = Len(output) /\ output' \in Seq(Frames)
      <4>1. output' \in Seq(Frames)
        BY <1>2, <1>4, <3>1, LastFrameGrows
      <4>2. DOMAIN output' = DOMAIN output
        BY <3>3
      <4> QED BY <1>2, <4>1, <4>2, LenProperties
    <3>5. output' # <<>>
      BY <3>2, <3>4
    <3>6. LastFrame' = [LastFrame EXCEPT !.symbols = @ \o SymbolsRead(n)]
      BY <2>1, <3>2, <3>3, <3>4, <3>5 DEF LastFrame
    <3> QED BY <2>2, <3>5, <3>6 DEF Frames
  <2> HIDE DEF t
  <2>6. Stream!IsFrame(LastFrame)'
    BY <2>4, <2>5 DEF Stream!IsFrame, Stream!Consecutive
  <2>7. Len(LastFrame.symbols) \in Nat /\ Len(t) > Len(LastFrame.symbols)
    BY <2>2, <2>4
  <2>8. Stream!MoreSymbols
    BY <2>4, <2>5, <2>7 DEF Stream!MoreSymbols, Stream!IsFrame, Stream!Consecutive
  <2>9. WorksBehind'
    <3>1. LastFrame'.work > 0 => tags[LastFrame.work] < pos'
      <4> SUFFICES ASSUME LastFrame.work > 0 PROVE tags[LastFrame.work] < pos'
        BY <2>5
      <4> DEFINE v == LastFrame.work
      <4>0. v \in 1..Len(tags) /\ tags[v] < pos
        BY <1>2 DEF WorksBehind
      <4> HIDE DEF v
      <4>1. tags[v] < pos /\ tags[v] \in Nat
        BY <1>2, <4>0
      <4>2. tags[v] < pos'
        BY SMTT(30), <1>2, <1>3, <4>1
      <4> QED BY <4>2 DEF v
    <3>2. m_frame_tag > 0 => tags[m_frame_tag] <= pos'
      <4> SUFFICES ASSUME m_frame_tag > 0 PROVE tags[m_frame_tag] <= pos'
        OBVIOUS
      <4>1. tags[m_frame_tag] <= pos /\ tags[m_frame_tag] \in Nat
        BY <1>2 DEF WorksBehind
      <4> QED BY SMTT(30), <1>2, <1>3, <4>1
    <3> QED BY <1>1, <1>2, <2>5, <3>1, <3>2 DEF WorksBehind
  <2>10. TagIsNew'
    BY <1>1 DEF TagIsNew
  <2>11. NoGap'
    <3>1. LastFrame'.symbols[1] + Len(LastFrame'.symbols) = pos' - m_synchro_read_offset'
      <4>1. LastFrame'.symbols[1] + Len(LastFrame'.symbols) = t[1] + Len(t)
        BY <2>5
      <4>2. pos' = pos + n /\ m_synchro_read_offset' = m_synchro_read_offset
        BY <1>1, <1>3
      <4>3. pos' - m_synchro_read_offset' = pos + n - m_synchro_read_offset
        BY <1>2, <4>2
      <4>4. t[1] + Len(t) = pos + n - m_synchro_read_offset
        BY <2>4
      <4> QED BY <4>1, <4>3, <4>4, Zenon
    <3> QED BY <2>5, <2>6, <3>1 DEF NoGap
  <2> QED BY <2>8, <2>9, <2>10, <2>11
<1> QED BY <1>5, <1>6

-----------------------------------------------------------------------------
(* Every step is one of the abstract stream, or none.                      *)
LEMMA StreamStep ==
  StreamInv /\ [Next]_vars =>
    StreamInv' /\ [Stream!NextFrame \/ Stream!MoreSymbols]_LastFrame
<1> SUFFICES ASSUME StreamInv, [Next]_vars
             PROVE  StreamInv' /\ [Stream!NextFrame \/ Stream!MoreSymbols]_LastFrame
  OBVIOUS
<1>1. Inv'
  BY NextInv DEF StreamInv
<1>2. CASE NewWork \/ MoreSamples
  BY <1>1, <1>2, InputStream DEF StreamInv
<1>3. CASE general_work
  <2>1. CASE FlushToTag \/ Detect \/ Repeated \/ NotRepeated \/ RepetitionsEnd
    BY <1>1, <2>1, SearchStream DEF StreamInv
  <2>2. CASE \E w \in DOMAIN tags : StartFrame(w)
    BY <1>1, <2>2, StartStream DEF StreamInv
  <2>3. CASE SyncRejected \/ Synchronized
    BY <1>1, <2>3, SyncStream DEF StreamInv
  <2>4. CASE SfoCompensation
    BY <1>1, <2>4, OutputStream DEF StreamInv
  <2> QED BY <1>3, <2>1, <2>2, <2>3, <2>4 DEF general_work
<1>4. CASE UNCHANGED vars
  BY <1>1, <1>4 DEF vars, inputVars, detectVars, tagVars, outputVars, StreamInv, LastFrame,
                    WorksBehind, TagIsNew, NoGap, TagsInWindow, Stream!IsFrame, Stream!Consecutive
<1> QED BY <1>2, <1>3, <1>4 DEF Next

(* Whatever calls, tags and rejections there are, the output is a stream   *)
(* as rx_combining expects it: frames without gaps, each with the tag of   *)
(* its own work and at most one for a work.                                *)
THEOREM ImplementsStream == Spec => OutputIsStream
<1>1. Init => Stream!StreamInit /\ StreamInv
  BY InitStream
<1> QED BY <1>1, StreamStep, PTL DEF Spec, OutputIsStream, Stream!StreamSpec
=============================================================================
