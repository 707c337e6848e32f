----------------------------- MODULE BbuProofs -----------------------------
(***************************************************************************)
(* Theorems about the base band unit, for all RRHs, buffers, workers,      *)
(* frames and bounds: types, and the order in which an RRH hears of its    *)
(* buffer (TypeCorrect, AddressComesFirst); the request that waits         *)
(* (AttributionStaysAligned); workers (DemodsExclusive, TokensCounted,     *)
(* NoWorkerOrphaned); RRHs and buffers (BuffersServed).  What holds only   *)
(* while no two frames are made one work is in ApartProofs.                *)
(***************************************************************************)
EXTENDS BbuProperties, QueueLemmas, FiniteSetTheorems

-----------------------------------------------------------------------------
(* Lemmas about pipes                                                       *)

(* Sending a message keeps the type of a pipe.                             *)
LEMMA SendType ==
  ASSUME NEW P, NEW M, NEW pipe \in [P -> Seq(M)], NEW p \in P, NEW m \in M
  PROVE  Send(pipe, p, m) \in [P -> Seq(M)]
BY DEF Send

(* So does receiving one, and what is received is a message.               *)
LEMMA ReceiveType ==
  ASSUME NEW P, NEW M, NEW pipe \in [P -> Seq(M)], NEW p \in P, pipe[p] # <<>>
  PROVE  /\ Receive(pipe, p) \in [P -> Seq(M)]
         /\ Head(pipe[p]) \in M
<1>1. pipe[p] \in Seq(M)
  OBVIOUS
<1>2. Tail(pipe[p]) \in Seq(M) /\ Head(pipe[p]) \in M
  BY <1>1, HeadTailProperties
<1> QED BY <1>2 DEF Receive

(* Several messages at once, to one peer or to all of them.                *)
LEMMA SendAllType ==
  ASSUME NEW P, NEW M, NEW pipe \in [P -> Seq(M)], NEW p \in P, NEW s \in Seq(M)
  PROVE  [pipe EXCEPT ![p] = @ \o s] \in [P -> Seq(M)]
<1>1. pipe[p] \o s \in Seq(M)
  BY ConcatProperties
<1> QED BY <1>1

(* A sequence of n copies of a message.                                    *)
LEMMA CopiesType ==
  ASSUME NEW M, NEW m \in M, NEW n \in Nat
  PROVE  [j \in 1 .. n |-> m] \in Seq(M)
<1>1. [j \in 1 .. n |-> m] \in [1 .. n -> M]
  OBVIOUS
<1> QED BY <1>1, SeqDef

(* One counter of a table counts.                                          *)
LEMMA TableType ==
  ASSUME NEW A, NEW B, NEW C, NEW table \in [A -> [B -> [C -> Nat]]],
         NEW a \in A, NEW b \in B, NEW c \in C
  PROVE  [table EXCEPT ![a][b][c] = @ + 1] \in [A -> [B -> [C -> Nat]]]
<1>1. [table[a][b] EXCEPT ![c] = @ + 1] \in [C -> Nat]
  OBVIOUS
<1>2. [table[a] EXCEPT ![b] = [table[a][b] EXCEPT ![c] = @ + 1]] \in [B -> [C -> Nat]]
  BY <1>1
<1> QED BY <1>2

-----------------------------------------------------------------------------
(* Lemmas about the work list                                               *)

(* A set of natural numbers that is not empty has a least element, so the  *)
(* search for the first work of a kind finds one.                          *)
LEMMA FirstType ==
  ASSUME NEW I \in SUBSET Nat, I # {}
  PROVE  /\ First(I) \in I
         /\ \A j \in I : First(I) <= j
<1> DEFINE Less == {ss \in Nat \X Nat : ss[1] < ss[2]}
<1>1. IsWellFoundedOn(Less, Nat)
  BY NatLessThanWellFounded DEF OpToRel
<1>2. \A i, j \in Nat : <<j, i>> \in Less <=> j < i
  OBVIOUS
<1> HIDE DEF Less
<1>3. PICK i \in I : \A j \in I : ~ (<<j, i>> \in Less)
  BY <1>1, WFMin
<1>4. ASSUME NEW j \in I PROVE i <= j
  <2>1. ~ (<<j, i>> \in Less)
    BY <1>3
  <2>2. i \in Nat /\ j \in Nat
    OBVIOUS
  <2>3. ~ (j < i)
    BY <1>2, <2>1, <2>2
  <2> QED BY <2>2, <2>3
<1> QED BY <1>4 DEF First

(* should_combine returns an entry of the work list when there is one to   *)
(* combine with.                                                           *)
LEMMA CombinableType ==
  ASSUME BrokerTypeOK, NEW f \in Frame
  PROVE  /\ Combinable(f) \in SUBSET (DOMAIN m_work_list)
         /\ DOMAIN m_work_list = 1 .. Len(m_work_list)
         /\ Len(m_work_list) \in Nat
         /\ Combinable(f) # {} => ShouldCombine(f) \in DOMAIN m_work_list
<1>1. DOMAIN m_work_list = 1 .. Len(m_work_list) /\ Len(m_work_list) \in Nat
  BY LenProperties DEF BrokerTypeOK
<1>2. Combinable(f) \in SUBSET (DOMAIN m_work_list)
  BY DEF Combinable
<1>3. Combinable(f) \in SUBSET Nat
  BY <1>1, <1>2
<1> QED BY <1>1, <1>2, <1>3, FirstType DEF ShouldCombine

(* The first work with a given id is an entry of the work list.            *)
LEMMA UndergoingType ==
  ASSUME BrokerTypeOK, NEW id
  PROVE  /\ UndergoingWorks(id) \in SUBSET (DOMAIN m_work_list)
         /\ UndergoingWorks(id) # {} => First(UndergoingWorks(id)) \in 1 .. Len(m_work_list)
<1>1. DOMAIN m_work_list = 1 .. Len(m_work_list) /\ Len(m_work_list) \in Nat
  BY LenProperties DEF BrokerTypeOK
<1>2. UndergoingWorks(id) \in SUBSET (DOMAIN m_work_list)
  BY DEF UndergoingWorks
<1>3. UndergoingWorks(id) \in SUBSET Nat
  BY <1>1, <1>2
<1> QED BY <1>1, <1>2, <1>3, FirstType

(* A work changed in one field is a work.                                  *)
LEMMA WithBufferType ==
  ASSUME NEW work \in Local_work_info, NEW b \in Buffers
  PROVE  WithBuffer(work, b) \in Local_work_info
<1>1. work.buffers_id \in Seq(Buffers)
  BY DEF Local_work_info
<1>2. Append(work.buffers_id, b) \in Seq(Buffers) /\ Len(Append(work.buffers_id, b)) > 0
  BY <1>1, AppendProperties
<1>3. Append(work.buffers_id, b) \in Seq(Buffers) \ {<<>>}
  BY <1>2, EmptySeq
<1> QED BY <1>3 DEF WithBuffer, Local_work_info

(* A work that gets one more worker is a work.                             *)
LEMMA WithWorkerType ==
  ASSUME NEW work \in Local_work_info, NEW w \in SyncWorkers
  PROVE  WithWorker(work, w) \in Local_work_info
<1>1. work.worker_id \in [SyncWorkers -> Nat]
  BY DEF Local_work_info
<1>2. [work.worker_id EXCEPT ![w] = @ + 1] \in [SyncWorkers -> Nat]
  BY <1>1
<1> QED BY <1>2 DEF WithWorker, Local_work_info

(* A work whose counter changes is a work.                                 *)
LEMMA RecountedType ==
  ASSUME NEW work \in Local_work_info, NEW n \in Int
  PROVE  Recounted(work, n) \in Local_work_info
BY DEF Recounted, Local_work_info

(* The work made of a frame that combines with none is a work.             *)
LEMMA NewWorkType ==
  ASSUME SocketsAssumption, BrokerTypeOK, NEW b \in Buffers, NEW f \in Frame,
         m_demod_worker_pool = <<>> => m_ipc_file_idx \in DemodWorkers
  PROVE  NewWork(b, f) \in Local_work_info
<1>1. <<b>> \in Seq(Buffers) \ {<<>>}
  OBVIOUS
<1>2. m_demod_worker_pool # <<>> => Head(m_demod_worker_pool) \in DemodWorkers
  BY HeadTailProperties DEF BrokerTypeOK
<1>3. f.channel \in Channels /\ f.time \in Times
  BY DEF Frame
<1> QED BY <1>1, <1>2, <1>3 DEF NewWork, Local_work_info, BrokerTypeOK

(* The list stays a list of works, and is not empty, when a frame joins it. *)
LEMMA WorksWithType ==
  ASSUME SocketsAssumption, BrokerTypeOK, NEW b \in Buffers, NEW f \in Frame,
         TakeDemodWorker(f)
  PROVE  WorksWith(b, f) \in Seq(Local_work_info) \ {<<>>}
<1> DEFINE k == ShouldCombine(f)
<1>1. CASE Combinable(f) # {}
  <2>1. k \in 1 .. Len(m_work_list)
    BY <1>1, CombinableType
  <2>2. m_work_list[k] \in Local_work_info
    BY <2>1, ElementOfSeq DEF BrokerTypeOK
  <2>3. Recounted(WithBuffer(m_work_list[k], b), 1) \in Local_work_info
    BY <2>2, WithBufferType, RecountedType
  <2>4. /\ WorksWith(b, f) = [m_work_list EXCEPT ![k] = Recounted(WithBuffer(m_work_list[k], b), 1)]
    BY <1>1 DEF WorksWith
  <2>5. WorksWith(b, f) \in Seq(Local_work_info) /\ Len(WorksWith(b, f)) = Len(m_work_list)
    BY <2>1, <2>3, <2>4, ExceptSeq DEF BrokerTypeOK
  <2>6. Len(m_work_list) > 0
    BY <2>1, LenProperties DEF BrokerTypeOK
  <2> QED BY <2>5, <2>6, EmptySeq
<1>2. CASE Combinable(f) = {}
  <2>1. m_demod_worker_pool = <<>> => m_ipc_file_idx \in DemodWorkers
    BY <1>2 DEF TakeDemodWorker, ReuseDemodWorker, SpawnDemodWorker
  <2>2. NewWork(b, f) \in Local_work_info
    BY <2>1, NewWorkType
  <2>3. WorksWith(b, f) = Append(m_work_list, NewWork(b, f))
    BY <1>2 DEF WorksWith
  <2>4. /\ WorksWith(b, f) \in Seq(Local_work_info)
        /\ Len(WorksWith(b, f)) > 0
    BY <2>2, <2>3, AppendProperties, LenProperties DEF BrokerTypeOK
  <2> QED BY <2>4, EmptySeq
<1> QED BY <1>1, <1>2

(* Taking a demodulation worker keeps the types of the pool and counters.  *)
LEMMA TakeDemodWorkerType ==
  ASSUME SocketsAssumption, BrokerTypeOK, NEW f \in Frame, TakeDemodWorker(f)
  PROVE  /\ m_demod_worker_pool' \in Seq(DemodWorkers)
         /\ m_last_work_id' \in WorkIds
         /\ m_ipc_file_idx' \in Nat
<1>1. CASE Combinable(f) # {}
  BY <1>1 DEF TakeDemodWorker, demods, BrokerTypeOK
<1>2. CASE Combinable(f) = {}
  <2>1. m_last_work_id' = (m_last_work_id + 1) % WORK_ID_RANGE
    BY <1>2 DEF TakeDemodWorker, NextWorkId
  <2>2. m_last_work_id' \in WorkIds
    BY <2>1 DEF SocketsAssumption, WorkIds, BrokerTypeOK
  <2>3. CASE ReuseDemodWorker
    BY <2>2, <2>3, HeadTailProperties DEF ReuseDemodWorker, BrokerTypeOK
  <2>4. CASE SpawnDemodWorker
    BY <2>2, <2>4 DEF SpawnDemodWorker, BrokerTypeOK
  <2> QED BY <1>2, <2>3, <2>4 DEF TakeDemodWorker
<1> QED BY <1>1, <1>2

(* Forwarding a job of a list that is not empty, to a pool that is not.    *)
LEMMA ForwardJobType ==
  ASSUME BrokerTypeOK, SocketsTypeOK,
         NEW works \in Seq(Local_work_info) \ {<<>>},
         NEW pub \in Buffers, NEW f \in Frame,
         m_sync_worker_pool # <<>>, ForwardJob(works, pub, f)
  PROVE  /\ m_work_list' \in Seq(Local_work_info)
         /\ workers_by_fc' \in [Buffers -> [Channels -> [WorkIds -> Nat]]]
         /\ m_sync_worker_pool' \in Seq(SyncWorkers)
         /\ brokerToSync' \in [SyncWorkers -> Seq(WorkerMessage)]
<1> DEFINE last   == Len(works)
           work   == works[last]
           client == work.buffers_id[Len(work.buffers_id)]
           worker == Head(m_sync_worker_pool)
           job    == Job(work.work_id, work.demod_worker_addr, client, pub)
<1>1. last \in 1 .. Len(works)
  BY EmptySeq
<1>2. work \in Local_work_info
  BY <1>1, ElementOfSeq
<1>3. worker \in SyncWorkers /\ Tail(m_sync_worker_pool) \in Seq(SyncWorkers)
  BY HeadTailProperties DEF BrokerTypeOK
<1>4. client \in Buffers
  <2>1. work.buffers_id \in Seq(Buffers) /\ work.buffers_id # <<>>
    BY <1>2 DEF Local_work_info
  <2>2. Len(work.buffers_id) \in 1 .. Len(work.buffers_id)
    BY <2>1, EmptySeq
  <2> QED BY <2>1, <2>2, ElementOfSeq
<1>5. Recounted(WithWorker(work, worker), 1) \in Local_work_info
  BY <1>2, <1>3, WithWorkerType, RecountedType
<1>6. m_work_list' \in Seq(Local_work_info)
  <2>1. m_work_list' = [works EXCEPT ![last] = Recounted(WithWorker(work, worker), 1)]
    BY DEF ForwardJob
  <2> QED BY <1>1, <1>5, <2>1, ExceptSeq
<1>7. workers_by_fc' \in [Buffers -> [Channels -> [WorkIds -> Nat]]]
  <2>1. work.work_id \in WorkIds /\ f.channel \in Channels
    BY <1>2 DEF Local_work_info, Frame
  <2>2. workers_by_fc' = [workers_by_fc EXCEPT ![client][f.channel][work.work_id] = @ + 1]
    BY DEF ForwardJob
  <2>3. workers_by_fc \in [Buffers -> [Channels -> [WorkIds -> Nat]]]
    BY DEF BrokerTypeOK
  <2> HIDE DEF client, work
  <2> QED BY <1>4, <2>1, <2>2, <2>3, TableType
<1>8. brokerToSync' \in [SyncWorkers -> Seq(WorkerMessage)]
  <2>1. job \in WorkerMessage
    BY <1>2, <1>4 DEF Job, WorkerMessage, JobMessage, Local_work_info
  <2>2. brokerToSync' = Send(brokerToSync, worker, job)
    BY DEF ForwardJob
  <2> QED BY <1>3, <2>1, <2>2, SendType DEF SocketsTypeOK
<1>9. m_sync_worker_pool' \in Seq(SyncWorkers)
  BY <1>3 DEF ForwardJob, OtherWorkers
<1> QED BY <1>6, <1>7, <1>8, <1>9

(* A list holds a buffer a natural number of times.                        *)
LEMMA OccurrencesType ==
  ASSUME NEW b, NEW S, NEW s \in Seq(S)
  PROVE  Occurrences(b, s) \in Nat
<1>1. DOMAIN s = 1 .. Len(s) /\ Len(s) \in Nat
  BY LenProperties
<1>2. IsFiniteSet(1 .. Len(s))
  BY <1>1, FS_Interval
<1>3. IsFiniteSet({i \in DOMAIN s : s[i] = b})
  BY <1>1, <1>2, FS_Subset
<1> QED BY <1>3, FS_CardinalityType DEF Occurrences

(* What is left of a work's streams, and how many stops are sent for it.   *)
LEMMA StreamsType ==
  ASSUME BrokerTypeOK, NEW work \in Local_work_info
  PROVE  /\ \A b \in Buffers : StreamsLeft(b, work) \in Nat /\ Stops(b, work) \in Nat
         /\ \A r \in Rrhs : StopsFor(r, work) \in Nat
<1>1. /\ work.channel_id \in Channels
      /\ work.work_id \in WorkIds
      /\ work.buffers_id \in Seq(Buffers)
  BY DEF Local_work_info
<1>2. workers_by_fc \in [Buffers -> [Channels -> [WorkIds -> Nat]]]
  BY DEF BrokerTypeOK
<1>3. ASSUME NEW b \in Buffers
      PROVE  StreamsLeft(b, work) \in Nat /\ Stops(b, work) \in Nat
  <2> DEFINE n == workers_by_fc[b][work.channel_id][work.work_id]
             k == Occurrences(b, work.buffers_id)
  <2>1. n \in Nat
    BY <1>1, <1>2
  <2>2. k \in Nat
    BY <1>1, OccurrencesType
  <2>3. StreamsLeft(b, work) = IF n > k THEN n - k ELSE 0
    BY DEF StreamsLeft
  <2>4. Stops(b, work) \in {0, k} \/ (~ (k < n) /\ Stops(b, work) = k - n + 1)
    BY DEF Stops
  <2> HIDE DEF n, k
  <2> QED BY <2>1, <2>2, <2>3, <2>4
<1>4. ASSUME NEW r \in Rrhs PROVE StopsFor(r, work) \in Nat
  <2> DEFINE mine == {b \in DOMAIN m_buffer_list : m_buffer_list[b] = r}
  <2>1. mine \subseteq Buffers
    BY DEF BrokerTypeOK
  <2>2. CASE mine = {}
    BY <2>2 DEF StopsFor
  <2>3. CASE mine # {}
    <3>1. (CHOOSE b \in mine : TRUE) \in Buffers
      BY <2>1, <2>3
    <3> QED BY <3>1, <2>3, <1>3 DEF StopsFor
  <2> QED BY <2>2, <2>3
<1> QED BY <1>3, <1>4

(* Ending a work of the list.                                              *)
LEMMA EndWorkType ==
  ASSUME BrokerTypeOK, SocketsTypeOK,
         NEW i \in 1 .. Len(m_work_list), EndWork(i)
  PROVE  /\ m_work_list' \in Seq(Local_work_info)
         /\ workers_by_fc' \in [Buffers -> [Channels -> [WorkIds -> Nat]]]
         /\ brokerToSync' \in [SyncWorkers -> Seq(WorkerMessage)]
         /\ brokerToRrh' \in [Rrhs -> Seq(RrhMessage)]
<1> DEFINE work == m_work_list[i]
<1>1. work \in Local_work_info
  BY ElementOfSeq DEF BrokerTypeOK
<1>2. /\ work.channel_id \in Channels
      /\ work.work_id \in WorkIds
      /\ work.worker_id \in [SyncWorkers -> Nat]
  BY <1>1 DEF Local_work_info
<1>3. m_work_list' \in Seq(Local_work_info)
  <2> DEFINE n == Len(m_work_list)
  <2>1. n \in Nat /\ n - 1 \in Nat /\ m_work_list \in [1 .. n -> Local_work_info]
    BY LenProperties DEF BrokerTypeOK
  <2>2. m_work_list' = [j \in 1 .. (n - 1) |-> IF j < i THEN m_work_list[j] ELSE m_work_list[j + 1]]
    BY DEF EndWork
  <2> HIDE DEF n
  <2>3. m_work_list' \in [1 .. (n - 1) -> Local_work_info]
    BY <2>1, <2>2
  <2> QED BY <2>1, <2>3, SeqDef
<1>4. workers_by_fc' \in [Buffers -> [Channels -> [WorkIds -> Nat]]]
  <2>1. workers_by_fc' = [b \in Buffers |->
          [workers_by_fc[b] EXCEPT ![work.channel_id][work.work_id] = StreamsLeft(b, work)]]
    BY DEF EndWork
  <2>2. workers_by_fc \in [Buffers -> [Channels -> [WorkIds -> Nat]]]
    BY DEF BrokerTypeOK
  <2>3. \A b \in Buffers : StreamsLeft(b, work) \in Nat
    BY <1>1, StreamsType
  <2> HIDE DEF work
  <2>4. ASSUME NEW b \in Buffers
        PROVE  [workers_by_fc[b] EXCEPT ![work.channel_id][work.work_id] = StreamsLeft(b, work)]
                 \in [Channels -> [WorkIds -> Nat]]
    <3>1. [workers_by_fc[b][work.channel_id] EXCEPT ![work.work_id] = StreamsLeft(b, work)]
            \in [WorkIds -> Nat]
      BY <1>2, <2>2, <2>3
    <3> QED BY <1>2, <2>2, <3>1
  <2> QED BY <2>1, <2>4
<1>5. brokerToSync' \in [SyncWorkers -> Seq(WorkerMessage)]
  <2>1. brokerToSync' = [w \in SyncWorkers |-> brokerToSync[w] \o DonesFor(work, w)]
    BY DEF EndWork
  <2>2. ASSUME NEW w \in SyncWorkers
        PROVE  brokerToSync[w] \o DonesFor(work, w) \in Seq(WorkerMessage)
    <3>1. Done(work.work_id) \in WorkerMessage
      BY <1>2 DEF Done, WorkerMessage
    <3>2. DonesFor(work, w) \in Seq(WorkerMessage)
      BY <1>2, <3>1, CopiesType DEF DonesFor
    <3> QED BY <3>2, ConcatProperties DEF SocketsTypeOK
  <2> QED BY <2>1, <2>2
<1>6. brokerToRrh' \in [Rrhs -> Seq(RrhMessage)]
  <2>1. brokerToRrh' = [r \in Rrhs |->
          brokerToRrh[r] \o [j \in 1 .. StopsFor(r, work) |-> Stop(work.channel_id)]]
    BY DEF EndWork
  <2>2. ASSUME NEW r \in Rrhs
        PROVE  brokerToRrh[r] \o [j \in 1 .. StopsFor(r, work) |-> Stop(work.channel_id)]
                 \in Seq(RrhMessage)
    <3>1. Stop(work.channel_id) \in RrhMessage
      BY <1>2 DEF Stop, RrhMessage
    <3>2. StopsFor(r, work) \in Nat
      BY <1>1, StreamsType
    <3>3. [j \in 1 .. StopsFor(r, work) |-> Stop(work.channel_id)] \in Seq(RrhMessage)
      BY <3>1, <3>2, CopiesType
    <3> QED BY <3>3, ConcatProperties DEF SocketsTypeOK
  <2> QED BY <2>1, <2>2
<1> QED BY <1>3, <1>4, <1>5, <1>6

-----------------------------------------------------------------------------
(* Type correctness: the first state, and the steps of the broker           *)

(* The queues are empty and the broker has its first demodulation workers. *)
LEMMA InitType == Init => TypeOK
<1> SUFFICES ASSUME Init PROVE TypeOK
  OBVIOUS
<1>1. SocketsTypeOK
  BY DEF Init, SocketsInit, SocketsTypeOK
<1>2. BrokerTypeOK
  <2>1. m_demod_worker_pool \in Seq(DemodWorkers)
    <3>1. MIN_NUMBER_OF_WORKERS \in Nat
      BY BrokerAssumption
    <3>2. \A i \in 1 .. MIN_NUMBER_OF_WORKERS : i - 1 \in 0 .. (MIN_NUMBER_OF_WORKERS - 1)
      BY <3>1
    <3>3. \A i \in 1 .. MIN_NUMBER_OF_WORKERS : i - 1 \in DemodWorkers
      BY <3>2, BrokerAssumption
    <3>4. m_demod_worker_pool \in [1 .. MIN_NUMBER_OF_WORKERS -> DemodWorkers]
      BY <3>3 DEF Init, BrokerInit
    <3> QED BY <3>1, <3>4, SeqDef
  <2>2. m_buffer_list \in [{} -> Rrhs]
    BY DEF Init, BrokerInit
  <2>3. m_buffer_list \in UNION {[B -> Rrhs] : B \in SUBSET Buffers}
    BY <2>2
  <2>4. workers_by_fc \in [Buffers -> [Channels -> [WorkIds -> Nat]]]
    BY DEF Init, BrokerInit
  <2>5. m_last_work_id \in WorkIds
    BY SocketsAssumption DEF Init, BrokerInit, WorkIds
  <2>6. m_ipc_file_idx \in Nat /\ m_sync_thread_spawned \in Nat /\ buffer_threads \in Nat
    BY BrokerAssumption DEF Init, BrokerInit
  <2>7. /\ pending \in Seq(Request)
        /\ m_rrh_list \in Seq(Rrhs)
        /\ m_work_list \in Seq(Local_work_info)
        /\ m_sync_worker_pool \in Seq(SyncWorkers)
    BY DEF Init, BrokerInit
  <2>8. /\ wait_sync_worker_spawn \in BOOLEAN
        /\ continue_worker_attr \in BOOLEAN
        /\ undefined \in BOOLEAN
    BY DEF Init, BrokerInit
  <2> QED BY <2>1, <2>3, <2>4, <2>5, <2>6, <2>7, <2>8, Zenon DEF BrokerTypeOK
<1>3. BufferTypeOK
  BY DEF Init, BufferInit, BufferTypeOK, BufferStates
<1>4. RrhTypeOK
  BY DEF Init, RrhInit, RrhTypeOK
<1>5. SyncTypeOK
  BY DEF Init, SyncInit, SyncTypeOK, SyncStates
<1>6. DemodTypeOK
  BY DEF Init, DemodInit, DemodTypeOK
<1> QED BY <1>1, <1>2, <1>3, <1>4, <1>5, <1>6 DEF TypeOK

(* Only acknowledgements are added to the workers' pipes, and the pool is  *)
(* emptied, when workers are kept alive.                                   *)
LEMMA KeepWorkersAliveType ==
  ASSUME SocketsTypeOK, KeepWorkersAlive
  PROVE  /\ brokerToSync' \in [SyncWorkers -> Seq(WorkerMessage)]
         /\ m_sync_worker_pool' \in Seq(SyncWorkers)
<1> DEFINE kept == {m_sync_worker_pool[i] : i \in {j \in DOMAIN m_sync_worker_pool :
                                                j <= WORKER_MARGIN}}
<1>1. brokerToSync' = [w \in SyncWorkers |-> IF w \in kept THEN Append(brokerToSync[w], Ack)
                                                          ELSE brokerToSync[w]]
  BY DEF KeepWorkersAlive
<1> HIDE DEF kept
<1>2. Ack \in WorkerMessage
  BY DEF Ack, WorkerMessage
<1>3. \A w \in SyncWorkers : Append(brokerToSync[w], Ack) \in Seq(WorkerMessage)
  BY <1>2, AppendProperties DEF SocketsTypeOK
<1>4. m_sync_worker_pool' = <<>>
  BY DEF KeepWorkersAlive, PoolAfterKeepAlive
<1> QED BY <1>1, <1>3, <1>4 DEF SocketsTypeOK

(* broker.cpp 251-264.                                                     *)
LEMMA RrhRequestType ==
  ASSUME SocketsTypeOK, BrokerTypeOK, NEW r \in Rrhs, RrhRequest(r)
  PROVE  SocketsTypeOK' /\ BrokerTypeOK'
<1>1. /\ brokerToSync' \in [SyncWorkers -> Seq(WorkerMessage)]
      /\ m_sync_worker_pool' \in Seq(SyncWorkers)
  <2>1. CASE KeepWorkersAlive
    BY <2>1, KeepWorkersAliveType
  <2>2. CASE UNCHANGED <<m_sync_worker_pool, brokerToSync>>
    BY <2>2 DEF SocketsTypeOK, BrokerTypeOK
  <2> QED BY <2>1, <2>2 DEF RrhRequest
<1>2. rrhToBroker' \in [Rrhs -> Seq([type : {"NEW_BUFFER"}])]
  BY ReceiveType DEF RrhRequest, SocketsTypeOK
<1>3. m_rrh_list' \in Seq(Rrhs)
  BY AppendProperties DEF RrhRequest, RrhsWaiting, BrokerTypeOK
<1>4. buffer_threads' \in Nat
  BY DEF RrhRequest, BrokerTypeOK
<1> QED BY <1>1, <1>2, <1>3, <1>4 DEF RrhRequest, SocketsTypeOK, BrokerTypeOK, matching, demods

(* broker.cpp 280-297.                                                     *)
LEMMA RegisterBufferType ==
  ASSUME SocketsTypeOK, BrokerTypeOK, NEW b \in Buffers, RegisterBuffer(b)
  PROVE  SocketsTypeOK' /\ BrokerTypeOK'
<1>1. Head(m_rrh_list) \in Rrhs /\ Tail(m_rrh_list) \in Seq(Rrhs)
  BY HeadTailProperties DEF RegisterBuffer, BrokerTypeOK
<1>2. m_buffer_list' \in UNION {[B -> Rrhs] : B \in SUBSET Buffers}
  <2>1. PICK B \in SUBSET Buffers : m_buffer_list \in [B -> Rrhs]
    BY DEF BrokerTypeOK
  <2>2. m_buffer_list' \in [B \cup {b} -> Rrhs]
    BY <1>1, <2>1 DEF RegisterBuffer
  <2>3. B \cup {b} \in SUBSET Buffers
    OBVIOUS
  <2> QED BY <2>2, <2>3
<1>3. bufferToBroker' \in [Buffers -> Seq(BufferRequest)]
  BY ReceiveType DEF RegisterBuffer, SocketsTypeOK
<1>4. brokerToBuffer' \in [Buffers -> Seq({"ACK", "SUBSCRIBED"})]
  <2>1. "ACK" \in {"ACK", "SUBSCRIBED"}
    OBVIOUS
  <2> QED BY <2>1, SendType DEF RegisterBuffer, SocketsTypeOK
<1>5. brokerToRrh' \in [Rrhs -> Seq(RrhMessage)]
  <2>1. BufferAddr(b) \in RrhMessage
    BY DEF BufferAddr, RrhMessage
  <2> QED BY <1>1, <2>1, SendType DEF RegisterBuffer, SocketsTypeOK
<1>6. m_rrh_list' \in Seq(Rrhs)
  BY <1>1 DEF RegisterBuffer, OtherRrhs
<1> QED BY <1>2, <1>3, <1>4, <1>5, <1>6
        DEF RegisterBuffer, SocketsTypeOK, BrokerTypeOK, matching, demods

(* The request at the head of a buffer's pipe is consumed.                 *)
LEMMA AnnouncesFrameType ==
  ASSUME SocketsTypeOK, NEW b \in Buffers, AnnouncesFrame(b)
  PROVE  /\ bufferToBroker' \in [Buffers -> Seq(BufferRequest)]
         /\ Head(bufferToBroker[b]).frame \in Frame
<1>1. /\ bufferToBroker' \in [Buffers -> Seq(BufferRequest)]
      /\ Head(bufferToBroker[b]) \in BufferRequest
  BY ReceiveType DEF AnnouncesFrame, SocketsTypeOK
<1>2. Head(bufferToBroker[b]).type = "NEW_FRAME"
  BY DEF AnnouncesFrame
<1> QED BY <1>1, <1>2 DEF BufferRequest

(* broker.cpp 298-368.                                                     *)
LEMMA SpawnForFrameType ==
  ASSUME SocketsTypeOK, BrokerTypeOK, NEW b \in Buffers, SpawnForFrame(b)
  PROVE  SocketsTypeOK' /\ BrokerTypeOK'
<1> DEFINE f == Head(bufferToBroker[b]).frame
<1>1. bufferToBroker' \in [Buffers -> Seq(BufferRequest)] /\ f \in Frame
  BY AnnouncesFrameType DEF SpawnForFrame
<1>2. TakeDemodWorker(f)
  BY DEF SpawnForFrame
<1>3. /\ m_demod_worker_pool' \in Seq(DemodWorkers)
      /\ m_last_work_id' \in WorkIds
      /\ m_ipc_file_idx' \in Nat
  BY <1>1, <1>2, TakeDemodWorkerType, SocketsAssumption
<1>4. m_work_list' \in Seq(Local_work_info)
  <2>1. m_work_list' = WorksWith(b, f)
    BY DEF SpawnForFrame
  <2> HIDE DEF f
  <2> QED BY <1>1, <1>2, <2>1, WorksWithType, SocketsAssumption
<1>5. pending' \in Seq(Request)
  <2>1. pending' = <<[buffer |-> b, frame |-> f]>>
    BY DEF SpawnForFrame
  <2>2. [buffer |-> b, frame |-> f] \in Request
    BY <1>1 DEF Request
  <2> QED BY <2>1, <2>2
<1>6. /\ m_sync_thread_spawned' \in Nat
      /\ continue_worker_attr' = TRUE
      /\ wait_sync_worker_spawn' = TRUE
      /\ UNCHANGED <<rrhs, workers_by_fc, m_sync_worker_pool, undefined, rrhToBroker,
                    brokerToRrh, rrhToBuffer, brokerToBuffer, syncToBroker,
                    brokerToSync, demodToBroker>>
  BY DEF SpawnForFrame, BrokerTypeOK
<1> HIDE DEF f
<1>7. SocketsTypeOK'
  BY <1>1, <1>6 DEF SocketsTypeOK
<1>8. BrokerTypeOK'
  BY <1>3, <1>4, <1>5, <1>6 DEF BrokerTypeOK, rrhs
<1> QED BY <1>7, <1>8

(* broker.cpp 298-349, 369-373.                                            *)
LEMMA ServeFrameType ==
  ASSUME SocketsTypeOK, BrokerTypeOK, NEW b \in Buffers, ServeFrame(b)
  PROVE  SocketsTypeOK' /\ BrokerTypeOK'
<1> DEFINE f == Head(bufferToBroker[b]).frame
<1>1. bufferToBroker' \in [Buffers -> Seq(BufferRequest)] /\ f \in Frame
  BY AnnouncesFrameType DEF ServeFrame
<1>2. TakeDemodWorker(f) /\ m_sync_worker_pool # <<>> /\ ForwardJob(WorksWith(b, f), b, f)
  BY DEF ServeFrame
<1>3. UNCHANGED <<matching, rrhs, m_sync_thread_spawned, undefined, rrhToBroker,
                  brokerToRrh, rrhToBuffer, brokerToBuffer, syncToBroker,
                  demodToBroker>>
  BY DEF ServeFrame
<1> HIDE DEF f
<1>4. /\ m_demod_worker_pool' \in Seq(DemodWorkers)
      /\ m_last_work_id' \in WorkIds
      /\ m_ipc_file_idx' \in Nat
  BY <1>1, <1>2, TakeDemodWorkerType, SocketsAssumption
<1>5. WorksWith(b, f) \in Seq(Local_work_info) \ {<<>>}
  BY <1>1, <1>2, WorksWithType, SocketsAssumption
<1>6. /\ m_work_list' \in Seq(Local_work_info)
      /\ workers_by_fc' \in [Buffers -> [Channels -> [WorkIds -> Nat]]]
      /\ m_sync_worker_pool' \in Seq(SyncWorkers)
      /\ brokerToSync' \in [SyncWorkers -> Seq(WorkerMessage)]
  BY <1>1, <1>2, <1>5, ForwardJobType
<1>7. SocketsTypeOK'
  BY <1>1, <1>3, <1>6 DEF SocketsTypeOK
<1>8. BrokerTypeOK'
  BY <1>3, <1>4, <1>6 DEF BrokerTypeOK, rrhs, matching
<1> QED BY <1>7, <1>8

(* broker.cpp 376-381.                                                     *)
LEMMA FinishAttributionType ==
  ASSUME SocketsTypeOK, BrokerTypeOK, FinishAttribution
  PROVE  SocketsTypeOK' /\ BrokerTypeOK'
<1>1. /\ pending # <<>> /\ m_sync_worker_pool # <<>>
      /\ UNCHANGED <<demods, rrhs, wait_sync_worker_spawn, m_sync_thread_spawned,
                 rrhToBroker, brokerToRrh, rrhToBuffer, bufferToBroker, brokerToBuffer,
                 syncToBroker, demodToBroker>>
  BY DEF FinishAttribution
<1>2. CASE /\ m_work_list # <<>>
           /\ ForwardJob(m_work_list, Head(pending).buffer, Head(pending).frame)
           /\ continue_worker_attr' = FALSE
           /\ pending' = <<>>
           /\ UNCHANGED undefined
  <2>1. Head(pending).buffer \in Buffers /\ Head(pending).frame \in Frame
    <3>1. pending \in Seq(Request)
      BY DEF BrokerTypeOK
    <3>2. Head(pending) \in Request
      BY <1>1, <3>1, HeadTailProperties
    <3> QED BY <3>2 DEF Request
  <2>2. m_work_list \in Seq(Local_work_info) \ {<<>>}
    BY <1>2 DEF BrokerTypeOK
  <2>3. /\ m_work_list' \in Seq(Local_work_info)
        /\ workers_by_fc' \in [Buffers -> [Channels -> [WorkIds -> Nat]]]
        /\ m_sync_worker_pool' \in Seq(SyncWorkers)
        /\ brokerToSync' \in [SyncWorkers -> Seq(WorkerMessage)]
    BY <1>1, <1>2, <2>1, <2>2, ForwardJobType
  <2>4. SocketsTypeOK'
    BY <1>1, <2>3 DEF SocketsTypeOK
  <2>5. pending' \in Seq(Request)
    BY <1>2
  <2>6. BrokerTypeOK'
    BY <1>1, <1>2, <2>3, <2>5 DEF BrokerTypeOK, rrhs, demods
  <2> QED BY <2>4, <2>6
<1>3. CASE /\ undefined' = TRUE
           /\ UNCHANGED <<continue_worker_attr, pending, workers_by_fc, m_work_list,
                          m_sync_worker_pool, brokerToSync>>
  <2>1. SocketsTypeOK'
    BY <1>1, <1>3 DEF SocketsTypeOK
  <2>2. BrokerTypeOK'
    BY <1>1, <1>3 DEF BrokerTypeOK, rrhs, demods
  <2> QED BY <2>1, <2>2
<1> QED BY <1>2, <1>3 DEF FinishAttribution

(* A message of a synchronization worker is consumed.                      *)
LEMMA ServeSyncType ==
  ASSUME SocketsTypeOK, NEW w \in SyncWorkers, NEW type, ServeSync(w, type)
  PROVE  /\ syncToBroker' \in [SyncWorkers -> Seq(SyncMessage)]
         /\ Head(syncToBroker[w]) \in SyncMessage
         /\ Head(syncToBroker[w]).type = type
BY ReceiveType DEF ServeSync, SocketsTypeOK

(* broker.cpp 403-411.                                                     *)
LEMMA WorkerReadyType ==
  ASSUME SocketsTypeOK, BrokerTypeOK, NEW w \in SyncWorkers, WorkerReady(w)
  PROVE  SocketsTypeOK' /\ BrokerTypeOK'
<1>1. syncToBroker' \in [SyncWorkers -> Seq(SyncMessage)]
  BY ServeSyncType DEF WorkerReady
<1>2. m_sync_worker_pool' \in Seq(SyncWorkers)
  BY AppendProperties DEF WorkerReady, BrokerTypeOK
<1>3. wait_sync_worker_spawn' \in BOOLEAN
  BY DEF WorkerReady, WorkerSpawned
<1>4. UNCHANGED <<continue_worker_attr, pending, rrhs, m_last_work_id, m_ipc_file_idx,
                  m_sync_thread_spawned, undefined, rrhToBroker, rrhToBuffer,
                  bufferToBroker, demodToBroker, workers_by_fc, m_work_list,
                  m_demod_worker_pool, brokerToRrh, brokerToBuffer, brokerToSync>>
  BY DEF WorkerReady, ServeSync
<1>5. SocketsTypeOK'
  BY <1>1, <1>4 DEF SocketsTypeOK
<1>6. BrokerTypeOK'
  BY <1>2, <1>3, <1>4 DEF BrokerTypeOK, rrhs
<1> QED BY <1>5, <1>6

(* broker.cpp 501-518.                                                     *)
LEMMA ForwardReplyType ==
  ASSUME SocketsTypeOK, BrokerTypeOK, NEW w \in SyncWorkers, ForwardReply(w)
  PROVE  SocketsTypeOK' /\ BrokerTypeOK'
<1>1. /\ syncToBroker' \in [SyncWorkers -> Seq(SyncMessage)]
      /\ Head(syncToBroker[w]) \in SyncMessage
      /\ Head(syncToBroker[w]).type = "SUBSCRIBED"
  BY ServeSyncType DEF ForwardReply
<1>2. Head(syncToBroker[w]).buffer \in Buffers
  BY <1>1 DEF SyncMessage
<1>3. brokerToBuffer' \in [Buffers -> Seq({"ACK", "SUBSCRIBED"})]
  <2>1. "SUBSCRIBED" \in {"ACK", "SUBSCRIBED"}
    OBVIOUS
  <2> QED BY <1>2, <2>1, SendType DEF ForwardReply, SocketsTypeOK
<1>4. UNCHANGED <<continue_worker_attr, pending, rrhs, m_last_work_id, m_ipc_file_idx,
                  m_sync_thread_spawned, undefined, rrhToBroker, rrhToBuffer,
                  bufferToBroker, demodToBroker, wait_sync_worker_spawn, workers_by_fc,
                  m_work_list, m_sync_worker_pool, m_demod_worker_pool, brokerToRrh,
                  brokerToSync>>
  BY DEF ForwardReply, ServeSync
<1>5. SocketsTypeOK'
  BY <1>1, <1>3, <1>4 DEF SocketsTypeOK
<1>6. BrokerTypeOK'
  BY <1>4 DEF BrokerTypeOK, rrhs
<1> QED BY <1>5, <1>6

(* broker.cpp 412-433, 440-497, for a synchronization worker.              *)
LEMMA WorkerSyncDoneType ==
  ASSUME SocketsTypeOK, BrokerTypeOK, NEW w \in SyncWorkers, WorkerSyncDone(w)
  PROVE  SocketsTypeOK' /\ BrokerTypeOK'
<1> DEFINE I == UndergoingWorks(Head(syncToBroker[w]).work_id)
           i == First(I)
<1>1. syncToBroker' \in [SyncWorkers -> Seq(SyncMessage)]
  BY ServeSyncType DEF WorkerSyncDone
<1>2. UNCHANGED <<continue_worker_attr, pending, rrhs, m_last_work_id, m_ipc_file_idx,
                  m_sync_thread_spawned, undefined, rrhToBroker, rrhToBuffer,
                  bufferToBroker, demodToBroker, wait_sync_worker_spawn,
                  m_sync_worker_pool, m_demod_worker_pool, brokerToBuffer>>
  BY DEF WorkerSyncDone, ServeSync
<1>3. /\ m_work_list' \in Seq(Local_work_info)
      /\ workers_by_fc' \in [Buffers -> [Channels -> [WorkIds -> Nat]]]
      /\ brokerToSync' \in [SyncWorkers -> Seq(WorkerMessage)]
      /\ brokerToRrh' \in [Rrhs -> Seq(RrhMessage)]
  <2>1. I # {} => i \in 1 .. Len(m_work_list)
    BY UndergoingType
  <2>2. CASE I # {} /\ EndWork(i)
    <3> HIDE DEF i
    <3> QED BY <2>1, <2>2, EndWorkType
  <2>3. CASE /\ I # {}
             /\ m_work_list' = [m_work_list EXCEPT ![i] = Recounted(@, -1)]
             /\ UNCHANGED <<workers_by_fc, brokerToSync, brokerToRrh>>
    <3>1. m_work_list[i] \in Local_work_info
      BY <2>1, <2>3, ElementOfSeq DEF BrokerTypeOK
    <3>2. Recounted(m_work_list[i], -1) \in Local_work_info
      BY <3>1, RecountedType
    <3>3. m_work_list' \in Seq(Local_work_info)
      BY <2>1, <2>3, <3>2, ExceptSeq DEF BrokerTypeOK
    <3> QED BY <2>3, <3>3 DEF BrokerTypeOK, SocketsTypeOK
  <2>4. CASE UNCHANGED <<m_work_list, workers_by_fc, brokerToSync, brokerToRrh>>
    BY <2>4 DEF BrokerTypeOK, SocketsTypeOK
  <2> QED BY <2>2, <2>3, <2>4 DEF WorkerSyncDone
<1>4. SocketsTypeOK'
  BY <1>1, <1>2, <1>3 DEF SocketsTypeOK
<1>5. BrokerTypeOK'
  BY <1>2, <1>3 DEF BrokerTypeOK, rrhs
<1> QED BY <1>4, <1>5

(* broker.cpp 412-428, 434-497, for a demodulation worker.                 *)
LEMMA WorkerDemodDoneType ==
  ASSUME SocketsTypeOK, BrokerTypeOK, NEW a \in DemodWorkers, WorkerDemodDone(a)
  PROVE  SocketsTypeOK' /\ BrokerTypeOK'
<1> DEFINE I == UndergoingWorks(Head(demodToBroker[a]).work_id)
           i == First(I)
<1>1. demodToBroker' \in [DemodWorkers -> Seq(DemodMessage)]
  BY ReceiveType DEF WorkerDemodDone, SocketsTypeOK
<1>2. UNCHANGED <<matching, rrhs, m_last_work_id, m_ipc_file_idx, m_sync_worker_pool,
                  m_sync_thread_spawned, undefined, rrhToBroker, rrhToBuffer,
                  bufferToBroker, brokerToBuffer, syncToBroker>>
  BY DEF WorkerDemodDone
<1>3. /\ m_work_list' \in Seq(Local_work_info)
      /\ workers_by_fc' \in [Buffers -> [Channels -> [WorkIds -> Nat]]]
      /\ brokerToSync' \in [SyncWorkers -> Seq(WorkerMessage)]
      /\ brokerToRrh' \in [Rrhs -> Seq(RrhMessage)]
      /\ m_demod_worker_pool' \in Seq(DemodWorkers)
  <2>1. I # {} => i \in 1 .. Len(m_work_list)
    BY UndergoingType
  <2>2. CASE /\ I # {} /\ EndWork(i)
             /\ m_demod_worker_pool' = Append(m_demod_worker_pool,
                                              m_work_list[i].demod_worker_addr)
    <3>1. m_work_list[i] \in Local_work_info
      BY <2>1, <2>2, ElementOfSeq DEF BrokerTypeOK
    <3>2. m_work_list[i].demod_worker_addr \in DemodWorkers
      BY <3>1 DEF Local_work_info
    <3>3. m_demod_worker_pool' \in Seq(DemodWorkers)
      BY <2>2, <3>2, AppendProperties DEF BrokerTypeOK
    <3> HIDE DEF i
    <3> QED BY <2>1, <2>2, <3>3, EndWorkType
  <2>3. CASE UNCHANGED <<m_demod_worker_pool, m_work_list, workers_by_fc,
                         brokerToSync, brokerToRrh>>
    BY <2>3 DEF BrokerTypeOK, SocketsTypeOK
  <2> QED BY <2>2, <2>3 DEF WorkerDemodDone
<1>4. SocketsTypeOK'
  BY <1>1, <1>2, <1>3 DEF SocketsTypeOK
<1>5. BrokerTypeOK'
  BY <1>2, <1>3 DEF BrokerTypeOK, rrhs, matching
<1> QED BY <1>4, <1>5

(* broker.cpp 520-534.                                                     *)
LEMMA KeepAliveType ==
  ASSUME SocketsTypeOK, BrokerTypeOK, KeepAlive
  PROVE  SocketsTypeOK' /\ BrokerTypeOK'
<1>1. /\ brokerToSync' \in [SyncWorkers -> Seq(WorkerMessage)]
      /\ m_sync_worker_pool' \in Seq(SyncWorkers)
  BY KeepWorkersAliveType DEF KeepAlive
<1>2. UNCHANGED <<matching, demods, rrhs, workers_by_fc, m_work_list,
                  m_sync_thread_spawned, undefined, rrhToBroker, brokerToRrh,
                  rrhToBuffer, bufferToBroker, brokerToBuffer, syncToBroker,
                  demodToBroker>>
  BY DEF KeepAlive
<1>3. SocketsTypeOK'
  BY <1>1, <1>2 DEF SocketsTypeOK
<1>4. BrokerTypeOK'
  BY <1>1, <1>2 DEF BrokerTypeOK, rrhs, matching, demods
<1> QED BY <1>3, <1>4

(* Every step of the broker keeps the types.                               *)
LEMMA BrokerType ==
  ASSUME SocketsTypeOK, BrokerTypeOK, BrokerNext
  PROVE  SocketsTypeOK' /\ BrokerTypeOK'
BY RrhRequestType, RegisterBufferType, SpawnForFrameType, ServeFrameType,
   FinishAttributionType, WorkerReadyType, ForwardReplyType, WorkerSyncDoneType,
   WorkerDemodDoneType, KeepAliveType
   DEF BrokerNext, FrontendRrh, FrontendBuffer, Backend

-----------------------------------------------------------------------------
(* Type correctness: the steps of the other components                      *)

(* lora_rx_buffer.cpp: the start and the loop of a buffer.                 *)
LEMMA BufferType ==
  ASSUME SocketsTypeOK, BufferTypeOK, NEW b \in Buffers, BufferStart(b) \/ BufferNext(b)
  PROVE  SocketsTypeOK' /\ BufferTypeOK'
<1>1. CASE BufferStart(b)
  <2>1. BufferReady \in BufferRequest
    BY DEF BufferReady, BufferRequest
  <2>2. bufferToBroker' \in [Buffers -> Seq(BufferRequest)]
    BY <1>1, <2>1, SendType DEF BufferStart, SocketsTypeOK
  <2> QED BY <1>1, <2>2 DEF BufferStart, SocketsTypeOK, BufferTypeOK, BufferStates
<1>2. CASE BufferAcked(b)
  <2>1. brokerToBuffer' \in [Buffers -> Seq({"ACK", "SUBSCRIBED"})]
    BY <1>2, ReceiveType DEF BufferAcked, SocketsTypeOK
  <2> QED BY <1>2, <2>1 DEF BufferAcked, SocketsTypeOK, BufferTypeOK, BufferStates
<1>3. CASE BufferRequestsWorker(b)
  <2>1. rrhToBuffer' \in [Buffers -> Seq(Frame)] /\ Head(rrhToBuffer[b]) \in Frame
    BY <1>3, ReceiveType DEF BufferRequestsWorker, SocketsTypeOK
  <2>2. NewFrame(Head(rrhToBuffer[b])) \in BufferRequest
    BY <2>1 DEF NewFrame, BufferRequest
  <2>3. bufferToBroker' \in [Buffers -> Seq(BufferRequest)]
    BY <1>3, <2>2, SendType DEF BufferRequestsWorker, SocketsTypeOK
  <2>4. m_waiting_for_worker' \in [Buffers -> Int]
    BY <1>3 DEF BufferRequestsWorker, BufferTypeOK
  <2>5. UNCHANGED <<buffer_state, rrhToBroker, brokerToRrh, brokerToBuffer,
                    syncToBroker, brokerToSync, demodToBroker>>
    BY <1>3 DEF BufferRequestsWorker
  <2> QED BY <2>1, <2>3, <2>4, <2>5 DEF SocketsTypeOK, BufferTypeOK
<1>4. CASE BufferSubscribed(b)
  <2>1. brokerToBuffer' \in [Buffers -> Seq({"ACK", "SUBSCRIBED"})]
    BY <1>4, ReceiveType DEF BufferSubscribed, SocketsTypeOK
  <2>2. m_waiting_for_worker' \in [Buffers -> Int]
    BY <1>4 DEF BufferSubscribed, OneLess, BufferTypeOK
  <2>3. UNCHANGED <<buffer_state, rrhToBroker, brokerToRrh, rrhToBuffer,
                    bufferToBroker, syncToBroker, brokerToSync, demodToBroker>>
    BY <1>4 DEF BufferSubscribed
  <2> QED BY <2>1, <2>2, <2>3 DEF SocketsTypeOK, BufferTypeOK
<1> QED BY <1>1, <1>2, <1>3, <1>4 DEF BufferNext

(* A set of frames of one channel changes.                                 *)
LEMMA FrameListType ==
  ASSUME NEW list \in [Channels -> SUBSET Frame], NEW f \in Frame, NEW c, NEW t
  PROVE  /\ Ended(list, c) \in [Channels -> SUBSET Frame]
         /\ Recent(With(list, f), t) \in [Channels -> SUBSET Frame]
<1>1. Ended(list, c) \in [Channels -> SUBSET Frame]
  BY DEF Ended
<1>2. With(list, f) \in [Channels -> SUBSET Frame]
  BY DEF With
<1>3. Recent(With(list, f), t) \in [Channels -> SUBSET Frame]
  BY <1>2 DEF Recent
<1> QED BY <1>1, <1>3


(* rrh_zmq_sink_impl.cc 64-70: the constructor takes the first message of  *)
(* the broker for a buffer's address, which AddressFirst makes it.         *)
LEMMA RrhStartsType ==
  ASSUME SocketsTypeOK, RrhTypeOK, AddressFirst, NEW r \in Rrhs,
         RequestBuffer(r) \/ BufferGranted(r)
  PROVE  SocketsTypeOK' /\ RrhTypeOK'
<1>1. CASE RequestBuffer(r)
  <2>1. NewBuffer \in [type : {"NEW_BUFFER"}]
    BY DEF NewBuffer
  <2>2. rrhToBroker' \in [Rrhs -> Seq([type : {"NEW_BUFFER"}])]
    BY <1>1, <2>1, SendType DEF RequestBuffer, SocketsTypeOK
  <2> QED BY <1>1, <2>2 DEF RequestBuffer, SocketsTypeOK, RrhTypeOK
<1>2. CASE BufferGranted(r)
  <2>1. brokerToRrh' \in [Rrhs -> Seq(RrhMessage)] /\ Head(brokerToRrh[r]) \in RrhMessage
    BY <1>2, ReceiveType DEF BufferGranted, SocketsTypeOK
  <2>2. Head(brokerToRrh[r]).type = "ADDR"
    BY <1>2 DEF BufferGranted, AddressFirst
  <2>3. Head(brokerToRrh[r]).buffer \in Buffers
    BY <2>1, <2>2 DEF RrhMessage
  <2>4. m_buffer_addr' \in [Rrhs -> SUBSET Buffers]
    BY <1>2, <2>3 DEF BufferGranted, RrhTypeOK
  <2> QED BY <1>2, <2>1, <2>4 DEF BufferGranted, SocketsTypeOK, RrhTypeOK
<1> QED BY <1>1, <1>2

(* rrh_zmq_sink_impl.cc 100-311: the loop of an RRH.                       *)
LEMMA RrhWorkType ==
  ASSUME SocketsTypeOK, RrhTypeOK, NEW r \in Rrhs, NEW stop \in BOOLEAN,
         NEW d \in SUBSET Detections,
         stop => brokerToRrh[r] # <<>>, RrhWork(r, stop, d)
  PROVE  SocketsTypeOK' /\ RrhTypeOK'
<1> DEFINE list == IF stop THEN Ended(m_frame_list[r], Head(brokerToRrh[r]).channel)
                           ELSE m_frame_list[r]
<1>1. list \in [Channels -> SUBSET Frame]
  BY DEF RrhTypeOK, Ended
<1>2. brokerToRrh' \in [Rrhs -> Seq(RrhMessage)]
  <2>1. CASE stop
    BY <2>1, ReceiveType DEF RrhWork, SocketsTypeOK
  <2>2. CASE ~stop
    BY <2>2 DEF RrhWork, SocketsTypeOK
  <2> QED BY <2>1, <2>2
<1>3. detected' \in SUBSET Detections
  BY DEF RrhWork, RrhTypeOK
<1>4. /\ m_frame_list' \in [Rrhs -> [Channels -> SUBSET Frame]]
      /\ rrhToBuffer' \in [Buffers -> Seq(Frame)]
  <2>1. CASE m_frame_list' = [m_frame_list EXCEPT ![r] = list] /\ UNCHANGED rrhToBuffer
    <3> HIDE DEF list
    <3> QED BY <1>1, <2>1 DEF RrhTypeOK, SocketsTypeOK
  <2>2. ASSUME NEW e \in d, NEW b \in m_buffer_addr[r],
               m_frame_list' = [m_frame_list EXCEPT ![r] =
                                  Recent(With(list, e.frame), e.frame.time)],
               rrhToBuffer' = Send(rrhToBuffer, b, e.frame)
        PROVE  /\ m_frame_list' \in [Rrhs -> [Channels -> SUBSET Frame]]
               /\ rrhToBuffer' \in [Buffers -> Seq(Frame)]
    <3> HIDE DEF list
    <3>1. e.frame \in Frame
      BY RrhAssumption
    <3>2. b \in Buffers
      BY DEF RrhTypeOK
    <3>3. Recent(With(list, e.frame), e.frame.time) \in [Channels -> SUBSET Frame]
      BY <1>1, <3>1, FrameListType
    <3>4. m_frame_list' \in [Rrhs -> [Channels -> SUBSET Frame]]
      BY <2>2, <3>3 DEF RrhTypeOK
    <3>5. rrhToBuffer' \in [Buffers -> Seq(Frame)]
      BY <2>2, <3>1, <3>2, SendType DEF SocketsTypeOK
    <3> QED BY <3>4, <3>5
  <2> QED BY <2>1, <2>2 DEF RrhWork
<1>5. UNCHANGED <<m_buffer_addr, requested, rrhToBroker, bufferToBroker,
                  brokerToBuffer, syncToBroker, brokerToSync, demodToBroker>>
  BY DEF RrhWork
<1> QED BY <1>2, <1>3, <1>4, <1>5 DEF SocketsTypeOK, RrhTypeOK

(* worker_zmq_source_impl.cc: the start and the loop of a synchronization  *)
(* worker.                                                                 *)
LEMMA ReportType ==
  ASSUME SocketsTypeOK, SyncTypeOK, NEW w \in SyncWorkers,
         \E info \in m_work_info[w] : SendsToBroker(w, Report(info))
  PROVE  syncToBroker' \in [SyncWorkers -> Seq(SyncMessage)]
<1>1. PICK info \in m_work_info[w] : SendsToBroker(w, Report(info))
  OBVIOUS
<1>2. info.work_id \in WorkIds
  BY DEF SyncTypeOK, Work_info
<1>3. SyncDone(info.work_id) \in SyncMessage /\ Ready \in SyncMessage
  BY <1>2 DEF SyncDone, Ready, SyncMessage
<1>4. Report(info) \in Seq(SyncMessage)
  BY <1>3 DEF Report
<1>5. syncToBroker' = [syncToBroker EXCEPT ![w] = @ \o Report(info)]
  BY <1>1 DEF SendsToBroker
<1> QED BY <1>4, <1>5, SendAllType DEF SocketsTypeOK

(* One READY more, when a worker starts, is asked, or is told to end.      *)
LEMMA SendsReadyType ==
  ASSUME SocketsTypeOK, NEW w \in SyncWorkers,
         SendsToBroker(w, <<Ready>>) \/ SendsToBroker(w, <<>>)
  PROVE  syncToBroker' \in [SyncWorkers -> Seq(SyncMessage)]
<1>1. <<Ready>> \in Seq(SyncMessage) /\ <<>> \in Seq(SyncMessage)
  BY DEF Ready, SyncMessage
<1>2. CASE SendsToBroker(w, <<Ready>>)
  BY <1>1, <1>2, SendAllType DEF SendsToBroker, SocketsTypeOK
<1>3. CASE SendsToBroker(w, <<>>)
  BY <1>1, <1>3, SendAllType DEF SendsToBroker, SocketsTypeOK
<1> QED BY <1>2, <1>3

(* worker_zmq_source_impl.cc 185-255: the job becomes the work at hand.    *)
LEMMA SyncJobType ==
  ASSUME SocketsTypeOK, SyncTypeOK, NEW w \in SyncWorkers, SyncJob(w)
  PROVE  SocketsTypeOK' /\ SyncTypeOK'
<1> DEFINE job  == Head(brokerToSync[w])
           info == [work_id |-> job.work_id, demod |-> job.demod, pub |-> job.pub]
<1>1. brokerToSync' \in [SyncWorkers -> Seq(WorkerMessage)] /\ job \in WorkerMessage
  BY ReceiveType DEF SyncJob, Idle, SocketsTypeOK
<1>2. job \in JobMessage
  BY <1>1 DEF SyncJob, WorkerMessage
<1>3. info \in Work_info /\ job.client \in Buffers
  BY <1>2 DEF JobMessage, Work_info
<1>4. /\ m_work_info' = [m_work_info EXCEPT ![w] = {info}]
      /\ m_state' = [m_state EXCEPT ![w] = "WORKING"]
      /\ SendsToBroker(w, <<Subscribed(job.client)>>)
      /\ m_is_new_work' = [m_is_new_work EXCEPT ![w] = TRUE]
      /\ UNCHANGED stream
  BY DEF SyncJob
<1>5. <<Subscribed(job.client)>> \in Seq(SyncMessage)
  BY <1>3 DEF Subscribed, SyncMessage
<1> HIDE DEF job, info
<1>6. syncToBroker' \in [SyncWorkers -> Seq(SyncMessage)]
  BY <1>4, <1>5, SendAllType DEF SendsToBroker, SocketsTypeOK
<1>7. SocketsTypeOK'
  BY <1>1, <1>4, <1>6 DEF SendsToBroker, SocketsTypeOK
<1>8. m_work_info' \in [SyncWorkers -> SUBSET Work_info]
  BY <1>3, <1>4 DEF SyncTypeOK
<1>9. /\ m_state' \in [SyncWorkers -> SyncStates]
      /\ m_is_new_work' \in [SyncWorkers -> BOOLEAN]
      /\ stream' \in [SyncWorkers -> SUBSET Work_info]
  BY <1>4 DEF SyncTypeOK, SyncStates
<1> QED BY <1>7, <1>8, <1>9 DEF SyncTypeOK

(* The other steps of a synchronization worker.                            *)
LEMMA SyncType ==
  ASSUME SocketsTypeOK, SyncTypeOK, NEW w \in SyncWorkers,
         SyncStart(w) \/ SyncNext(w) \/ SyncFirstSamples(w)
  PROVE  SocketsTypeOK' /\ SyncTypeOK'
<1>1. CASE SyncStart(w)
  <2>1. syncToBroker' \in [SyncWorkers -> Seq(SyncMessage)]
    BY <1>1, SendsReadyType DEF SyncStart
  <2> QED BY <1>1, <2>1 DEF SyncStart, SendsToBroker, SocketsTypeOK, SyncTypeOK, SyncStates
<1>2. CASE SyncAck(w) \/ SyncLateDone(w)
  <2>1. syncToBroker' \in [SyncWorkers -> Seq(SyncMessage)]
    BY <1>2, SendsReadyType DEF SyncAck, SyncLateDone
  <2>2. brokerToSync' \in [SyncWorkers -> Seq(WorkerMessage)]
    <3>1. brokerToSync[w] # <<>> /\ brokerToSync' = Receive(brokerToSync, w)
      BY <1>2 DEF SyncAck, SyncLateDone, Idle
    <3> QED BY <3>1, ReceiveType DEF SocketsTypeOK
  <2> QED BY <1>2, <2>1, <2>2
          DEF SyncAck, SyncLateDone, SendsToBroker, SocketsTypeOK, SyncTypeOK, syncVars
<1>3. CASE SyncJob(w)
  BY <1>3, SyncJobType
<1>4. CASE SyncEndOfWork(w)
  <2>1. syncToBroker' \in [SyncWorkers -> Seq(SyncMessage)]
    BY <1>4, SendsReadyType DEF SyncEndOfWork
  <2>2. brokerToSync' \in [SyncWorkers -> Seq(WorkerMessage)]
    <3>1. brokerToSync[w] # <<>> /\ brokerToSync' = Receive(brokerToSync, w)
      BY <1>4 DEF SyncEndOfWork, Told
    <3> QED BY <3>1, ReceiveType DEF SocketsTypeOK
  <2> QED BY <1>4, <2>1, <2>2
          DEF SyncEndOfWork, SendsToBroker, SocketsTypeOK, SyncTypeOK, SyncStates
<1>5. CASE SyncLosesFraming(w)
  <2>1. syncToBroker' \in [SyncWorkers -> Seq(SyncMessage)]
    BY <1>5, ReportType DEF SyncLosesFraming
  <2>2. brokerToSync' \in [SyncWorkers -> Seq(WorkerMessage)]
    <3>1. brokerToSync[w] # <<>> /\ brokerToSync' = Receive(brokerToSync, w)
      BY <1>5 DEF SyncLosesFraming, Told
    <3> QED BY <3>1, ReceiveType DEF SocketsTypeOK
  <2> QED BY <1>5, <2>1, <2>2
          DEF SyncLosesFraming, SendsToBroker, SocketsTypeOK, SyncTypeOK, SyncStates
<1>6. CASE SyncGiveUp(w)
  <2>1. syncToBroker' \in [SyncWorkers -> Seq(SyncMessage)]
    BY <1>6, ReportType DEF SyncGiveUp
  <2> QED BY <1>6, <2>1 DEF SyncGiveUp, SendsToBroker, SocketsTypeOK, SyncTypeOK, SyncStates
<1>7. CASE SyncFirstSamples(w)
  <2>1. stream' \in [SyncWorkers -> SUBSET Work_info]
    BY <1>7 DEF SyncFirstSamples, SyncTypeOK
  <2> QED BY <1>7, <2>1 DEF SyncFirstSamples, SocketsTypeOK, SyncTypeOK, sockets
<1> QED BY <1>1, <1>2, <1>3, <1>4, <1>5, <1>6, <1>7 DEF SyncNext

(* rx_combining and worker_zmq_sink.                                       *)
LEMMA FrameFoundType ==
  ASSUME SocketsTypeOK, SyncTypeOK, DemodTypeOK, NEW w \in SyncWorkers, FrameFound(w)
  PROVE  SocketsTypeOK' /\ SyncTypeOK' /\ DemodTypeOK'
<1>1. PICK info \in stream[w] :
        /\ stream' = [stream EXCEPT ![w] = {}]
        /\ combining' = [combining EXCEPT ![info.demod] = IF @ = {} THEN {info.work_id} ELSE @]
        /\ UNCHANGED <<m_state, m_work_info, m_is_new_work, sockets>>
  BY DEF FrameFound
<1>2. info.demod \in DemodWorkers /\ info.work_id \in WorkIds
  BY DEF SyncTypeOK, Work_info
<1>3. combining' \in [DemodWorkers -> SUBSET WorkIds]
  BY <1>1, <1>2 DEF DemodTypeOK
<1>4. stream' \in [SyncWorkers -> SUBSET Work_info]
  BY <1>1 DEF SyncTypeOK
<1>5. SocketsTypeOK'
  BY <1>1 DEF SocketsTypeOK, sockets
<1> QED BY <1>1, <1>3, <1>4, <1>5 DEF SyncTypeOK, DemodTypeOK

(* A demodulation worker that reports a work done keeps the types: the id  *)
(* is that of a work.                                                      *)
LEMMA FrameDecodedType ==
  ASSUME SocketsTypeOK, SyncTypeOK, DemodTypeOK, NEW a \in DemodWorkers, FrameDecoded(a)
  PROVE  SocketsTypeOK' /\ SyncTypeOK' /\ DemodTypeOK'
<1>1. PICK id \in combining[a] :
        /\ combining' = [combining EXCEPT ![a] = {}]
        /\ demodToBroker' = Send(demodToBroker, a, DemodDone(id))
        /\ UNCHANGED <<syncVars, rrhToBroker, brokerToRrh, rrhToBuffer,
                       bufferToBroker, brokerToBuffer, syncToBroker, brokerToSync>>
  BY DEF FrameDecoded
<1>2. DemodDone(id) \in DemodMessage
  BY DEF DemodTypeOK, DemodDone, DemodMessage
<1>3. demodToBroker' \in [DemodWorkers -> Seq(DemodMessage)]
  BY <1>1, <1>2, SendType DEF SocketsTypeOK
<1>4. combining' \in [DemodWorkers -> SUBSET WorkIds]
  BY <1>1 DEF DemodTypeOK
<1>5. SocketsTypeOK'
  BY <1>1, <1>3 DEF SocketsTypeOK
<1>6. SyncTypeOK'
  BY <1>1 DEF SyncTypeOK, syncVars
<1> QED BY <1>4, <1>5, <1>6 DEF DemodTypeOK

-----------------------------------------------------------------------------
(* The address of an RRH's buffer comes first                               *)

(* The variables that AddressFirst is about.                               *)
addressing == <<m_buffer_addr, m_buffer_list, brokerToRrh>>

(* A queue that is not empty keeps its head when messages are added.       *)
LEMMA HeadStays ==
  ASSUME NEW M, NEW s \in Seq(M), NEW t \in Seq(M), s # <<>>
  PROVE  s \o t # <<>> /\ Head(s \o t) = Head(s)
<1>1. Len(s) \in Nat /\ Len(s) > 0 /\ Len(t) \in Nat
  BY EmptySeq, LenProperties
<1>2. /\ s \o t \in Seq(M)
      /\ Len(s \o t) = Len(s) + Len(t)
      /\ (s \o t)[1] = s[1]
  BY <1>1, ConcatProperties
<1>3. s \o t # <<>>
  BY <1>1, <1>2, EmptySeq
<1>4. Head(s \o t) = (s \o t)[1] /\ Head(s) = s[1]
  BY <1>2, <1>3
<1> QED BY <1>2, <1>3, <1>4

(* broker.cpp 455-485: stops go to RRHs with a buffer only.                *)
LEMMA EndWorkAddress ==
  ASSUME SocketsTypeOK, BrokerTypeOK, AddressFirst,
         NEW i \in 1 .. Len(m_work_list), EndWork(i),
         UNCHANGED <<m_buffer_addr, m_buffer_list>>
  PROVE  AddressFirst'
<1> DEFINE work == m_work_list[i]
           stops(r) == [j \in 1 .. StopsFor(r, work) |-> Stop(work.channel_id)]
<1>1. brokerToRrh' = [r \in Rrhs |-> brokerToRrh[r] \o stops(r)]
  BY DEF EndWork
<1>2. work \in Local_work_info
  BY ElementOfSeq DEF BrokerTypeOK
<1>3. ASSUME NEW r \in Rrhs PROVE stops(r) \in Seq(RrhMessage)
  <2>1. Stop(work.channel_id) \in RrhMessage
    BY <1>2 DEF Stop, RrhMessage, Local_work_info
  <2>2. StopsFor(r, work) \in Nat
    BY <1>2, StreamsType
  <2> QED BY <2>1, <2>2, CopiesType
<1>4. ASSUME NEW r \in Rrhs, m_buffer_addr[r] = {}
      PROVE  /\ brokerToRrh'[r] # <<>> => Head(brokerToRrh'[r]).type = "ADDR"
             /\ (\E b \in DOMAIN m_buffer_list : m_buffer_list[b] = r) => brokerToRrh'[r] # <<>>
  <2>1. brokerToRrh'[r] = brokerToRrh[r] \o stops(r)
    BY <1>1
  <2>2. CASE brokerToRrh[r] # <<>>
    <3>1. brokerToRrh'[r] # <<>> /\ Head(brokerToRrh'[r]) = Head(brokerToRrh[r])
      <4> HIDE DEF stops
      <4> QED BY <1>3, <2>1, <2>2, HeadStays DEF SocketsTypeOK
    <3> QED BY <1>4, <2>2, <3>1 DEF AddressFirst
  <2>3. CASE brokerToRrh[r] = <<>>
    <3>1. ~ \E b \in DOMAIN m_buffer_list : m_buffer_list[b] = r
      BY <1>4, <2>3 DEF AddressFirst
    <3>2. StopsFor(r, work) = 0
      BY <3>1 DEF StopsFor
    <3>3. stops(r) = <<>>
      BY <3>2
    <3>4. brokerToRrh'[r] = <<>>
      BY <2>1, <2>3, <3>3
    <3> QED BY <3>1, <3>4
  <2> QED BY <2>2, <2>3
<1> QED BY <1>4 DEF AddressFirst

(* broker.cpp 280-297: the RRH that gets a buffer is sent its address.     *)
LEMMA RegisterBufferAddress ==
  ASSUME SocketsTypeOK, BrokerTypeOK, AddressFirst, NEW b \in Buffers, RegisterBuffer(b),
         UNCHANGED m_buffer_addr
  PROVE  AddressFirst'
<1> DEFINE rrh == Head(m_rrh_list)
<1>1. rrh \in Rrhs
  BY HeadTailProperties DEF RegisterBuffer, BrokerTypeOK
<1>2. /\ brokerToRrh' = Send(brokerToRrh, rrh, BufferAddr(b))
      /\ m_buffer_list' = [x \in DOMAIN m_buffer_list \cup {b} |->
                             IF x = b THEN rrh ELSE m_buffer_list[x]]
  BY DEF RegisterBuffer
<1> HIDE DEF rrh
<1>3. BufferAddr(b) \in RrhMessage /\ BufferAddr(b).type = "ADDR"
  BY DEF BufferAddr, RrhMessage
<1>4. ASSUME NEW r \in Rrhs, m_buffer_addr[r] = {}
      PROVE  /\ brokerToRrh'[r] # <<>> => Head(brokerToRrh'[r]).type = "ADDR"
             /\ (\E x \in DOMAIN m_buffer_list' : m_buffer_list'[x] = r)
                  => brokerToRrh'[r] # <<>>
  <2>1. CASE r = rrh
    <3>1. brokerToRrh'[r] = Append(brokerToRrh[r], BufferAddr(b))
      BY <1>1, <1>2, <2>1 DEF Send, SocketsTypeOK
    <3>2. brokerToRrh[r] \in Seq(RrhMessage)
      BY DEF SocketsTypeOK
    <3>3. brokerToRrh'[r] = brokerToRrh[r] \o <<BufferAddr(b)>>
      BY <1>3, <3>1, <3>2, AppendIsConcat
    <3>4. <<BufferAddr(b)>> \in Seq(RrhMessage)
      BY <1>3
    <3>5. CASE brokerToRrh[r] # <<>>
      <4>1. brokerToRrh'[r] # <<>> /\ Head(brokerToRrh'[r]) = Head(brokerToRrh[r])
        BY <3>2, <3>3, <3>4, <3>5, HeadStays
      <4> QED BY <1>4, <3>5, <4>1 DEF AddressFirst
    <3>6. CASE brokerToRrh[r] = <<>>
      <4>1. brokerToRrh'[r] = <<BufferAddr(b)>>
        BY <3>1, <3>6
      <4> QED BY <1>3, <4>1
    <3> QED BY <3>5, <3>6
  <2>2. CASE r # rrh
    <3>1. brokerToRrh'[r] = brokerToRrh[r]
      BY <1>2, <2>2 DEF Send, SocketsTypeOK
    <3>2. (\E x \in DOMAIN m_buffer_list' : m_buffer_list'[x] = r)
            => \E x \in DOMAIN m_buffer_list : m_buffer_list[x] = r
      BY <1>2, <2>2
    <3> QED BY <1>4, <3>1, <3>2 DEF AddressFirst
  <2> QED BY <2>1, <2>2
<1> QED BY <1>4 DEF AddressFirst

(* The steps of an RRH: it is the only one to read its pipe.               *)
LEMMA RrhAddress ==
  ASSUME SocketsTypeOK, RrhTypeOK, AddressFirst, NEW r \in Rrhs,
         RrhStarts(r) \/ RrhStep(r)
  PROVE  AddressFirst'
<1>1. UNCHANGED m_buffer_list
  BY DEF RrhStarts, RrhStep, brokerVars
<1>2. \A q \in Rrhs \ {r} : /\ brokerToRrh'[q] = brokerToRrh[q]
                            /\ m_buffer_addr'[q] = m_buffer_addr[q]
  BY DEF RrhStarts, RrhStep, RequestBuffer, BufferGranted, RrhStops, RrhDetects,
         RrhWork, Receive, SocketsTypeOK, RrhTypeOK
<1>3. \/ m_buffer_addr'[r] # {}
      \/ UNCHANGED <<m_buffer_addr, brokerToRrh>>
  <2>1. CASE RequestBuffer(r)
    BY <2>1 DEF RequestBuffer
  <2>2. CASE BufferGranted(r)
    BY <2>2 DEF BufferGranted, RrhTypeOK
  <2>3. CASE RrhStops(r) \/ RrhDetects(r)
    BY <2>3 DEF RrhStops, RrhDetects, RrhWork
  <2> QED BY <2>1, <2>2, <2>3 DEF RrhStarts, RrhStep
<1> QED BY <1>1, <1>2, <1>3 DEF AddressFirst

(* The steps of the broker.                                                *)
LEMMA BrokerAddress ==
  ASSUME SocketsTypeOK, BrokerTypeOK, AddressFirst, BrokerNext,
         UNCHANGED m_buffer_addr
  PROVE  AddressFirst'
<1>1. ASSUME NEW b \in Buffers, RegisterBuffer(b) PROVE AddressFirst'
  BY <1>1, RegisterBufferAddress
<1>2. ASSUME NEW w \in SyncWorkers, WorkerSyncDone(w) PROVE AddressFirst'
  <2> DEFINE I == UndergoingWorks(Head(syncToBroker[w]).work_id)
             i == First(I)
  <2>1. UNCHANGED m_buffer_list
    BY <1>2 DEF WorkerSyncDone, ServeSync, rrhs
  <2>2. I # {} => i \in 1 .. Len(m_work_list)
    BY UndergoingType
  <2>3. (I # {} /\ EndWork(i)) \/ UNCHANGED brokerToRrh
    BY <1>2 DEF WorkerSyncDone
  <2> HIDE DEF I, i
  <2>4. CASE UNCHANGED brokerToRrh
    BY <2>1, <2>4 DEF AddressFirst
  <2> QED BY <2>1, <2>2, <2>3, <2>4, EndWorkAddress
<1>3. ASSUME NEW a \in DemodWorkers, WorkerDemodDone(a) PROVE AddressFirst'
  <2> DEFINE I == UndergoingWorks(Head(demodToBroker[a]).work_id)
             i == First(I)
  <2>1. UNCHANGED m_buffer_list
    BY <1>3 DEF WorkerDemodDone, rrhs
  <2>2. I # {} => i \in 1 .. Len(m_work_list)
    BY UndergoingType
  <2>3. (I # {} /\ EndWork(i)) \/ UNCHANGED brokerToRrh
    BY <1>3 DEF WorkerDemodDone
  <2> HIDE DEF I, i
  <2>4. CASE UNCHANGED brokerToRrh
    BY <2>1, <2>4 DEF AddressFirst
  <2> QED BY <2>1, <2>2, <2>3, <2>4, EndWorkAddress
<1>4. CASE \/ FrontendRrh \/ FinishAttribution \/ KeepAlive
           \/ \E b \in Buffers : SpawnForFrame(b) \/ ServeFrame(b)
           \/ \E w \in SyncWorkers : WorkerReady(w) \/ ForwardReply(w)
  <2>1. UNCHANGED <<m_buffer_list, brokerToRrh>>
    BY <1>4 DEF FrontendRrh, RrhRequest, FinishAttribution, KeepAlive, SpawnForFrame,
                ServeFrame, WorkerReady, ForwardReply, ServeSync, rrhs
  <2> QED BY <2>1 DEF AddressFirst
<1> QED BY <1>1, <1>2, <1>3, <1>4 DEF BrokerNext, FrontendBuffer, Backend

(* Every step of the system keeps AddressFirst.                            *)
LEMMA AddressStep ==
  ASSUME TypeOK, AddressFirst, [Next]_vars
  PROVE  AddressFirst'
<1>1. CASE BrokerStep
  BY <1>1, BrokerAddress DEF BrokerStep, TypeOK, rrhVars
<1>2. ASSUME NEW r \in Rrhs, RrhStarts(r) \/ RrhStep(r) PROVE AddressFirst'
  BY <1>2, RrhAddress DEF TypeOK
<1>3. CASE \/ \E b \in Buffers : StartBuffer(b) \/ BufferStep(b)
           \/ \E w \in SyncWorkers : StartSync(w) \/ SyncStep(w)
           \/ DemodStep
           \/ UNCHANGED vars
  <2>1. UNCHANGED addressing
    BY <1>3 DEF StartBuffer, BufferStep, StartSync, SyncStep, DemodStep, BufferStart,
                BufferNext, BufferAcked, BufferRequestsWorker, BufferSubscribed,
                SyncStart, SyncNext, SyncAck, SyncLateDone, SyncJob, SyncEndOfWork,
                SyncLosesFraming, SyncGiveUp, SyncFirstSamples, SendsToBroker,
                FrameFound, FrameDecoded, addressing, brokerVars, rrhVars, sockets, vars
  <2> QED BY <2>1 DEF AddressFirst, addressing
<1> QED BY <1>1, <1>2, <1>3 DEF Next

-----------------------------------------------------------------------------
(* Type correctness of the system                                           *)

(* Every step keeps the types.                                             *)
LEMMA TypeStep ==
  ASSUME TypeOK, AddressFirst, [Next]_vars
  PROVE  TypeOK'
<1> USE DEF TypeOK
<1>1. CASE BrokerStep
  <2>1. SocketsTypeOK' /\ BrokerTypeOK'
    BY <1>1, BrokerType DEF BrokerStep
  <2>2. UNCHANGED <<bufferVars, rrhVars, syncVars, combining>>
    BY <1>1 DEF BrokerStep
  <2> QED BY <2>1, <2>2 DEF BufferTypeOK, RrhTypeOK, SyncTypeOK, DemodTypeOK,
                            bufferVars, rrhVars, syncVars
<1>2. ASSUME NEW b \in Buffers, StartBuffer(b) \/ BufferStep(b) PROVE TypeOK'
  <2>1. SocketsTypeOK' /\ BufferTypeOK'
    BY <1>2, BufferType DEF StartBuffer, BufferStep
  <2>2. UNCHANGED <<brokerVars, rrhVars, syncVars, combining>>
    BY <1>2 DEF StartBuffer, BufferStep
  <2> QED BY <2>1, <2>2 DEF BrokerTypeOK, RrhTypeOK, SyncTypeOK, DemodTypeOK,
                            brokerVars, rrhVars, syncVars
<1>3. ASSUME NEW w \in SyncWorkers, StartSync(w) \/ SyncStep(w) PROVE TypeOK'
  <2>1. SocketsTypeOK' /\ SyncTypeOK'
    BY <1>3, SyncType DEF StartSync, SyncStep
  <2>2. UNCHANGED <<brokerVars, bufferVars, rrhVars, combining>>
    BY <1>3 DEF StartSync, SyncStep
  <2> QED BY <2>1, <2>2 DEF BrokerTypeOK, BufferTypeOK, RrhTypeOK, DemodTypeOK,
                            brokerVars, bufferVars, rrhVars
<1>4. ASSUME NEW r \in Rrhs, RrhStarts(r) PROVE TypeOK'
  <2>1. SocketsTypeOK' /\ RrhTypeOK'
    BY <1>4, RrhStartsType DEF RrhStarts
  <2>2. UNCHANGED <<brokerVars, bufferVars, syncVars, combining>>
    BY <1>4 DEF RrhStarts
  <2> QED BY <2>1, <2>2 DEF BrokerTypeOK, BufferTypeOK, SyncTypeOK, DemodTypeOK,
                            brokerVars, bufferVars, syncVars
<1>5. ASSUME NEW r \in Rrhs, RrhStep(r) PROVE TypeOK'
  <2>1. SocketsTypeOK' /\ RrhTypeOK'
    <3>1. CASE RrhStops(r)
      <4>1. brokerToRrh[r] # <<>> /\ RrhWork(r, TRUE, {})
        BY <3>1 DEF RrhStops
      <4> QED BY <4>1, RrhWorkType
    <3>2. CASE RrhDetects(r)
      <4>1. PICK d \in NextDetections(r) :
              \/ RrhWork(r, FALSE, {d})
              \/ brokerToRrh[r] # <<>> /\ RrhWork(r, TRUE, {d})
        BY <3>2 DEF RrhDetects
      <4>2. {d} \in SUBSET Detections
        BY DEF NextDetections
      <4> QED BY <4>1, <4>2, RrhWorkType
    <3> QED BY <1>5, <3>1, <3>2 DEF RrhStep
  <2>2. UNCHANGED <<brokerVars, bufferVars, syncVars, combining>>
    BY <1>5 DEF RrhStep
  <2> QED BY <2>1, <2>2 DEF BrokerTypeOK, BufferTypeOK, SyncTypeOK, DemodTypeOK,
                            brokerVars, bufferVars, syncVars
<1>6. CASE DemodStep
  <2>1. SocketsTypeOK' /\ SyncTypeOK' /\ DemodTypeOK'
    BY <1>6, FrameFoundType, FrameDecodedType DEF DemodStep
  <2>2. UNCHANGED <<brokerVars, bufferVars, rrhVars>>
    BY <1>6 DEF DemodStep
  <2> QED BY <2>1, <2>2 DEF BrokerTypeOK, BufferTypeOK, RrhTypeOK,
                            brokerVars, bufferVars, rrhVars
<1>7. CASE UNCHANGED vars
  BY <1>7 DEF SocketsTypeOK, BrokerTypeOK, BufferTypeOK, RrhTypeOK, SyncTypeOK,
              DemodTypeOK, vars, sockets, brokerVars, bufferVars, rrhVars, syncVars
<1> QED BY <1>1, <1>2, <1>3, <1>4, <1>5, <1>6, <1>7 DEF Next

(* The invariant that carries the theorems.                                *)
TypeInv == TypeOK /\ AddressFirst

(* The invariant of the system: its types, and that an RRH reads its       *)
(* buffer's address before any stop. Init establishes it and every step    *)
(* keeps it.                                                               *)
LEMMA TypeInvariant == Spec => []TypeInv
<1>1. Init => TypeInv
  <2>1. Init => AddressFirst
    BY DEF Init, SocketsInit, BrokerInit, AddressFirst
  <2> QED BY <2>1, InitType DEF TypeInv
<1>2. TypeInv /\ [Next]_vars => TypeInv'
  BY TypeStep, AddressStep DEF TypeInv
<1> QED BY <1>1, <1>2, PTL DEF Spec

(* Every variable keeps its type: in particular, an RRH only ever streams  *)
(* to a buffer, work ids stay within 16 bits, and every job, reply and     *)
(* stop names a work, buffer and channel that exist.                       *)
THEOREM TypeCorrect == Spec => []TypeOK
BY TypeInvariant, PTL DEF TypeInv

(* rrh_zmq_sink_impl.cc 66-70: whatever the order in which the RRHs ask    *)
(* and frames come and go, an RRH reads the address of its buffer first.   *)
THEOREM AddressComesFirst == Spec => []AddressFirst
BY TypeInvariant, PTL DEF TypeInv

-----------------------------------------------------------------------------
(* The broker stays aligned with the request it has read in part            *)

(* The variables that AttributionAligned is about.                         *)
attribution == <<matching, m_sync_worker_pool>>

(* While a request is pending the pool is neither cleared nor handed out.  *)
LEMMA AlignedBroker ==
  ASSUME BrokerTypeOK, AttributionAligned, BrokerNext
  PROVE  AttributionAligned'
<1> USE DEF AttributionAligned
<1>1. CASE FrontendRrh
  <2>1. UNCHANGED matching
    BY <1>1 DEF FrontendRrh, RrhRequest
  <2>2. pending = <<>> \/ UNCHANGED m_sync_worker_pool
    BY <1>1 DEF FrontendRrh, RrhRequest
  <2> QED BY <2>1, <2>2 DEF matching
<1>2. ASSUME NEW b \in Buffers, RegisterBuffer(b) PROVE AttributionAligned'
  BY <1>2 DEF RegisterBuffer, matching
<1>3. ASSUME NEW b \in Buffers, SpawnForFrame(b) PROVE AttributionAligned'
  <2>1. PICK q : pending' = <<q>>
    BY <1>3 DEF SpawnForFrame
  <2>2. Len(pending') = 1 /\ pending' # <<>>
    BY <2>1
  <2>3. continue_worker_attr' = TRUE /\ wait_sync_worker_spawn' = TRUE
    BY <1>3 DEF SpawnForFrame
  <2> QED BY <2>2, <2>3
<1>4. ASSUME NEW b \in Buffers, ServeFrame(b) PROVE AttributionAligned'
  BY <1>4 DEF ServeFrame, AnnouncesFrame, matching
<1>5. CASE FinishAttribution
  <2>1. wait_sync_worker_spawn' = FALSE
    BY <1>5 DEF FinishAttribution, ServesBuffers, BrokerTypeOK
  <2>2. \/ continue_worker_attr' = FALSE /\ pending' = <<>>
        \/ UNCHANGED <<continue_worker_attr, pending, m_sync_worker_pool>>
    BY <1>5 DEF FinishAttribution
  <2>3. m_sync_worker_pool # <<>>
    BY <1>5 DEF FinishAttribution
  <2>4. CASE continue_worker_attr' = FALSE /\ pending' = <<>>
    <3>1. Len(pending') = 0
      BY <2>4
    <3> QED BY <2>1, <2>4, <3>1
  <2> QED BY <2>1, <2>2, <2>3, <2>4
<1>6. ASSUME NEW w \in SyncWorkers, WorkerReady(w) PROVE AttributionAligned'
  <2>1. /\ m_sync_worker_pool' = Append(m_sync_worker_pool, w)
        /\ wait_sync_worker_spawn' = FALSE
        /\ UNCHANGED <<continue_worker_attr, pending>>
    BY <1>6 DEF WorkerReady, WorkerSpawned, ServeSync
  <2>2. m_sync_worker_pool' # <<>>
    <3> DEFINE pool == m_sync_worker_pool
    <3>1. pool \in Seq(SyncWorkers)
      BY DEF BrokerTypeOK
    <3> HIDE DEF pool
    <3>2. Append(pool, w) # <<>>
      BY <3>1
    <3> QED BY <2>1, <3>2 DEF pool
  <2> QED BY <2>1, <2>2
<1>7. CASE \/ \E w \in SyncWorkers : ForwardReply(w) \/ WorkerSyncDone(w)
           \/ \E a \in DemodWorkers : WorkerDemodDone(a)
  <2>1. UNCHANGED attribution
    BY <1>7 DEF ForwardReply, WorkerSyncDone, WorkerDemodDone, ServeSync, matching,
                attribution
  <2> QED BY <2>1 DEF attribution, matching
<1>8. CASE KeepAlive
  <2>1. UNCHANGED matching /\ pending = <<>>
    BY <1>8 DEF KeepAlive, SomethingToServe
  <2> QED BY <2>1 DEF matching
<1> QED BY <1>1, <1>2, <1>3, <1>4, <1>5, <1>6, <1>7, <1>8
        DEF BrokerNext, FrontendBuffer, Backend

(* broker.cpp 266-382: the flags of the loop say exactly what has been     *)
(* read of a request, and a worker is at hand when the loop goes on with   *)
(* one, however workers, RRHs and time-outs come in between.               *)
THEOREM AttributionStaysAligned == Spec => []AttributionAligned
<1>1. Init => AttributionAligned
  BY DEF Init, BrokerInit, AttributionAligned
<1>2. TypeInv /\ AttributionAligned /\ [Next]_vars => AttributionAligned'
  <2> SUFFICES ASSUME TypeInv, AttributionAligned, [Next]_vars
               PROVE  AttributionAligned'
    OBVIOUS
  <2>1. CASE BrokerStep
    BY <2>1, AlignedBroker DEF BrokerStep, TypeInv, TypeOK
  <2>2. CASE ~BrokerStep
    <3>1. UNCHANGED brokerVars
      BY <2>2 DEF Next, StartBuffer, BufferStep, StartSync, SyncStep, RrhStarts, RrhStep,
                  DemodStep, vars
    <3>2. UNCHANGED attribution
      BY <3>1 DEF attribution, matching, brokerVars
    <3> QED BY <3>2 DEF AttributionAligned, attribution, matching
  <2> QED BY <2>1, <2>2
<1> QED BY <1>1, <1>2, TypeInvariant, PTL DEF Spec

-----------------------------------------------------------------------------
(***************************************************************************)
(* The broker and its workers.  No demodulation worker ever serves two     *)
(* works (DemodExclusive), a synchronization worker holds the right to one *)
(* job at a time (OneTokenPerWorker), and is told of the end of every work *)
(* it has a job of (NoOrphanJob).  Each part first says what becomes of    *)
(* the addresses, tokens or promises when a queue or a list changes, and   *)
(* then follows the steps of the broker and of the workers.                *)
(***************************************************************************)

(* The address of every work of a list.                                    *)
Addresses(works) == [i \in DOMAIN works |-> works[i].demod_worker_addr]

(* The pool P, the addresses A in use and the number n of addresses given. *)
Apart(P, A, n) ==
  /\ \A i, j \in DOMAIN P : P[i] = P[j] => i = j
  /\ \A i, j \in DOMAIN A : A[i] = A[j] => i = j
  /\ \A i \in DOMAIN P, j \in DOMAIN A : P[i] # A[j]
  /\ \A i \in DOMAIN P : P[i] < n
  /\ \A i \in DOMAIN A : A[i] < n

(* A sequence without its i-th element.                                    *)
Without(s, i) == [j \in 1 .. (Len(s) - 1) |-> IF j < i THEN s[j] ELSE s[j + 1]]

DemodsApart == Apart(m_demod_worker_pool, Addresses(m_work_list), m_ipc_file_idx)

(* DemodExclusive speaks of nothing but these addresses.                   *)
LEMMA ExclusiveIsApart == DemodExclusive <=> DemodsApart
BY DEF DemodExclusive, DemodsApart, Apart, Addresses

-----------------------------------------------------------------------------
(* Moves of addresses that keep them apart                                  *)

(* The head of the pool goes to a new work.                                *)
LEMMA ReuseApart ==
  ASSUME NEW P \in Seq(Nat), NEW A \in Seq(Nat), NEW n \in Nat,
         P # <<>>, Apart(P, A, n)
  PROVE  Apart(Tail(P), Append(A, Head(P)), n)
<1> DEFINE T == Tail(P)
           B == Append(A, Head(P))
           p == Len(P)
           a == Len(A)
<1>1. p \in Nat /\ a \in Nat /\ p > 0
  BY EmptySeq, LenProperties
<1>2. DOMAIN P = 1 .. p /\ DOMAIN A = 1 .. a
  BY LenProperties
<1>3. DOMAIN T = 1 .. (p - 1) /\ \A i \in 1 .. (p - 1) : T[i] = P[i + 1]
  <2>1. Len(T) = p - 1 /\ T \in Seq(Nat)
    BY HeadTailProperties
  <2>2. \A i \in 1 .. Len(T) : T[i] = P[i + 1]
    BY HeadTailProperties
  <2> QED BY <2>1, <2>2, LenProperties
<1>4. /\ DOMAIN B = 1 .. (a + 1)
      /\ B[a + 1] = P[1]
      /\ \A i \in 1 .. a : B[i] = A[i]
  BY <1>1, AppendProperties, LenProperties, HeadTailProperties
<1>5. \A i, j \in 1 .. p : P[i] = P[j] => i = j
  BY <1>2 DEF Apart
<1>6. \A i, j \in 1 .. a : A[i] = A[j] => i = j
  BY <1>2 DEF Apart
<1>7. \A i \in 1 .. p, j \in 1 .. a : P[i] # A[j]
  BY <1>2 DEF Apart
<1>8. (\A i \in 1 .. p : P[i] < n) /\ (\A i \in 1 .. a : A[i] < n)
  BY <1>2 DEF Apart
<1> HIDE DEF T, B, p, a
<1>9. \A i \in DOMAIN T : i + 1 \in 1 .. p /\ i + 1 # 1 /\ T[i] = P[i + 1]
  BY <1>1, <1>3
<1>a. ASSUME NEW i \in DOMAIN T, NEW j \in DOMAIN T, T[i] = T[j] PROVE i = j
  <2>1. P[i + 1] = P[j + 1]
    BY <1>a, <1>9
  <2>2. i + 1 = j + 1
    BY <1>5, <1>9, <2>1
  <2>3. i \in Int /\ j \in Int
    BY <1>3
  <2> QED BY <2>2, <2>3
<1>b. ASSUME NEW j \in DOMAIN B
      PROVE  (j \in 1 .. a /\ B[j] = A[j]) \/ (j = a + 1 /\ B[j] = P[1])
  BY <1>1, <1>4
<1>c. 1 \in 1 .. p
  BY <1>1
<1>10. \A i, j \in DOMAIN B : B[i] = B[j] => i = j
  BY <1>1, <1>4, <1>6, <1>7
<1>11. \A i \in DOMAIN T, j \in DOMAIN B : T[i] # B[j]
  <2> TAKE i \in DOMAIN T, j \in DOMAIN B
  <2>1. P[i + 1] # P[1]
    BY <1>5, <1>9, <1>c
  <2> QED BY <1>7, <1>9, <1>b, <2>1
<1>12. (\A i \in DOMAIN T : T[i] < n) /\ (\A i \in DOMAIN B : B[i] < n)
  BY <1>8, <1>9, <1>b, <1>c
<1> QED BY <1>a, <1>10, <1>11, <1>12 DEF Apart, T, B

(* The pool is empty and a worker with the next address is spawned.        *)
LEMMA SpawnApart ==
  ASSUME NEW A \in Seq(Nat), NEW n \in Nat, Apart(<<>>, A, n)
  PROVE  Apart(<<>>, Append(A, n), n + 1)
<1> DEFINE B == Append(A, n)
           a == Len(A)
<1>1. a \in Nat /\ DOMAIN A = 1 .. a
  BY LenProperties
<1>2. DOMAIN B = 1 .. (a + 1) /\ B[a + 1] = n /\ \A i \in 1 .. a : B[i] = A[i]
  BY <1>1, AppendProperties, LenProperties
<1>3. /\ \A i, j \in 1 .. a : A[i] = A[j] => i = j
      /\ \A i \in 1 .. a : A[i] < n /\ A[i] \in Nat
  BY <1>1, ElementOfSeq DEF Apart
<1> HIDE DEF B, a
<1>4. \A i, j \in DOMAIN B : B[i] = B[j] => i = j
  BY <1>1, <1>2, <1>3
<1>5. \A i \in DOMAIN B : B[i] < n + 1
  BY <1>1, <1>2, <1>3
<1> QED BY <1>4, <1>5 DEF Apart, B

(* A work ends, and its address is lost or goes back to the pool.          *)
LEMMA EndApart ==
  ASSUME NEW P \in Seq(Nat), NEW A \in Seq(Nat), NEW n \in Nat,
         NEW i \in 1 .. Len(A), Apart(P, A, n)
  PROVE  /\ Apart(P, Without(A, i), n)
         /\ Apart(Append(P, A[i]), Without(A, i), n)
<1> DEFINE B == Without(A, i)
           Q == Append(P, A[i])
           p == Len(P)
           a == Len(A)
<1>1. p \in Nat /\ a \in Nat /\ DOMAIN P = 1 .. p /\ DOMAIN A = 1 .. a
  BY LenProperties
<1>2. A[i] \in Nat
  BY <1>1, ElementOfSeq
<1>3. DOMAIN Q = 1 .. (p + 1) /\ Q[p + 1] = A[i] /\ \A k \in 1 .. p : Q[k] = P[k]
  BY <1>1, <1>2, AppendProperties, LenProperties
<1>4. /\ DOMAIN B = 1 .. (a - 1)
      /\ \A k \in 1 .. (a - 1) : B[k] = IF k < i THEN A[k] ELSE A[k + 1]
  BY DEF Without
<1>5. /\ \A k, j \in 1 .. p : P[k] = P[j] => k = j
      /\ \A k, j \in 1 .. a : A[k] = A[j] => k = j
      /\ \A k \in 1 .. p, j \in 1 .. a : P[k] # A[j]
      /\ \A k \in 1 .. p : P[k] < n
      /\ \A k \in 1 .. a : A[k] < n
  BY <1>1 DEF Apart
<1>6. i \in 1 .. a
  OBVIOUS
<1> HIDE DEF B, Q, p, a
<1>7. \A k \in 1 .. (a - 1) : \E j \in 1 .. a : j # i /\ B[k] = A[j]
                                  /\ j = IF k < i THEN k ELSE k + 1
  <2> SUFFICES ASSUME NEW k \in 1 .. (a - 1)
               PROVE  \E j \in 1 .. a : j # i /\ B[k] = A[j]
                                       /\ j = IF k < i THEN k ELSE k + 1
    OBVIOUS
  <2> DEFINE x == IF k < i THEN k ELSE k + 1
  <2>1. x \in 1 .. a /\ x # i
    BY <1>1, <1>6
  <2>2. B[k] = A[x]
    BY <1>4
  <2> QED  BY <2>1, <2>2
<1>8. ASSUME NEW k \in DOMAIN B, NEW j \in DOMAIN B, B[k] = B[j] PROVE k = j
  <2> DEFINE x == IF k < i THEN k ELSE k + 1
             y == IF j < i THEN j ELSE j + 1
  <2>1. x \in 1 .. a /\ y \in 1 .. a /\ B[k] = A[x] /\ B[j] = A[y]
    BY <1>4, <1>7
  <2>2. x = y
    BY <1>5, <1>8, <2>1
  <2>3. k \in Int /\ j \in Int /\ i \in Int
    BY <1>4, <1>6
  <2> QED BY <2>2, <2>3
<1>b. \A k \in DOMAIN Q : (k \in 1 .. p /\ Q[k] = P[k]) \/ (k = p + 1 /\ Q[k] = A[i])
  BY <1>1, <1>3
<1>9. /\ \A k \in DOMAIN P, j \in DOMAIN B : P[k] # B[j]
      /\ \A k \in DOMAIN Q, j \in DOMAIN B : Q[k] # B[j]
  <2>1. ASSUME NEW j \in DOMAIN B
        PROVE  B[j] # A[i] /\ \A k \in 1 .. p : P[k] # B[j]
    <3>1. PICK y \in 1 .. a : y # i /\ B[j] = A[y]
      BY <1>4, <1>7
    <3> QED BY <1>5, <1>6, <3>1
  <2> QED BY <1>1, <1>b, <2>1
<1>10. \A k, j \in DOMAIN Q : Q[k] = Q[j] => k = j
  BY <1>b, <1>5, <1>6
<1>11. /\ \A k \in DOMAIN B : B[k] < n
       /\ \A k \in DOMAIN Q : Q[k] < n
  BY <1>b, <1>4, <1>5, <1>6, <1>7
<1> QED BY <1>1, <1>5, <1>8, <1>9, <1>10, <1>11 DEF Apart, B, Q

-----------------------------------------------------------------------------
(* What the broker's steps do with the addresses                            *)

(* The pool and the addresses in use are sequences of numbers.             *)
LEMMA AddressesType ==
  ASSUME NEW works \in Seq(Local_work_info)
  PROVE  /\ Addresses(works) \in Seq(Nat)
         /\ DOMAIN Addresses(works) = DOMAIN works
         /\ Len(Addresses(works)) = Len(works)
<1>1. Len(works) \in Nat /\ DOMAIN works = 1 .. Len(works)
  BY LenProperties
<1>2. \A i \in 1 .. Len(works) : works[i].demod_worker_addr \in Nat
  <2>1. \A i \in 1 .. Len(works) : works[i] \in Local_work_info
    BY ElementOfSeq
  <2> QED BY <2>1, SocketsAssumption DEF Local_work_info
<1>3. Addresses(works) \in [1 .. Len(works) -> Nat]
  BY <1>1, <1>2 DEF Addresses
<1>4. Addresses(works) \in Seq(Nat)
  BY <1>1, <1>3, SeqDef
<1> QED BY <1>1, <1>3, <1>4, LenProperties

(* The pool of demodulation workers is a sequence of numbers.              *)
LEMMA PoolType ==
  ASSUME BrokerTypeOK
  PROVE  m_demod_worker_pool \in Seq(Nat)
<1>1. /\ m_demod_worker_pool \in [1 .. Len(m_demod_worker_pool) -> DemodWorkers]
      /\ Len(m_demod_worker_pool) \in Nat
  BY LenProperties DEF BrokerTypeOK
<1>2. m_demod_worker_pool \in [1 .. Len(m_demod_worker_pool) -> Nat]
  BY <1>1, SocketsAssumption
<1> QED BY <1>1, <1>2, SeqDef

(* Changing a work in its buffers, workers or counter.                     *)
LEMMA SameAddresses ==
  ASSUME NEW works \in Seq(Local_work_info), NEW i \in DOMAIN works,
         NEW work, work.demod_worker_addr = works[i].demod_worker_addr
  PROVE  Addresses([works EXCEPT ![i] = work]) = Addresses(works)
BY DEF Addresses

(* Changing a work's buffers, workers or counter leaves its demodulation   *)
(* worker.                                                                 *)
LEMMA ChangedWork ==
  ASSUME NEW work \in Local_work_info, NEW b, NEW w, NEW n
  PROVE  /\ Recounted(work, n).demod_worker_addr = work.demod_worker_addr
         /\ WithBuffer(work, b).demod_worker_addr = work.demod_worker_addr
         /\ WithWorker(work, w).demod_worker_addr = work.demod_worker_addr
         /\ Recounted(WithBuffer(work, b), n).demod_worker_addr = work.demod_worker_addr
         /\ Recounted(WithWorker(work, w), n).demod_worker_addr = work.demod_worker_addr
BY DEF Local_work_info, Recounted, WithBuffer, WithWorker

(* Forwarding a job gives no address away.                                 *)
LEMMA ForwardJobAddresses ==
  ASSUME NEW works \in Seq(Local_work_info) \ {<<>>}, NEW pub, NEW f,
         ForwardJob(works, pub, f)
  PROVE  Addresses(m_work_list') = Addresses(works)
<1> DEFINE last == Len(works)
           work == Recounted(WithWorker(works[last], Head(m_sync_worker_pool)), 1)
<1>1. last \in DOMAIN works /\ works[last] \in Local_work_info
  BY EmptySeq, LenProperties, ElementOfSeq
<1>2. work.demod_worker_addr = works[last].demod_worker_addr
  BY <1>1, ChangedWork
<1>3. m_work_list' = [works EXCEPT ![last] = work]
  BY DEF ForwardJob
<1> HIDE DEF last, work
<1> QED BY <1>1, <1>2, <1>3, SameAddresses

(* Append, as a function.                                                  *)
LEMMA AppendAsFunction ==
  ASSUME NEW S, NEW s \in Seq(S), NEW e \in S
  PROVE  Append(s, e) = [i \in 1 .. (Len(s) + 1) |-> IF i = Len(s) + 1 THEN e ELSE s[i]]
<1> DEFINE n == Len(s)
           t == Append(s, e)
<1>1. n \in Nat /\ \A i \in 1 .. (n + 1) : i = n + 1 \/ i \in 1 .. n
  BY LenProperties
<1>2. /\ t \in Seq(S)
      /\ Len(t) = n + 1
      /\ \A i \in 1 .. n : t[i] = s[i]
      /\ t[n + 1] = e
  BY AppendProperties
<1>3. t \in [1 .. (n + 1) -> S]
  BY <1>2, LenProperties
<1> HIDE DEF n, t
<1>4. t = [i \in 1 .. (n + 1) |-> t[i]]
  BY <1>3
<1>5. t = [i \in 1 .. (n + 1) |-> IF i = n + 1 THEN e ELSE s[i]]
  BY <1>1, <1>2, <1>4
<1> QED BY <1>5 DEF n, t

(* A new work takes the address of the worker reused or spawned for it.    *)
LEMMA TakeDemodWorkerApart ==
  ASSUME BrokerTypeOK, DemodsApart, NEW b \in Buffers, NEW f \in Frame,
         TakeDemodWorker(f)
  PROVE  Apart(m_demod_worker_pool', Addresses(WorksWith(b, f)), m_ipc_file_idx')
<1> DEFINE A == Addresses(m_work_list)
           k == ShouldCombine(f)
<1>1. m_work_list \in Seq(Local_work_info) /\ m_ipc_file_idx \in Nat
  BY DEF BrokerTypeOK
<1>2. A \in Seq(Nat) /\ m_demod_worker_pool \in Seq(Nat)
  BY <1>1, AddressesType, PoolType
<1>3. CASE Combinable(f) # {}
  <2>1. k \in DOMAIN m_work_list /\ k \in 1 .. Len(m_work_list)
    BY <1>3, CombinableType
  <2>2. m_work_list[k] \in Local_work_info
    BY <1>1, <2>1, ElementOfSeq
  <2> DEFINE work == Recounted(WithBuffer(m_work_list[k], b), 1)
  <2>3. WorksWith(b, f) = [m_work_list EXCEPT ![k] = work]
    BY <1>3 DEF WorksWith
  <2>4. work.demod_worker_addr = m_work_list[k].demod_worker_addr
    BY <2>2, ChangedWork
  <2> HIDE DEF k, work
  <2>5. Addresses(WorksWith(b, f)) = A
    <3>1. Addresses([m_work_list EXCEPT ![k] = work]) = Addresses(m_work_list)
      BY <1>1, <2>1, <2>4, SameAddresses
    <3> QED BY <2>3, <3>1
  <2>6. UNCHANGED <<m_demod_worker_pool, m_ipc_file_idx>>
    BY <1>3 DEF TakeDemodWorker, demods
  <2> QED BY <2>5, <2>6 DEF DemodsApart
<1>4. CASE Combinable(f) = {}
  <2> DEFINE addr == IF m_demod_worker_pool = <<>> THEN m_ipc_file_idx
                                                   ELSE Head(m_demod_worker_pool)
  <2>1. Addresses(WorksWith(b, f)) = Append(A, addr)
    <3> DEFINE n == Len(m_work_list)
    <3>1. WorksWith(b, f) = Append(m_work_list, NewWork(b, f))
      BY <1>4 DEF WorksWith
    <3>2. NewWork(b, f).demod_worker_addr = addr
      BY DEF NewWork
    <3>3. NewWork(b, f) \in Local_work_info
      <4>1. m_demod_worker_pool = <<>> => m_ipc_file_idx \in DemodWorkers
        BY <1>4 DEF TakeDemodWorker, ReuseDemodWorker, SpawnDemodWorker
      <4> QED BY <4>1, NewWorkType, SocketsAssumption
    <3>4. addr \in Nat
      BY <1>1, <1>2, HeadTailProperties
    <3>5. n \in Nat /\ DOMAIN m_work_list = 1 .. n /\ Len(A) = n /\ DOMAIN A = 1 .. n
      BY <1>1, AddressesType, LenProperties
    <3>6. WorksWith(b, f) = [i \in 1 .. (n + 1) |-> IF i = n + 1 THEN NewWork(b, f)
                                                                 ELSE m_work_list[i]]
      BY <1>1, <3>1, <3>3, <3>5, AppendAsFunction
    <3>7. Append(A, addr) = [i \in 1 .. (n + 1) |-> IF i = n + 1 THEN addr ELSE A[i]]
      BY <1>2, <3>4, <3>5, AppendAsFunction
    <3>8. \A i \in 1 .. n : A[i] = m_work_list[i].demod_worker_addr
      BY <3>5 DEF Addresses
    <3> HIDE DEF n, A, addr
    <3>9. Addresses(WorksWith(b, f))
            = [i \in 1 .. (n + 1) |-> IF i = n + 1 THEN addr ELSE A[i]]
      BY <3>2, <3>5, <3>6, <3>8 DEF Addresses
    <3> QED BY <3>7, <3>9
  <2>2. CASE ReuseDemodWorker
    BY <1>1, <1>2, <2>1, <2>2, ReuseApart DEF ReuseDemodWorker, DemodsApart
  <2>3. CASE SpawnDemodWorker
    BY <1>1, <1>2, <2>1, <2>3, SpawnApart DEF SpawnDemodWorker, DemodsApart
  <2> QED BY <1>4, <2>2, <2>3 DEF TakeDemodWorker
<1> QED BY <1>3, <1>4

(* The work that ends leaves the others in place.                          *)
LEMMA EndWorkAddresses ==
  ASSUME BrokerTypeOK, NEW i \in 1 .. Len(m_work_list), EndWork(i)
  PROVE  Addresses(m_work_list') = Without(Addresses(m_work_list), i)
<1> DEFINE n == Len(m_work_list)
<1>1. m_work_list \in Seq(Local_work_info)
  BY DEF BrokerTypeOK
<1>2. n \in Nat /\ DOMAIN m_work_list = 1 .. n /\ Len(Addresses(m_work_list)) = n
  BY <1>1, AddressesType, LenProperties
<1>3. m_work_list' = [j \in 1 .. (n - 1) |-> IF j < i THEN m_work_list[j] ELSE m_work_list[j + 1]]
  BY DEF EndWork
<1> HIDE DEF n
<1>4. \A j \in 1 .. (n - 1) : j \in 1 .. n /\ j + 1 \in 1 .. n
  BY <1>2
<1>5. \A j \in 1 .. n : Addresses(m_work_list)[j] = m_work_list[j].demod_worker_addr
  BY <1>2 DEF Addresses
<1>6. Addresses(m_work_list') = [j \in 1 .. (n - 1) |-> m_work_list'[j].demod_worker_addr]
  BY <1>3 DEF Addresses
<1>7. ASSUME NEW j \in 1 .. (n - 1)
      PROVE  m_work_list'[j].demod_worker_addr
               = IF j < i THEN Addresses(m_work_list)[j] ELSE Addresses(m_work_list)[j + 1]
  BY <1>3, <1>4, <1>5
<1> QED BY <1>2, <1>6, <1>7 DEF Without

-----------------------------------------------------------------------------
(* The steps of the broker                                                  *)

(* A work that may end, and whose demodulation worker is free again only   *)
(* when it has said so itself.                                             *)
LEMMA EndWorkApart ==
  ASSUME BrokerTypeOK, DemodsApart, NEW i \in 1 .. Len(m_work_list), EndWork(i),
         UNCHANGED m_ipc_file_idx,
         \/ UNCHANGED m_demod_worker_pool
         \/ m_demod_worker_pool' = Append(m_demod_worker_pool,
                                          m_work_list[i].demod_worker_addr)
  PROVE  DemodsApart'
<1> DEFINE A == Addresses(m_work_list)
<1>1. m_work_list \in Seq(Local_work_info) /\ m_ipc_file_idx \in Nat
  BY DEF BrokerTypeOK
<1>2. A \in Seq(Nat) /\ m_demod_worker_pool \in Seq(Nat) /\ i \in 1 .. Len(A)
  BY <1>1, AddressesType, PoolType
<1>3. A[i] = m_work_list[i].demod_worker_addr
  BY <1>1, LenProperties DEF Addresses
<1>4. Addresses(m_work_list') = Without(A, i)
  BY EndWorkAddresses
<1> HIDE DEF A
<1>5. Apart(m_demod_worker_pool, A, m_ipc_file_idx)
  BY DEF DemodsApart, A
<1>6. /\ Apart(m_demod_worker_pool, Without(A, i), m_ipc_file_idx)
      /\ Apart(Append(m_demod_worker_pool, A[i]), Without(A, i), m_ipc_file_idx)
  BY <1>1, <1>2, <1>5, EndApart
<1> QED BY <1>3, <1>4, <1>6 DEF DemodsApart

(* broker.cpp 298-349: a request.                                          *)
LEMMA RequestApart ==
  ASSUME SocketsTypeOK, BrokerTypeOK, DemodsApart, NEW b \in Buffers,
         SpawnForFrame(b) \/ ServeFrame(b)
  PROVE  DemodsApart'
<1> DEFINE f == Head(bufferToBroker[b]).frame
<1>1. f \in Frame /\ TakeDemodWorker(f)
  BY AnnouncesFrameType DEF SpawnForFrame, ServeFrame
<1>2. \/ m_work_list' = WorksWith(b, f)
      \/ ForwardJob(WorksWith(b, f), b, f)
  BY DEF SpawnForFrame, ServeFrame
<1> HIDE DEF f
<1>3. WorksWith(b, f) \in Seq(Local_work_info) \ {<<>>}
  BY <1>1, WorksWithType, SocketsAssumption
<1>4. Addresses(m_work_list') = Addresses(WorksWith(b, f))
  BY <1>2, <1>3, ForwardJobAddresses
<1>5. Apart(m_demod_worker_pool', Addresses(WorksWith(b, f)), m_ipc_file_idx')
  BY <1>1, TakeDemodWorkerApart
<1> QED BY <1>4, <1>5 DEF DemodsApart

(* broker.cpp 412-497: the end of a work, and one worker less for a work.  *)
LEMMA SyncDoneApart ==
  ASSUME BrokerTypeOK, DemodsApart, NEW w \in SyncWorkers, WorkerSyncDone(w)
  PROVE  DemodsApart'
<1> DEFINE I == UndergoingWorks(Head(syncToBroker[w]).work_id)
           i == First(I)
<1>1. UNCHANGED <<m_ipc_file_idx, m_demod_worker_pool>>
  BY DEF WorkerSyncDone, ServeSync
<1>2. I # {} => i \in 1 .. Len(m_work_list)
  BY UndergoingType
<1>3. \/ I # {} /\ EndWork(i)
      \/ I # {} /\ m_work_list' = [m_work_list EXCEPT ![i] = Recounted(@, -1)]
      \/ UNCHANGED m_work_list
  BY DEF WorkerSyncDone
<1> HIDE DEF I, i
<1>4. CASE I # {} /\ EndWork(i)
  BY <1>1, <1>2, <1>4, EndWorkApart
<1>5. CASE I # {} /\ m_work_list' = [m_work_list EXCEPT ![i] = Recounted(@, -1)]
  <2> DEFINE work == Recounted(m_work_list[i], -1)
  <2>1. m_work_list \in Seq(Local_work_info) /\ i \in DOMAIN m_work_list
    BY <1>2, <1>5, LenProperties DEF BrokerTypeOK
  <2>2. m_work_list[i] \in Local_work_info
    BY <1>2, <1>5, <2>1, ElementOfSeq
  <2>3. work.demod_worker_addr = m_work_list[i].demod_worker_addr
    BY <2>2, ChangedWork
  <2>4. m_work_list' = [m_work_list EXCEPT ![i] = work]
    BY <1>5
  <2> HIDE DEF work
  <2>5. Addresses([m_work_list EXCEPT ![i] = work]) = Addresses(m_work_list)
    BY <2>1, <2>3, SameAddresses
  <2>6. Addresses(m_work_list') = Addresses(m_work_list)
    BY <2>4, <2>5
  <2> QED BY <1>1, <2>6 DEF DemodsApart
<1>6. CASE UNCHANGED m_work_list
  BY <1>1, <1>6 DEF DemodsApart
<1> QED BY <1>3, <1>4, <1>5, <1>6

(* The end of a work moves its demodulation worker to the pool, which      *)
(* keeps the addresses apart.                                              *)
LEMMA DemodDoneApart ==
  ASSUME BrokerTypeOK, DemodsApart, NEW a \in DemodWorkers, WorkerDemodDone(a)
  PROVE  DemodsApart'
<1> DEFINE I == UndergoingWorks(Head(demodToBroker[a]).work_id)
           i == First(I)
<1>1. UNCHANGED m_ipc_file_idx
  BY DEF WorkerDemodDone
<1>2. I # {} => i \in 1 .. Len(m_work_list)
  BY UndergoingType
<1>3. \/ /\ I # {} /\ EndWork(i)
         /\ m_demod_worker_pool' = Append(m_demod_worker_pool,
                                          m_work_list[i].demod_worker_addr)
      \/ UNCHANGED <<m_demod_worker_pool, m_work_list>>
  BY DEF WorkerDemodDone
<1> HIDE DEF I, i
<1>4. CASE UNCHANGED <<m_demod_worker_pool, m_work_list>>
  BY <1>1, <1>4 DEF DemodsApart
<1> QED BY <1>1, <1>2, <1>3, <1>4, EndWorkApart

(* broker.cpp 376-381: the request that had to wait; its work has its      *)
(* demodulation worker already.                                            *)
LEMMA FinishAttributionApart ==
  ASSUME BrokerTypeOK, DemodsApart, FinishAttribution
  PROVE  DemodsApart'
<1>1. UNCHANGED <<m_ipc_file_idx, m_demod_worker_pool>>
  BY DEF FinishAttribution, demods
<1>2. \/ /\ m_work_list # <<>>
         /\ ForwardJob(m_work_list, Head(pending).buffer, Head(pending).frame)
      \/ UNCHANGED m_work_list
  BY DEF FinishAttribution
<1>3. m_work_list \in Seq(Local_work_info)
  BY DEF BrokerTypeOK
<1>4. Addresses(m_work_list') = Addresses(m_work_list)
  BY <1>2, <1>3, ForwardJobAddresses
<1> QED BY <1>1, <1>4 DEF DemodsApart

(* All steps of the broker.                                                *)
LEMMA BrokerApart ==
  ASSUME SocketsTypeOK, BrokerTypeOK, DemodsApart, BrokerNext
  PROVE  DemodsApart'
<1>1. CASE \/ FrontendRrh \/ KeepAlive
           \/ \E b \in Buffers : RegisterBuffer(b)
           \/ \E w \in SyncWorkers : WorkerReady(w) \/ ForwardReply(w)
  <2>1. UNCHANGED <<m_ipc_file_idx, m_demod_worker_pool, m_work_list>>
    BY <1>1 DEF FrontendRrh, RrhRequest, KeepAlive, RegisterBuffer, WorkerReady,
                ForwardReply, ServeSync, demods
  <2> QED BY <2>1 DEF DemodsApart
<1> QED BY <1>1, RequestApart, SyncDoneApart, DemodDoneApart, FinishAttributionApart
        DEF BrokerNext, FrontendBuffer, Backend

(* broker.cpp 323-343, 434-438: a demodulation worker is free, or serves   *)
(* one work, whatever the number of RRHs, frames and workers, and however  *)
(* a work ends.                                                            *)
THEOREM DemodsExclusive == Spec => []DemodExclusive
<1>1. Init => DemodsApart
  <2> SUFFICES ASSUME Init PROVE DemodsApart
    OBVIOUS
  <2>1. /\ m_demod_worker_pool = [i \in 1 .. MIN_NUMBER_OF_WORKERS |-> i - 1]
        /\ m_ipc_file_idx = MIN_NUMBER_OF_WORKERS
        /\ MIN_NUMBER_OF_WORKERS \in Nat
    BY BrokerAssumption DEF Init, BrokerInit
  <2>2. Addresses(m_work_list) = <<>>
    BY DEF Init, BrokerInit, Addresses
  <2>3. DOMAIN Addresses(m_work_list) = {}
    BY <2>2
  <2> QED BY <2>1, <2>3 DEF DemodsApart, Apart
<1>2. TypeInv /\ DemodsApart /\ [Next]_vars => DemodsApart'
  <2> SUFFICES ASSUME TypeInv, DemodsApart, [Next]_vars PROVE DemodsApart'
    OBVIOUS
  <2>1. CASE BrokerStep
    BY <2>1, BrokerApart DEF BrokerStep, TypeInv, TypeOK
  <2>2. CASE ~BrokerStep
    <3>1. UNCHANGED brokerVars
      BY <2>2 DEF Next, StartBuffer, BufferStep, StartSync, SyncStep, RrhStarts, RrhStep,
                  DemodStep, vars
    <3> QED BY <3>1 DEF DemodsApart, brokerVars
  <2> QED BY <2>1, <2>2
<1>3. Spec => []DemodsApart
  BY <1>1, <1>2, TypeInvariant, PTL DEF Spec
<1> QED BY <1>3, ExclusiveIsApart, PTL

-----------------------------------------------------------------------------
(* The right to a job                                                      *)

(* Where the elements of M are in a queue.                                 *)
Marked(s, M) == {j \in DOMAIN s : s[j] \in M}

AtMostOne(S) == \A x, y \in S : x = y

Orders == {m \in WorkerMessage : m.type \in {"ACK", "JOB"}}

(* What a worker has sent, the pool, and what it has been sent hold one    *)
(* right to a job between them, and none if it has not started or works.   *)
OneToken(w, up, pool, down, state) ==
  LET announced == Marked(up, {Ready})
      pooled    == Marked(pool, {w})
      ordered   == Marked(down, Orders)
  IN /\ AtMostOne(announced) /\ AtMostOne(pooled) /\ AtMostOne(ordered)
     /\ announced = {} \/ pooled = {}
     /\ announced \cup pooled = {} \/ ordered = {}
     /\ state \in {"NOT_STARTED", "WORKING"} => announced \cup pooled \cup ordered = {}

TokenInv ==
  \A w \in SyncWorkers :
    OneToken(w, syncToBroker[w], m_sync_worker_pool, brokerToSync[w], m_state[w])

-----------------------------------------------------------------------------
(* Marks of a queue that moves                                              *)

(* An element at the end.                                                  *)
LEMMA MarkedAppend ==
  ASSUME NEW S, NEW s \in Seq(S), NEW e \in S, NEW M
  PROVE  /\ e \in M => Marked(Append(s, e), M) = Marked(s, M) \cup {Len(s) + 1}
         /\ e \notin M => Marked(Append(s, e), M) = Marked(s, M)
<1> DEFINE t == Append(s, e)
           n == Len(s)
<1>1. /\ n \in Nat /\ DOMAIN s = 1 .. n /\ DOMAIN t = DOMAIN s \cup {n + 1}
      /\ t[n + 1] = e
      /\ \A i \in DOMAIN s : t[i] = s[i]
  BY Appended
<1>2. n + 1 \notin DOMAIN s
  BY <1>1
<1> HIDE DEF t, n
<1>3. /\ e \in M => Marked(t, M) = Marked(s, M) \cup {n + 1}
      /\ e \notin M => Marked(t, M) = Marked(s, M)
  BY <1>1, <1>2 DEF Marked
<1> QED  BY <1>3 DEF t, n

(* One new mark where there was none is one mark.                          *)
LEMMA OneMore ==
  ASSUME NEW S, NEW s \in Seq(S), NEW e \in S, NEW M, Marked(s, M) = {}
  PROVE  AtMostOne(Marked(Append(s, e), M))
BY MarkedAppend DEF AtMostOne

(* Elements without a mark at the end.                                     *)
LEMMA MarkedJoin ==
  ASSUME NEW S, NEW s \in Seq(S), NEW t \in Seq(S), NEW M, \A i \in DOMAIN t : t[i] \notin M
  PROVE  Marked(s \o t, M) = Marked(s, M)
<1> DEFINE u == s \o t
           n == Len(s)
<1>1. /\ n \in Nat
      /\ \A i \in DOMAIN s : i \in DOMAIN u /\ u[i] = s[i]
      /\ \A i \in DOMAIN t : u[n + i] = t[i]
      /\ \A i \in DOMAIN u : i \in DOMAIN s \/ i - n \in DOMAIN t
  BY Joined
<1>2. \A i \in DOMAIN u : i \in Int
  <2>1. u \in Seq(S)
    BY Joined
  <2> HIDE DEF u
  <2> QED  BY <2>1
<1>3. \A i \in DOMAIN u : n + (i - n) = i
  BY <1>1, <1>2
<1> HIDE DEF u, n
<1>4. \A i \in DOMAIN u : i \in DOMAIN s \/ u[i] \notin M
  BY <1>1, <1>3
<1> QED  BY <1>1, <1>4 DEF Marked, u

(* At most one mark, and it is at the end.                                 *)
LEMMA MarkedBehind ==
  ASSUME NEW S, NEW s \in Seq(S), NEW t \in Seq(S), NEW M,
         Marked(s, M) = {}, AtMostOne(Marked(t, M))
  PROVE  AtMostOne(Marked(s \o t, M))
<1> DEFINE u == s \o t
           n == Len(s)
<1>1. /\ n \in Nat
      /\ \A i \in DOMAIN s : u[i] = s[i]
      /\ \A i \in DOMAIN t : u[n + i] = t[i]
      /\ \A i \in DOMAIN u : i \in DOMAIN s \/ i - n \in DOMAIN t
  BY Joined
<1>2. \A i \in DOMAIN u : i \in Int
  <2>1. u \in Seq(S)
    BY Joined
  <2> HIDE DEF u
  <2> QED  BY <2>1
<1>3. \A i \in DOMAIN u : n + (i - n) = i
  BY <1>1, <1>2
<1> HIDE DEF u, n
<1>4. \A i \in Marked(u, M) : i - n \in Marked(t, M) /\ i \in Int
  BY <1>1, <1>2, <1>3 DEF Marked
<1>5. ASSUME NEW i \in Marked(u, M), NEW j \in Marked(u, M) PROVE i = j
  <2>1. i - n = j - n
    BY <1>4 DEF AtMostOne
  <2> QED  BY <1>1, <1>4, <2>1
<1> QED  BY <1>5 DEF AtMostOne, u

(* The first element is read.                                              *)
LEMMA MarkedTail ==
  ASSUME NEW S, NEW s \in Seq(S), s # <<>>, NEW M, AtMostOne(Marked(s, M))
  PROVE  /\ AtMostOne(Marked(Tail(s), M))
         /\ Head(s) \in M => Marked(s, M) # {} /\ Marked(Tail(s), M) = {}
         /\ Marked(s, M) = {} => Marked(Tail(s), M) = {}
<1> DEFINE t == Tail(s)
<1>1. /\ \A i \in DOMAIN t : i \in Nat /\ i + 1 \in DOMAIN s /\ t[i] = s[i + 1]
      /\ Head(s) = s[1] /\ 1 \in DOMAIN s
      /\ \A i \in DOMAIN t : i >= 1
  <2>1. t \in Seq(S)
    BY Shifted
  <2>2. \A i \in DOMAIN t : i >= 1
    <3> HIDE DEF t
    <3> QED  BY <2>1
  <2> QED  BY <2>2, Shifted
<1> HIDE DEF t
<1>2. \A i \in Marked(t, M) : i \in Nat /\ i + 1 \in Marked(s, M)
  BY <1>1 DEF Marked
<1>3. ASSUME NEW i \in Marked(t, M), NEW j \in Marked(t, M) PROVE i = j
  <2>1. i + 1 = j + 1
    BY <1>2 DEF AtMostOne
  <2> QED  BY <1>2, <2>1
<1>4. ASSUME Head(s) \in M PROVE Marked(s, M) # {} /\ Marked(t, M) = {}
  <2>1. 1 \in Marked(s, M)
    BY <1>1, <1>4 DEF Marked
  <2>2. ASSUME NEW i \in Marked(t, M) PROVE FALSE
    <3>1. i + 1 = 1
      BY <1>2, <2>1 DEF AtMostOne
    <3>2. i >= 1 /\ i \in Nat
      BY <1>1 DEF Marked
    <3> QED  BY <3>1, <3>2
  <2> QED  BY <2>1, <2>2
<1>5. Marked(s, M) = {} => Marked(t, M) = {}
  BY <1>2
<1> QED  BY <1>3, <1>4, <1>5 DEF t, AtMostOne

-----------------------------------------------------------------------------
(* Moves of a token                                                         *)

Typed(w, up, pool, down) ==
  /\ w \in SyncWorkers /\ up \in Seq(SyncMessage)
  /\ pool \in Seq(SyncWorkers) /\ down \in Seq(WorkerMessage)

(* A worker without a token announces itself once.                         *)
LEMMA Announced ==
  ASSUME NEW w, NEW up, NEW pool, NEW down, NEW state, Typed(w, up, pool, down),
         Marked(up, {Ready}) \cup Marked(pool, {w}) \cup Marked(down, Orders) = {},
         state \notin {"NOT_STARTED", "WORKING"},
         NEW s \in Seq(SyncMessage), AtMostOne(Marked(s, {Ready}))
  PROVE  OneToken(w, up \o s, pool, down, state)
<1>1. AtMostOne(Marked(up \o s, {Ready}))
  BY MarkedBehind DEF Typed
<1> QED  BY <1>1 DEF OneToken, AtMostOne

(* The broker reads what a worker has sent, and adds the worker to its     *)
(* pool if that is READY.                                                  *)
LEMMA Heard ==
  ASSUME NEW w, NEW up, NEW pool, NEW down, NEW state, Typed(w, up, pool, down),
         OneToken(w, up, pool, down, state), up # <<>>
  PROVE  /\ OneToken(w, Tail(up), pool, down, state)
         /\ Head(up) = Ready => OneToken(w, Tail(up), Append(pool, w), down, state)
<1>1. /\ AtMostOne(Marked(Tail(up), {Ready}))
      /\ Head(up) = Ready => Marked(up, {Ready}) # {} /\ Marked(Tail(up), {Ready}) = {}
      /\ Marked(up, {Ready}) = {} => Marked(Tail(up), {Ready}) = {}
  BY MarkedTail DEF Typed, OneToken
<1>2. OneToken(w, Tail(up), pool, down, state)
  BY <1>1 DEF OneToken
<1>3. ASSUME Head(up) = Ready PROVE OneToken(w, Tail(up), Append(pool, w), down, state)
  <2>1. Marked(pool, {w}) = {} /\ Marked(down, Orders) = {} /\ state \notin {"NOT_STARTED", "WORKING"}
    BY <1>1, <1>3 DEF OneToken
  <2>2. AtMostOne(Marked(Append(pool, w), {w}))
    BY <2>1, OneMore DEF Typed
  <2> QED  BY <1>1, <1>3, <2>1, <2>2 DEF OneToken, AtMostOne
<1> QED  BY <1>2, <1>3

(* Another worker joins the pool.                                          *)
LEMMA OtherJoins ==
  ASSUME NEW w, NEW up, NEW pool, NEW down, NEW state, Typed(w, up, pool, down),
         OneToken(w, up, pool, down, state), NEW v \in SyncWorkers, v # w
  PROVE  OneToken(w, up, Append(pool, v), down, state)
<1>1. Marked(Append(pool, v), {w}) = Marked(pool, {w})
  BY MarkedAppend DEF Typed
<1> QED  BY <1>1 DEF OneToken

(* The first of the pool is taken out, and only then may it be sent an     *)
(* order.                                                                  *)
LEMMA Employed ==
  ASSUME NEW w, NEW up, NEW pool, NEW down, NEW state, Typed(w, up, pool, down),
         OneToken(w, up, pool, down, state), pool # <<>>
  PROVE  /\ OneToken(w, up, Tail(pool), down, state)
         /\ \A m \in Orders : Head(pool) = w => OneToken(w, up, Tail(pool), Append(down, m), state)
<1>1. /\ AtMostOne(Marked(Tail(pool), {w}))
      /\ Head(pool) = w => Marked(pool, {w}) # {} /\ Marked(Tail(pool), {w}) = {}
      /\ Marked(pool, {w}) = {} => Marked(Tail(pool), {w}) = {}
  BY MarkedTail DEF Typed, OneToken
<1>2. OneToken(w, up, Tail(pool), down, state)
  BY <1>1 DEF OneToken
<1>3. ASSUME NEW m \in Orders, Head(pool) = w
      PROVE  OneToken(w, up, Tail(pool), Append(down, m), state)
  <2>1. Marked(up, {Ready}) = {} /\ Marked(down, Orders) = {} /\ state \notin {"NOT_STARTED", "WORKING"}
    BY <1>1, <1>3 DEF OneToken
  <2>2. AtMostOne(Marked(Append(down, m), Orders))
    BY <2>1, OneMore DEF Typed, Orders
  <2> QED  BY <1>1, <1>3, <2>1, <2>2 DEF OneToken, AtMostOne
<1> QED  BY <1>2, <1>3

(* The pool is cleared, and only who was in it is asked whether it is      *)
(* still there.                                                            *)
LEMMA Cleared ==
  ASSUME NEW w, NEW up, NEW pool, NEW down, NEW state, Typed(w, up, pool, down),
         OneToken(w, up, pool, down, state)
  PROVE  /\ OneToken(w, up, <<>>, down, state)
         /\ (\E i \in DOMAIN pool : pool[i] = w) => OneToken(w, up, <<>>, Append(down, Ack), state)
<1>1. Marked(<<>>, {w}) = {}
  BY DEF Marked
<1>2. OneToken(w, up, <<>>, down, state)
  BY <1>1 DEF OneToken, AtMostOne
<1>3. ASSUME \E i \in DOMAIN pool : pool[i] = w
      PROVE  OneToken(w, up, <<>>, Append(down, Ack), state)
  <2>1. Marked(pool, {w}) # {}
    BY <1>3 DEF Marked
  <2>2. Marked(up, {Ready}) = {} /\ Marked(down, Orders) = {} /\ state \notin {"NOT_STARTED", "WORKING"}
    BY <2>1 DEF OneToken
  <2>3. AtMostOne(Marked(Append(down, Ack), Orders))
    BY <2>2, OneMore DEF Typed, Ack, WorkerMessage
  <2> QED  BY <1>1, <2>2, <2>3 DEF OneToken, AtMostOne
<1> QED  BY <1>2, <1>3

(* A worker is told that works have ended.                                 *)
LEMMA ToldDone ==
  ASSUME NEW w, NEW up, NEW pool, NEW down, NEW state, Typed(w, up, pool, down),
         OneToken(w, up, pool, down, state),
         NEW s \in Seq(WorkerMessage), \A i \in DOMAIN s : s[i].type = "DONE"
  PROVE  OneToken(w, up, pool, down \o s, state)
<1>1. \A i \in DOMAIN s : s[i] \notin Orders
  BY DEF Orders
<1>2. Marked(down \o s, Orders) = Marked(down, Orders)
  BY <1>1, MarkedJoin DEF Typed
<1> QED  BY <1>2 DEF OneToken

(* A worker reads what it has been sent: its token if that is an order.    *)
LEMMA Obeyed ==
  ASSUME NEW w, NEW up, NEW pool, NEW down, NEW state, Typed(w, up, pool, down),
         OneToken(w, up, pool, down, state), down # <<>>
  PROVE  /\ OneToken(w, up, pool, Tail(down), state)
         /\ Head(down) \in Orders =>
              Marked(up, {Ready}) \cup Marked(pool, {w}) \cup Marked(Tail(down), Orders) = {}
<1>1. /\ AtMostOne(Marked(Tail(down), Orders))
      /\ Head(down) \in Orders => Marked(down, Orders) # {} /\ Marked(Tail(down), Orders) = {}
      /\ Marked(down, Orders) = {} => Marked(Tail(down), Orders) = {}
  BY MarkedTail DEF Typed, OneToken
<1> QED  BY <1>1 DEF OneToken

-----------------------------------------------------------------------------
(* What the broker sends to its workers                                     *)

(* The queues of a worker hold messages, the pool workers.                 *)
LEMMA AllTyped ==
  ASSUME SocketsTypeOK, BrokerTypeOK, NEW w \in SyncWorkers
  PROVE  Typed(w, syncToBroker[w], m_sync_worker_pool, brokerToSync[w])
BY DEF Typed, SocketsTypeOK, BrokerTypeOK

(* There is one READY.                                                     *)
LEMMA ReadyOnly == ASSUME NEW m \in SyncMessage PROVE m.type = "READY" <=> m = Ready
BY DEF SyncMessage, Ready

(* A job names its work, the buffer of the work that is to be answered and *)
(* the one that publishes.                                                 *)
LEMMA JobSent ==
  ASSUME NEW works \in Seq(Local_work_info) \ {<<>>}, NEW pub \in Buffers, NEW f,
         ForwardJob(works, pub, f)
  PROVE  \E m \in JobMessage :
           /\ m \in Orders
           /\ m.type = "JOB" /\ m.work_id = works[Len(works)].work_id
           /\ \E j \in DOMAIN works[Len(works)].buffers_id :
                m.client = works[Len(works)].buffers_id[j]
           /\ brokerToSync' = Send(brokerToSync, Head(m_sync_worker_pool), m)
<1> DEFINE last   == Len(works)
           work   == works[last]
           k      == Len(work.buffers_id)
           client == work.buffers_id[k]
           m      == Job(work.work_id, work.demod_worker_addr, client, pub)
<1>1. last \in 1 .. Len(works)
  BY EmptySeq
<1>2. work \in Local_work_info
  BY <1>1, ElementOfSeq
<1>3. k \in DOMAIN work.buffers_id /\ client \in Buffers
  <2>1. work.buffers_id \in Seq(Buffers) /\ work.buffers_id # <<>>
    BY <1>2 DEF Local_work_info
  <2>2. k \in 1 .. Len(work.buffers_id)
    BY <2>1, EmptySeq
  <2> QED BY <2>1, <2>2, ElementOfSeq
<1>4. m \in JobMessage /\ m.type = "JOB" /\ m.work_id = work.work_id /\ m.client = client
  BY <1>2, <1>3 DEF Job, JobMessage, Local_work_info
<1>5. brokerToSync' = Send(brokerToSync, Head(m_sync_worker_pool), m)
  BY DEF ForwardJob
<1> HIDE DEF m, client, k, work
<1>6. m \in Orders
  BY <1>4 DEF Orders, WorkerMessage
<1>7. \E j \in DOMAIN work.buffers_id : m.client = work.buffers_id[j]
  BY <1>3, <1>4 DEF client
<1> QED  BY <1>4, <1>5, <1>6, <1>7 DEF work

(* The end of a work only adds DONEs of it to what a worker is sent: one   *)
(* for each time it is in the list of the work.                            *)
LEMMA DonesSent ==
  ASSUME BrokerTypeOK, NEW i \in 1 .. Len(m_work_list), EndWork(i), NEW w \in SyncWorkers
  PROVE  /\ m_work_list[i] \in Local_work_info
         /\ DonesFor(m_work_list[i], w) \in Seq(WorkerMessage)
         /\ \A j \in DOMAIN DonesFor(m_work_list[i], w) :
              /\ DonesFor(m_work_list[i], w)[j].type = "DONE"
              /\ DonesFor(m_work_list[i], w)[j].work_id = m_work_list[i].work_id
         /\ m_work_list[i].worker_id[w] > 0 => 1 \in DOMAIN DonesFor(m_work_list[i], w)
         /\ brokerToSync'[w] = brokerToSync[w] \o DonesFor(m_work_list[i], w)
<1> DEFINE work == m_work_list[i]
           n    == work.worker_id[w]
<1>1. work \in Local_work_info
  BY ElementOfSeq DEF BrokerTypeOK
<1>2. work.work_id \in WorkIds /\ n \in Nat
  BY <1>1 DEF Local_work_info
<1>3. DonesFor(work, w) = [j \in 1 .. n |-> Done(work.work_id)]
  BY DEF DonesFor
<1>4. brokerToSync'[w] = brokerToSync[w] \o DonesFor(work, w)
  BY DEF EndWork
<1> HIDE DEF work, n
<1>5. Done(work.work_id) \in WorkerMessage
  BY <1>2 DEF Done, WorkerMessage
<1>6. DonesFor(work, w) \in Seq(WorkerMessage)
  BY <1>2, <1>3, <1>5, CopiesType
<1>7. DOMAIN DonesFor(work, w) = 1 .. n /\ \A j \in 1 .. n : DonesFor(work, w)[j] = Done(work.work_id)
  BY <1>3
<1>8. \A j \in DOMAIN DonesFor(work, w) : /\ DonesFor(work, w)[j].type = "DONE"
                                         /\ DonesFor(work, w)[j].work_id = work.work_id
  BY <1>7 DEF Done
<1>9. n > 0 => 1 \in DOMAIN DonesFor(work, w)
  BY <1>2, <1>7
<1> QED  BY <1>1, <1>4, <1>6, <1>8, <1>9 DEF work, n

-----------------------------------------------------------------------------
(* What they make of tokens                                                      *)

(* broker.cpp 520-534: the pool is cleared, and each of its workers asked. *)
LEMMA KeepAliveToken ==
  ASSUME SocketsTypeOK, BrokerTypeOK, TokenInv, KeepWorkersAlive,
         UNCHANGED <<syncToBroker, m_state>>
  PROVE  TokenInv'
<1> SUFFICES ASSUME NEW w \in SyncWorkers
             PROVE  OneToken(w, syncToBroker'[w], m_sync_worker_pool', brokerToSync'[w], m_state'[w])
  BY DEF TokenInv
<1>1. OneToken(w, syncToBroker[w], m_sync_worker_pool, brokerToSync[w], m_state[w])
  BY DEF TokenInv
<1>2. m_sync_worker_pool' = <<>>
  BY DEF KeepWorkersAlive, PoolAfterKeepAlive
<1>3. \/ brokerToSync'[w] = brokerToSync[w]
      \/ /\ \E i \in DOMAIN m_sync_worker_pool : m_sync_worker_pool[i] = w
         /\ brokerToSync'[w] = Append(brokerToSync[w], Ack)
  BY DEF KeepWorkersAlive
<1>4. /\ OneToken(w, syncToBroker[w], <<>>, brokerToSync[w], m_state[w])
      /\ (\E i \in DOMAIN m_sync_worker_pool : m_sync_worker_pool[i] = w)
           => OneToken(w, syncToBroker[w], <<>>, Append(brokerToSync[w], Ack), m_state[w])
  BY <1>1, AllTyped, Cleared
<1> QED  BY <1>2, <1>3, <1>4

(* broker.cpp 112-132: the first of the pool is taken out for a job.       *)
LEMMA ForwardToken ==
  ASSUME SocketsTypeOK, BrokerTypeOK, TokenInv,
         NEW works \in Seq(Local_work_info) \ {<<>>}, NEW pub \in Buffers, NEW f,
         m_sync_worker_pool # <<>>, ForwardJob(works, pub, f),
         UNCHANGED <<syncToBroker, m_state>>
  PROVE  TokenInv'
<1> SUFFICES ASSUME NEW w \in SyncWorkers
             PROVE  OneToken(w, syncToBroker'[w], m_sync_worker_pool', brokerToSync'[w], m_state'[w])
  BY DEF TokenInv
<1>1. OneToken(w, syncToBroker[w], m_sync_worker_pool, brokerToSync[w], m_state[w])
  BY DEF TokenInv
<1>2. m_sync_worker_pool' = Tail(m_sync_worker_pool)
  BY DEF ForwardJob, OtherWorkers
<1>3. PICK m \in Orders : brokerToSync' = Send(brokerToSync, Head(m_sync_worker_pool), m)
  BY JobSent
<1>4. \/ brokerToSync'[w] = brokerToSync[w]
      \/ Head(m_sync_worker_pool) = w /\ brokerToSync'[w] = Append(brokerToSync[w], m)
  BY <1>3 DEF Send, SocketsTypeOK
<1>5. /\ OneToken(w, syncToBroker[w], Tail(m_sync_worker_pool), brokerToSync[w], m_state[w])
      /\ Head(m_sync_worker_pool) = w =>
           OneToken(w, syncToBroker[w], Tail(m_sync_worker_pool), Append(brokerToSync[w], m), m_state[w])
  BY <1>1, AllTyped, Employed
<1> QED  BY <1>2, <1>4, <1>5

(* broker.cpp 443-453: the workers of a work are told of its end.          *)
LEMMA EndWorkToken ==
  ASSUME SocketsTypeOK, BrokerTypeOK, TokenInv, NEW i \in 1 .. Len(m_work_list), EndWork(i),
         NEW w \in SyncWorkers, NEW up, NEW pool,
         Typed(w, up, pool, brokerToSync[w]), OneToken(w, up, pool, brokerToSync[w], m_state[w])
  PROVE  OneToken(w, up, pool, brokerToSync'[w], m_state[w])
<1> DEFINE s == DonesFor(m_work_list[i], w)
<1>1. /\ s \in Seq(WorkerMessage) /\ \A j \in DOMAIN s : s[j].type = "DONE"
      /\ brokerToSync'[w] = brokerToSync[w] \o s
  BY DonesSent
<1> HIDE DEF s
<1> QED  BY <1>1, ToldDone

(* A worker's message is read, whatever follows from it.                   *)
LEMMA ReadToken ==
  ASSUME SocketsTypeOK, BrokerTypeOK, TokenInv, NEW v \in SyncWorkers, syncToBroker[v] # <<>>,
         syncToBroker' = Receive(syncToBroker, v), NEW w \in SyncWorkers
  PROVE  /\ OneToken(w, syncToBroker'[w], m_sync_worker_pool, brokerToSync[w], m_state[w])
         /\ Typed(w, syncToBroker'[w], m_sync_worker_pool, brokerToSync[w])
         /\ Head(syncToBroker[v]).type = "READY" =>
              OneToken(w, syncToBroker'[w], Append(m_sync_worker_pool, v), brokerToSync[w], m_state[w])
<1>1. /\ OneToken(w, syncToBroker[w], m_sync_worker_pool, brokerToSync[w], m_state[w])
      /\ Typed(w, syncToBroker[w], m_sync_worker_pool, brokerToSync[w])
  BY AllTyped DEF TokenInv
<1>2. CASE w = v
  <2>1. syncToBroker'[w] = Tail(syncToBroker[w])
    BY <1>2 DEF Receive, SocketsTypeOK
  <2>2. Head(syncToBroker[w]) \in SyncMessage /\ Tail(syncToBroker[w]) \in Seq(SyncMessage)
    BY <1>2, HeadTailProperties DEF SocketsTypeOK
  <2>3. Typed(w, syncToBroker'[w], m_sync_worker_pool, brokerToSync[w])
    BY <1>1, <2>1, <2>2 DEF Typed
  <2>4. Head(syncToBroker[w]).type = "READY" => Head(syncToBroker[w]) = Ready
    BY <2>2, ReadyOnly
  <2> QED  BY <1>1, <1>2, <2>1, <2>3, <2>4, Heard
<1>3. CASE w # v
  <2>1. syncToBroker'[w] = syncToBroker[w]
    BY <1>3 DEF Receive, SocketsTypeOK
  <2> QED  BY <1>1, <1>3, <2>1, OtherJoins
<1> QED  BY <1>2, <1>3

(* No step of the broker gives a worker a second token.                    *)
LEMMA BrokerToken ==
  ASSUME SocketsTypeOK, BrokerTypeOK, TokenInv, BrokerNext, UNCHANGED m_state
  PROVE  TokenInv'
<1>1. ASSUME NEW r \in Rrhs, RrhRequest(r) PROVE TokenInv'
  <2>1. UNCHANGED syncToBroker /\ (KeepWorkersAlive \/ UNCHANGED <<m_sync_worker_pool, brokerToSync>>)
    BY <1>1 DEF RrhRequest
  <2>2. CASE UNCHANGED <<m_sync_worker_pool, brokerToSync>>
    BY <2>1, <2>2 DEF TokenInv
  <2> QED  BY <2>1, <2>2, KeepAliveToken
<1>2. CASE KeepAlive
  BY <1>2, KeepAliveToken DEF KeepAlive
<1>3. ASSUME NEW b \in Buffers, RegisterBuffer(b) \/ SpawnForFrame(b) PROVE TokenInv'
  BY <1>3 DEF RegisterBuffer, SpawnForFrame, TokenInv
<1>4. ASSUME NEW b \in Buffers, ServeFrame(b) PROVE TokenInv'
  <2> DEFINE f == Head(bufferToBroker[b]).frame
             works == WorksWith(b, f)
  <2>1. /\ TakeDemodWorker(f) /\ m_sync_worker_pool # <<>> /\ ForwardJob(works, b, f)
        /\ UNCHANGED syncToBroker
    BY <1>4 DEF ServeFrame
  <2>2. f \in Frame
    BY <1>4, AnnouncesFrameType DEF ServeFrame
  <2> HIDE DEF f
  <2>3. works \in Seq(Local_work_info) \ {<<>>}
    BY <2>1, <2>2, WorksWithType, SocketsAssumption
  <2> HIDE DEF works
  <2> QED  BY <2>1, <2>3, ForwardToken
<1>5. CASE FinishAttribution
  <2>1. UNCHANGED syncToBroker
    BY <1>5 DEF FinishAttribution
  <2>2. \/ UNCHANGED <<m_sync_worker_pool, brokerToSync>>
        \/ /\ m_work_list # <<>> /\ m_sync_worker_pool # <<>>
           /\ ForwardJob(m_work_list, Head(pending).buffer, Head(pending).frame)
           /\ pending # <<>>
    BY <1>5 DEF FinishAttribution
  <2>3. CASE UNCHANGED <<m_sync_worker_pool, brokerToSync>>
    BY <2>1, <2>3 DEF TokenInv
  <2>4. CASE /\ m_work_list # <<>> /\ m_sync_worker_pool # <<>>
             /\ ForwardJob(m_work_list, Head(pending).buffer, Head(pending).frame)
             /\ pending # <<>>
    <3>1. Head(pending) \in Request
      BY <2>4, HeadTailProperties DEF BrokerTypeOK
    <3>2. Head(pending).buffer \in Buffers /\ m_work_list \in Seq(Local_work_info) \ {<<>>}
      BY <2>4, <3>1 DEF Request, BrokerTypeOK
    <3> QED  BY <2>1, <2>4, <3>2, ForwardToken
  <2> QED  BY <2>2, <2>3, <2>4
<1>6. ASSUME NEW v \in SyncWorkers, WorkerReady(v) PROVE TokenInv'
  <2>1. /\ syncToBroker[v] # <<>> /\ Head(syncToBroker[v]).type = "READY"
        /\ syncToBroker' = Receive(syncToBroker, v)
        /\ m_sync_worker_pool' = Append(m_sync_worker_pool, v)
        /\ UNCHANGED brokerToSync
    BY <1>6 DEF WorkerReady, ServeSync
  <2> QED  BY <2>1, ReadToken DEF TokenInv
<1>7. ASSUME NEW v \in SyncWorkers, ForwardReply(v) PROVE TokenInv'
  <2>1. /\ syncToBroker[v] # <<>> /\ syncToBroker' = Receive(syncToBroker, v)
        /\ UNCHANGED <<m_sync_worker_pool, brokerToSync>>
    BY <1>7 DEF ForwardReply, ServeSync
  <2> QED  BY <2>1, ReadToken DEF TokenInv
<1>8. ASSUME NEW v \in SyncWorkers, WorkerSyncDone(v) PROVE TokenInv'
  <2> DEFINE I == UndergoingWorks(Head(syncToBroker[v]).work_id)
             i == First(I)
  <2>1. /\ syncToBroker[v] # <<>> /\ syncToBroker' = Receive(syncToBroker, v)
        /\ UNCHANGED m_sync_worker_pool
    BY <1>8 DEF WorkerSyncDone, ServeSync
  <2>2. I # {} => i \in 1 .. Len(m_work_list)
    BY UndergoingType
  <2>3. (I # {} /\ EndWork(i)) \/ UNCHANGED brokerToSync
    BY <1>8 DEF WorkerSyncDone
  <2> HIDE DEF I, i
  <2>4. CASE UNCHANGED brokerToSync
    BY <2>1, <2>4, ReadToken DEF TokenInv
  <2>5. CASE I # {} /\ EndWork(i)
    BY <2>1, <2>2, <2>5, ReadToken, EndWorkToken DEF TokenInv
  <2> QED  BY <2>3, <2>4, <2>5
<1>9. ASSUME NEW a \in DemodWorkers, WorkerDemodDone(a) PROVE TokenInv'
  <2> DEFINE I == UndergoingWorks(Head(demodToBroker[a]).work_id)
             i == First(I)
  <2>1. UNCHANGED <<syncToBroker, m_sync_worker_pool>>
    BY <1>9 DEF WorkerDemodDone
  <2>2. I # {} => i \in 1 .. Len(m_work_list)
    BY UndergoingType
  <2>3. (I # {} /\ EndWork(i)) \/ UNCHANGED brokerToSync
    BY <1>9 DEF WorkerDemodDone
  <2> HIDE DEF I, i
  <2>4. CASE UNCHANGED brokerToSync
    BY <2>1, <2>4 DEF TokenInv
  <2>5. CASE I # {} /\ EndWork(i)
    BY <2>1, <2>2, <2>5, AllTyped, EndWorkToken DEF TokenInv
  <2> QED  BY <2>3, <2>4, <2>5
<1> QED  BY <1>1, <1>2, <1>3, <1>4, <1>5, <1>6, <1>7, <1>8, <1>9
         DEF BrokerNext, FrontendRrh, FrontendBuffer, Backend

-----------------------------------------------------------------------------
(* Steps of the workers                                                     *)

(* Two queues and the state of one worker change, and keep their types.    *)
LEMMA WorkerToken ==
  ASSUME TokenInv, NEW w \in SyncWorkers, UNCHANGED m_sync_worker_pool,
         \A v \in SyncWorkers \ {w} : /\ syncToBroker'[v] = syncToBroker[v]
                                      /\ brokerToSync'[v] = brokerToSync[v]
                                      /\ m_state'[v] = m_state[v],
         OneToken(w, syncToBroker'[w], m_sync_worker_pool, brokerToSync'[w], m_state'[w])
  PROVE  TokenInv'
BY DEF TokenInv

(* A worker that gives its work up announces itself once (worker_zmq_source*)
(* 92-118).                                                                *)
LEMMA ReportOnce ==
  ASSUME NEW w \in SyncWorkers, SyncTypeOK, NEW info \in m_work_info[w]
  PROVE  Report(info) \in Seq(SyncMessage) /\ AtMostOne(Marked(Report(info), {Ready}))
<1>1. SyncDone(info.work_id) \in SyncMessage /\ Ready \in SyncMessage /\ SyncDone(info.work_id) # Ready
  BY DEF SyncTypeOK, Work_info, SyncDone, Ready, SyncMessage
<1> QED  BY <1>1 DEF Report, AtMostOne, Marked

(* So does one that has nothing to report.                                 *)
LEMMA ReadyOnce == <<Ready>> \in Seq(SyncMessage) /\ AtMostOne(Marked(<<Ready>>, {Ready}))
<1>1. Ready \in SyncMessage
  BY DEF Ready, SyncMessage
<1> QED  BY <1>1 DEF AtMostOne, Marked

(* No step of a worker gives it a second token: it announces itself when   *)
(* it starts, when it is asked and when its work is over, and has none     *)
(* before.                                                                 *)
LEMMA SyncToken ==
  ASSUME SocketsTypeOK, BrokerTypeOK, SyncTypeOK, TokenInv, NEW w \in SyncWorkers,
         SyncStart(w) \/ SyncNext(w) \/ SyncFirstSamples(w), UNCHANGED m_sync_worker_pool
  PROVE  TokenInv'
<1> DEFINE up == syncToBroker[w]
           pool == m_sync_worker_pool
           down == brokerToSync[w]
           state == m_state[w]
<1>1. OneToken(w, up, pool, down, state) /\ Typed(w, up, pool, down)
  BY AllTyped DEF TokenInv
<1>2. /\ syncToBroker \in [SyncWorkers -> Seq(SyncMessage)]
      /\ brokerToSync \in [SyncWorkers -> Seq(WorkerMessage)]
      /\ m_state \in [SyncWorkers -> SyncStates]
  BY DEF SocketsTypeOK, SyncTypeOK
<1>3. down # <<>> => Tail(down) \in Seq(WorkerMessage) /\ Head(down) \in WorkerMessage
  BY <1>2, HeadTailProperties
<1>4. down # <<>> => Typed(w, up, pool, Tail(down))
  BY <1>1, <1>3 DEF Typed
<1>5. \A v \in SyncWorkers \ {w} : /\ syncToBroker'[v] = syncToBroker[v]
                                   /\ brokerToSync'[v] = brokerToSync[v]
                                   /\ m_state'[v] = m_state[v]
  BY <1>2 DEF SyncStart, SyncNext, SyncAck, SyncLateDone, SyncJob, SyncEndOfWork,
              SyncLosesFraming, SyncGiveUp, SyncFirstSamples, SendsToBroker, Told, Receive,
              syncVars, sockets
<1>6. CASE SyncStart(w)
  <2>1. /\ state = "NOT_STARTED" /\ m_state'[w] = "IDLE"
        /\ syncToBroker'[w] = up \o <<Ready>> /\ brokerToSync'[w] = down
    BY <1>2, <1>6 DEF SyncStart, SendsToBroker
  <2>2. Marked(up, {Ready}) \cup Marked(pool, {w}) \cup Marked(down, Orders) = {}
    BY <1>1, <2>1 DEF OneToken
  <2>3. OneToken(w, up \o <<Ready>>, pool, down, "IDLE")
    BY <1>1, <2>2, Announced, ReadyOnce
  <2> QED  BY <1>5, <2>1, <2>3, WorkerToken
<1>7. CASE SyncAck(w)
  <2>1. /\ state = "IDLE" /\ m_state'[w] = state /\ down # <<>> /\ Head(down).type = "ACK"
        /\ syncToBroker'[w] = up \o <<Ready>> /\ brokerToSync'[w] = Tail(down)
    BY <1>2, <1>7 DEF SyncAck, SendsToBroker, Idle, Receive, syncVars
  <2>2. Head(down) \in Orders
    BY <1>3, <2>1 DEF Orders
  <2>3. Marked(up, {Ready}) \cup Marked(pool, {w}) \cup Marked(Tail(down), Orders) = {}
    BY <1>1, <2>1, <2>2, Obeyed
  <2>4. OneToken(w, up \o <<Ready>>, pool, Tail(down), "IDLE")
    BY <1>4, <2>1, <2>3, Announced, ReadyOnce
  <2> QED  BY <1>5, <2>1, <2>4, WorkerToken
<1>8. CASE SyncLateDone(w)
  <2>1. /\ m_state'[w] = state /\ down # <<>>
        /\ syncToBroker'[w] = up \o <<>> /\ brokerToSync'[w] = Tail(down)
    BY <1>2, <1>8 DEF SyncLateDone, SendsToBroker, Idle, Receive, syncVars
  <2>2. up \o <<>> = up
    BY <1>2
  <2>3. OneToken(w, up, pool, Tail(down), state)
    BY <1>1, <2>1, Obeyed
  <2> QED  BY <1>5, <2>1, <2>2, <2>3, WorkerToken
<1>9. CASE SyncJob(w)
  <2> DEFINE m == Subscribed(Head(down).client)
  <2>1. /\ m_state'[w] = "WORKING" /\ down # <<>> /\ Head(down).type = "JOB"
        /\ syncToBroker'[w] = up \o <<m>> /\ brokerToSync'[w] = Tail(down)
    BY <1>2, <1>9 DEF SyncJob, SendsToBroker, Idle, Receive
  <2>2. Head(down) \in Orders /\ Head(down) \in JobMessage
    BY <1>3, <2>1 DEF Orders, WorkerMessage
  <2>3. m \in SyncMessage /\ m # Ready
    BY <2>2 DEF Subscribed, SyncMessage, Ready, JobMessage
  <2> HIDE DEF m
  <2>4. Marked(up, {Ready}) \cup Marked(pool, {w}) \cup Marked(Tail(down), Orders) = {}
    BY <1>1, <2>1, <2>2, Obeyed
  <2>5. Marked(up \o <<m>>, {Ready}) = Marked(up, {Ready})
    <3> DEFINE s == <<m>>
    <3>1. s \in Seq(SyncMessage) /\ \A i \in DOMAIN s : s[i] \notin {Ready}
      BY <2>3
    <3>2. up \in Seq(SyncMessage)
      BY <1>2
    <3> HIDE DEF s, up
    <3>3. Marked(up \o s, {Ready}) = Marked(up, {Ready})
      BY <3>1, <3>2, MarkedJoin
    <3> QED  BY <3>3 DEF s
  <2>6. OneToken(w, up \o <<m>>, pool, Tail(down), "WORKING")
    BY <2>4, <2>5 DEF OneToken, AtMostOne
  <2> QED  BY <1>5, <2>1, <2>6, WorkerToken
<1>10. CASE SyncEndOfWork(w)
  <2>1. /\ state = "WORKING" /\ m_state'[w] = "IDLE" /\ down # <<>>
        /\ syncToBroker'[w] = up \o <<Ready>> /\ brokerToSync'[w] = Tail(down)
    BY <1>2, <1>10 DEF SyncEndOfWork, SendsToBroker, Told, Receive
  <2>2. OneToken(w, up, pool, Tail(down), state)
    BY <1>1, <2>1, Obeyed
  <2>3. Marked(up, {Ready}) \cup Marked(pool, {w}) \cup Marked(Tail(down), Orders) = {}
    BY <2>1, <2>2 DEF OneToken
  <2>4. OneToken(w, up \o <<Ready>>, pool, Tail(down), "IDLE")
    BY <1>4, <2>1, <2>3, Announced, ReadyOnce
  <2> QED  BY <1>5, <2>1, <2>4, WorkerToken
<1>11. CASE SyncLosesFraming(w)
  <2>1. PICK info \in m_work_info[w] :
        /\ state = "WORKING" /\ m_state'[w] = "BLOCKED" /\ down # <<>>
        /\ syncToBroker'[w] = up \o Report(info) /\ brokerToSync'[w] = Tail(down)
    BY <1>2, <1>11 DEF SyncLosesFraming, SendsToBroker, Told, Receive
  <2>2. OneToken(w, up, pool, Tail(down), state)
    BY <1>1, <2>1, Obeyed
  <2>3. Marked(up, {Ready}) \cup Marked(pool, {w}) \cup Marked(Tail(down), Orders) = {}
    BY <2>1, <2>2 DEF OneToken
  <2>4. OneToken(w, up \o Report(info), pool, Tail(down), "BLOCKED")
    BY <1>4, <2>1, <2>3, Announced, ReportOnce
  <2> QED  BY <1>5, <2>1, <2>4, WorkerToken
<1>12. CASE SyncGiveUp(w)
  <2>1. PICK info \in m_work_info[w] :
        /\ state = "WORKING" /\ m_state'[w] = "IDLE"
        /\ syncToBroker'[w] = up \o Report(info) /\ brokerToSync'[w] = down
    BY <1>2, <1>12 DEF SyncGiveUp, SendsToBroker
  <2>2. Marked(up, {Ready}) \cup Marked(pool, {w}) \cup Marked(down, Orders) = {}
    BY <1>1, <2>1 DEF OneToken
  <2>3. OneToken(w, up \o Report(info), pool, down, "IDLE")
    BY <1>1, <2>2, Announced, ReportOnce
  <2> QED  BY <1>5, <2>1, <2>3, WorkerToken
<1>13. CASE SyncFirstSamples(w)
  BY <1>13 DEF SyncFirstSamples, sockets, TokenInv
<1> QED  BY <1>6, <1>7, <1>8, <1>9, <1>10, <1>11, <1>12, <1>13 DEF SyncNext

(* A set of tokens that are the same is counted at most once.              *)
LEMMA CountedOnce ==
  ASSUME TokenInv, NEW w \in SyncWorkers, SocketsTypeOK
  PROVE  Cardinality(Tokens(w)) <= 1
<1> DEFINE A == Marked(syncToBroker[w], {Ready})
           P == Marked(m_sync_worker_pool, {w})
           O == Marked(brokerToSync[w], Orders)
<1>1. OneToken(w, syncToBroker[w], m_sync_worker_pool, brokerToSync[w], m_state[w])
  BY DEF TokenInv
<1>2. {j \in DOMAIN syncToBroker[w] : syncToBroker[w][j].type = "READY"} = A
  <2>1. \A j \in DOMAIN syncToBroker[w] : syncToBroker[w][j] \in SyncMessage
    BY Element DEF SocketsTypeOK
  <2> QED  BY <2>1, ReadyOnly DEF Marked
<1>3. {j \in DOMAIN brokerToSync[w] : brokerToSync[w][j].type \in {"ACK", "JOB"}} = O
  <2>1. \A j \in DOMAIN brokerToSync[w] : brokerToSync[w][j] \in WorkerMessage
    BY Element DEF SocketsTypeOK
  <2> QED  BY <2>1 DEF Marked, Orders
<1>4. {j \in DOMAIN m_sync_worker_pool : m_sync_worker_pool[j] = w} = P
  BY DEF Marked
<1> DEFINE working == {<<"working">> : x \in {w} \cap {v \in SyncWorkers : m_state[v] = "WORKING"}}
<1>5. Tokens(w) = {<<"ready", i>> : i \in A} \cup {<<"pool", i>> : i \in P}
                   \cup {<<"sent", i>> : i \in O} \cup working
  BY <1>2, <1>3, <1>4 DEF Tokens
<1> HIDE DEF A, P, O
<1>6. /\ AtMostOne(A) /\ AtMostOne(P) /\ AtMostOne(O)
      /\ A = {} \/ P = {}
      /\ A \cup P = {} \/ O = {}
      /\ m_state[w] = "WORKING" => A \cup P \cup O = {}
  BY <1>1 DEF OneToken, A, P, O
<1>7. \A x \in working : x = <<"working">> /\ m_state[w] = "WORKING"
  OBVIOUS
<1> HIDE DEF working
<1>8. \A x, y \in Tokens(w) : x = y
  BY <1>5, <1>6, <1>7 DEF AtMostOne
<1>9. CASE Tokens(w) = {}
  BY <1>9, FS_EmptySet
<1>10. CASE Tokens(w) # {}
  <2>1. PICK x : x \in Tokens(w)
    BY <1>10
  <2>2. Tokens(w) = {x}
    BY <1>8, <2>1
  <2> QED  BY <2>2, FS_Singleton
<1> QED  BY <1>9, <1>10

(* Every worker keeps its token in one place.                              *)
LEMMA TokensHeld == Spec => [](TypeInv /\ TokenInv)
<1>1. Init => TokenInv
  BY DEF Init, SocketsInit, BrokerInit, SyncInit, TokenInv, OneToken, AtMostOne, Marked
<1>2. TypeInv /\ TokenInv /\ [Next]_vars => TokenInv'
  <2> SUFFICES ASSUME TypeInv, TokenInv, [Next]_vars PROVE TokenInv'
    OBVIOUS
  <2> USE DEF TypeInv, TypeOK
  <2>1. CASE BrokerStep
    BY <2>1, BrokerToken DEF BrokerStep, syncVars
  <2>2. ASSUME NEW w \in SyncWorkers, StartSync(w) \/ SyncStep(w) PROVE TokenInv'
    BY <2>2, SyncToken DEF StartSync, SyncStep, brokerVars
  <2>3. CASE \/ \E b \in Buffers : StartBuffer(b) \/ BufferStep(b)
             \/ \E r \in Rrhs : RrhStarts(r) \/ RrhStep(r)
             \/ DemodStep \/ UNCHANGED vars
    <3>1. UNCHANGED <<syncToBroker, m_sync_worker_pool, brokerToSync, m_state>>
      BY <2>3 DEF StartBuffer, BufferStep, RrhStarts, RrhStep, DemodStep, BufferStart,
                  BufferNext, BufferAcked, BufferRequestsWorker, BufferSubscribed,
                  RequestBuffer, BufferGranted, RrhStops, RrhDetects, RrhWork,
                  FrameFound, FrameDecoded, brokerVars, syncVars, sockets, vars
    <3> QED  BY <3>1 DEF TokenInv
  <2> QED  BY <2>1, <2>2, <2>3 DEF Next
<1> QED  BY <1>1, <1>2, TypeInvariant, PTL DEF Spec

(* broker.cpp 110-156, 403-411, 520-534 and worker_zmq_source_impl.cc      *)
(* 92-282: a synchronization worker holds the right to one job, whatever   *)
(* the order of its READY, a keep-alive, a job and the end of a work.      *)
THEOREM TokensCounted == Spec => []OneTokenPerWorker
<1>1. TypeInv /\ TokenInv => OneTokenPerWorker
  BY CountedOnce DEF OneTokenPerWorker, TypeInv, TypeOK
<1> QED  BY <1>1, TokensHeld, PTL

-----------------------------------------------------------------------------
(* The end of a work                                                       *)

(* Worker w is on the list of a work with this id.                         *)
LiveIn(works, w, id) ==
  \E i \in DOMAIN works : works[i].work_id = id /\ works[i].worker_id[w] > 0

(* Worker w will be told of the end of the work: it is on its list, or the *)
(* DONE is in its queue behind the given place.                            *)
Promised(works, w, down, place, id) ==
  \/ LiveIn(works, w, id)
  \/ \E j \in DOMAIN down : j > place /\ IsDone(down[j], id)

(* It will be told of those it works for, and of those it will work for.   *)
NoOrphan(works, w, down, inHand) ==
  /\ \A id \in inHand : Promised(works, w, down, 0, id)
  /\ \A i \in DOMAIN down :
       down[i].type = "JOB" => Promised(works, w, down, i, down[i].work_id)

InHand(w) == {info.work_id : info \in {x \in m_work_info[w] : m_state[w] = "WORKING"}}

OrphanInv == \A w \in SyncWorkers : NoOrphan(m_work_list, w, brokerToSync[w], InHand(w))

(* The invariant is NoOrphanJob, with places in the queue.                 *)
LEMMA OrphanIsOrphan ==
  ASSUME SocketsTypeOK
  PROVE  OrphanInv => NoOrphanJob
<1> SUFFICES ASSUME OrphanInv, NEW w \in SyncWorkers
             PROVE  /\ m_state[w] = "WORKING" =>
                         \A info \in m_work_info[w] :
                           \/ LiveFor(w, info.work_id)
                           \/ \E i \in DOMAIN brokerToSync[w] : IsDone(brokerToSync[w][i], info.work_id)
                    /\ \A i \in DOMAIN brokerToSync[w] : brokerToSync[w][i].type = "JOB" =>
                         \/ LiveFor(w, brokerToSync[w][i].work_id)
                         \/ \E j \in DOMAIN brokerToSync[w] :
                              j > i /\ IsDone(brokerToSync[w][j], brokerToSync[w][i].work_id)
  BY DEF NoOrphanJob
<1>1. \A id : LiveIn(m_work_list, w, id) <=> LiveFor(w, id)
  BY DEF LiveIn, LiveFor, UndergoingWorks
<1>2. NoOrphan(m_work_list, w, brokerToSync[w], InHand(w))
  BY DEF OrphanInv
<1>3. m_state[w] = "WORKING" => \A info \in m_work_info[w] : info.work_id \in InHand(w)
  BY DEF InHand
<1> QED  BY <1>1, <1>2, <1>3 DEF NoOrphan, Promised

-----------------------------------------------------------------------------
(* Moves                                                                    *)

(* Works change and no worker is struck off.                               *)
LEMMA Remembered ==
  ASSUME NEW works, NEW more, NEW w, NEW down, NEW inHand, NoOrphan(works, w, down, inHand),
         \A id : LiveIn(works, w, id) => LiveIn(more, w, id)
  PROVE  NoOrphan(more, w, down, inHand)
BY DEF NoOrphan, Promised

(* A keep-alive, or a job for a work that has the worker on its list.      *)
LEMMA Ordered ==
  ASSUME NEW works, NEW w, NEW down \in Seq(WorkerMessage), NEW inHand,
         NoOrphan(works, w, down, inHand), NEW m \in WorkerMessage,
         m.type = "JOB" => LiveIn(works, w, m.work_id)
  PROVE  NoOrphan(works, w, Append(down, m), inHand)
<1> DEFINE d == Append(down, m)
           n == Len(down)
<1>1. /\ \A i \in DOMAIN down : d[i] = down[i]
      /\ d[n + 1] = m
      /\ DOMAIN d = DOMAIN down \cup {n + 1}
  BY Appended
<1> HIDE DEF d, n
<1>2. \A place, id : Promised(works, w, down, place, id) => Promised(works, w, d, place, id)
  BY <1>1 DEF Promised
<1>3. ASSUME NEW i \in DOMAIN d, d[i].type = "JOB"
      PROVE  Promised(works, w, d, i, d[i].work_id)
  BY <1>1, <1>2, <1>3 DEF NoOrphan, Promised
<1> QED  BY <1>2, <1>3 DEF NoOrphan, d

(* A work ends: who is struck off is told, behind all jobs.                *)
LEMMA Struck ==
  ASSUME NEW works, NEW fewer, NEW w, NEW down \in Seq(WorkerMessage), NEW inHand,
         NoOrphan(works, w, down, inHand), NEW s \in Seq(WorkerMessage), NEW id,
         \A j \in DOMAIN s : IsDone(s[j], id),
         \A x : LiveIn(works, w, x) => LiveIn(fewer, w, x) \/ (x = id /\ 1 \in DOMAIN s)
  PROVE  NoOrphan(fewer, w, down \o s, inHand)
<1> DEFINE d == down \o s
           n == Len(down)
<1>1. /\ n \in Nat /\ \A i \in DOMAIN down : i \in Nat /\ i <= n
      /\ \A i \in DOMAIN down : i \in DOMAIN d /\ d[i] = down[i]
      /\ \A i \in DOMAIN s : n + i \in DOMAIN d /\ d[n + i] = s[i]
      /\ \A i \in DOMAIN d : i \in DOMAIN down \/ i - n \in DOMAIN s
  <2>1. n \in Nat /\ \A i \in DOMAIN down : i \in Nat /\ i <= n
    OBVIOUS
  <2> QED  BY <2>1, Joined
<1>2. \A i \in DOMAIN d : i \in Int /\ n + (i - n) = i
  <2>1. d \in Seq(WorkerMessage)
    BY Joined
  <2> HIDE DEF d
  <2>2. \A i \in DOMAIN d : i \in Int
    BY <2>1
  <2> QED  BY <1>1, <2>2
<1> HIDE DEF d, n
<1>3. ASSUME NEW place \in {0} \cup DOMAIN down, NEW x, Promised(works, w, down, place, x)
      PROVE  Promised(fewer, w, d, place, x)
  <2>1. CASE LiveIn(works, w, x) /\ ~LiveIn(fewer, w, x)
    <3>1. x = id /\ 1 \in DOMAIN s
      BY <2>1
    <3>2. n + 1 \in DOMAIN d /\ IsDone(d[n + 1], x)
      BY <1>1, <3>1
    <3>3. n + 1 > place
      BY <1>1
    <3> QED  BY <3>2, <3>3 DEF Promised
  <2> QED  BY <1>1, <1>3, <2>1 DEF Promised
<1>4. ASSUME NEW i \in DOMAIN d, d[i].type = "JOB"
      PROVE  Promised(fewer, w, d, i, d[i].work_id)
  <2>1. i \in DOMAIN down
    <3>1. CASE i - n \in DOMAIN s
      BY <1>1, <1>2, <1>4, <3>1 DEF IsDone
    <3> QED  BY <1>1, <3>1
  <2>2. Promised(works, w, down, i, d[i].work_id)
    BY <1>1, <1>4, <2>1 DEF NoOrphan
  <2> QED  BY <1>3, <2>1, <2>2
<1>5. \A x \in inHand : Promised(fewer, w, d, 0, x)
  BY <1>3 DEF NoOrphan
<1> QED  BY <1>4, <1>5 DEF NoOrphan, d

(* A worker reads a message, and goes on with the work of a job only.      *)
LEMMA TookUp ==
  ASSUME NEW works, NEW w, NEW down \in Seq(WorkerMessage), NEW inHand,
         NoOrphan(works, w, down, inHand), down # <<>>
  PROVE  /\ NoOrphan(works, w, Tail(down), {})
         /\ Head(down).type = "JOB" => NoOrphan(works, w, Tail(down), {Head(down).work_id})
<1> DEFINE d == Tail(down)
<1>1. /\ Head(down) = down[1] /\ 1 \in DOMAIN down
      /\ \A i \in DOMAIN d : i \in Nat /\ i + 1 \in DOMAIN down /\ d[i] = down[i + 1]
      /\ \A i \in DOMAIN down : i # 1 => i - 1 \in DOMAIN d /\ d[i - 1] = down[i]
  BY Shifted
<1>2. \A i \in DOMAIN down : i \in Nat
  OBVIOUS
<1> HIDE DEF d
<1>3. ASSUME NEW place \in Nat, NEW id, Promised(works, w, down, place + 1, id)
      PROVE  Promised(works, w, d, place, id)
  <2>1. ASSUME NEW j \in DOMAIN down, j > place + 1
        PROVE  j - 1 \in DOMAIN d /\ j - 1 > place /\ d[j - 1] = down[j]
    <3>1. j \in Nat /\ j # 1 /\ j - 1 > place
      BY <1>2, <2>1
    <3> QED  BY <1>1, <3>1
  <2> QED  BY <1>3, <2>1 DEF Promised
<1>4. ASSUME NEW i \in DOMAIN d, d[i].type = "JOB"
      PROVE  Promised(works, w, d, i, d[i].work_id)
  <2>1. i \in Nat /\ i + 1 \in DOMAIN down /\ d[i] = down[i + 1]
    BY <1>1
  <2>2. Promised(works, w, down, i + 1, d[i].work_id)
    BY <1>4, <2>1 DEF NoOrphan
  <2> QED  BY <1>3, <2>1, <2>2
<1>5. ASSUME Head(down).type = "JOB" PROVE Promised(works, w, d, 0, Head(down).work_id)
  <2>1. Promised(works, w, down, 0 + 1, Head(down).work_id)
    BY <1>1, <1>5 DEF NoOrphan
  <2> QED  BY <1>3, <2>1
<1> QED  BY <1>4, <1>5 DEF NoOrphan, d

(* A worker gives its work up.                                             *)
LEMMA GivenUp ==
  ASSUME NEW works, NEW w, NEW down, NEW inHand, NoOrphan(works, w, down, inHand)
  PROVE  NoOrphan(works, w, down, {})
BY DEF NoOrphan

-----------------------------------------------------------------------------
(* What becomes of the lists of workers                                     *)

(* broker.cpp 309-348: who is on the list of a work stays there when a     *)
(* frame is combined with it.                                              *)
LEMMA CombinedLive ==
  ASSUME BrokerTypeOK, NEW b \in Buffers, NEW f \in Frame, TakeDemodWorker(f),
         NEW w \in SyncWorkers, NEW id, LiveIn(m_work_list, w, id)
  PROVE  LiveIn(WorksWith(b, f), w, id)
<1> DEFINE k == ShouldCombine(f)
           works == WorksWith(b, f)
<1>1. m_work_list \in Seq(Local_work_info)
  BY DEF BrokerTypeOK
<1>2. PICK i \in DOMAIN m_work_list : m_work_list[i].work_id = id /\ m_work_list[i].worker_id[w] > 0
  BY DEF LiveIn
<1>3. m_work_list[i] \in Local_work_info
  BY <1>1, Element
<1>4. CASE Combinable(f) # {}
  <2>1. works = [m_work_list EXCEPT ![k] = Recounted(WithBuffer(@, b), 1)]
    BY <1>4 DEF WorksWith
  <2>2. i \in DOMAIN works /\ works[i] \in {m_work_list[i], Recounted(WithBuffer(m_work_list[i], b), 1)}
    BY <2>1
  <2> HIDE DEF works, k
  <2>3. works[i].work_id = id /\ works[i].worker_id[w] > 0
    BY <1>2, <1>3, <2>2 DEF Recounted, WithBuffer, Local_work_info
  <2> QED  BY <2>2, <2>3 DEF LiveIn, works
<1>5. CASE Combinable(f) = {}
  <2>1. works = Append(m_work_list, NewWork(b, f))
    BY <1>5 DEF WorksWith
  <2>2. NewWork(b, f) \in Local_work_info
    <3>1. m_demod_worker_pool = <<>> => m_ipc_file_idx \in DemodWorkers
      BY <1>5 DEF TakeDemodWorker, ReuseDemodWorker, SpawnDemodWorker
    <3> QED  BY <3>1, NewWorkType, SocketsAssumption
  <2>3. i \in DOMAIN works /\ works[i] = m_work_list[i]
    BY <1>1, <2>1, <2>2, Appended
  <2> HIDE DEF works
  <2> QED  BY <1>2, <2>3 DEF LiveIn, works
<1> QED  BY <1>4, <1>5

(* broker.cpp 112-115: the worker of a job is on the list of the work it   *)
(* is sent for, and nobody is struck off.                                  *)
LEMMA ForwardedLive ==
  ASSUME BrokerTypeOK, NEW works \in Seq(Local_work_info) \ {<<>>}, NEW pub, NEW f,
         m_sync_worker_pool # <<>>, ForwardJob(works, pub, f)
  PROVE  /\ \A w \in SyncWorkers : \A id : LiveIn(works, w, id) => LiveIn(m_work_list', w, id)
         /\ LiveIn(m_work_list', Head(m_sync_worker_pool), works[Len(works)].work_id)
<1> DEFINE last == Len(works)
           v    == Head(m_sync_worker_pool)
<1>1. last \in DOMAIN works /\ v \in SyncWorkers
  <2>1. last \in DOMAIN works
    BY EmptySeq
  <2> QED  BY <2>1, HeadTailProperties DEF BrokerTypeOK
<1>2. m_work_list' = [works EXCEPT ![last] = Recounted(WithWorker(@, v), 1)]
  BY DEF ForwardJob
<1>3. \A i \in DOMAIN works : works[i] \in Local_work_info
  BY Element
<1> HIDE DEF last, v
<1>4. DOMAIN m_work_list' = DOMAIN works
  BY <1>2
<1>5. ASSUME NEW i \in DOMAIN works
      PROVE  /\ m_work_list'[i].work_id = works[i].work_id
             /\ \A w \in SyncWorkers : works[i].worker_id[w] > 0 => m_work_list'[i].worker_id[w] > 0
             /\ i = last => m_work_list'[i].worker_id[v] > 0
  <2>1. m_work_list'[i] = IF i = last THEN Recounted(WithWorker(works[i], v), 1) ELSE works[i]
    BY <1>2
  <2>2. works[i] \in Local_work_info /\ works[i].worker_id \in [SyncWorkers -> Nat]
    BY <1>3 DEF Local_work_info
  <2>3. CASE i # last
    BY <2>1, <2>3
  <2>4. CASE i = last
    <3>1. /\ m_work_list'[i].work_id = works[i].work_id
          /\ m_work_list'[i].worker_id = [works[i].worker_id EXCEPT ![v] = @ + 1]
      BY <2>1, <2>2, <2>4 DEF Recounted, WithWorker, Local_work_info
    <3>2. \A w \in SyncWorkers : works[i].worker_id[w] \in Nat
      BY <2>2
    <3> QED  BY <1>1, <2>2, <3>1, <3>2
  <2> QED  BY <2>3, <2>4
<1>6. \A w \in SyncWorkers : \A id : LiveIn(works, w, id) => LiveIn(m_work_list', w, id)
  BY <1>4, <1>5 DEF LiveIn
<1>7. LiveIn(m_work_list', v, works[last].work_id)
  BY <1>1, <1>4, <1>5 DEF LiveIn
<1> QED  BY <1>6, <1>7 DEF last, v

(* broker.cpp 440-453: only the list of the work that ends is lost.        *)
LEMMA EndedLive ==
  ASSUME BrokerTypeOK, NEW k \in 1 .. Len(m_work_list), EndWork(k), NEW w \in SyncWorkers,
         NEW id, LiveIn(m_work_list, w, id)
  PROVE  \/ LiveIn(m_work_list', w, id)
         \/ id = m_work_list[k].work_id /\ m_work_list[k].worker_id[w] > 0
<1> DEFINE n == Len(m_work_list)
<1>1. n \in Nat /\ DOMAIN m_work_list = 1 .. n
  BY LenProperties DEF BrokerTypeOK
<1>2. m_work_list' = [j \in 1 .. (n - 1) |-> IF j < k THEN m_work_list[j] ELSE m_work_list[j + 1]]
  BY DEF EndWork
<1>3. PICK i \in DOMAIN m_work_list : m_work_list[i].work_id = id /\ m_work_list[i].worker_id[w] > 0
  BY DEF LiveIn
<1> HIDE DEF n
<1> DEFINE j == IF i < k THEN i ELSE i - 1
<1>4. CASE i # k
  <2>1. j \in 1 .. (n - 1) /\ m_work_list'[j] = m_work_list[i]
    <3>1. CASE i < k
      BY <1>1, <1>2, <3>1
    <3>2. CASE i > k
      BY <1>1, <1>2, <3>2
    <3> QED  BY <1>1, <1>4, <3>1, <3>2
  <2>2. j \in DOMAIN m_work_list'
    BY <1>2, <2>1
  <2> QED  BY <1>3, <2>1, <2>2 DEF LiveIn
<1> QED  BY <1>3, <1>4

-----------------------------------------------------------------------------
(* Steps                                                                    *)

handing == <<m_state, m_work_info>>

(* A job is sent, and the worker written down for it.                      *)
LEMMA ForwardOrphan ==
  ASSUME SocketsTypeOK, BrokerTypeOK, OrphanInv,
         NEW works \in Seq(Local_work_info) \ {<<>>}, NEW pub \in Buffers, NEW f,
         \A w \in SyncWorkers : \A id : LiveIn(m_work_list, w, id) => LiveIn(works, w, id),
         m_sync_worker_pool # <<>>, ForwardJob(works, pub, f), UNCHANGED handing
  PROVE  OrphanInv'
<1> DEFINE v == Head(m_sync_worker_pool)
<1> SUFFICES ASSUME NEW w \in SyncWorkers
             PROVE  NoOrphan(m_work_list', w, brokerToSync'[w], InHand(w)')
  BY DEF OrphanInv
<1>1. InHand(w)' = InHand(w)
  BY DEF InHand, handing
<1>2. PICK m \in JobMessage : /\ m \in Orders /\ m.work_id = works[Len(works)].work_id
                              /\ brokerToSync' = Send(brokerToSync, v, m)
  BY JobSent
<1>3. brokerToSync'[w] = brokerToSync[w] \/ (w = v /\ brokerToSync'[w] = Append(brokerToSync[w], m))
  BY <1>2 DEF Send, SocketsTypeOK
<1>4. NoOrphan(m_work_list, w, brokerToSync[w], InHand(w))
  BY DEF OrphanInv
<1>5. \A id : LiveIn(m_work_list, w, id) => LiveIn(m_work_list', w, id)
  BY ForwardedLive
<1>6. NoOrphan(m_work_list', w, brokerToSync[w], InHand(w))
  BY <1>4, <1>5, Remembered
<1>7. LiveIn(m_work_list', v, m.work_id)
  BY <1>2, ForwardedLive
<1>8. brokerToSync[w] \in Seq(WorkerMessage) /\ m \in WorkerMessage
  BY <1>2 DEF SocketsTypeOK, WorkerMessage
<1> HIDE DEF v
<1>9. CASE w = v /\ brokerToSync'[w] = Append(brokerToSync[w], m)
  <2>1. LiveIn(m_work_list', w, m.work_id)
    BY <1>7, <1>9
  <2>2. NoOrphan(m_work_list', w, Append(brokerToSync[w], m), InHand(w))
    BY <1>6, <1>8, <2>1, Ordered
  <2> QED  BY <1>1, <1>9, <2>2
<1> QED  BY <1>1, <1>3, <1>6, <1>9

(* A work ends, and all workers on its list are told.                      *)
LEMMA EndWorkOrphan ==
  ASSUME SocketsTypeOK, BrokerTypeOK, OrphanInv, NEW i \in 1 .. Len(m_work_list), EndWork(i),
         UNCHANGED handing
  PROVE  OrphanInv'
<1> SUFFICES ASSUME NEW w \in SyncWorkers
             PROVE  NoOrphan(m_work_list', w, brokerToSync'[w], InHand(w)')
  BY DEF OrphanInv
<1>1. InHand(w)' = InHand(w)
  BY DEF InHand, handing
<1>2. NoOrphan(m_work_list, w, brokerToSync[w], InHand(w)) /\ brokerToSync[w] \in Seq(WorkerMessage)
  BY DEF OrphanInv, SocketsTypeOK
<1> DEFINE s == DonesFor(m_work_list[i], w)
           id == m_work_list[i].work_id
<1>3. /\ s \in Seq(WorkerMessage) /\ \A j \in DOMAIN s : s[j].type = "DONE" /\ s[j].work_id = id
      /\ m_work_list[i].worker_id[w] > 0 => 1 \in DOMAIN s
      /\ brokerToSync'[w] = brokerToSync[w] \o s
  BY DonesSent
<1>4. \A x : LiveIn(m_work_list, w, x) =>
               LiveIn(m_work_list', w, x) \/ (x = id /\ m_work_list[i].worker_id[w] > 0)
  BY EndedLive
<1> HIDE DEF s, id
<1>5. \A j \in DOMAIN s : IsDone(s[j], id)
  BY <1>3 DEF IsDone
<1>6. \A x : LiveIn(m_work_list, w, x) => LiveIn(m_work_list', w, x) \/ (x = id /\ 1 \in DOMAIN s)
  BY <1>3, <1>4
<1>7. NoOrphan(m_work_list', w, brokerToSync[w] \o s, InHand(w))
  BY <1>2, <1>3, <1>5, <1>6, Struck
<1> QED  BY <1>1, <1>3, <1>7

(* A frame is announced, whatever the broker makes of it.                  *)
LEMMA RequestOrphan ==
  ASSUME SocketsTypeOK, BrokerTypeOK, OrphanInv, NEW b \in Buffers,
         SpawnForFrame(b) \/ ServeFrame(b), UNCHANGED handing
  PROVE  OrphanInv'
<1> DEFINE f == Head(bufferToBroker[b]).frame
<1>1. f \in Frame /\ TakeDemodWorker(f)
  BY AnnouncesFrameType DEF SpawnForFrame, ServeFrame
<1>2. \/ m_work_list' = WorksWith(b, f) /\ UNCHANGED brokerToSync
      \/ m_sync_worker_pool # <<>> /\ ForwardJob(WorksWith(b, f), b, f)
  BY DEF SpawnForFrame, ServeFrame
<1> HIDE DEF f
<1> DEFINE works == WorksWith(b, f)
<1>3. works \in Seq(Local_work_info) \ {<<>>}
  BY <1>1, WorksWithType, SocketsAssumption
<1>4. \A w \in SyncWorkers : \A id : LiveIn(m_work_list, w, id) => LiveIn(works, w, id)
  BY <1>1, CombinedLive
<1> HIDE DEF works
<1>5. CASE m_work_list' = works /\ UNCHANGED brokerToSync
  <2> SUFFICES ASSUME NEW w \in SyncWorkers
               PROVE  NoOrphan(m_work_list', w, brokerToSync'[w], InHand(w)')
    BY DEF OrphanInv
  <2>1. InHand(w)' = InHand(w)
    BY DEF InHand, handing
  <2>2. NoOrphan(works, w, brokerToSync[w], InHand(w))
    BY <1>4, Remembered DEF OrphanInv
  <2> QED  BY <1>5, <2>1, <2>2
<1>6. CASE m_sync_worker_pool # <<>> /\ ForwardJob(works, b, f)
  BY <1>3, <1>4, <1>6, ForwardOrphan
<1> QED  BY <1>2, <1>5, <1>6 DEF works

(* Nothing the invariant speaks of changes.                                *)
orphanVars == <<m_work_list, brokerToSync, handing>>

(* It is so when none of these change.                                     *)
LEMMA SameOrphan == OrphanInv /\ UNCHANGED orphanVars => OrphanInv'
BY DEF OrphanInv, orphanVars, handing, InHand

(* A keep-alive is no job.                                                 *)
LEMMA KeepAliveOrphan ==
  ASSUME SocketsTypeOK, OrphanInv, KeepWorkersAlive, UNCHANGED <<m_work_list, handing>>
  PROVE  OrphanInv'
<1> SUFFICES ASSUME NEW w \in SyncWorkers
             PROVE  NoOrphan(m_work_list', w, brokerToSync'[w], InHand(w)')
  BY DEF OrphanInv
<1>1. InHand(w)' = InHand(w)
  BY DEF InHand, handing
<1>2. NoOrphan(m_work_list, w, brokerToSync[w], InHand(w)) /\ brokerToSync[w] \in Seq(WorkerMessage)
  BY DEF OrphanInv, SocketsTypeOK
<1>3. Ack \in WorkerMessage /\ Ack.type # "JOB"
  BY DEF Ack, WorkerMessage
<1>4. NoOrphan(m_work_list, w, Append(brokerToSync[w], Ack), InHand(w))
  BY <1>2, <1>3, Ordered
<1>5. brokerToSync'[w] \in {brokerToSync[w], Append(brokerToSync[w], Ack)}
  BY DEF KeepWorkersAlive
<1> QED  BY <1>1, <1>2, <1>4, <1>5

(* No step of the broker orphans a worker.                                 *)
LEMMA BrokerOrphan ==
  ASSUME SocketsTypeOK, BrokerTypeOK, OrphanInv, BrokerNext, UNCHANGED handing
  PROVE  OrphanInv'
<1>1. CASE FrontendRrh \/ KeepAlive
  <2>1. UNCHANGED m_work_list /\ (KeepWorkersAlive \/ UNCHANGED brokerToSync)
    BY <1>1 DEF FrontendRrh, RrhRequest, KeepAlive
  <2>2. CASE UNCHANGED brokerToSync
    BY <2>1, <2>2, SameOrphan DEF orphanVars
  <2> QED  BY <2>1, <2>2, KeepAliveOrphan
<1>2. CASE \/ \E b \in Buffers : RegisterBuffer(b)
           \/ \E w \in SyncWorkers : WorkerReady(w) \/ ForwardReply(w)
  <2>1. UNCHANGED orphanVars
    BY <1>2 DEF RegisterBuffer, WorkerReady, ForwardReply, orphanVars
  <2> QED  BY <2>1, SameOrphan
<1>3. CASE FinishAttribution
  <2>1. \/ UNCHANGED <<m_work_list, brokerToSync>>
        \/ /\ m_work_list # <<>> /\ m_sync_worker_pool # <<>>
           /\ ForwardJob(m_work_list, Head(pending).buffer, Head(pending).frame)
           /\ pending # <<>>
    BY <1>3 DEF FinishAttribution
  <2>2. CASE UNCHANGED <<m_work_list, brokerToSync>>
    BY <2>2, SameOrphan DEF orphanVars
  <2>3. CASE /\ m_work_list # <<>> /\ m_sync_worker_pool # <<>>
             /\ ForwardJob(m_work_list, Head(pending).buffer, Head(pending).frame)
             /\ pending # <<>>
    <3>1. Head(pending) \in Request
      BY <2>3, HeadTailProperties DEF BrokerTypeOK
    <3>2. Head(pending).buffer \in Buffers /\ m_work_list \in Seq(Local_work_info) \ {<<>>}
      BY <2>3, <3>1 DEF Request, BrokerTypeOK
    <3> QED  BY <2>3, <3>2, ForwardOrphan
  <2> QED  BY <2>1, <2>2, <2>3
<1>4. ASSUME NEW w \in SyncWorkers, WorkerSyncDone(w) PROVE OrphanInv'
  <2> DEFINE I == UndergoingWorks(Head(syncToBroker[w]).work_id)
             i == First(I)
  <2>1. I # {} => i \in 1 .. Len(m_work_list)
    BY UndergoingType
  <2>2. \/ I # {} /\ EndWork(i)
        \/ /\ I # {} /\ m_work_list' = [m_work_list EXCEPT ![i] = Recounted(@, -1)]
           /\ UNCHANGED brokerToSync
        \/ UNCHANGED <<m_work_list, brokerToSync>>
    BY <1>4 DEF WorkerSyncDone
  <2> HIDE DEF I, i
  <2>3. CASE I # {} /\ EndWork(i)
    BY <2>1, <2>3, EndWorkOrphan
  <2>4. CASE UNCHANGED <<m_work_list, brokerToSync>>
    BY <2>4, SameOrphan DEF orphanVars
  <2>5. CASE /\ I # {} /\ m_work_list' = [m_work_list EXCEPT ![i] = Recounted(@, -1)]
             /\ UNCHANGED brokerToSync
    <3> SUFFICES ASSUME NEW v \in SyncWorkers
                 PROVE  NoOrphan(m_work_list', v, brokerToSync'[v], InHand(v)')
      BY DEF OrphanInv
    <3>1. InHand(v)' = InHand(v)
      BY DEF InHand, handing
    <3>2. ASSUME NEW j \in DOMAIN m_work_list
          PROVE  /\ m_work_list'[j].work_id = m_work_list[j].work_id
                 /\ m_work_list'[j].worker_id = m_work_list[j].worker_id
      <4>1. m_work_list[j] \in Local_work_info
        BY Element DEF BrokerTypeOK
      <4>2. m_work_list'[j] \in {m_work_list[j], Recounted(m_work_list[j], -1)}
        BY <2>5
      <4> QED  BY <4>1, <4>2 DEF Recounted, Local_work_info
    <3>3. DOMAIN m_work_list' = DOMAIN m_work_list
      BY <2>5
    <3>4. \A id : LiveIn(m_work_list, v, id) => LiveIn(m_work_list', v, id)
      BY <3>2, <3>3 DEF LiveIn
    <3>5. NoOrphan(m_work_list', v, brokerToSync[v], InHand(v))
      BY <3>4, Remembered DEF OrphanInv
    <3> QED  BY <2>5, <3>1, <3>5
  <2> QED  BY <2>2, <2>3, <2>4, <2>5
<1>5. ASSUME NEW a \in DemodWorkers, WorkerDemodDone(a) PROVE OrphanInv'
  <2> DEFINE I == UndergoingWorks(Head(demodToBroker[a]).work_id)
             i == First(I)
  <2>1. I # {} => i \in 1 .. Len(m_work_list)
    BY UndergoingType
  <2>2. (I # {} /\ EndWork(i)) \/ UNCHANGED <<m_work_list, brokerToSync>>
    BY <1>5 DEF WorkerDemodDone
  <2> HIDE DEF I, i
  <2>3. CASE I # {} /\ EndWork(i)
    BY <2>1, <2>3, EndWorkOrphan
  <2>4. CASE UNCHANGED <<m_work_list, brokerToSync>>
    BY <2>4, SameOrphan DEF orphanVars
  <2> QED  BY <2>2, <2>3, <2>4
<1> QED  BY <1>1, <1>2, <1>3, <1>4, <1>5, RequestOrphan
         DEF BrokerNext, FrontendBuffer, Backend

(* Nor does a step of a worker: what it works for, it has taken out of its *)
(* queue, and a DONE it reads ends what it works for.                      *)
LEMMA SyncOrphan ==
  ASSUME SocketsTypeOK, SyncTypeOK, OrphanInv, NEW w \in SyncWorkers,
         SyncStart(w) \/ SyncNext(w) \/ SyncFirstSamples(w), UNCHANGED m_work_list
  PROVE  OrphanInv'
<1> DEFINE down == brokerToSync[w]
<1>1. NoOrphan(m_work_list, w, down, InHand(w)) /\ down \in Seq(WorkerMessage)
  BY DEF OrphanInv, SocketsTypeOK
<1>2. /\ brokerToSync \in [SyncWorkers -> Seq(WorkerMessage)]
      /\ m_state \in [SyncWorkers -> SyncStates]
      /\ m_work_info \in [SyncWorkers -> SUBSET Work_info]
  BY DEF SocketsTypeOK, SyncTypeOK
<1>3. \A v \in SyncWorkers \ {w} : /\ brokerToSync'[v] = brokerToSync[v]
                                   /\ InHand(v)' = InHand(v)
  BY <1>2 DEF SyncStart, SyncNext, SyncAck, SyncLateDone, SyncJob, SyncEndOfWork,
              SyncLosesFraming, SyncGiveUp, SyncFirstSamples, SendsToBroker, Told, Receive,
              syncVars, sockets, InHand
<1>4. NoOrphan(m_work_list, w, brokerToSync'[w], InHand(w)') => OrphanInv'
  BY <1>3 DEF OrphanInv
<1> HIDE DEF down
<1>5. CASE SyncStart(w) \/ SyncGiveUp(w)
  <2>1. InHand(w)' = {} /\ brokerToSync'[w] = down
    BY <1>2, <1>5 DEF SyncStart, SyncGiveUp, InHand, down
  <2> QED  BY <1>1, <1>4, <2>1, GivenUp
<1>6. CASE SyncAck(w) \/ SyncLateDone(w) \/ SyncEndOfWork(w) \/ SyncLosesFraming(w)
  <2>1. InHand(w)' = {} /\ down # <<>> /\ brokerToSync'[w] = Tail(down)
    BY <1>2, <1>6 DEF SyncAck, SyncLateDone, SyncEndOfWork, SyncLosesFraming, Idle, Told, Receive,
                      InHand, down, syncVars
  <2> QED  BY <1>1, <1>4, <2>1, TookUp
<1>7. CASE SyncJob(w)
  <2> DEFINE info == [work_id |-> Head(down).work_id, demod |-> Head(down).demod,
                      pub |-> Head(down).pub]
  <2>1. /\ m_work_info'[w] = {info} /\ m_state'[w] = "WORKING" /\ Head(down).type = "JOB"
        /\ down # <<>> /\ brokerToSync'[w] = Tail(down)
    BY <1>2, <1>7 DEF SyncJob, Idle, Receive, down
  <2>2. info.work_id = Head(down).work_id
    OBVIOUS
  <2> HIDE DEF info
  <2>3. InHand(w)' = {Head(down).work_id}
    BY <2>1, <2>2 DEF InHand
  <2> QED  BY <1>1, <1>4, <2>1, <2>3, TookUp
<1>8. CASE SyncFirstSamples(w)
  BY <1>8, SameOrphan DEF SyncFirstSamples, sockets, orphanVars, handing
<1> QED  BY <1>5, <1>6, <1>7, <1>8 DEF SyncNext

(* broker.cpp 112-115, 440-498: a worker is told of the end of every work  *)
(* it has, or will have, a job of, whatever ends the work and whatever is  *)
(* in its queue then.                                                      *)
THEOREM NoWorkerOrphaned == Spec => []NoOrphanJob
<1>1. Init => OrphanInv
  BY DEF Init, SocketsInit, SyncInit, OrphanInv, NoOrphan, InHand
<1>2. TypeInv /\ OrphanInv /\ [Next]_vars => OrphanInv'
  <2> SUFFICES ASSUME TypeInv, OrphanInv, [Next]_vars PROVE OrphanInv'
    OBVIOUS
  <2> USE DEF TypeInv, TypeOK
  <2>1. CASE BrokerStep
    BY <2>1, BrokerOrphan DEF BrokerStep, syncVars, handing
  <2>2. ASSUME NEW w \in SyncWorkers, StartSync(w) \/ SyncStep(w) PROVE OrphanInv'
    BY <2>2, SyncOrphan DEF StartSync, SyncStep, brokerVars
  <2>3. CASE \/ \E b \in Buffers : StartBuffer(b) \/ BufferStep(b)
             \/ \E r \in Rrhs : RrhStarts(r) \/ RrhStep(r)
             \/ DemodStep \/ UNCHANGED vars
    <3>1. UNCHANGED orphanVars
      BY <2>3 DEF StartBuffer, BufferStep, RrhStarts, RrhStep, DemodStep, BufferStart,
                  BufferNext, BufferAcked, BufferRequestsWorker, BufferSubscribed,
                  RequestBuffer, BufferGranted, RrhStops, RrhDetects, RrhWork,
                  FrameFound, FrameDecoded, brokerVars, syncVars, sockets, vars,
                  orphanVars, handing
    <3> QED  BY <3>1, SameOrphan
  <2> QED  BY <2>1, <2>2, <2>3 DEF Next
<1>3. TypeInv /\ OrphanInv => NoOrphanJob
  BY OrphanIsOrphan DEF TypeInv, TypeOK
<1> QED  BY <1>1, <1>2, <1>3, TypeInvariant, PTL DEF Spec

-----------------------------------------------------------------------------
(***************************************************************************)
(* RRHs and buffers (BufferForEachRrh).  The broker knows a buffer once it *)
(* has given it to an RRH; a buffer it does not know has nothing but its   *)
(* READY on the way, and of those there are as many as RRHs that wait.     *)
(* Whatever names a buffer, a work, a request, a job or a subscription,    *)
(* names one the broker knows, and an RRH writes to its own.               *)
(***************************************************************************)

-----------------------------------------------------------------------------
(* What is known of a buffer                                                *)

Announcement == [type : {"NEW_FRAME"}, frame : Frame]

(* The buffers the broker knows are those that have been given to an RRH.  *)
(* A buffer it does not know has not started, or waits with nothing but    *)
(* its READY on the way; a buffer it knows sends announcements only.       *)
Registered(b, known, state, up, down) ==
  IF b \in known
  THEN state # "NOT_STARTED" /\ up \in Seq(Announcement)
  ELSE /\ down = <<>>
       /\ \/ state = "NOT_STARTED" /\ up = <<>>
          \/ state = "REGISTERING" /\ up = <<BufferReady>>

(* Every thread created is for an RRH that waits or has a buffer.          *)
Counted ==
  /\ Len(m_rrh_list) + Cardinality(DOMAIN m_buffer_list) = buffer_threads
  /\ \A b \in Buffers : buffer_state[b] # "NOT_STARTED" => b < buffer_threads

RegistrationInv ==
  \A b \in Buffers : Registered(b, DOMAIN m_buffer_list, buffer_state[b],
                                bufferToBroker[b], brokerToBuffer[b])

(* An RRH asks once, waits once and has one buffer, one after the other.   *)
Unserved(r) == /\ \A i \in DOMAIN m_rrh_list : m_rrh_list[i] # r
               /\ \A b \in DOMAIN m_buffer_list : m_buffer_list[b] # r

AskedOnce ==
  /\ \A i, j \in DOMAIN m_rrh_list : m_rrh_list[i] = m_rrh_list[j] => i = j
  /\ \A b, c \in DOMAIN m_buffer_list : m_buffer_list[b] = m_buffer_list[c] => b = c
  /\ \A i \in DOMAIN m_rrh_list, b \in DOMAIN m_buffer_list : m_rrh_list[i] # m_buffer_list[b]
  /\ \A r \in Rrhs : /\ rrhToBroker[r] \in {<<>>, <<NewBuffer>>}
                     /\ rrhToBroker[r] # <<>> => Unserved(r)
                     /\ ~requested[r] => rrhToBroker[r] = <<>> /\ Unserved(r)

(* Works and messages that name known buffers only.                        *)
WorksFor(known)    == {work \in Local_work_info :
                         \A j \in DOMAIN work.buffers_id : work.buffers_id[j] \in known}
RequestsFrom(known) == {q \in Request : q.buffer \in known}
OrdersFor(known)   == {m \in WorkerMessage : m.type = "JOB" => m.client \in known}
RepliesTo(known)   == {m \in SyncMessage : m.type = "SUBSCRIBED" => m.buffer \in known}

BuffersOf(r, list) == {b \in DOMAIN list : list[b] = r}
GrantsOf(r, list)  == {m \in RrhMessage : m.type = "ADDR" => m.buffer \in BuffersOf(r, list)}

Names(known, works, requests, down, up) ==
  /\ works \in Seq(WorksFor(known))
  /\ requests \in Seq(RequestsFrom(known))
  /\ down \in [SyncWorkers -> Seq(OrdersFor(known))]
  /\ up \in [SyncWorkers -> Seq(RepliesTo(known))]

NamesKnown ==
  Names(DOMAIN m_buffer_list, m_work_list, pending, brokerToSync, syncToBroker)

GrantsKept(list) ==
  \A r \in Rrhs : /\ m_buffer_addr[r] \subseteq BuffersOf(r, list)
                  /\ brokerToRrh[r] \in Seq(GrantsOf(r, list))

KnownInv == RegistrationInv /\ Counted /\ AskedOnce
            /\ NamesKnown /\ GrantsKept(m_buffer_list)

-----------------------------------------------------------------------------
(* The invariant says what BufferForEachRrh asks for                        *)

(* Among n threads one that is not known leaves one RRH waiting.           *)
LEMMA OneIsLeft ==
  ASSUME NEW n \in Nat, NEW K, K \subseteq 0 .. (n - 1), NEW b \in 0 .. (n - 1), b \notin K
  PROVE  IsFiniteSet(K) /\ Cardinality(K) \in Nat /\ Cardinality(K) < n
<1> DEFINE T == 0 .. (n - 1)
<1>1. IsFiniteSet(T) /\ Cardinality(T) = n
  BY FS_Interval
<1>2. IsFiniteSet(T \ {b}) /\ Cardinality(T \ {b}) = n - 1
  BY <1>1, FS_RemoveElement
<1> DEFINE U == T \ {b}
<1>3. K \in SUBSET U
  OBVIOUS
<1> HIDE DEF T, U
<1>4. IsFiniteSet(K) /\ Cardinality(K) <= n - 1
  <2>1. IsFiniteSet(U) /\ Cardinality(U) = n - 1
    BY <1>2 DEF U
  <2>2. IsFiniteSet(K) /\ Cardinality(K) <= Cardinality(U)
    BY <1>3, <2>1, FS_Subset
  <2> QED  BY <2>1, <2>2
<1>5. Cardinality(K) \in Nat
  BY <1>4, FS_CardinalityType
<1> QED  BY <1>4, <1>5

(* The buffers that are known are among the threads created.               *)
LEMMA KnownThreads ==
  ASSUME BrokerTypeOK, BufferTypeOK, RegistrationInv, Counted
  PROVE  DOMAIN m_buffer_list \subseteq 0 .. (buffer_threads - 1)
<1> SUFFICES ASSUME NEW b \in DOMAIN m_buffer_list PROVE b \in 0 .. (buffer_threads - 1)
  OBVIOUS
<1>1. b \in Buffers /\ b \in Nat /\ buffer_threads \in Nat
  BY SocketsAssumption DEF BrokerTypeOK
<1>2. buffer_state[b] # "NOT_STARTED"
  BY <1>1 DEF RegistrationInv, Registered
<1>3. b < buffer_threads
  BY <1>1, <1>2 DEF Counted
<1> QED  BY <1>1, <1>3

(* So there are finitely many.                                             *)
LEMMA FiniteKnown ==
  ASSUME BrokerTypeOK, BufferTypeOK, RegistrationInv, Counted
  PROVE  IsFiniteSet(DOMAIN m_buffer_list) /\ Cardinality(DOMAIN m_buffer_list) \in Nat
<1> DEFINE T == 0 .. (buffer_threads - 1)
<1>1. IsFiniteSet(T)
  <2>1. buffer_threads - 1 \in Int /\ 0 \in Int
    BY DEF BrokerTypeOK
  <2> QED  BY <2>1, FS_Interval
<1>2. DOMAIN m_buffer_list \in SUBSET T
  BY KnownThreads
<1> HIDE DEF T
<1>3. IsFiniteSet(DOMAIN m_buffer_list)
  BY <1>1, <1>2, FS_Subset
<1> QED  BY <1>3, FS_CardinalityType

(* A READY is for an RRH that waits.                                       *)
LEMMA SomeoneWaits ==
  ASSUME SocketsTypeOK, BrokerTypeOK, BufferTypeOK, KnownInv, NEW b \in Buffers,
         NEW i \in DOMAIN bufferToBroker[b], bufferToBroker[b][i].type = "READY"
  PROVE  b \notin DOMAIN m_buffer_list /\ bufferToBroker[b] = <<BufferReady>> /\ m_rrh_list # <<>>
<1> USE DEF KnownInv
<1>1. ASSUME b \in DOMAIN m_buffer_list PROVE FALSE
  <2>1. bufferToBroker[b] \in Seq(Announcement)
    BY <1>1 DEF RegistrationInv, Registered
  <2>2. bufferToBroker[b][i] \in Announcement
    BY <2>1, Element
  <2> QED  BY <2>2 DEF Announcement
<1>2. /\ bufferToBroker[b] \in {<<>>, <<BufferReady>>}
      /\ bufferToBroker[b] = <<>> \/ buffer_state[b] # "NOT_STARTED"
  BY <1>1 DEF RegistrationInv, Registered
<1>3. bufferToBroker[b] = <<BufferReady>> /\ buffer_state[b] # "NOT_STARTED"
  BY <1>2
<1>4. b < buffer_threads /\ b \in Nat /\ buffer_threads \in Nat
  BY <1>3, SocketsAssumption DEF Counted, BrokerTypeOK
<1>5. b \in 0 .. (buffer_threads - 1)
  BY <1>4
<1>6. Cardinality(DOMAIN m_buffer_list) \in Nat /\ Cardinality(DOMAIN m_buffer_list) < buffer_threads
  BY <1>1, <1>4, <1>5, KnownThreads, OneIsLeft
<1>7. Len(m_rrh_list) # 0
  BY <1>4, <1>6, LenProperties DEF Counted, BrokerTypeOK
<1>8. m_rrh_list # <<>>
  BY <1>7
<1> QED  BY <1>1, <1>3, <1>8

(* The invariant says all that BufferForEachRrh asks for.                  *)
LEMMA KnownIsServed ==
  ASSUME SocketsTypeOK, BrokerTypeOK, BufferTypeOK, KnownInv
  PROVE  BufferForEachRrh
<1>1. \A b \in Buffers : \A i \in DOMAIN bufferToBroker[b] :
        bufferToBroker[b][i].type = "READY" => m_rrh_list # <<>>
  BY SomeoneWaits
<1>2. \A b1, b2 \in DOMAIN m_buffer_list : m_buffer_list[b1] = m_buffer_list[b2] => b1 = b2
  BY DEF KnownInv, AskedOnce
<1>3. \A r \in Rrhs : \A b \in m_buffer_addr[r] :
        b \in DOMAIN m_buffer_list /\ m_buffer_list[b] = r
  BY DEF KnownInv, GrantsKept, BuffersOf
<1>4. \A i \in DOMAIN m_work_list : \A j \in DOMAIN m_work_list[i].buffers_id :
         m_work_list[i].buffers_id[j] \in DOMAIN m_buffer_list
  <2>1. m_work_list \in Seq(WorksFor(DOMAIN m_buffer_list))
    BY DEF KnownInv, NamesKnown, Names
  <2>2. \A i \in DOMAIN m_work_list : m_work_list[i] \in WorksFor(DOMAIN m_buffer_list)
    BY <2>1, Element
  <2> QED  BY <2>2 DEF WorksFor
<1> QED  BY <1>1, <1>2, <1>3, <1>4 DEF BufferForEachRrh

-----------------------------------------------------------------------------
(* What is known stays known                                                *)

(* A sequence over a set is one over a larger set.                         *)
LEMMA MoreInSeq ==
  ASSUME NEW S, NEW T, S \subseteq T, NEW s \in Seq(S)
  PROVE  s \in Seq(T)
OBVIOUS

(* What names known buffers still does when more are known.                *)
LEMMA MoreKnown ==
  ASSUME NEW K, NEW L, K \subseteq L, NEW works, NEW requests, NEW down, NEW up,
         Names(K, works, requests, down, up)
  PROVE  Names(L, works, requests, down, up)
<1>1. /\ WorksFor(K) \subseteq WorksFor(L) /\ RequestsFrom(K) \subseteq RequestsFrom(L)
      /\ OrdersFor(K) \subseteq OrdersFor(L) /\ RepliesTo(K) \subseteq RepliesTo(L)
  BY DEF WorksFor, RequestsFrom, OrdersFor, RepliesTo
<1>2. works \in Seq(WorksFor(L)) /\ requests \in Seq(RequestsFrom(L))
  BY <1>1, MoreInSeq DEF Names
<1>3. \A w \in SyncWorkers : down[w] \in Seq(OrdersFor(L)) /\ up[w] \in Seq(RepliesTo(L))
  BY <1>1, MoreInSeq DEF Names
<1> QED  BY <1>2, <1>3 DEF Names

(* The work list when a frame of a known buffer joins it.                  *)
LEMMA CombinedKnown ==
  ASSUME BrokerTypeOK, NEW K, m_work_list \in Seq(WorksFor(K)), NEW b \in Buffers, b \in K,
         NEW f \in Frame, TakeDemodWorker(f)
  PROVE  WorksWith(b, f) \in Seq(WorksFor(K)) \ {<<>>}
<1> DEFINE k == ShouldCombine(f)
           works == WorksWith(b, f)
<1>1. works # <<>>
  BY WorksWithType, SocketsAssumption
<1>2. CASE Combinable(f) # {}
  <2>1. k \in 1 .. Len(m_work_list)
    BY <1>2, CombinableType
  <2> DEFINE old == m_work_list[k]
             new == Recounted(WithBuffer(old, b), 1)
  <2>2. works = [m_work_list EXCEPT ![k] = new]
    BY <1>2 DEF WorksWith
  <2>3. old \in WorksFor(K)
    BY <2>1, ElementOfSeq
  <2> HIDE DEF old, k, works
  <2>4. new \in Local_work_info /\ new.buffers_id = Append(old.buffers_id, b)
    <3>1. old \in Local_work_info
      BY <2>3 DEF WorksFor
    <3>2. new \in Local_work_info
      BY <3>1, WithBufferType, RecountedType
    <3> QED  BY <3>1, <3>2 DEF Recounted, WithBuffer, Local_work_info
  <2>5. \A j \in DOMAIN new.buffers_id : new.buffers_id[j] \in K
    <3>1. old.buffers_id \in Seq(Buffers) /\ \A j \in DOMAIN old.buffers_id : old.buffers_id[j] \in K
      BY <2>3 DEF WorksFor, Local_work_info
    <3> DEFINE s == old.buffers_id
               t == Append(s, b)
    <3>2. /\ \A j \in DOMAIN s : t[j] = s[j]
          /\ t[Len(s) + 1] = b
          /\ DOMAIN t = DOMAIN s \cup {Len(s) + 1}
      BY <3>1, Appended
    <3> HIDE DEF s, t
    <3>3. \A j \in DOMAIN t : t[j] \in K
      BY <3>1, <3>2 DEF s
    <3> QED  BY <2>4, <3>3 DEF s, t
  <2>6. new \in WorksFor(K)
    BY <2>4, <2>5 DEF WorksFor
  <2> HIDE DEF new
  <2>7. [m_work_list EXCEPT ![k] = new] \in Seq(WorksFor(K))
    BY <2>1, <2>6, ExceptSeq
  <2> QED  BY <1>1, <2>2, <2>7 DEF works
<1>3. CASE Combinable(f) = {}
  <2>1. m_demod_worker_pool = <<>> => m_ipc_file_idx \in DemodWorkers
    BY <1>3 DEF TakeDemodWorker, ReuseDemodWorker, SpawnDemodWorker
  <2>2. NewWork(b, f) \in Local_work_info /\ NewWork(b, f).buffers_id = <<b>>
    <3>1. NewWork(b, f) \in Local_work_info
      BY <2>1, NewWorkType, SocketsAssumption
    <3> QED  BY <3>1 DEF NewWork
  <2>3. NewWork(b, f) \in WorksFor(K)
    BY <2>2 DEF WorksFor
  <2>4. works = Append(m_work_list, NewWork(b, f))
    BY <1>3 DEF WorksWith
  <2>5. Append(m_work_list, NewWork(b, f)) \in Seq(WorksFor(K))
    BY <2>3, Appended
  <2> QED  BY <1>1, <2>4, <2>5
<1> QED  BY <1>2, <1>3

(* A job is sent to the worker of a known buffer.                          *)
LEMMA ForwardedKnown ==
  ASSUME SocketsTypeOK, BrokerTypeOK, NEW K,
         NEW works \in Seq(WorksFor(K)) \ {<<>>}, NEW pub \in Buffers, NEW f,
         m_sync_worker_pool # <<>>, ForwardJob(works, pub, f),
         brokerToSync \in [SyncWorkers -> Seq(OrdersFor(K))]
  PROVE  /\ m_work_list' \in Seq(WorksFor(K))
         /\ brokerToSync' \in [SyncWorkers -> Seq(OrdersFor(K))]
<1> DEFINE last == Len(works)
           v    == Head(m_sync_worker_pool)
<1>1. works \in Seq(Local_work_info)
  <2>1. WorksFor(K) \subseteq Local_work_info
    BY DEF WorksFor
  <2> QED  BY <2>1, MoreInSeq
<1>2. last \in 1 .. Len(works)
  BY EmptySeq
<1>3. works[last] \in WorksFor(K) /\ v \in SyncWorkers
  <2>1. works[last] \in WorksFor(K)
    BY <1>2, ElementOfSeq
  <2> QED  BY <2>1, HeadTailProperties DEF BrokerTypeOK
<1>4. PICK m \in JobMessage :
        /\ \E j \in DOMAIN works[last].buffers_id : m.client = works[last].buffers_id[j]
        /\ brokerToSync' = Send(brokerToSync, v, m)
  BY <1>1, JobSent
<1>5. m_work_list' = [works EXCEPT ![last] = Recounted(WithWorker(@, v), 1)]
  BY DEF ForwardJob
<1> HIDE DEF last, v
<1>6. m \in OrdersFor(K)
  BY <1>3, <1>4 DEF OrdersFor, WorksFor, WorkerMessage
<1>7. brokerToSync' \in [SyncWorkers -> Seq(OrdersFor(K))]
  BY <1>3, <1>4, <1>6, SendType
<1> DEFINE old == works[last]
           new == Recounted(WithWorker(old, v), 1)
<1>8. new \in WorksFor(K)
  <2>1. old \in Local_work_info
    BY <1>3 DEF WorksFor
  <2>2. new \in Local_work_info
    BY <1>3, <2>1, WithWorkerType, RecountedType
  <2>3. new.buffers_id = old.buffers_id
    BY <2>1 DEF Recounted, WithWorker, Local_work_info
  <2> QED  BY <1>3, <2>2, <2>3 DEF WorksFor
<1>9. m_work_list' = [works EXCEPT ![last] = new]
  BY <1>5
<1> HIDE DEF new
<1>10. m_work_list' \in Seq(WorksFor(K))
  BY <1>2, <1>8, <1>9, ExceptSeq
<1> QED  BY <1>7, <1>10

(* The end of a work names no buffer but the RRHs' own.                    *)
LEMMA EndedKnown ==
  ASSUME SocketsTypeOK, BrokerTypeOK, NEW K, m_work_list \in Seq(WorksFor(K)),
         brokerToSync \in [SyncWorkers -> Seq(OrdersFor(K))],
         NEW i \in 1 .. Len(m_work_list), EndWork(i)
  PROVE  /\ m_work_list' \in Seq(WorksFor(K))
         /\ brokerToSync' \in [SyncWorkers -> Seq(OrdersFor(K))]
<1>1. m_work_list' \in Seq(WorksFor(K))
  <2> DEFINE n == Len(m_work_list)
  <2>1. n \in Nat /\ n - 1 \in Nat /\ m_work_list \in [1 .. n -> WorksFor(K)]
    BY LenProperties
  <2>2. m_work_list' = [j \in 1 .. (n - 1) |-> IF j < i THEN m_work_list[j] ELSE m_work_list[j + 1]]
    BY DEF EndWork
  <2> HIDE DEF n
  <2>3. m_work_list' \in [1 .. (n - 1) -> WorksFor(K)]
    BY <2>1, <2>2
  <2> QED  BY <2>1, <2>3, Tabulated
<1>2. ASSUME NEW w \in SyncWorkers PROVE brokerToSync'[w] \in Seq(OrdersFor(K))
  <2> DEFINE s == DonesFor(m_work_list[i], w)
  <2>1. /\ s \in Seq(WorkerMessage) /\ \A j \in DOMAIN s : s[j].type = "DONE"
        /\ brokerToSync'[w] = brokerToSync[w] \o s
    BY DonesSent
  <2> HIDE DEF s
  <2>2. \A j \in DOMAIN s : s[j] \in OrdersFor(K)
    <3>1. \A j \in DOMAIN s : s[j] \in WorkerMessage
      BY <2>1, Element
    <3> QED  BY <2>1, <3>1 DEF OrdersFor
  <2>3. s \in Seq(OrdersFor(K))
    <3>1. Len(s) \in Nat /\ s \in [1 .. Len(s) -> OrdersFor(K)]
      BY <2>1, <2>2
    <3> QED  BY <3>1, Tabulated
  <2> QED  BY <2>1, <2>3, Joined
<1>3. brokerToSync' = [w \in SyncWorkers |-> brokerToSync'[w]]
  BY DEF EndWork
<1> QED  BY <1>1, <1>2, <1>3

-----------------------------------------------------------------------------
(* Steps of the broker that register no buffer                              *)

(* A buffer that announces a frame is known, and so are the rest of its    *)
(* messages.                                                               *)
LEMMA AnnouncerKnown ==
  ASSUME RegistrationInv, NEW b \in Buffers, AnnouncesFrame(b)
  PROVE  /\ b \in DOMAIN m_buffer_list
         /\ Tail(bufferToBroker[b]) \in Seq(Announcement)
<1> DEFINE up == bufferToBroker[b]
<1>1. up # <<>> /\ Head(up).type = "NEW_FRAME"
  BY DEF AnnouncesFrame
<1>2. ASSUME b \notin DOMAIN m_buffer_list PROVE FALSE
  <2>1. up = <<BufferReady>>
    BY <1>1, <1>2 DEF RegistrationInv, Registered
  <2> QED  BY <1>1, <2>1 DEF BufferReady
<1>3. up \in Seq(Announcement)
  BY <1>2 DEF RegistrationInv, Registered
<1> HIDE DEF up
<1>4. Tail(up) \in Seq(Announcement)
  BY <1>1, <1>3, HeadTailProperties
<1> QED  BY <1>2, <1>4 DEF up

(* A frame is announced: the works, the requests, and the jobs that follow.*)
LEMMA RequestNames ==
  ASSUME SocketsTypeOK, BrokerTypeOK, KnownInv, NEW b \in Buffers,
         SpawnForFrame(b) \/ ServeFrame(b), UNCHANGED buffer_state
  PROVE  RegistrationInv' /\ NamesKnown'
<1> DEFINE f == Head(bufferToBroker[b]).frame
           K == DOMAIN m_buffer_list
<1>1. f \in Frame /\ TakeDemodWorker(f) /\ AnnouncesFrame(b)
  BY AnnouncesFrameType DEF SpawnForFrame, ServeFrame
<1>2. /\ UNCHANGED <<m_buffer_list, syncToBroker, brokerToBuffer>>
      /\ bufferToBroker' = Receive(bufferToBroker, b)
  BY DEF SpawnForFrame, ServeFrame, AnnouncesFrame, rrhs
<1>3. \/ /\ m_work_list' = WorksWith(b, f) /\ pending' = <<[buffer |-> b, frame |-> f]>>
         /\ UNCHANGED brokerToSync
      \/ /\ m_sync_worker_pool # <<>> /\ ForwardJob(WorksWith(b, f), b, f)
         /\ UNCHANGED pending
  BY DEF SpawnForFrame, ServeFrame, matching
<1> HIDE DEF f
<1>4. b \in K /\ Tail(bufferToBroker[b]) \in Seq(Announcement)
  BY <1>1, AnnouncerKnown DEF KnownInv
<1>5. Names(K, m_work_list, pending, brokerToSync, syncToBroker)
  BY DEF KnownInv, NamesKnown
<1> HIDE DEF K
<1>6. WorksWith(b, f) \in Seq(WorksFor(K)) \ {<<>>}
  BY <1>1, <1>4, <1>5, CombinedKnown DEF Names
<1>7. Names(K, m_work_list', pending', brokerToSync', syncToBroker')
  <2>1. CASE /\ m_work_list' = WorksWith(b, f) /\ pending' = <<[buffer |-> b, frame |-> f]>>
             /\ UNCHANGED brokerToSync
    <3>1. [buffer |-> b, frame |-> f] \in RequestsFrom(K)
      BY <1>1, <1>4 DEF RequestsFrom, Request
    <3>2. pending' \in Seq(RequestsFrom(K))
      BY <2>1, <3>1
    <3> QED  BY <1>2, <1>5, <1>6, <2>1, <3>2 DEF Names
  <2>2. CASE /\ m_sync_worker_pool # <<>> /\ ForwardJob(WorksWith(b, f), b, f)
             /\ UNCHANGED pending
    <3>1. /\ m_work_list' \in Seq(WorksFor(K))
          /\ brokerToSync' \in [SyncWorkers -> Seq(OrdersFor(K))]
      BY <1>5, <1>6, <2>2, ForwardedKnown DEF Names
    <3> QED  BY <1>2, <1>5, <2>2, <3>1 DEF Names
  <2> QED  BY <1>3, <2>1, <2>2
<1>8. NamesKnown'
  BY <1>2, <1>7 DEF NamesKnown, K
<1>9. RegistrationInv'
  <2>1. bufferToBroker'[b] = Tail(bufferToBroker[b])
    BY <1>2 DEF Receive, SocketsTypeOK
  <2>2. \A x \in Buffers \ {b} : bufferToBroker'[x] = bufferToBroker[x]
    BY <1>2 DEF Receive, SocketsTypeOK
  <2>3. \A x \in Buffers : Registered(x, K, buffer_state[x], bufferToBroker[x], brokerToBuffer[x])
    BY DEF KnownInv, RegistrationInv, K
  <2>4. \A x \in Buffers : Registered(x, K, buffer_state[x], bufferToBroker'[x], brokerToBuffer[x])
    BY <1>4, <2>1, <2>2, <2>3 DEF Registered
  <2> QED  BY <1>2, <2>4 DEF RegistrationInv, K
<1> QED  BY <1>8, <1>9

(* What the broker's other steps do with works, requests and messages.     *)
LEMMA BrokerNames ==
  ASSUME SocketsTypeOK, BrokerTypeOK, NamesKnown,
         \/ FrontendRrh \/ KeepAlive \/ FinishAttribution
         \/ \E w \in SyncWorkers : WorkerReady(w) \/ ForwardReply(w) \/ WorkerSyncDone(w)
         \/ \E a \in DemodWorkers : WorkerDemodDone(a)
  PROVE  NamesKnown'
<1> DEFINE K == DOMAIN m_buffer_list
<1>1. Names(K, m_work_list, pending, brokerToSync, syncToBroker)
  BY DEF NamesKnown
<1>2. UNCHANGED m_buffer_list
  BY DEF FrontendRrh, RrhRequest, KeepAlive, FinishAttribution, WorkerReady, ForwardReply,
         WorkerSyncDone, WorkerDemodDone, ServeSync, rrhs
<1> HIDE DEF K
<1> SUFFICES Names(K, m_work_list', pending', brokerToSync', syncToBroker')
  BY <1>2 DEF NamesKnown, K
<1>3. CASE FrontendRrh \/ KeepAlive
  <2>1. /\ UNCHANGED <<m_work_list, pending, syncToBroker>>
        /\ KeepWorkersAlive \/ UNCHANGED brokerToSync
    BY <1>3 DEF FrontendRrh, RrhRequest, KeepAlive, matching
  <2>2. CASE KeepWorkersAlive
    <3>1. Ack \in OrdersFor(K)
      BY DEF Ack, OrdersFor, WorkerMessage
    <3>2. brokerToSync' \in [SyncWorkers -> Seq(OrdersFor(K))]
      BY <1>1, <2>2, <3>1 DEF KeepWorkersAlive, Names
    <3> QED  BY <1>1, <2>1, <3>2 DEF Names
  <2> QED  BY <1>1, <2>1, <2>2
<1>4. CASE FinishAttribution
  <2>1. UNCHANGED syncToBroker
    BY <1>4 DEF FinishAttribution
  <2>2. \/ UNCHANGED <<m_work_list, pending, brokerToSync>>
        \/ /\ m_work_list # <<>> /\ m_sync_worker_pool # <<>> /\ pending # <<>> /\ pending' = <<>>
           /\ ForwardJob(m_work_list, Head(pending).buffer, Head(pending).frame)
    BY <1>4 DEF FinishAttribution
  <2>3. CASE UNCHANGED <<m_work_list, pending, brokerToSync>>
    BY <1>1, <2>1, <2>3
  <2>4. CASE /\ m_work_list # <<>> /\ m_sync_worker_pool # <<>> /\ pending # <<>> /\ pending' = <<>>
             /\ ForwardJob(m_work_list, Head(pending).buffer, Head(pending).frame)
    <3>1. Head(pending) \in Request
      BY <2>4, HeadTailProperties DEF BrokerTypeOK
    <3>2. Head(pending).buffer \in Buffers /\ m_work_list \in Seq(WorksFor(K)) \ {<<>>}
      BY <1>1, <2>4, <3>1 DEF Request, Names
    <3>3. /\ m_work_list' \in Seq(WorksFor(K))
          /\ brokerToSync' \in [SyncWorkers -> Seq(OrdersFor(K))]
      BY <1>1, <2>4, <3>2, ForwardedKnown DEF Names
    <3>4. pending' \in Seq(RequestsFrom(K))
      BY <2>4
    <3> QED  BY <1>1, <2>1, <3>3, <3>4 DEF Names
  <2> QED  BY <2>2, <2>3, <2>4
<1>5. ASSUME NEW w \in SyncWorkers, syncToBroker[w] # <<>>,
             syncToBroker' = Receive(syncToBroker, w)
      PROVE  syncToBroker' \in [SyncWorkers -> Seq(RepliesTo(K))]
  BY <1>1, <1>5, ReceiveType DEF Names
<1>6. ASSUME NEW w \in SyncWorkers, WorkerReady(w) \/ ForwardReply(w)
      PROVE  Names(K, m_work_list', pending', brokerToSync', syncToBroker')
  <2>1. /\ syncToBroker[w] # <<>> /\ syncToBroker' = Receive(syncToBroker, w)
        /\ UNCHANGED <<m_work_list, pending, brokerToSync>>
    BY <1>6 DEF WorkerReady, ForwardReply, ServeSync
  <2> QED  BY <1>1, <1>5, <2>1 DEF Names
<1>7. ASSUME NEW w \in SyncWorkers, WorkerSyncDone(w)
      PROVE  Names(K, m_work_list', pending', brokerToSync', syncToBroker')
  <2> DEFINE I == UndergoingWorks(Head(syncToBroker[w]).work_id)
             i == First(I)
  <2>1. /\ syncToBroker[w] # <<>> /\ syncToBroker' = Receive(syncToBroker, w)
        /\ UNCHANGED pending
    BY <1>7 DEF WorkerSyncDone, ServeSync
  <2>2. I # {} => i \in 1 .. Len(m_work_list)
    BY UndergoingType
  <2>3. \/ I # {} /\ EndWork(i)
        \/ /\ I # {} /\ m_work_list' = [m_work_list EXCEPT ![i] = Recounted(@, -1)]
           /\ UNCHANGED brokerToSync
        \/ UNCHANGED <<m_work_list, brokerToSync>>
    BY <1>7 DEF WorkerSyncDone
  <2> HIDE DEF I, i
  <2>4. m_work_list \in Seq(WorksFor(K)) /\ brokerToSync \in [SyncWorkers -> Seq(OrdersFor(K))]
    BY <1>1 DEF Names
  <2>5. m_work_list' \in Seq(WorksFor(K)) /\ brokerToSync' \in [SyncWorkers -> Seq(OrdersFor(K))]
    <3>1. CASE I # {} /\ EndWork(i)
      BY <2>2, <2>4, <3>1, EndedKnown
    <3>2. CASE /\ I # {} /\ m_work_list' = [m_work_list EXCEPT ![i] = Recounted(@, -1)]
               /\ UNCHANGED brokerToSync
      <4> DEFINE old == m_work_list[i]
                 new == Recounted(old, -1)
      <4>1. old \in WorksFor(K)
        BY <2>2, <2>4, <3>2, ElementOfSeq
      <4>2. new \in WorksFor(K)
        <5>1. old \in Local_work_info
          BY <4>1 DEF WorksFor
        <5>2. new \in Local_work_info
          BY <5>1, RecountedType
        <5>3. new.buffers_id = old.buffers_id
          BY <5>1 DEF Recounted, Local_work_info
        <5> QED  BY <4>1, <5>2, <5>3 DEF WorksFor
      <4>3. m_work_list' = [m_work_list EXCEPT ![i] = new]
        BY <3>2
      <4> HIDE DEF new
      <4>4. m_work_list' \in Seq(WorksFor(K))
        BY <2>2, <2>4, <3>2, <4>2, <4>3, ExceptSeq
      <4> QED  BY <2>4, <3>2, <4>4
    <3>3. CASE UNCHANGED <<m_work_list, brokerToSync>>
      BY <2>4, <3>3
    <3> QED  BY <2>3, <3>1, <3>2, <3>3
  <2> QED  BY <1>1, <1>5, <2>1, <2>5 DEF Names
<1>8. ASSUME NEW a \in DemodWorkers, WorkerDemodDone(a)
      PROVE  Names(K, m_work_list', pending', brokerToSync', syncToBroker')
  <2> DEFINE I == UndergoingWorks(Head(demodToBroker[a]).work_id)
             i == First(I)
  <2>1. UNCHANGED <<syncToBroker, pending>>
    BY <1>8 DEF WorkerDemodDone, matching
  <2>2. I # {} => i \in 1 .. Len(m_work_list)
    BY UndergoingType
  <2>3. (I # {} /\ EndWork(i)) \/ UNCHANGED <<m_work_list, brokerToSync>>
    BY <1>8 DEF WorkerDemodDone
  <2> HIDE DEF I, i
  <2>4. m_work_list' \in Seq(WorksFor(K)) /\ brokerToSync' \in [SyncWorkers -> Seq(OrdersFor(K))]
    BY <1>1, <2>2, <2>3, EndedKnown DEF Names
  <2> QED  BY <1>1, <2>1, <2>4 DEF Names
<1> QED  BY <1>3, <1>4, <1>6, <1>7, <1>8

(* The stops of the end of a work are no grants.                           *)
LEMMA EndedGrants ==
  ASSUME BrokerTypeOK, NEW i \in 1 .. Len(m_work_list), EndWork(i), NEW r \in Rrhs, NEW list,
         brokerToRrh[r] \in Seq(GrantsOf(r, list))
  PROVE  brokerToRrh'[r] \in Seq(GrantsOf(r, list))
<1> DEFINE work == m_work_list[i]
           s == [j \in 1 .. StopsFor(r, work) |-> Stop(work.channel_id)]
<1>1. work \in Local_work_info
  BY ElementOfSeq DEF BrokerTypeOK
<1>2. Stop(work.channel_id) \in GrantsOf(r, list)
  BY <1>1 DEF Stop, GrantsOf, RrhMessage, Local_work_info
<1>3. StopsFor(r, work) \in Nat
  BY <1>1, StreamsType
<1>4. s \in Seq(GrantsOf(r, list))
  BY <1>2, <1>3, CopiesType
<1>5. brokerToRrh'[r] = brokerToRrh[r] \o s
  BY DEF EndWork
<1> HIDE DEF s
<1> QED  BY <1>4, <1>5, Joined

(* The broker's steps that register no buffer.                             *)
LEMMA BrokerKnown ==
  ASSUME TypeOK, KnownInv, BrokerNext, \A b \in Buffers : ~RegisterBuffer(b),
         UNCHANGED <<bufferVars, rrhVars>>
  PROVE  KnownInv'
<1> USE DEF TypeOK
<1>1. ASSUME NEW r \in Rrhs, RrhRequest(r) PROVE KnownInv'
  <2>1. NamesKnown'
    BY <1>1, BrokerNames DEF KnownInv, FrontendRrh
  <2>2. /\ UNCHANGED <<m_buffer_list, bufferToBroker, brokerToBuffer, brokerToRrh>>
        /\ UNCHANGED <<buffer_state, m_buffer_addr, requested>>
        /\ rrhToBroker[r] # <<>> /\ rrhToBroker' = Receive(rrhToBroker, r)
        /\ m_rrh_list' = Append(m_rrh_list, r) /\ buffer_threads' = buffer_threads + 1
    BY <1>1 DEF RrhRequest, RrhsWaiting, bufferVars, rrhVars
  <2>3. RegistrationInv' /\ GrantsKept(m_buffer_list)'
    BY <2>2 DEF KnownInv, RegistrationInv, GrantsKept
  <2>4. /\ Len(m_rrh_list') = Len(m_rrh_list) + 1 /\ Len(m_rrh_list) \in Nat
        /\ \A i \in DOMAIN m_rrh_list : m_rrh_list'[i] = m_rrh_list[i]
        /\ m_rrh_list'[Len(m_rrh_list) + 1] = r
        /\ DOMAIN m_rrh_list' = DOMAIN m_rrh_list \cup {Len(m_rrh_list) + 1}
    BY <2>2, Appended DEF BrokerTypeOK
  <2>5. IsFiniteSet(DOMAIN m_buffer_list) /\ Cardinality(DOMAIN m_buffer_list) \in Nat
    BY FiniteKnown DEF KnownInv
  <2>6. Counted'
    <3>1. \A b \in Buffers : b < buffer_threads => b < buffer_threads + 1
      <4>1. buffer_threads \in Nat /\ \A b \in Buffers : b \in Nat
        BY SocketsAssumption DEF BrokerTypeOK
      <4> QED  BY <4>1
    <3>2. Len(m_rrh_list') + Cardinality(DOMAIN m_buffer_list) = buffer_threads + 1
      BY <2>4, <2>5 DEF KnownInv, Counted
    <3> QED  BY <2>2, <3>1, <3>2 DEF KnownInv, Counted
  <2>7. Unserved(r) /\ requested[r]
    BY <2>2 DEF KnownInv, AskedOnce
  <2>8. rrhToBroker'[r] = <<>> /\ \A q \in Rrhs \ {r} : rrhToBroker'[q] = rrhToBroker[q]
    <3>1. rrhToBroker[r] = <<NewBuffer>>
      BY <2>2 DEF KnownInv, AskedOnce
    <3>2. Tail(rrhToBroker[r]) = <<>>
      BY <3>1
    <3> QED  BY <2>2, <3>2 DEF Receive, SocketsTypeOK
  <2>9. AskedOnce'
    <3>1. \A q \in Rrhs \ {r} : Unserved(q) => Unserved(q)'
      BY <2>2, <2>4 DEF Unserved
    <3>2. \A q \in Rrhs : /\ rrhToBroker'[q] \in {<<>>, <<NewBuffer>>}
                          /\ rrhToBroker'[q] # <<>> => Unserved(q)'
                          /\ ~requested'[q] => rrhToBroker'[q] = <<>> /\ Unserved(q)'
      BY <2>2, <2>7, <2>8, <3>1 DEF KnownInv, AskedOnce
    <3>3. \A i, j \in DOMAIN m_rrh_list' : m_rrh_list'[i] = m_rrh_list'[j] => i = j
      BY <2>4, <2>7 DEF KnownInv, AskedOnce, Unserved
    <3>4. \A i \in DOMAIN m_rrh_list', b \in DOMAIN m_buffer_list : m_rrh_list'[i] # m_buffer_list[b]
      BY <2>4, <2>7 DEF KnownInv, AskedOnce, Unserved
    <3>5. \A b, c \in DOMAIN m_buffer_list : m_buffer_list[b] = m_buffer_list[c] => b = c
      BY DEF KnownInv, AskedOnce
    <3> QED  BY <2>2, <3>2, <3>3, <3>4, <3>5 DEF AskedOnce
  <2> QED  BY <2>1, <2>3, <2>6, <2>9 DEF KnownInv
<1>2. CASE ~FrontendRrh
  <2>1. UNCHANGED <<m_buffer_list, m_rrh_list, buffer_threads, rrhToBroker,
                    buffer_state, m_buffer_addr, requested>>
    BY <1>2 DEF BrokerNext, FrontendBuffer, Backend, KeepAlive, SpawnForFrame, ServeFrame,
                FinishAttribution, WorkerReady, ForwardReply, WorkerSyncDone, ServeSync,
                WorkerDemodDone, rrhs, bufferVars, rrhVars
  <2>2. Counted' /\ AskedOnce'
    BY <2>1 DEF KnownInv, Counted, AskedOnce, Unserved
  <2>3. NamesKnown'
    BY <1>2, BrokerNames, RequestNames DEF KnownInv, BrokerNext, FrontendBuffer, Backend, bufferVars
  <2>4. RegistrationInv'
    <3>1. CASE \E b \in Buffers : SpawnForFrame(b) \/ ServeFrame(b)
      BY <2>1, <3>1, RequestNames
    <3>2. ASSUME NEW w \in SyncWorkers, ForwardReply(w) PROVE RegistrationInv'
      <4> DEFINE b == Head(syncToBroker[w]).buffer
      <4>1. /\ UNCHANGED bufferToBroker /\ brokerToBuffer' = Send(brokerToBuffer, b, "SUBSCRIBED")
            /\ syncToBroker[w] # <<>> /\ Head(syncToBroker[w]).type = "SUBSCRIBED"
        BY <3>2 DEF ForwardReply, ServeSync
      <4>2. b \in DOMAIN m_buffer_list
        <5>1. syncToBroker[w] \in Seq(RepliesTo(DOMAIN m_buffer_list))
          BY DEF KnownInv, NamesKnown, Names
        <5>2. Head(syncToBroker[w]) \in RepliesTo(DOMAIN m_buffer_list)
          BY <4>1, <5>1, HeadTailProperties
        <5> QED  BY <4>1, <5>2 DEF RepliesTo
      <4> HIDE DEF b
      <4>3. \A x \in Buffers \ {b} : brokerToBuffer'[x] = brokerToBuffer[x]
        BY <4>1 DEF Send, SocketsTypeOK
      <4>4. \A x \in Buffers : Registered(x, DOMAIN m_buffer_list, buffer_state[x],
                                          bufferToBroker[x], brokerToBuffer'[x])
        BY <4>2, <4>3 DEF KnownInv, RegistrationInv, Registered
      <4> QED  BY <2>1, <4>1, <4>4 DEF RegistrationInv
    <3>3. CASE \/ FinishAttribution \/ KeepAlive
               \/ \E w \in SyncWorkers : WorkerReady(w) \/ WorkerSyncDone(w)
               \/ \E a \in DemodWorkers : WorkerDemodDone(a)
      <4>1. UNCHANGED <<bufferToBroker, brokerToBuffer>>
        BY <3>3 DEF FinishAttribution, KeepAlive, WorkerReady, WorkerSyncDone, ServeSync, WorkerDemodDone
      <4> QED  BY <2>1, <4>1 DEF KnownInv, RegistrationInv
    <3> QED  BY <1>2, <3>1, <3>2, <3>3 DEF BrokerNext, FrontendBuffer, Backend
  <2>5. GrantsKept(m_buffer_list)'
    <3>1. UNCHANGED brokerToRrh \/ \E i \in 1 .. Len(m_work_list) : EndWork(i)
      <4>1. ASSUME NEW w \in SyncWorkers, WorkerSyncDone(w)
            PROVE  UNCHANGED brokerToRrh \/ \E i \in 1 .. Len(m_work_list) : EndWork(i)
        BY <4>1, UndergoingType DEF WorkerSyncDone
      <4>2. ASSUME NEW a \in DemodWorkers, WorkerDemodDone(a)
            PROVE  UNCHANGED brokerToRrh \/ \E i \in 1 .. Len(m_work_list) : EndWork(i)
        BY <4>2, UndergoingType DEF WorkerDemodDone
      <4>3. CASE \/ FinishAttribution \/ KeepAlive
                 \/ \E b \in Buffers : SpawnForFrame(b) \/ ServeFrame(b)
                 \/ \E w \in SyncWorkers : WorkerReady(w) \/ ForwardReply(w)
        BY <4>3 DEF FinishAttribution, KeepAlive, SpawnForFrame, ServeFrame, WorkerReady, ForwardReply,
                    ServeSync
      <4> QED  BY <1>2, <4>1, <4>2, <4>3 DEF BrokerNext, FrontendBuffer, Backend
    <3>2. \A r \in Rrhs : brokerToRrh'[r] \in Seq(GrantsOf(r, m_buffer_list))
      BY <3>1, EndedGrants DEF KnownInv, GrantsKept
    <3> QED  BY <2>1, <3>2 DEF KnownInv, GrantsKept
  <2> QED  BY <2>2, <2>3, <2>4, <2>5 DEF KnownInv
<1> QED  BY <1>1, <1>2 DEF FrontendRrh

-----------------------------------------------------------------------------
(* A buffer is registered                                                   *)

(* broker.cpp 280-297: it was not known, and goes to the RRH that has      *)
(* waited longest and has none.                                            *)
LEMMA RegisterKnown ==
  ASSUME TypeOK, KnownInv, NEW b \in Buffers, RegisterBuffer(b),
         UNCHANGED <<bufferVars, rrhVars>>
  PROVE  KnownInv'
<1> USE DEF TypeOK
<1> DEFINE K == DOMAIN m_buffer_list
           rrh == Head(m_rrh_list)
<1>1. /\ bufferToBroker[b] # <<>> /\ Head(bufferToBroker[b]).type = "READY" /\ m_rrh_list # <<>>
      /\ m_buffer_list' = [x \in K \cup {b} |-> IF x = b THEN rrh ELSE m_buffer_list[x]]
      /\ m_rrh_list' = Tail(m_rrh_list)
      /\ bufferToBroker' = Receive(bufferToBroker, b)
      /\ brokerToBuffer' = Send(brokerToBuffer, b, "ACK")
      /\ brokerToRrh' = Send(brokerToRrh, rrh, BufferAddr(b))
      /\ UNCHANGED <<buffer_threads, m_work_list, pending, rrhToBroker, brokerToSync, syncToBroker,
                     buffer_state, m_buffer_addr, requested>>
  BY DEF RegisterBuffer, OtherRrhs, matching, bufferVars, rrhVars
<1>2. b \notin K /\ bufferToBroker[b] = <<BufferReady>>
  <2>1. 1 \in DOMAIN bufferToBroker[b] /\ bufferToBroker[b][1].type = "READY"
    BY <1>1, Shifted DEF SocketsTypeOK
  <2> QED  BY <2>1, SomeoneWaits
<1>3. /\ m_rrh_list \in Seq(Rrhs) /\ rrh = m_rrh_list[1] /\ 1 \in DOMAIN m_rrh_list
      /\ Len(Tail(m_rrh_list)) = Len(m_rrh_list) - 1 /\ Len(m_rrh_list) \in Nat
      /\ \A i \in DOMAIN Tail(m_rrh_list) :
           i \in Nat /\ i + 1 \in DOMAIN m_rrh_list /\ Tail(m_rrh_list)[i] = m_rrh_list[i + 1]
      /\ \A i \in DOMAIN Tail(m_rrh_list) : i + 1 # 1
      /\ rrh \in Rrhs
  <2>1. m_rrh_list \in Seq(Rrhs)
    BY DEF BrokerTypeOK
  <2>2. \A i \in DOMAIN Tail(m_rrh_list) : i + 1 # 1
    <3> DEFINE t == Tail(m_rrh_list)
    <3>1. t \in Seq(Rrhs)
      BY <1>1, <2>1, Shifted
    <3> HIDE DEF t
    <3>2. \A i \in DOMAIN t : i \in Nat /\ i >= 1
      BY <3>1
    <3>3. \A i \in DOMAIN t : i + 1 # 1
      BY <3>2
    <3> QED  BY <3>3 DEF t
  <2> QED  BY <1>1, <2>1, <2>2, Shifted
<1> HIDE DEF rrh
<1>4. DOMAIN m_buffer_list' = K \cup {b} /\ m_buffer_list'[b] = rrh
      /\ \A x \in K : m_buffer_list'[x] = m_buffer_list[x]
  BY <1>1, <1>2
<1> HIDE DEF K
<1>5. NamesKnown'
  <2>1. Names(K, m_work_list, pending, brokerToSync, syncToBroker)
    BY DEF KnownInv, NamesKnown, K
  <2>2. Names(K \cup {b}, m_work_list, pending, brokerToSync, syncToBroker)
    BY <2>1, MoreKnown
  <2> QED  BY <1>1, <1>4, <2>2 DEF NamesKnown
<1>6. RegistrationInv'
  <2>1. \A x \in Buffers : Registered(x, K, buffer_state[x], bufferToBroker[x], brokerToBuffer[x])
    BY DEF KnownInv, RegistrationInv, K
  <2>2. Registered(b, K \cup {b}, buffer_state[b], bufferToBroker'[b], brokerToBuffer'[b])
    <3>1. bufferToBroker'[b] = Tail(bufferToBroker[b])
      BY <1>1 DEF Receive, SocketsTypeOK
    <3>2. bufferToBroker'[b] = <<>>
      BY <1>2, <3>1
    <3>3. bufferToBroker'[b] \in Seq(Announcement)
      BY <3>2
    <3>4. buffer_state[b] # "NOT_STARTED"
      BY <1>2, <2>1 DEF Registered
    <3> QED  BY <3>3, <3>4 DEF Registered
  <2>3. ASSUME NEW x \in Buffers \ {b}
        PROVE  Registered(x, K \cup {b}, buffer_state[x], bufferToBroker'[x], brokerToBuffer'[x])
    <3>1. bufferToBroker'[x] = bufferToBroker[x] /\ brokerToBuffer'[x] = brokerToBuffer[x]
      BY <1>1 DEF Receive, Send, SocketsTypeOK
    <3>2. x \in K \cup {b} <=> x \in K
      OBVIOUS
    <3> QED  BY <2>1, <3>1, <3>2 DEF Registered
  <2> QED  BY <1>1, <1>4, <2>2, <2>3 DEF RegistrationInv
<1>7. Counted'
  <2>1. IsFiniteSet(K) /\ Cardinality(K) \in Nat
    BY FiniteKnown DEF KnownInv, K
  <2>2. Cardinality(K \cup {b}) = Cardinality(K) + 1
    BY <1>2, <2>1, FS_AddElement
  <2>3. Len(m_rrh_list') + Cardinality(K \cup {b}) = buffer_threads
    BY <1>1, <1>3, <2>1, <2>2 DEF KnownInv, Counted, K
  <2> QED  BY <1>1, <1>4, <2>3 DEF KnownInv, Counted
<1>8. AskedOnce'
  <2>1. /\ \A i, j \in DOMAIN m_rrh_list : m_rrh_list[i] = m_rrh_list[j] => i = j
        /\ \A x, y \in K : m_buffer_list[x] = m_buffer_list[y] => x = y
        /\ \A i \in DOMAIN m_rrh_list, x \in K : m_rrh_list[i] # m_buffer_list[x]
    BY DEF KnownInv, AskedOnce, K
  <2>2. \A i, j \in DOMAIN m_rrh_list' : m_rrh_list'[i] = m_rrh_list'[j] => i = j
    <3> SUFFICES ASSUME NEW i \in DOMAIN m_rrh_list', NEW j \in DOMAIN m_rrh_list',
                        m_rrh_list'[i] = m_rrh_list'[j]
                 PROVE  i = j
      OBVIOUS
    <3>1. i \in Nat /\ j \in Nat /\ i + 1 = j + 1
      BY <1>1, <1>3, <2>1
    <3> QED  BY <3>1
  <2>3. \A x, y \in DOMAIN m_buffer_list' : m_buffer_list'[x] = m_buffer_list'[y] => x = y
    BY <1>3, <1>4, <2>1
  <2>4. \A i \in DOMAIN m_rrh_list', x \in DOMAIN m_buffer_list' : m_rrh_list'[i] # m_buffer_list'[x]
    BY <1>1, <1>3, <1>4, <2>1
  <2>5. \A r \in Rrhs : Unserved(r) => Unserved(r)'
    BY <1>1, <1>3, <1>4 DEF Unserved, K
  <2>6. \A r \in Rrhs : /\ rrhToBroker'[r] \in {<<>>, <<NewBuffer>>}
                        /\ rrhToBroker'[r] # <<>> => Unserved(r)'
                        /\ ~requested'[r] => rrhToBroker'[r] = <<>> /\ Unserved(r)'
    BY <1>1, <2>5 DEF KnownInv, AskedOnce
  <2> QED  BY <2>2, <2>3, <2>4, <2>6 DEF AskedOnce
<1>9. GrantsKept(m_buffer_list)'
  <2> SUFFICES ASSUME NEW r \in Rrhs
               PROVE  /\ m_buffer_addr'[r] \subseteq BuffersOf(r, m_buffer_list')
                      /\ brokerToRrh'[r] \in Seq(GrantsOf(r, m_buffer_list'))
    BY DEF GrantsKept
  <2>1. /\ m_buffer_addr[r] \subseteq BuffersOf(r, m_buffer_list)
        /\ brokerToRrh[r] \in Seq(GrantsOf(r, m_buffer_list))
    BY DEF KnownInv, GrantsKept
  <2>2. BuffersOf(r, m_buffer_list) \subseteq BuffersOf(r, m_buffer_list')
    BY <1>4 DEF BuffersOf, K
  <2>3. brokerToRrh[r] \in Seq(GrantsOf(r, m_buffer_list'))
    <3>1. GrantsOf(r, m_buffer_list) \subseteq GrantsOf(r, m_buffer_list')
      BY <2>2 DEF GrantsOf
    <3> QED  BY <2>1, <3>1, MoreInSeq
  <2>4. CASE r # rrh
    <3>1. brokerToRrh'[r] = brokerToRrh[r]
      BY <1>1, <2>4 DEF Send, SocketsTypeOK
    <3> QED  BY <1>1, <2>1, <2>2, <2>3, <3>1
  <2>5. CASE r = rrh
    <3>1. b \in BuffersOf(r, m_buffer_list')
      BY <1>4, <2>5 DEF BuffersOf
    <3>2. BufferAddr(b) \in GrantsOf(r, m_buffer_list')
      BY <3>1 DEF BufferAddr, GrantsOf, RrhMessage
    <3>3. brokerToRrh'[r] = Append(brokerToRrh[r], BufferAddr(b))
      BY <1>1, <2>5 DEF Send, SocketsTypeOK
    <3>4. brokerToRrh'[r] \in Seq(GrantsOf(r, m_buffer_list'))
      BY <2>3, <3>2, <3>3, Appended
    <3> QED  BY <1>1, <2>1, <2>2, <3>4
  <2> QED  BY <2>4, <2>5
<1> QED  BY <1>5, <1>6, <1>7, <1>8, <1>9 DEF KnownInv

-----------------------------------------------------------------------------
(* Steps of the buffers, the workers and the RRHs                           *)

(* A buffer registers once, and announces frames only after its address    *)
(* was sent to an RRH (lora_rx_buffer 67-89, 126-186).                     *)
LEMMA BufferKnown ==
  ASSUME TypeOK, KnownInv, NEW b \in Buffers, StartBuffer(b) \/ BufferStep(b)
  PROVE  KnownInv'
<1> USE DEF TypeOK
<1>1. UNCHANGED <<m_buffer_list, m_rrh_list, buffer_threads, m_work_list, pending, brokerToSync,
                  syncToBroker, rrhToBroker, requested, m_buffer_addr, brokerToRrh>>
  BY DEF StartBuffer, BufferStep, BufferNext, BufferStart, BufferAcked, BufferRequestsWorker,
         BufferSubscribed, brokerVars, rrhVars
<1>2. NamesKnown' /\ AskedOnce' /\ GrantsKept(m_buffer_list)'
  BY <1>1 DEF KnownInv, NamesKnown, AskedOnce, Unserved, GrantsKept
<1>3. \A x \in Buffers \ {b} : /\ buffer_state'[x] = buffer_state[x]
                               /\ bufferToBroker'[x] = bufferToBroker[x]
                               /\ brokerToBuffer'[x] = brokerToBuffer[x]
  BY DEF StartBuffer, BufferStep, BufferNext, BufferStart, BufferAcked, BufferRequestsWorker,
         BufferSubscribed, Send, Receive, SocketsTypeOK, BufferTypeOK
<1>4. Registered(b, DOMAIN m_buffer_list, buffer_state[b], bufferToBroker[b], brokerToBuffer[b])
  BY DEF KnownInv, RegistrationInv
<1>5. /\ Registered(b, DOMAIN m_buffer_list, buffer_state'[b], bufferToBroker'[b], brokerToBuffer'[b])
      /\ buffer_state'[b] = "NOT_STARTED" \/ b < buffer_threads
  <2>1. CASE StartBuffer(b)
    <3>1. /\ buffer_state[b] = "NOT_STARTED" /\ buffer_state'[b] = "REGISTERING" /\ b < buffer_threads
          /\ bufferToBroker'[b] = Append(bufferToBroker[b], BufferReady)
          /\ brokerToBuffer'[b] = brokerToBuffer[b]
      BY <2>1 DEF StartBuffer, BufferStart, Send, SocketsTypeOK, BufferTypeOK
    <3>2. b \notin DOMAIN m_buffer_list /\ bufferToBroker[b] = <<>> /\ brokerToBuffer[b] = <<>>
      BY <1>4, <3>1 DEF Registered
    <3>3. bufferToBroker'[b] = <<BufferReady>>
      BY <3>1, <3>2
    <3> QED  BY <3>1, <3>2, <3>3 DEF Registered
  <2>2. CASE BufferStep(b)
    <3>1. \/ BufferAcked(b) \/ BufferSubscribed(b)
          \/ BufferRequestsWorker(b)
      BY <2>2 DEF BufferStep, BufferNext
    <3>2. buffer_state[b] # "NOT_STARTED" /\ b \in DOMAIN m_buffer_list
      BY <1>4, <3>1 DEF BufferAcked, BufferSubscribed, BufferRequestsWorker, Registered
    <3>3. b < buffer_threads
      BY <3>2 DEF KnownInv, Counted
    <3>4. buffer_state'[b] # "NOT_STARTED"
      BY <3>1, <3>2 DEF BufferAcked, BufferSubscribed, BufferRequestsWorker, BufferTypeOK
    <3>5. bufferToBroker'[b] \in Seq(Announcement)
      <4>1. bufferToBroker[b] \in Seq(Announcement)
        BY <1>4, <3>2 DEF Registered
      <4>2. CASE BufferAcked(b) \/ BufferSubscribed(b)
        BY <4>1, <4>2 DEF BufferAcked, BufferSubscribed
      <4>3. CASE BufferRequestsWorker(b)
        <5>1. Head(rrhToBuffer[b]) \in Frame
          BY <4>3, HeadTailProperties DEF BufferRequestsWorker, SocketsTypeOK
        <5>2. NewFrame(Head(rrhToBuffer[b])) \in Announcement
          BY <5>1 DEF NewFrame, Announcement
        <5>3. bufferToBroker'[b] = Append(bufferToBroker[b], NewFrame(Head(rrhToBuffer[b])))
          BY <4>3 DEF BufferRequestsWorker, Send, SocketsTypeOK
        <5> QED  BY <4>1, <5>2, <5>3, Appended
      <4> QED  BY <3>1, <4>2, <4>3
    <3> QED  BY <3>2, <3>3, <3>4, <3>5 DEF Registered
  <2> QED  BY <2>1, <2>2
<1>6. RegistrationInv'
  BY <1>1, <1>3, <1>5 DEF KnownInv, RegistrationInv
<1>7. Counted'
  BY <1>1, <1>3, <1>5 DEF KnownInv, Counted
<1> QED  BY <1>2, <1>6, <1>7 DEF KnownInv

(* A worker subscribes to the buffer its job names.                        *)
LEMMA SyncKnown ==
  ASSUME TypeOK, KnownInv, NEW w \in SyncWorkers, StartSync(w) \/ SyncStep(w)
  PROVE  KnownInv'
<1> USE DEF TypeOK
<1> DEFINE K == DOMAIN m_buffer_list
<1>1. UNCHANGED <<m_buffer_list, m_rrh_list, buffer_threads, m_work_list, pending, rrhToBroker,
                  requested, m_buffer_addr, brokerToRrh, bufferToBroker, brokerToBuffer, buffer_state>>
  BY DEF StartSync, SyncStep, SyncNext, SyncStart, SyncAck, SyncLateDone, SyncJob, SyncEndOfWork,
         SyncLosesFraming, SyncGiveUp, SyncFirstSamples, SendsToBroker, sockets, brokerVars,
         bufferVars, rrhVars
<1>2. RegistrationInv' /\ Counted' /\ AskedOnce' /\ GrantsKept(m_buffer_list)'
  BY <1>1 DEF KnownInv, RegistrationInv, Counted, AskedOnce, Unserved, GrantsKept
<1>3. /\ brokerToSync \in [SyncWorkers -> Seq(OrdersFor(K))]
      /\ syncToBroker \in [SyncWorkers -> Seq(RepliesTo(K))]
  BY DEF KnownInv, NamesKnown, Names
<1>4. brokerToSync' \in [SyncWorkers -> Seq(OrdersFor(K))]
  <2>1. \/ UNCHANGED brokerToSync
        \/ brokerToSync[w] # <<>> /\ brokerToSync' = Receive(brokerToSync, w)
    <3>1. CASE SyncAck(w) \/ SyncLateDone(w) \/ SyncJob(w)
      BY <3>1 DEF SyncAck, SyncLateDone, SyncJob, Idle
    <3>2. CASE StartSync(w) \/ SyncFirstSamples(w)
      BY <3>2 DEF StartSync, SyncStart, SyncFirstSamples, sockets
    <3>3. CASE SyncEndOfWork(w) \/ SyncLosesFraming(w) \/ SyncGiveUp(w)
      BY <3>3 DEF SyncEndOfWork, SyncLosesFraming, SyncGiveUp, Told
    <3> QED  BY <3>1, <3>2, <3>3 DEF SyncStep, SyncNext
  <2> DEFINE M == OrdersFor(K)
  <2>2. brokerToSync \in [SyncWorkers -> Seq(M)]
    BY <1>3
  <2> HIDE DEF M
  <2>3. brokerToSync' \in [SyncWorkers -> Seq(M)]
    BY <2>1, <2>2, ReceiveType
  <2> QED  BY <2>3 DEF M
<1>5. \/ UNCHANGED syncToBroker
      \/ \E s \in Seq(RepliesTo(K)) : syncToBroker' = [syncToBroker EXCEPT ![w] = @ \o s]
  <2>1. CASE StartSync(w) \/ SyncAck(w) \/ SyncEndOfWork(w)
    <3>1. Ready \in RepliesTo(K)
      BY DEF Ready, RepliesTo, SyncMessage
    <3>2. syncToBroker' = [syncToBroker EXCEPT ![w] = @ \o <<Ready>>]
      BY <2>1 DEF StartSync, SyncStart, SyncAck, SyncEndOfWork, SendsToBroker
    <3>3. <<Ready>> \in Seq(RepliesTo(K))
      BY <3>1
    <3> QED  BY <3>2, <3>3
  <2>2. CASE SyncLateDone(w)
    <3>1. syncToBroker' = [syncToBroker EXCEPT ![w] = @ \o <<>>]
      BY <2>2 DEF SyncLateDone, SendsToBroker
    <3>2. <<>> \in Seq(RepliesTo(K))
      OBVIOUS
    <3> QED  BY <3>1, <3>2
  <2>3. CASE SyncJob(w)
    <3> DEFINE job == Head(brokerToSync[w])
    <3>1. /\ brokerToSync[w] # <<>> /\ job.type = "JOB"
          /\ syncToBroker' = [syncToBroker EXCEPT ![w] = @ \o <<Subscribed(job.client)>>]
      BY <2>3 DEF SyncJob, Idle, SendsToBroker
    <3>2. job \in OrdersFor(K)
      BY <1>3, <3>1, ReceiveType
    <3>3. job.client \in Buffers /\ job.client \in K
      BY <3>1, <3>2 DEF OrdersFor, WorkerMessage, JobMessage
    <3>4. Subscribed(job.client) \in RepliesTo(K)
      BY <3>3 DEF Subscribed, RepliesTo, SyncMessage
    <3>5. <<Subscribed(job.client)>> \in Seq(RepliesTo(K))
      BY <3>4
    <3> QED  BY <3>1, <3>5
  <2>4. CASE SyncLosesFraming(w) \/ SyncGiveUp(w)
    <3>1. PICK info \in m_work_info[w] : syncToBroker' = [syncToBroker EXCEPT ![w] = @ \o Report(info)]
      BY <2>4 DEF SyncLosesFraming, SyncGiveUp, SendsToBroker
    <3>2. Ready \in RepliesTo(K) /\ SyncDone(info.work_id) \in RepliesTo(K)
      BY DEF Ready, SyncDone, RepliesTo, SyncMessage, SyncTypeOK, Work_info
    <3>3. Report(info) \in Seq(RepliesTo(K))
      BY <3>2 DEF Report
    <3> QED  BY <3>1, <3>3
  <2>5. CASE SyncFirstSamples(w)
    BY <2>5 DEF SyncFirstSamples, sockets
  <2> QED  BY <2>1, <2>2, <2>3, <2>4, <2>5 DEF SyncStep, SyncNext
<1>6. syncToBroker' \in [SyncWorkers -> Seq(RepliesTo(K))]
  <2> DEFINE M == RepliesTo(K)
  <2>1. syncToBroker \in [SyncWorkers -> Seq(M)]
    BY <1>3
  <2>2. CASE UNCHANGED syncToBroker
    BY <2>1, <2>2
  <2>3. CASE \E s \in Seq(M) : syncToBroker' = [syncToBroker EXCEPT ![w] = @ \o s]
    <3> HIDE DEF M
    <3>1. PICK s \in Seq(M) : syncToBroker' = [syncToBroker EXCEPT ![w] = @ \o s]
      BY <2>3
    <3>2. [syncToBroker EXCEPT ![w] = @ \o s] \in [SyncWorkers -> Seq(M)]
      BY <2>1, <3>1, SendAllType
    <3> QED  BY <3>1, <3>2 DEF M
  <2> QED  BY <1>5, <2>2, <2>3
<1>7. NamesKnown'
  BY <1>1, <1>4, <1>6 DEF KnownInv, NamesKnown, Names
<1> QED  BY <1>2, <1>7 DEF KnownInv

(* An RRH asks for a buffer once, and keeps the address it was granted     *)
(* (rrh_zmq_sink 61-80).                                                   *)
LEMMA RrhKnown ==
  ASSUME TypeOK, AddressFirst, KnownInv, NEW r \in Rrhs, RrhStarts(r) \/ RrhStep(r)
  PROVE  KnownInv'
<1> USE DEF TypeOK
<1>1. UNCHANGED <<m_buffer_list, m_rrh_list, buffer_threads, m_work_list, pending, brokerToSync,
                  syncToBroker, bufferToBroker, brokerToBuffer, buffer_state>>
  BY DEF RrhStarts, RrhStep, RequestBuffer, BufferGranted, RrhStops, RrhDetects, RrhWork,
         brokerVars, bufferVars
<1>2. RegistrationInv' /\ Counted' /\ NamesKnown'
  BY <1>1 DEF KnownInv, RegistrationInv, Counted, NamesKnown
<1>3. \A q \in Rrhs \ {r} : /\ brokerToRrh'[q] = brokerToRrh[q] /\ rrhToBroker'[q] = rrhToBroker[q]
                            /\ m_buffer_addr'[q] = m_buffer_addr[q] /\ requested'[q] = requested[q]
  BY DEF RrhStarts, RrhStep, RequestBuffer, BufferGranted, RrhStops, RrhDetects,
         RrhWork, Receive, Send, SocketsTypeOK, RrhTypeOK
<1>4. /\ m_buffer_addr[r] \subseteq BuffersOf(r, m_buffer_list)
      /\ brokerToRrh[r] \in Seq(GrantsOf(r, m_buffer_list))
  BY DEF KnownInv, GrantsKept
<1>5. AskedOnce'
  <2>1. /\ rrhToBroker'[r] \in {<<>>, <<NewBuffer>>}
        /\ rrhToBroker'[r] # <<>> => Unserved(r)
        /\ ~requested'[r] => rrhToBroker'[r] = <<>> /\ Unserved(r)
    <3>1. CASE RequestBuffer(r)
      <4>1. ~requested[r] /\ requested'[r] /\ rrhToBroker'[r] = Append(rrhToBroker[r], NewBuffer)
        BY <3>1 DEF RequestBuffer, Send, RrhTypeOK, SocketsTypeOK
      <4>2. rrhToBroker[r] = <<>> /\ Unserved(r)
        BY <4>1 DEF KnownInv, AskedOnce
      <4>3. rrhToBroker'[r] = <<NewBuffer>>
        BY <4>1, <4>2
      <4> QED  BY <4>1, <4>2, <4>3
    <3>2. CASE ~RequestBuffer(r)
      <4>1. UNCHANGED <<rrhToBroker, requested>>
        BY <3>2 DEF RrhStarts, RrhStep, BufferGranted, RrhStops, RrhDetects, RrhWork
      <4> QED  BY <4>1 DEF KnownInv, AskedOnce
    <3> QED  BY <3>1, <3>2
  <2>2. \A q \in Rrhs : Unserved(q) <=> Unserved(q)'
    BY <1>1 DEF Unserved
  <2> QED  BY <1>1, <1>3, <2>1, <2>2 DEF KnownInv, AskedOnce
<1>6. /\ m_buffer_addr'[r] \subseteq BuffersOf(r, m_buffer_list)
      /\ brokerToRrh'[r] \in Seq(GrantsOf(r, m_buffer_list))
  <2>1. brokerToRrh[r] # <<>> => Tail(brokerToRrh[r]) \in Seq(GrantsOf(r, m_buffer_list))
    BY <1>4, HeadTailProperties
  <2>2. CASE RequestBuffer(r)
    BY <1>4, <2>2 DEF RequestBuffer
  <2>3. CASE BufferGranted(r)
    <3> DEFINE m == Head(brokerToRrh[r])
    <3>1. /\ brokerToRrh[r] # <<>> /\ m_buffer_addr[r] = {}
          /\ m_buffer_addr'[r] = {m.buffer} /\ brokerToRrh'[r] = Tail(brokerToRrh[r])
      BY <2>3 DEF BufferGranted, Receive, SocketsTypeOK, RrhTypeOK
    <3>2. m.type = "ADDR"
      BY <3>1 DEF AddressFirst
    <3>3. m \in GrantsOf(r, m_buffer_list)
      BY <1>4, <3>1, HeadTailProperties
    <3>4. m.buffer \in BuffersOf(r, m_buffer_list)
      BY <3>2, <3>3 DEF GrantsOf
    <3> QED  BY <2>1, <3>1, <3>4
  <2>4. CASE RrhStops(r) \/ RrhDetects(r)
    <3>1. /\ UNCHANGED m_buffer_addr
          /\ \/ UNCHANGED brokerToRrh
             \/ brokerToRrh[r] # <<>> /\ brokerToRrh' = Receive(brokerToRrh, r)
      BY <2>4 DEF RrhStops, RrhDetects, RrhWork
    <3>2. \/ brokerToRrh'[r] = brokerToRrh[r]
          \/ brokerToRrh[r] # <<>> /\ brokerToRrh'[r] = Tail(brokerToRrh[r])
      BY <3>1 DEF Receive, SocketsTypeOK
    <3> QED  BY <1>4, <2>1, <3>1, <3>2
  <2> QED  BY <2>2, <2>3, <2>4 DEF RrhStarts, RrhStep
<1>7. GrantsKept(m_buffer_list)'
  BY <1>1, <1>3, <1>6 DEF KnownInv, GrantsKept
<1> QED  BY <1>2, <1>5, <1>7 DEF KnownInv

(* Nothing is known when the broker starts.                                *)
LEMMA InitKnown == Init => KnownInv
<1> SUFFICES ASSUME Init PROVE KnownInv
  OBVIOUS
<1> USE DEF Init, SocketsInit, BrokerInit, BufferInit, RrhInit, SyncInit
<1>1. DOMAIN m_buffer_list = {}
  OBVIOUS
<1>2. RegistrationInv
  BY <1>1 DEF RegistrationInv, Registered
<1>3. Counted
  <2>1. Len(m_rrh_list) = 0 /\ Cardinality({}) = 0
    BY FS_EmptySet
  <2> QED  BY <1>1, <2>1 DEF Counted
<1>4. AskedOnce
  BY <1>1 DEF AskedOnce, Unserved
<1>5. NamesKnown
  BY DEF NamesKnown, Names
<1>6. GrantsKept(m_buffer_list)
  <2> SUFFICES ASSUME NEW r \in Rrhs
               PROVE  /\ m_buffer_addr[r] \subseteq BuffersOf(r, m_buffer_list)
                      /\ brokerToRrh[r] \in Seq(GrantsOf(r, m_buffer_list))
    BY DEF GrantsKept
  <2> DEFINE M == GrantsOf(r, m_buffer_list)
  <2>1. m_buffer_addr[r] = {} /\ brokerToRrh[r] = <<>>
    OBVIOUS
  <2> HIDE DEF M
  <2>2. <<>> \in Seq(M)
    OBVIOUS
  <2> QED  BY <2>1, <2>2 DEF M
<1> QED  BY <1>2, <1>3, <1>4, <1>5, <1>6 DEF KnownInv

(* broker.cpp 251-297: a buffer that gets ready finds an RRH that waits for*)
(* one, an RRH has one buffer and writes to that one, and the works name   *)
(* no buffer the broker does not know.                                     *)
THEOREM BuffersServed == Spec => []BufferForEachRrh
<1>1. TypeInv /\ KnownInv /\ [Next]_vars => KnownInv'
  <2> SUFFICES ASSUME TypeInv, KnownInv, [Next]_vars PROVE KnownInv'
    OBVIOUS
  <2> USE DEF TypeInv
  <2>1. CASE BrokerStep
    BY <2>1, RegisterKnown, BrokerKnown DEF BrokerStep
  <2>2. CASE \E r \in Rrhs : RrhStarts(r) \/ RrhStep(r)
    BY <2>2, RrhKnown
  <2>3. CASE \/ \E b \in Buffers : StartBuffer(b) \/ BufferStep(b)
             \/ \E w \in SyncWorkers : StartSync(w) \/ SyncStep(w)
    BY <2>3, BufferKnown, SyncKnown
  <2>4. CASE DemodStep \/ UNCHANGED vars
    <3>1. UNCHANGED <<brokerVars, bufferVars, rrhVars>>
      BY <2>4 DEF DemodStep, vars
    <3>2. UNCHANGED <<rrhToBroker, brokerToRrh, bufferToBroker, brokerToBuffer, syncToBroker, brokerToSync>>
      BY <2>4 DEF DemodStep, FrameFound, FrameDecoded, sockets, vars
    <3> QED  BY <3>1, <3>2 DEF KnownInv, RegistrationInv, Counted, AskedOnce, Unserved, NamesKnown,
                               GrantsKept, brokerVars, bufferVars, rrhVars
  <2> QED  BY <2>1, <2>2, <2>3, <2>4 DEF Next
<1>2. TypeInv /\ KnownInv => BufferForEachRrh
  BY KnownIsServed DEF TypeInv, TypeOK
<1> QED  BY <1>1, <1>2, InitKnown, TypeInvariant, PTL DEF Spec
=============================================================================
