------------------------------- MODULE Broker -------------------------------
(***************************************************************************)
(* broker::run of framework/bbu/broker.cpp: the single thread that gives a *)
(* buffer to every RRH, turns the frames the buffers announce into works,  *)
(* hands works to synchronization and demodulation workers, and ends them. *)
(*                                                                         *)
(* One iteration of the event loop serves at most one message of each of   *)
(* the sockets frontend_rrh, frontend_buffer and backend.  Every action    *)
(* here is the handling of one message.  That the iteration serves what    *)
(* its poll has seen, and in this order, is no restriction: a message in   *)
(* a pipe may still be on its way when the poll returns, so any message    *)
(* can be the next one to be served.  The exception is a message that has  *)
(* been read in part, whose remaining frames the socket always shows.      *)
(***************************************************************************)
EXTENDS Sockets, FiniteSets

CONSTANTS
  MAX_DELAY_TO_COMBINE,   \* in ticks
  WORKER_MARGIN,          \* idle workers kept when there is nothing to do
  MIN_NUMBER_OF_WORKERS   \* workers of each kind spawned at start

ASSUME BrokerAssumption ==
  /\ MAX_DELAY_TO_COMBINE \in Nat
  /\ WORKER_MARGIN \in Nat
  /\ MIN_NUMBER_OF_WORKERS \in Nat
  /\ 0 .. (MIN_NUMBER_OF_WORKERS - 1) \subseteq DemodWorkers

VARIABLES
  wait_sync_worker_spawn, \* a spawned sync worker is not ready yet
  continue_worker_attr,   \* a request was read but has no sync worker yet
  pending,                \* m_buffer_id and m_frame_info of that request, whose
                          \* last frame is still in frontend_buffer
  m_rrh_list,             \* RRHs waiting for a buffer
  m_buffer_list,          \* ready buffer -> its RRH
  workers_by_fc,          \* buffer, channel, work -> streams of it in progress
  m_work_list,
  m_sync_worker_pool,
  m_demod_worker_pool,
  m_last_work_id,
  m_ipc_file_idx,
  m_sync_thread_spawned,
  buffer_threads,         \* buffer threads created so far
  undefined               \* the thread ran into undefined behaviour

matching == <<wait_sync_worker_spawn, continue_worker_attr, pending>>
demods   == <<m_demod_worker_pool, m_ipc_file_idx, m_last_work_id>>
rrhs     == <<m_rrh_list, m_buffer_list, buffer_threads>>
brokerVars == <<wait_sync_worker_spawn, continue_worker_attr, pending, m_rrh_list,
                m_buffer_list, workers_by_fc, m_work_list, m_sync_worker_pool,
                m_demod_worker_pool, m_last_work_id, m_ipc_file_idx,
                m_sync_thread_spawned, buffer_threads, undefined>>

(* worker_id is a list in the code; only how often a worker is in it counts. *)
Local_work_info ==
  [work_id : WorkIds, worker_id : [SyncWorkers -> Nat], buffers_id : Seq(Buffers) \ {<<>>},
   demod_worker_addr : DemodWorkers, channel_id : Channels, time : Times,
   sync_worker_cnt : Int]

Request == [buffer : Buffers, frame : Frame]

BrokerTypeOK ==
  /\ wait_sync_worker_spawn \in BOOLEAN
  /\ continue_worker_attr \in BOOLEAN
  /\ pending \in Seq(Request)
  /\ m_rrh_list \in Seq(Rrhs)
  /\ m_buffer_list \in UNION {[B -> Rrhs] : B \in SUBSET Buffers}
  /\ workers_by_fc \in [Buffers -> [Channels -> [WorkIds -> Nat]]]
  /\ m_work_list \in Seq(Local_work_info)
  /\ m_sync_worker_pool \in Seq(SyncWorkers)
  /\ m_demod_worker_pool \in Seq(DemodWorkers)
  /\ m_last_work_id \in WorkIds
  /\ m_ipc_file_idx \in Nat
  /\ m_sync_thread_spawned \in Nat
  /\ buffer_threads \in Nat
  /\ undefined \in BOOLEAN

BrokerInit ==
  /\ wait_sync_worker_spawn = FALSE
  /\ continue_worker_attr = FALSE
  /\ pending = <<>>
  /\ m_rrh_list = <<>>
  /\ m_buffer_list = [b \in {} |-> b]
  /\ workers_by_fc = [b \in Buffers |-> [c \in Channels |-> [id \in WorkIds |-> 0]]]
  /\ m_work_list = <<>>
  /\ m_sync_worker_pool = <<>>
  /\ m_demod_worker_pool = [i \in 1 .. MIN_NUMBER_OF_WORKERS |-> i - 1]
  /\ m_last_work_id = 0
  /\ m_ipc_file_idx = MIN_NUMBER_OF_WORKERS
  /\ m_sync_thread_spawned = MIN_NUMBER_OF_WORKERS
  /\ buffer_threads = 0
  /\ undefined = FALSE

-----------------------------------------------------------------------------
(* A definition whose name ends in _Broken is the next one with a plausible *)
(* mistake in it.  No action uses it; it is there to see which property    *)
(* notices the mistake.                                                    *)

PoolAfterKeepAlive_Broken == m_sync_worker_pool

PoolAfterKeepAlive == <<>>

(* The first WORKER_MARGIN idle workers are asked to announce themselves    *)
(* again, and the whole pool is cleared.                                   *)
KeepWorkersAlive ==
  LET kept == {m_sync_worker_pool[i] : i \in {j \in DOMAIN m_sync_worker_pool :
                                                j <= WORKER_MARGIN}}
  IN /\ brokerToSync' = [w \in SyncWorkers |-> IF w \in kept
                                               THEN Append(brokerToSync[w], Ack)
                                               ELSE brokerToSync[w]]
     /\ m_sync_worker_pool' = PoolAfterKeepAlive

SomethingToServe_Broken ==
  \/ \E b \in Buffers : bufferToBroker[b] # <<>>
  \/ \E w \in SyncWorkers : syncToBroker[w] # <<>>

SomethingToServe ==
  \/ pending # <<>>
  \/ \E b \in Buffers : bufferToBroker[b] # <<>>
  \/ \E w \in SyncWorkers : syncToBroker[w] # <<>>
  \/ \E a \in DemodWorkers : demodToBroker[a] # <<>>

RrhsWaiting_Broken(r) == <<r>>

RrhsWaiting(r) == Append(m_rrh_list, r)

(* frontend_rrh: a buffer thread is created for the RRH.  If the poll has  *)
(* seen no message of a buffer or a worker, the same iteration does what   *)
(* it does when nothing at all has come.                                   *)
RrhRequest(r) ==
  /\ ~undefined
  /\ rrhToBroker[r] # <<>>
  /\ rrhToBroker' = Receive(rrhToBroker, r)
  /\ m_rrh_list' = RrhsWaiting(r)
  /\ buffer_threads' = buffer_threads + 1
  /\ \/ pending = <<>> /\ KeepWorkersAlive
     \/ SomethingToServe /\ UNCHANGED <<m_sync_worker_pool, brokerToSync>>
  /\ UNCHANGED <<matching, demods, m_buffer_list, workers_by_fc, m_work_list,
                 m_sync_thread_spawned, undefined, brokerToRrh, rrhToBuffer,
                 bufferToBroker, brokerToBuffer, syncToBroker, demodToBroker>>

ServesBuffers == ~undefined /\ ~wait_sync_worker_spawn

OtherRrhs_Broken == m_rrh_list

OtherRrhs == Tail(m_rrh_list)

(* frontend_buffer: buffer b is ready and goes to the RRH waiting longest. *)
RegisterBuffer(b) ==
  /\ ServesBuffers /\ ~continue_worker_attr /\ pending = <<>>
  /\ bufferToBroker[b] # <<>> /\ Head(bufferToBroker[b]).type = "READY"
  /\ m_rrh_list # <<>>
  /\ m_buffer_list' = [x \in DOMAIN m_buffer_list \cup {b} |->
                         IF x = b THEN Head(m_rrh_list) ELSE m_buffer_list[x]]
  /\ m_rrh_list' = OtherRrhs
  /\ bufferToBroker' = Receive(bufferToBroker, b)
  /\ brokerToBuffer' = Send(brokerToBuffer, b, "ACK")
  /\ brokerToRrh' = Send(brokerToRrh, Head(m_rrh_list), BufferAddr(b))
  /\ UNCHANGED <<matching, demods, buffer_threads, workers_by_fc, m_work_list,
                 m_sync_worker_pool, m_sync_thread_spawned, undefined, rrhToBroker,
                 rrhToBuffer, syncToBroker, brokerToSync, demodToBroker>>

-----------------------------------------------------------------------------
(* frontend_buffer: a buffer announces a frame and asks for a worker.      *)

Distance(s, t) == IF s >= t THEN s - t ELSE t - s

Combinable(f) == {i \in DOMAIN m_work_list :
                    Distance(f.time, m_work_list[i].time) <= MAX_DELAY_TO_COMBINE}

First(I) == CHOOSE i \in I : \A j \in I : i <= j

(* should_combine: the first work of the list that is close enough in time. *)
ShouldCombine(f) == First(Combinable(f))

NewWork(b, f) ==
  [work_id |-> m_last_work_id, worker_id |-> [w \in SyncWorkers |-> 0],
   buffers_id |-> <<b>>,
   demod_worker_addr |-> IF m_demod_worker_pool = <<>> THEN m_ipc_file_idx
                                                       ELSE Head(m_demod_worker_pool),
   channel_id |-> f.channel, time |-> f.time, sync_worker_cnt |-> 0]

WithBuffer(work, b) == [work EXCEPT !.buffers_id = Append(@, b)]
WithWorker(work, w) == [work EXCEPT !.worker_id = [work.worker_id EXCEPT ![w] = @ + 1]]
Recounted(work, n)  == [work EXCEPT !.sync_worker_cnt = @ + n]

(* The work list once the frame is part of an old or of a new work.        *)
WorksWith(b, f) ==
  IF Combinable(f) # {}
  THEN [m_work_list EXCEPT ![ShouldCombine(f)] = Recounted(WithBuffer(@, b), 1)]
  ELSE Append(m_work_list, NewWork(b, f))

ReuseDemodWorker_Broken ==
  m_demod_worker_pool # <<>> /\ UNCHANGED <<m_demod_worker_pool, m_ipc_file_idx>>

ReuseDemodWorker ==
  /\ m_demod_worker_pool # <<>>
  /\ m_demod_worker_pool' = Tail(m_demod_worker_pool)
  /\ UNCHANGED m_ipc_file_idx

SpawnDemodWorker ==
  /\ m_demod_worker_pool = <<>>
  /\ m_ipc_file_idx \in DemodWorkers
  /\ m_ipc_file_idx' = m_ipc_file_idx + 1
  /\ UNCHANGED m_demod_worker_pool

NextWorkId_Broken == m_last_work_id + 1

NextWorkId == (m_last_work_id + 1) % WORK_ID_RANGE

(* A new work takes a demodulation worker out of the pool or spawns one.   *)
TakeDemodWorker(f) ==
  \/ /\ Combinable(f) # {}
     /\ UNCHANGED demods
  \/ /\ Combinable(f) = {}
     /\ m_last_work_id' = NextWorkId
     /\ ReuseDemodWorker \/ SpawnDemodWorker

OtherWorkers == Tail(m_sync_worker_pool)

(* forward_job_to_worker for the last work of the list: the answer of the  *)
(* worker goes to the work's last buffer, the samples come from buffer pub. *)
ForwardJob(works, pub, f) ==
  LET last   == Len(works)
      work   == works[last]
      client == work.buffers_id[Len(work.buffers_id)]
      worker == Head(m_sync_worker_pool)
  IN /\ m_work_list' = [works EXCEPT ![last] = Recounted(WithWorker(@, worker), 1)]
     /\ workers_by_fc' = [workers_by_fc EXCEPT ![client][f.channel][work.work_id] = @ + 1]
     /\ m_sync_worker_pool' = OtherWorkers
     /\ brokerToSync' = Send(brokerToSync, worker,
                             Job(work.work_id, work.demod_worker_addr, client, pub))

AnnouncesFrame(b) ==
  /\ ServesBuffers /\ ~continue_worker_attr /\ pending = <<>>
  /\ bufferToBroker[b] # <<>> /\ Head(bufferToBroker[b]).type = "NEW_FRAME"
  /\ bufferToBroker' = Receive(bufferToBroker, b)

(* No sync worker is free: one is spawned, the publishing address of the   *)
(* request stays unread in the socket, and the iteration ends here.        *)
SpawnForFrame(b) ==
  LET f == Head(bufferToBroker[b]).frame
  IN /\ AnnouncesFrame(b)
     /\ TakeDemodWorker(f)
     /\ m_sync_worker_pool = <<>>
     /\ m_work_list' = WorksWith(b, f)
     /\ continue_worker_attr' = TRUE
     /\ pending' = <<[buffer |-> b, frame |-> f]>>
     /\ m_sync_thread_spawned \in SyncWorkers
     /\ m_sync_thread_spawned' = m_sync_thread_spawned + 1
     /\ wait_sync_worker_spawn' = TRUE
     /\ UNCHANGED <<rrhs, workers_by_fc, m_sync_worker_pool, undefined, rrhToBroker,
                    brokerToRrh, rrhToBuffer, brokerToBuffer, syncToBroker,
                    brokerToSync, demodToBroker>>

(* A sync worker is free: it gets the job at once.                         *)
ServeFrame(b) ==
  LET f == Head(bufferToBroker[b]).frame
  IN /\ AnnouncesFrame(b)
     /\ TakeDemodWorker(f)
     /\ m_sync_worker_pool # <<>>
     /\ ForwardJob(WorksWith(b, f), b, f)
     /\ UNCHANGED <<matching, rrhs, m_sync_thread_spawned, undefined, rrhToBroker,
                    brokerToRrh, rrhToBuffer, brokerToBuffer, syncToBroker,
                    demodToBroker>>

(* The request that waited gets its worker.  The work is the last one of   *)
(* the list now; back() of an empty list is undefined behaviour.           *)
FinishAttribution ==
  /\ ServesBuffers /\ continue_worker_attr /\ pending # <<>>
  /\ m_sync_worker_pool # <<>>
  /\ UNCHANGED <<demods, rrhs, wait_sync_worker_spawn, m_sync_thread_spawned,
                 rrhToBroker, brokerToRrh, rrhToBuffer, bufferToBroker, brokerToBuffer,
                 syncToBroker, demodToBroker>>
  /\ \/ /\ m_work_list # <<>>
        /\ ForwardJob(m_work_list, Head(pending).buffer, Head(pending).frame)
        /\ continue_worker_attr' = FALSE
        /\ pending' = <<>>
        /\ UNCHANGED undefined
     \/ /\ m_work_list = <<>>
        /\ undefined' = TRUE
        /\ UNCHANGED <<continue_worker_attr, pending, workers_by_fc, m_work_list,
                       m_sync_worker_pool, brokerToSync>>

-----------------------------------------------------------------------------
(* backend: messages of the workers.                                       *)

ServeSync(w, type) ==
  /\ ~undefined
  /\ syncToBroker[w] # <<>> /\ Head(syncToBroker[w]).type = type
  /\ syncToBroker' = Receive(syncToBroker, w)
  /\ UNCHANGED <<continue_worker_attr, pending, rrhs, m_last_work_id, m_ipc_file_idx,
                 m_sync_thread_spawned, undefined, rrhToBroker, rrhToBuffer,
                 bufferToBroker, demodToBroker>>

WorkerSpawned_Broken == UNCHANGED wait_sync_worker_spawn

WorkerSpawned == wait_sync_worker_spawn' = FALSE

WorkerReady(w) ==
  /\ ServeSync(w, "READY")
  /\ m_sync_worker_pool' = Append(m_sync_worker_pool, w)
  /\ WorkerSpawned
  /\ UNCHANGED <<workers_by_fc, m_work_list, m_demod_worker_pool, brokerToRrh,
                 brokerToBuffer, brokerToSync>>

ForwardReply(w) ==
  /\ ServeSync(w, "SUBSCRIBED")
  /\ brokerToBuffer' = Send(brokerToBuffer, Head(syncToBroker[w]).buffer, "SUBSCRIBED")
  /\ UNCHANGED <<wait_sync_worker_spawn, workers_by_fc, m_work_list,
                 m_sync_worker_pool, m_demod_worker_pool, brokerToRrh, brokerToSync>>

UndergoingWorks(id) == {i \in DOMAIN m_work_list : m_work_list[i].work_id = id}

Occurrences(b, s) == Cardinality({i \in DOMAIN s : s[i] = b})

(* Each time b is in the work's list of buffers, one stream of the work is  *)
(* struck off, and a stop is sent if no stream of the channel is left.      *)
StreamsLeft(b, work) ==
  LET n == workers_by_fc[b][work.channel_id][work.work_id]
      k == Occurrences(b, work.buffers_id)
  IN IF n > k THEN n - k ELSE 0

(* Whether a stream of the channel is left is asked before the strike-off. *)
Stops_Broken(b, work) ==
  IF \E id \in WorkIds : workers_by_fc[b][work.channel_id][id] > 0
  THEN 0 ELSE Occurrences(b, work.buffers_id)

Stops(b, work) ==
  LET n == workers_by_fc[b][work.channel_id][work.work_id]
      k == Occurrences(b, work.buffers_id)
      others == \E id \in WorkIds \ {work.work_id} :
                  workers_by_fc[b][work.channel_id][id] > 0
  IN IF others \/ k < n THEN 0
     ELSE IF n <= 1 THEN k ELSE k - n + 1

StopsForAll_Broken(r, work) == Stops(work.buffers_id[1], work)

StopsFor(r, work) ==
  LET mine == {b \in DOMAIN m_buffer_list : m_buffer_list[b] = r}
  IN IF mine = {} THEN 0 ELSE Stops(CHOOSE b \in mine : TRUE, work)

DonesFor_Broken(work, w) ==
  IF work.worker_id[w] > 0 /\ \A v \in SyncWorkers : v > w => work.worker_id[v] = 0
  THEN <<>> ELSE [j \in 1 .. work.worker_id[w] |-> Done(work.work_id)]

DonesFor(work, w) == [j \in 1 .. work.worker_id[w] |-> Done(work.work_id)]

(* All workers and streams of the i-th work are told to end.               *)
EndWork(i) ==
  LET work == m_work_list[i]
      c    == work.channel_id
  IN /\ m_work_list' = [j \in 1 .. (Len(m_work_list) - 1) |->
                          IF j < i THEN m_work_list[j] ELSE m_work_list[j + 1]]
     /\ brokerToSync' = [w \in SyncWorkers |-> brokerToSync[w] \o DonesFor(work, w)]
     /\ workers_by_fc' = [b \in Buffers |->
          [workers_by_fc[b] EXCEPT ![c][work.work_id] = StreamsLeft(b, work)]]
     /\ brokerToRrh' = [r \in Rrhs |->
          brokerToRrh[r] \o [j \in 1 .. StopsFor(r, work) |-> Stop(c)]]

(* A work without sync workers ends; a work id that is not in the list is  *)
(* reported and otherwise ignored.                                         *)
WorkerSyncDone(w) ==
  LET I == UndergoingWorks(Head(syncToBroker[w]).work_id)
      i == First(I)
  IN /\ ServeSync(w, "SYNC_DONE")
     /\ UNCHANGED <<wait_sync_worker_spawn, m_sync_worker_pool, m_demod_worker_pool,
                    brokerToBuffer>>
     /\ \/ /\ I # {} /\ m_work_list[i].sync_worker_cnt <= 1
           /\ EndWork(i)
        \/ /\ I # {} /\ m_work_list[i].sync_worker_cnt > 1
           /\ m_work_list' = [m_work_list EXCEPT ![i] = Recounted(@, -1)]
           /\ UNCHANGED <<workers_by_fc, brokerToSync, brokerToRrh>>
        \/ /\ I = {}
           /\ UNCHANGED <<m_work_list, workers_by_fc, brokerToSync, brokerToRrh>>

WorkerDemodDone(a) ==
  LET I == UndergoingWorks(Head(demodToBroker[a]).work_id)
      i == First(I)
  IN /\ ~undefined
     /\ demodToBroker[a] # <<>>
     /\ demodToBroker' = Receive(demodToBroker, a)
     /\ UNCHANGED <<matching, rrhs, m_last_work_id, m_ipc_file_idx, m_sync_worker_pool,
                    m_sync_thread_spawned, undefined, rrhToBroker, rrhToBuffer,
                    bufferToBroker, brokerToBuffer, syncToBroker>>
     /\ \/ /\ I # {}
           /\ m_demod_worker_pool' = Append(m_demod_worker_pool,
                                            m_work_list[i].demod_worker_addr)
           /\ EndWork(i)
        \/ /\ I = {}
           /\ UNCHANGED <<m_demod_worker_pool, m_work_list, workers_by_fc,
                          brokerToSync, brokerToRrh>>

(* The poll ended after WORKER_KEEP_ALIVE_PERIOD seconds without a message. *)
KeepAlive ==
  /\ ~undefined /\ ~SomethingToServe
  /\ \A r \in Rrhs : rrhToBroker[r] = <<>>
  /\ m_sync_worker_pool # <<>>
  /\ KeepWorkersAlive
  /\ UNCHANGED <<matching, demods, rrhs, workers_by_fc, m_work_list,
                 m_sync_thread_spawned, undefined, rrhToBroker, brokerToRrh,
                 rrhToBuffer, bufferToBroker, brokerToBuffer, syncToBroker,
                 demodToBroker>>

FrontendRrh    == \E r \in Rrhs : RrhRequest(r)
FrontendBuffer == \/ \E b \in Buffers : RegisterBuffer(b) \/ SpawnForFrame(b) \/ ServeFrame(b)
                  \/ FinishAttribution
Backend        == \/ \E w \in SyncWorkers : WorkerReady(w) \/ ForwardReply(w) \/ WorkerSyncDone(w)
                  \/ \E a \in DemodWorkers : WorkerDemodDone(a)

BrokerNext == FrontendRrh \/ FrontendBuffer \/ Backend \/ KeepAlive
=============================================================================
