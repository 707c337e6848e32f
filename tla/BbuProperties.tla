--------------------------- MODULE BbuProperties ---------------------------
(***************************************************************************)
(* What the base band unit promises.  The first part holds for frames      *)
(* apart and for frames that are combined; the second part for frames      *)
(* apart only, because combining puts it at risk; the third part is what   *)
(* comments of the code say and the code does not keep.                    *)
(***************************************************************************)
EXTENDS Bbu

-----------------------------------------------------------------------------
(* Safety, for all frames                                                  *)

(* broker.cpp 266-382: the flags that let the loop come back to a request  *)
(* it has read in part are set exactly while the rest of the request is    *)
(* in the socket, and no worker is left in the pool while one waits to be  *)
(* spawned for nothing.  If this failed, the loop would take a publishing  *)
(* address for a buffer's identity, or wait for ever.                      *)
AttributionAligned ==
  /\ Len(pending) <= 1
  /\ continue_worker_attr <=> pending # <<>>
  /\ wait_sync_worker_spawn => continue_worker_attr
  /\ continue_worker_attr /\ ~wait_sync_worker_spawn => m_sync_worker_pool # <<>>

(* broker.cpp 323-343, 434-438: a demodulation worker is in the pool once  *)
(* or serves one work, never both and never two works.                     *)
DemodExclusive ==
  /\ \A i, j \in DOMAIN m_demod_worker_pool :
       m_demod_worker_pool[i] = m_demod_worker_pool[j] => i = j
  /\ \A i, j \in DOMAIN m_work_list :
       m_work_list[i].demod_worker_addr = m_work_list[j].demod_worker_addr => i = j
  /\ \A i \in DOMAIN m_demod_worker_pool, j \in DOMAIN m_work_list :
       m_demod_worker_pool[i] # m_work_list[j].demod_worker_addr
  /\ \A i \in DOMAIN m_demod_worker_pool : m_demod_worker_pool[i] < m_ipc_file_idx
  /\ \A i \in DOMAIN m_work_list : m_work_list[i].demod_worker_addr < m_ipc_file_idx

(* Where the one right to get a job can be: announced to the broker, in    *)
(* the pool, on its way back as a job or a keep-alive, or in use.          *)
Tokens(w) ==
  {<<"ready", i>> : i \in {j \in DOMAIN syncToBroker[w] : syncToBroker[w][j].type = "READY"}}
  \cup {<<"pool", i>> : i \in {j \in DOMAIN m_sync_worker_pool : m_sync_worker_pool[j] = w}}
  \cup {<<"sent", i>> : i \in {j \in DOMAIN brokerToSync[w] :
                                 brokerToSync[w][j].type \in {"ACK", "JOB"}}}
  \cup {<<"working">> : x \in {w} \cap {v \in SyncWorkers : m_state[v] = "WORKING"}}

(* broker.cpp 403-411, 520-534, worker_zmq_source 153-264: across ends of  *)
(* works, time-outs and keep-alives a synchronization worker never stands  *)
(* in the pool twice, and never has a second job or a keep-alive waiting   *)
(* while it works, which it would take for the end of its work.            *)
OneTokenPerWorker == \A w \in SyncWorkers : Cardinality(Tokens(w)) <= 1

LiveFor(w, id) == \E i \in UndergoingWorks(id) : m_work_list[i].worker_id[w] > 0

IsDone(m, id) == m.type = "DONE" /\ m.work_id = id

(* broker.cpp 440-453: whoever works, or is about to work, for a work is   *)
(* on the list of that work or has its DONE ahead, however the end of the  *)
(* work, the worker's own time-out and a new job cross each other.         *)
NoOrphanJob ==
  \A w \in SyncWorkers :
    /\ m_state[w] = "WORKING" =>
         \A info \in m_work_info[w] :
           \/ LiveFor(w, info.work_id)
           \/ \E i \in DOMAIN brokerToSync[w] : IsDone(brokerToSync[w][i], info.work_id)
    /\ \A i \in DOMAIN brokerToSync[w] : brokerToSync[w][i].type = "JOB" =>
         \/ LiveFor(w, brokerToSync[w][i].work_id)
         \/ \E j \in DOMAIN brokerToSync[w] :
              j > i /\ IsDone(brokerToSync[w][j], brokerToSync[w][i].work_id)

(* broker.cpp 251-297: there is an RRH for every buffer that gets ready    *)
(* (front() of an empty queue is undefined), every RRH has a buffer of its *)
(* own, and a worker never streams for a buffer the broker does not know.  *)
BufferForEachRrh ==
  /\ \A b \in Buffers : \A i \in DOMAIN bufferToBroker[b] :
       bufferToBroker[b][i].type = "READY" => m_rrh_list # <<>>
  /\ \A b1, b2 \in DOMAIN m_buffer_list : m_buffer_list[b1] = m_buffer_list[b2] => b1 = b2
  /\ \A r \in Rrhs : \A b \in m_buffer_addr[r] :
       b \in DOMAIN m_buffer_list /\ m_buffer_list[b] = r
  /\ \A i \in DOMAIN m_work_list :
       \A j \in DOMAIN m_work_list[i].buffers_id :
         m_work_list[i].buffers_id[j] \in DOMAIN m_buffer_list

(* rrh_zmq_sink_impl.cc 66-70: the constructor takes the first message it  *)
(* receives for the address of its buffer.  No stop of a stream overtakes  *)
(* it, because the broker knows an RRH by no other means than the buffer   *)
(* whose address it has just sent.                                         *)
AddressFirst ==
  \A r \in Rrhs : m_buffer_addr[r] = {} =>
    /\ brokerToRrh[r] # <<>> => Head(brokerToRrh[r]).type = "ADDR"
    /\ (\E b \in DOMAIN m_buffer_list : m_buffer_list[b] = r) => brokerToRrh[r] # <<>>

-----------------------------------------------------------------------------
(* Safety, for frames apart                                                 *)

(* No two frames are close enough in time to become one work, and there    *)
(* are no more of them than there are work ids.                            *)
RequestsApart ==
  /\ IsFiniteSet(Detections) /\ Cardinality(Detections) <= WORK_ID_RANGE
  /\ \A d, e \in Detections :
       d # e => Distance(d.frame.time, e.frame.time) > MAX_DELAY_TO_COMBINE

(* Requests for a worker that have not come back to buffer b as            *)
(* SUBSCRIBED.                                                             *)
Outstanding(b) ==
  {<<"asked", i>> : i \in {j \in DOMAIN bufferToBroker[b] :
                             bufferToBroker[b][j].type = "NEW_FRAME"}}
  \cup {<<"pending", i>> : i \in {j \in DOMAIN pending : pending[j].buffer = b}}
  \cup (UNION {{<<"job", w, i>> : i \in {j \in DOMAIN brokerToSync[w] :
                                           /\ brokerToSync[w][j].type = "JOB"
                                           /\ brokerToSync[w][j].client = b}} : w \in SyncWorkers})
  \cup (UNION {{<<"reply", w, i>> : i \in {j \in DOMAIN syncToBroker[w] :
                                             /\ syncToBroker[w][j].type = "SUBSCRIBED"
                                             /\ syncToBroker[w][j].buffer = b}} : w \in SyncWorkers})
  \cup {<<"answer", i>> : i \in {j \in DOMAIN brokerToBuffer[b] :
                                   brokerToBuffer[b][j] = "SUBSCRIBED"}}

(* lora_rx_buffer.hpp 31: every buffer waits for as many workers as it has *)
(* requests outstanding, so its samples are held back no longer than that. *)
WaitingIsOutstanding ==
  \A b \in Buffers : m_waiting_for_worker[b] = Cardinality(Outstanding(b))

(* Workers of work id that may still report SYNC_DONE for it.              *)
Synchronizing(id) ==
  UNION {
    {<<"job", w, i>> : i \in {j \in DOMAIN brokerToSync[w] :
                                /\ brokerToSync[w][j].type = "JOB"
                                /\ brokerToSync[w][j].work_id = id}}
    \cup {<<"working", w>> : info \in {x \in m_work_info[w] :
                                         x.work_id = id /\ m_state[w] = "WORKING"}}
    \cup {<<"done", w, i>> : i \in {j \in DOMAIN syncToBroker[w] :
                                      /\ syncToBroker[w][j].type = "SYNC_DONE"
                                      /\ syncToBroker[w][j].work_id = id}}
    : w \in SyncWorkers}

(* broker.hpp 55: the counter of a work whose request has been served is   *)
(* the number of its workers that have not reported to be done, so the     *)
(* work ends with the last of them and not later.                          *)
SyncCountIsExact ==
  \A i \in DOMAIN m_work_list :
    m_work_list[i].sync_worker_cnt = Cardinality(Synchronizing(m_work_list[i].work_id))

(* worker_zmq_source 268-281 does not compare the work id of a DONE with   *)
(* its own; still no worker is stopped by the end of another work.         *)
DoneIsForThisWork ==
  [][\A w \in SyncWorkers : SyncEndOfWork(w) =>
       \A info \in m_work_info[w] : Head(brokerToSync[w]).work_id = info.work_id]_vars

(* Nothing asks for samples of channel c of RRH r and b any more, or will. *)
NoUse(b, c) ==
  /\ \A i \in DOMAIN rrhToBuffer[b] : rrhToBuffer[b][i].channel # c
  /\ \A i \in DOMAIN bufferToBroker[b] :
       bufferToBroker[b][i].type = "NEW_FRAME" => bufferToBroker[b][i].frame.channel # c
  /\ \A i \in DOMAIN pending : pending[i].buffer = b => pending[i].frame.channel # c
  /\ \A id \in WorkIds : workers_by_fc[b][c][id] = 0

(* broker.cpp 469-484, rrh_zmq_sink 109-144: an RRH that still streams a   *)
(* channel that nothing asks for has the order to stop on its way, though  *)
(* stops cross new detections, also of the frame that has just been ended. *)
(* Not so when frames are combined: the job of a frame that joins a work   *)
(* may be one for a later work, of another buffer.                         *)
StreamingHasReason ==
  \A r \in Rrhs : \A b \in m_buffer_addr[r] : \A c \in Channels :
    m_frame_list[r][c] # {} /\ NoUse(b, c) =>
      \E i \in DOMAIN brokerToRrh[r] :
        brokerToRrh[r][i].type = "STOP" /\ brokerToRrh[r][i].channel = c

-----------------------------------------------------------------------------
(* What comments of the code say and the code does not keep                *)

(* broker.cpp 376, "finish sync worker attribution initiated previously":  *)
(* when the worker is there, the work it was asked for still is.           *)
AttributionFinishes == ~undefined

(* worker_zmq_source 166, "It's supposed to be empty!!": an idle worker    *)
(* reads its messages from their first frame on.                           *)
FramingKept == \A w \in SyncWorkers : m_state[w] # "BLOCKED"

-----------------------------------------------------------------------------
(* Liveness                                                                 *)

(* A frame, or a buffer, has announced itself and is not served yet.       *)
OpenRequests == pending # <<>> \/ \E b \in Buffers : bufferToBroker[b] # <<>>

(* broker.cpp 300-382: a frame announced to the broker gets a              *)
(* synchronization worker, spawned or idle, though the request is read in  *)
(* two parts, two frames become one work and idle workers may be           *)
(* forgotten, unless it is lost in one of the two ways just said.          *)
RequestsServed == OpenRequests ~> ~OpenRequests \/ ~AttributionFinishes \/ ~FramingKept

(* Every RRH that asks for a buffer gets one.                              *)
RrhsGetBuffers ==
  (\E r \in Rrhs : requested[r]) ~> \A r \in Rrhs : requested[r] => m_buffer_addr[r] # {}
=============================================================================
