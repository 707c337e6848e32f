---------------------------- MODULE RxBufferGate ----------------------------
(***************************************************************************)
(* A lora_rx_buffer as the broker and its RRH see it: it registers, asks   *)
(* for one worker per new frame, and lets samples through only while it    *)
(* waits for no worker.  RxBuffer.tla refines it with the sample queue.    *)
(***************************************************************************)
EXTENDS Sockets

VARIABLES
  buffer_state,          \* of the buffer's thread
  m_waiting_for_worker

bufferVars == <<buffer_state, m_waiting_for_worker>>

BufferStates == {"NOT_STARTED", "REGISTERING", "RUNNING"}

BufferTypeOK ==
  /\ buffer_state \in [Buffers -> BufferStates]
  /\ m_waiting_for_worker \in [Buffers -> Int]

BufferInit ==
  /\ buffer_state = [b \in Buffers |-> "NOT_STARTED"]
  /\ m_waiting_for_worker = [b \in Buffers |-> 0]

(* The constructor up to the point where it waits for the broker's ACK.    *)
BufferStart(b) ==
  /\ buffer_state[b] = "NOT_STARTED"
  /\ buffer_state' = [buffer_state EXCEPT ![b] = "REGISTERING"]
  /\ bufferToBroker' = Send(bufferToBroker, b, BufferReady)
  /\ UNCHANGED <<m_waiting_for_worker, rrhToBroker, brokerToRrh, rrhToBuffer,
                 brokerToBuffer, syncToBroker, brokerToSync, demodToBroker>>

(* The rest of the constructor; run() starts.                              *)
BufferAcked(b) ==
  /\ buffer_state[b] = "REGISTERING"
  /\ brokerToBuffer[b] # <<>>
  /\ brokerToBuffer' = Receive(brokerToBuffer, b)
  /\ buffer_state' = [buffer_state EXCEPT ![b] = "RUNNING"]
  /\ UNCHANGED <<m_waiting_for_worker, rrhToBroker, brokerToRrh, rrhToBuffer,
                 bufferToBroker, syncToBroker, brokerToSync, demodToBroker>>

(* A header of the RRH's message announces a new frame.                    *)
BufferRequestsWorker(b) ==
  /\ buffer_state[b] = "RUNNING"
  /\ rrhToBuffer[b] # <<>>
  /\ rrhToBuffer' = Receive(rrhToBuffer, b)
  /\ bufferToBroker' = Send(bufferToBroker, b, NewFrame(Head(rrhToBuffer[b])))
  /\ m_waiting_for_worker' = [m_waiting_for_worker EXCEPT ![b] = @ + 1]
  /\ UNCHANGED <<buffer_state, rrhToBroker, brokerToRrh, brokerToBuffer,
                 syncToBroker, brokerToSync, demodToBroker>>

OneLess_Broken(n) == 0

OneLess(n) == n - 1

(* A worker listens now.                                                   *)
BufferSubscribed(b) ==
  /\ buffer_state[b] = "RUNNING"
  /\ brokerToBuffer[b] # <<>> /\ Head(brokerToBuffer[b]) = "SUBSCRIBED"
  /\ brokerToBuffer' = Receive(brokerToBuffer, b)
  /\ m_waiting_for_worker' = [m_waiting_for_worker EXCEPT ![b] = OneLess(@)]
  /\ UNCHANGED <<buffer_state, rrhToBroker, brokerToRrh, rrhToBuffer,
                 bufferToBroker, syncToBroker, brokerToSync, demodToBroker>>

BufferNext(b) ==
  BufferAcked(b) \/ BufferRequestsWorker(b) \/ BufferSubscribed(b)

(* The samples of the RRH reach the workers only through an open gate.     *)
Publishes(b) == buffer_state[b] = "RUNNING" /\ m_waiting_for_worker[b] = 0
=============================================================================
