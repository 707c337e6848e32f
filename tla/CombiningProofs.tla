-------------------------- MODULE CombiningProofs --------------------------
(***************************************************************************)
(* Of rx_combining, for any number of works, streams and symbols: streams  *)
(* are combined symbol by symbol, whatever is left of former works in the  *)
(* sockets, and frames leave it one after the other and with the length    *)
(* that their header announces.                                            *)
(***************************************************************************)
EXTENDS CombiningProperties, QueueLemmas, FiniteSetTheorems

(* What is assumed: all streams of a work come in time, a tag is at the    *)
(* beginning of its message, and there is room for all streams of a work   *)
(* (README, section 8).                                                    *)
StreamsOf(w) == {s \in SyncWorkers : <<s, w>> \in Streams}

InTime == /\ Assumed = Assumptions
          /\ \A w \in Works : /\ IsFiniteSet(StreamsOf(w))
                              /\ Cardinality(StreamsOf(w)) <= MAX_COMBINED_RRH

(* What some theorems assume of the frames besides: none ends with its     *)
(* header.  After one that does rx_combining goes on for ever.             *)
LongFrames == \A w \in Works : SymbNumb(Headers[w]) > HEADER_SYMBOLS

SymbolSet == SyncWorkers \X (Works \cup {None}) \X Nat
RrhParams == [rrh_id : SyncWorkers, rx_samples : Seq(SymbolSet)]
Messages == [tag : Works \cup {None}, samples : Seq(SymbolSet)]
FrameSet == [work : Works, streams : Seq(SyncWorkers), symbols : Seq(Seq(SymbolSet))]

Shape ==
  /\ m_rrh_params \in Seq(RrhParams) /\ m_work_id \in Works \cup {None}
  /\ m_first_rrh_time_received \in BOOLEAN /\ m_waiting \in BOOLEAN
  /\ m_decoded_header \in BOOLEAN /\ m_work_done \in BOOLEAN
  /\ m_output_symbol_count \in Nat /\ m_symb_numb \in Nat
  /\ m_input_socket \in [SyncWorkers -> Seq(Messages)]
  /\ \A s \in SyncWorkers : Len(m_input_socket[s]) <= QueueLimit
  /\ sent \in [SyncWorkers -> [work : Works \cup {None}, count : Nat]]
  /\ started \subseteq Streams /\ finished \subseteq Works
  /\ frames \in Seq(FrameSet) /\ headers \in Seq(Nat)
  /\ handled \in Nat /\ handled <= Len(headers) /\ Len(headers) <= Len(frames)

Ids(params) == {params[i].rrh_id : i \in DOMAIN params}

(* The streams being combined: of the work, each of another worker, and    *)
(* all of them there before the first symbol is output.                    *)
Gathered(params, clock, waiting, work) ==
  /\ clock <=> params # <<>>
  /\ params = <<>> \/ waiting => m_output_symbol_count = 0
  /\ \A i, j \in DOMAIN params : params[i].rrh_id = params[j].rrh_id => i = j
  /\ params # <<>> =>
       /\ work \in Works
       /\ \A s \in Ids(params) : <<s, work>> \in started
       /\ ~waiting => StreamsOf(work) \subseteq Ids(params)
  /\ Len(params) <= MAX_COMBINED_RRH

(* What is known of a frame, and when it has ended.                        *)
FrameEnded(f) ==
  f \in DOMAIN headers /\ (headers[f] = None \/ Len(frames[f].symbols) = headers[f])

(* Of the frame that is being output the header is not known, or was       *)
(* invalid, or the symbols of the frame are being counted.                 *)
HeaderAwaited(f) ==
  /\ ~m_decoded_header /\ ~m_work_done
  /\ handled = f - 1 /\ m_output_symbol_count <= HEADER_SYMBOLS

HeaderRejected(f) == ~m_decoded_header /\ m_work_done /\ handled = f /\ headers[f] = None

LengthKnown(f) ==
  /\ m_decoded_header /\ handled = f
  /\ headers[f] = m_symb_numb /\ m_symb_numb > HEADER_SYMBOLS
  /\ m_output_symbol_count >= HEADER_SYMBOLS /\ m_output_symbol_count <= m_symb_numb
  /\ m_work_done <=> m_output_symbol_count = m_symb_numb

Begins ==
  /\ handled = Len(frames) /\ ~m_work_done
  /\ m_rrh_params # <<>> => ~m_decoded_header

Underway(f) ==
  /\ f > 0 /\ frames[f].work = m_work_id
  /\ frames[f].streams = [i \in DOMAIN m_rrh_params |-> m_rrh_params[i].rrh_id]
  /\ Len(frames[f].symbols) = m_output_symbol_count
  /\ HeaderAwaited(f) \/ HeaderRejected(f) \/ LengthKnown(f)

Life == /\ m_output_symbol_count = 0 => Begins
        /\ m_output_symbol_count > 0 => Underway(Len(frames))

Decoded ==
  /\ \A f \in DOMAIN headers :
       /\ Len(frames[f].symbols) >= HEADER_SYMBOLS
       /\ headers[f] \in {None, SymbNumb(Headers[frames[f].work])}
  /\ \A f \in DOMAIN frames :
       f < Len(frames) \/ m_output_symbol_count = 0 \/ m_work_done => FrameEnded(f)

(* Works follow each other.                                                *)
Succession ==
  /\ \A x \in started : \A v \in Works : v < x[2] => v \in finished
  /\ \A w \in finished : \E f \in DOMAIN frames : frames[f].work = w /\ Complete(f)
  /\ \A f \in DOMAIN frames :
       LET w == frames[f].work IN
       /\ StreamsOf(w) # {} /\ \A s \in StreamsOf(w) : <<s, w>> \in started
       /\ \A e \in 1..(f - 1) : frames[e].work < w
       /\ m_output_symbol_count = 0 /\ m_rrh_params # <<>> => w < m_work_id

(* The tag of a stream is under way once, until its work is finished.      *)
TagExpected(s, w, params, work) ==
  /\ <<s, w>> \in started /\ w \notin finished
  /\ \A f \in DOMAIN frames : frames[f].work # w
  /\ ~(params # <<>> /\ work = w /\ s \in Ids(params))

TagsOf(s, queue, params, work) ==
  /\ \A j \in DOMAIN queue :
       queue[j].tag # None => TagExpected(s, queue[j].tag, params, work)
  /\ \A j, k \in DOMAIN queue : queue[j].tag = queue[k].tag /\ queue[j].tag # None => j = k

Tags(params, work, socket) == \A s \in SyncWorkers : TagsOf(s, socket[s], params, work)

(* What a worker has sent, message by message.                             *)
First(m) == m.samples[1]
End(m) == m.samples[Len(m.samples)]
Follows(x, m) == m.tag = None => First(m) = Symbol(x[1], x[2], x[3] + 1)

Sound(s, m) ==
  /\ Len(m.samples) >= 1
  /\ \E w \in Works \cup {None}, from \in Nat :
       /\ \A k \in DOMAIN m.samples : m.samples[k] = Symbol(s, w, from + k)
       /\ m.tag # None => w = m.tag /\ from = 0

Contiguous(s, queue, latest) ==
  /\ \A j \in DOMAIN queue : Sound(s, queue[j])
  /\ \A j \in 1..(Len(queue) - 1) : Follows(End(queue[j]), queue[j + 1])
  /\ queue # <<>> => End(queue[Len(queue)]) = latest

Latest(s) == Symbol(s, sent[s].work, sent[s].count)

Senders ==
  \A s \in SyncWorkers :
    /\ sent[s].work # None => <<s, sent[s].work>> \in started
    /\ \A w \in Works : <<s, w>> \in started => sent[s].work # None /\ w <= sent[s].work

(* The samples of a stream are in step with what is still to come.         *)
InStepWith(s, rx, work, queue) ==
  /\ m_output_symbol_count <= Len(rx)
  /\ \A n \in 1..m_output_symbol_count : rx[n] = Symbol(s, work, n)
  /\ work \notin finished =>
       /\ \A n \in DOMAIN rx : rx[n] = Symbol(s, work, n)
       /\ queue = <<>> => Symbol(s, work, Len(rx)) = Latest(s)
       /\ queue # <<>> => Follows(Symbol(s, work, Len(rx)), queue[1])

InStep(params, work, socket) ==
  \A i \in DOMAIN params :
    InStepWith(params[i].rrh_id, params[i].rx_samples, work, socket[params[i].rrh_id])

IInv ==
  /\ Shape
  /\ Gathered(m_rrh_params, m_first_rrh_time_received, m_waiting, m_work_id)
  /\ Life /\ Decoded /\ Succession
  /\ Tags(m_rrh_params, m_work_id, m_input_socket)
  /\ Senders /\ \A s \in SyncWorkers : Contiguous(s, m_input_socket[s], Latest(s))
  /\ InStep(m_rrh_params, m_work_id, m_input_socket)
  /\ StreamsInStep

-----------------------------------------------------------------------------
(* A frame has at least the eight symbols of its header.                   *)
LEMMA CeilDivNat ==
  ASSUME NEW a \in Int, NEW b \in 5..12, a + b > 0
  PROVE  CeilDiv(a, b) \in Nat
<1>1. b = 5 \/ b = 6 \/ b = 7 \/ b = 8 \/ b = 9 \/ b = 10 \/ b = 11 \/ b = 12
  OBVIOUS
<1>2. (-a) \div b <= 0 /\ (-a) \div b \in Int
  BY <1>1
<1> QED  BY <1>2 DEF CeilDiv

LEMMA FrameLength ==
  ASSUME NEW w \in Works
  PROVE  SymbNumb(Headers[w]) \in Nat /\ SymbNumb(Headers[w]) >= HEADER_SYMBOLS
<1> DEFINE h == Headers[w]
<1>1. h.pay_len \in Nat /\ h.has_crc \in {0, 1} /\ h.cr \in 1..4
  BY CombiningAssumption DEF PhyHeaders
<1>2. Sf \in 7..12 /\ Ldro \in {0, 1}
  BY CombiningAssumption
<1> HIDE DEF h
<1>3. PICK a : a = 2 * h.pay_len - Sf + 2 + 5 + 4 * h.has_crc
  OBVIOUS
<1>4. PICK b : b = Sf - 2 * Ldro
  OBVIOUS
<1>5. a \in Int /\ b \in 5..12 /\ a + b > 0
  BY <1>1, <1>2, <1>3, <1>4
<1>6. PICK q : q = CeilDiv(a, b)
  OBVIOUS
<1>7. q \in Nat
  BY <1>5, <1>6, CeilDivNat
<1>8. q * (4 + h.cr) \in Nat
  <2>1. 4 + h.cr \in Nat
    BY <1>1
  <2> QED  BY <1>7, <2>1
<1>9. SymbNumb(h) = 8 + q * (4 + h.cr)
  BY <1>3, <1>4, <1>6 DEF SymbNumb, HEADER_SYMBOLS
<1>10. SymbNumb(h) \in Nat /\ SymbNumb(h) >= 8
  BY <1>8, <1>9
<1> QED  BY <1>10 DEF HEADER_SYMBOLS, h

(* A run of symbols of a stream.                                           *)
LEMMA Run ==
  ASSUME NEW s \in SyncWorkers, NEW w \in Works \cup {None},
         NEW first \in Nat \ {0}, NEW last \in Nat, first <= last
  PROVE  /\ Symbols(s, w, first, last) \in Seq(SymbolSet)
         /\ Len(Symbols(s, w, first, last)) = (last - first) + 1
         /\ DOMAIN Symbols(s, w, first, last) = 1..((last - first) + 1)
         /\ \A k \in 1..((last - first) + 1) :
              Symbols(s, w, first, last)[k] = Symbol(s, w, (first + k) - 1)
<1> DEFINE n == (last - first) + 1
           xs == Symbols(s, w, first, last)
<1>1. n \in Nat /\ xs = [k \in 1..n |-> Symbol(s, w, (first + k) - 1)]
  BY DEF Symbols
<1>2. \A k \in 1..n : Symbol(s, w, (first + k) - 1) \in SymbolSet
  BY DEF Symbol, SymbolSet
<1> HIDE DEF xs, n
<1>3. xs \in [1..n -> SymbolSet]
  BY <1>1, <1>2
<1>4. xs \in Seq(SymbolSet) /\ Len(xs) = n
  BY <1>1, <1>3, Tabulated
<1>5. DOMAIN xs = 1..n /\ \A k \in 1..n : xs[k] = Symbol(s, w, (first + k) - 1)
  BY <1>1
<1> QED  BY <1>4, <1>5 DEF xs, n

(* The invariant holds at the beginning.                                   *)
LEMMA InitInv == Init => IInv
<1> SUFFICES ASSUME Init PROVE IInv  OBVIOUS
<1> USE CombiningAssumption DEF Init
<1>1. Shape
  <2>1. <<>> \in Seq(RrhParams) /\ <<>> \in Seq(Messages) /\ <<>> \in Seq(FrameSet) /\ <<>> \in Seq(Nat)
    OBVIOUS
  <2>2. m_input_socket \in [SyncWorkers -> Seq(Messages)]
        /\ \A s \in SyncWorkers : Len(m_input_socket[s]) <= QueueLimit
    BY <2>1
  <2>3. sent \in [SyncWorkers -> [work : Works \cup {None}, count : Nat]]
    OBVIOUS
  <2>4. Len(headers) = 0 /\ Len(frames) = 0
    OBVIOUS
  <2>5. m_rrh_params \in Seq(RrhParams) /\ frames \in Seq(FrameSet) /\ headers \in Seq(Nat)
    BY <2>1
  <2>6. /\ m_work_id \in Works \cup {None} /\ m_first_rrh_time_received \in BOOLEAN
        /\ m_waiting \in BOOLEAN /\ m_decoded_header \in BOOLEAN /\ m_work_done \in BOOLEAN
        /\ m_output_symbol_count \in Nat /\ m_symb_numb \in Nat
        /\ started \subseteq Streams /\ finished \subseteq Works
    OBVIOUS
  <2>7. handled \in Nat /\ handled <= Len(headers) /\ Len(headers) <= Len(frames)
    BY <2>4
  <2> QED  BY <2>2, <2>3, <2>5, <2>6, <2>7 DEF Shape
<1>2. Gathered(m_rrh_params, m_first_rrh_time_received, m_waiting, m_work_id)
  BY DEF Gathered
<1>3. Life /\ Decoded /\ Succession
  BY DEF Life, Begins, Decoded, Succession
<1>4. Tags(m_rrh_params, m_work_id, m_input_socket)
  BY DEF Tags, TagsOf
<1>5. Senders
  BY DEF Senders, None
<1>6. \A s \in SyncWorkers : Contiguous(s, m_input_socket[s], Latest(s))
  BY DEF Contiguous
<1>7. InStep(m_rrh_params, m_work_id, m_input_socket) /\ StreamsInStep
  BY DEF InStep, StreamsInStep
<1> QED  BY <1>1, <1>2, <1>3, <1>4, <1>5, <1>6, <1>7 DEF IInv

-----------------------------------------------------------------------------
(* A message of such a run is sound.                                       *)
LEMMA SoundRun ==
  ASSUME NEW s \in SyncWorkers, NEW w \in Works \cup {None},
         NEW first \in Nat \ {0}, NEW last \in Nat, first <= last,
         NEW tag \in Works \cup {None}, tag # None => w = tag /\ first = 1,
         NEW m, m = Message(tag, Symbols(s, w, first, last))
  PROVE  /\ m \in Messages /\ m.tag = tag /\ Sound(s, m)
         /\ First(m) = Symbol(s, w, first) /\ End(m) = Symbol(s, w, last)
<1> DEFINE xs == Symbols(s, w, first, last)
           n == (last - first) + 1
<1>1. /\ xs \in Seq(SymbolSet) /\ Len(xs) = n /\ DOMAIN xs = 1..n
      /\ \A k \in 1..n : xs[k] = Symbol(s, w, (first + k) - 1)
  BY Run
<1>2. m = [tag |-> tag, samples |-> xs]
  BY DEF Message
<1>3. n \in Nat /\ n >= 1 /\ (first + 1) - 1 = first /\ (first + n) - 1 = last
  OBVIOUS
<1>4. first - 1 \in Nat /\ \A k \in 1..n : (first - 1) + k = (first + k) - 1
  BY <1>3
<1> HIDE DEF xs, n
<1>5. m \in Messages /\ m.tag = tag /\ m.samples = xs
  BY <1>1, <1>2 DEF Messages
<1>6. First(m) = Symbol(s, w, first) /\ End(m) = Symbol(s, w, last)
  <2>1. 1 \in 1..n /\ n \in 1..n
    BY <1>3
  <2>2. xs[1] = Symbol(s, w, (first + 1) - 1) /\ xs[n] = Symbol(s, w, (first + n) - 1)
    BY <1>1, <2>1
  <2> QED  BY <1>1, <1>3, <1>5, <2>2 DEF First, End
<1>7. Sound(s, m)
  <2>1. Len(m.samples) >= 1
    BY <1>1, <1>3, <1>5
  <2>2. \A k \in DOMAIN m.samples : m.samples[k] = Symbol(s, w, (first - 1) + k)
    BY <1>1, <1>4, <1>5
  <2> QED  BY <1>4, <1>5, <2>1, <2>2 DEF Sound
<1> QED  BY <1>5, <1>6, <1>7

(* A queue that one more message continues.                                *)
LEMMA ContiguousAppend ==
  ASSUME NEW s, NEW q \in Seq(Messages), NEW m \in Messages, NEW x,
         Contiguous(s, q, x), Sound(s, m), Follows(x, m)
  PROVE  Contiguous(s, Append(q, m), End(m))
<1> DEFINE a == Append(q, m)
<1>1. /\ a # <<>> /\ Len(a) = Len(q) + 1 /\ Len(q) \in Nat
      /\ \A j \in DOMAIN q : a[j] = q[j]
      /\ a[Len(q) + 1] = m /\ DOMAIN a = DOMAIN q \cup {Len(q) + 1} /\ DOMAIN q = 1..Len(q)
  BY Appended
<1> HIDE DEF a
<1>2. \A j \in DOMAIN a : Sound(s, a[j])
  BY <1>1 DEF Contiguous
<1>3. ASSUME NEW j \in 1..Len(q) PROVE Follows(End(a[j]), a[j + 1])
  <2>1. CASE j < Len(q)
    <3>1. j \in 1..(Len(q) - 1) /\ j \in DOMAIN q /\ j + 1 \in DOMAIN q
      BY <1>1, <2>1
    <3>2. Follows(End(q[j]), q[j + 1])
      BY <3>1 DEF Contiguous
    <3>3. a[j] = q[j] /\ a[j + 1] = q[j + 1]
      BY <1>1, <3>1
    <3> QED  BY <3>2, <3>3
  <2>2. CASE j = Len(q)
    <3>1. q # <<>> /\ End(q[j]) = x
      BY <1>1, <2>2 DEF Contiguous
    <3> QED  BY <1>1, <2>2, <3>1
  <2>3. j < Len(q) \/ j = Len(q)
    <3>1. j \in Nat /\ j <= Len(q) /\ Len(q) \in Nat
      BY <1>1, <1>3
    <3> QED  BY <3>1
  <2> QED  BY <2>1, <2>2, <2>3
<1>4. \A j \in 1..(Len(a) - 1) : Follows(End(a[j]), a[j + 1])
  BY <1>1, <1>3
<1>5. End(a[Len(a)]) = End(m)
  BY <1>1
<1>6. Contiguous(s, a, End(m))
  BY <1>2, <1>4, <1>5 DEF Contiguous
<1> QED  BY <1>6 DEF a

(* What is left of a queue when its first message is taken, and what comes *)
(* after that message.                                                     *)
LEMMA ContiguousTail ==
  ASSUME NEW s, NEW q \in Seq(Messages), NEW x, Contiguous(s, q, x), q # <<>>
  PROVE  /\ Contiguous(s, Tail(q), x) /\ Sound(s, q[1])
         /\ Tail(q) = <<>> => End(q[1]) = x
         /\ Tail(q) # <<>> => Follows(End(q[1]), Tail(q)[1])
<1> DEFINE t == Tail(q)
<1>1. /\ t \in Seq(Messages) /\ Len(t) = Len(q) - 1 /\ 1 \in DOMAIN q
      /\ \A i \in DOMAIN t : i \in Nat /\ i + 1 \in DOMAIN q /\ t[i] = q[i + 1]
      /\ Len(q) \in Nat /\ Len(q) >= 1 /\ (t = <<>> <=> Len(q) = 1)
  BY Shifted
<1>2. DOMAIN t = 1..(Len(q) - 1) /\ DOMAIN q = 1..Len(q)
  BY <1>1
<1> HIDE DEF t
<1>3. \A j \in DOMAIN t : Sound(s, t[j])
  BY <1>1 DEF Contiguous
<1>4. \A j \in 1..(Len(t) - 1) : Follows(End(t[j]), t[j + 1])
  <2> SUFFICES ASSUME NEW j \in 1..(Len(t) - 1) PROVE Follows(End(t[j]), t[j + 1])
    OBVIOUS
  <2>1. j + 1 \in 1..(Len(q) - 1) /\ j \in DOMAIN t /\ j + 1 \in DOMAIN t
    BY <1>1, <1>2
  <2>2. t[j] = q[j + 1] /\ t[j + 1] = q[(j + 1) + 1]
    BY <1>1, <2>1
  <2> QED  BY <2>1, <2>2 DEF Contiguous
<1>5. t # <<>> => Len(t) \in DOMAIN t /\ t[Len(t)] = q[Len(q)]
  BY <1>1, <1>2
<1>6. t # <<>> => t[1] = q[1 + 1] /\ 1 \in 1..(Len(q) - 1)
  BY <1>1, <1>2
<1>7. Contiguous(s, t, x)
  BY <1>1, <1>3, <1>4, <1>5 DEF Contiguous
<1>8. t = <<>> => End(q[1]) = x
  BY <1>1 DEF Contiguous
<1>9. t # <<>> => Follows(End(q[1]), t[1])
  BY <1>1, <1>6 DEF Contiguous
<1> QED  BY <1>1, <1>7, <1>8, <1>9 DEF t, Contiguous

(* The worker of a stream that is combined and whose work is not finished  *)
(* sends nothing else.                                                     *)
LEMMA StillSends ==
  ASSUME IInv, NEW s \in SyncWorkers, NEW w \in Works, <<s, w>> \in started, w \notin finished
  PROVE  sent[s].work = w /\ \A v \in Works : <<s, v>> \in started => v <= w
<1>1. sent[s].work # None /\ w <= sent[s].work /\ <<s, sent[s].work>> \in started
  BY DEF IInv, Senders
<1>2. sent[s].work \in Works
  BY <1>1 DEF IInv, Shape
<1>3. \A v \in Works : <<s, v>> \in started => ~(w < v)
  <2>1. \A x \in started : \A v \in Works : v < x[2] => v \in finished
    BY DEF IInv, Succession
  <2> QED  BY <2>1
<1>4. Works \subseteq Nat
  BY CombiningAssumption
<1>5. sent[s].work = w
  <2>1. sent[s].work \in Nat /\ w \in Nat /\ ~(w < sent[s].work)
    BY <1>1, <1>2, <1>3, <1>4
  <2> QED  BY <1>1, <2>1
<1>6. ASSUME NEW v \in Works, <<s, v>> \in started PROVE v <= w
  <2>1. v \in Nat /\ w \in Nat /\ ~(w < v)
    BY <1>3, <1>4, <1>6
  <2> QED  BY <2>1
<1> QED  BY <1>5, <1>6

-----------------------------------------------------------------------------
(* What senders do: the parts of the invariant that look at neither their  *)
(* streams nor their sockets stay as they are.                             *)
LEMMA SendersLeave ==
  ASSUME IInv, UNCHANGED <<combVars, chainVars, handled, frames>>, started \subseteq started'
  PROVE  /\ Life' /\ Decoded' /\ StreamsInStep'
         /\ Gathered(m_rrh_params, m_first_rrh_time_received, m_waiting, m_work_id)'
<1> USE DEF IInv, combVars, chainVars
<1>1. Life'
  BY DEF Life, Begins, Underway, HeaderAwaited, HeaderRejected, LengthKnown
<1>2. Decoded'
  BY DEF Decoded, FrameEnded
<1>3. StreamsInStep'
  BY DEF StreamsInStep
<1>4. Gathered(m_rrh_params, m_first_rrh_time_received, m_waiting, m_work_id)'
  BY DEF Gathered, Ids
<1> QED  BY <1>1, <1>2, <1>3, <1>4

(* A message goes behind what its worker has sent before.                  *)
LEMMA DeliverShape ==
  ASSUME Shape, NEW s \in SyncWorkers, NEW m \in Messages, Deliver(s, m)
  PROVE  /\ m_input_socket' \in [SyncWorkers -> Seq(Messages)]
         /\ \A x \in SyncWorkers : Len(m_input_socket'[x]) <= QueueLimit
         /\ \A x \in SyncWorkers \ {s} : m_input_socket'[x] = m_input_socket[x]
         /\ m_input_socket'[s] = Append(m_input_socket[s], m)
<1>1. /\ m_input_socket \in [SyncWorkers -> Seq(Messages)] /\ QueueLimit \in Nat
      /\ \A x \in SyncWorkers : Len(m_input_socket[x]) <= QueueLimit
  BY CombiningAssumption DEF Shape
<1>2. /\ m_input_socket' = [m_input_socket EXCEPT ![s] = Append(@, m)]
      /\ Len(m_input_socket[s]) < QueueLimit
  BY DEF Deliver
<1>3. /\ Append(m_input_socket[s], m) \in Seq(Messages)
      /\ Len(Append(m_input_socket[s], m)) = Len(m_input_socket[s]) + 1
      /\ Len(m_input_socket[s]) \in Nat
  BY <1>1, Appended
<1>4. /\ \A x \in SyncWorkers \ {s} : m_input_socket'[x] = m_input_socket[x]
      /\ m_input_socket'[s] = Append(m_input_socket[s], m)
  BY <1>1, <1>2
<1>5. Len(m_input_socket'[s]) <= QueueLimit
  BY <1>1, <1>2, <1>3, <1>4
<1> QED  BY <1>1, <1>2, <1>3, <1>4, <1>5

(* A worker continues its stream.                                          *)
LEMMA ContinueStreamKeeps ==
  ASSUME IInv, NEW s \in SyncWorkers, ContinueStream(s)
  PROVE  IInv'
<1> DEFINE w == sent[s].work
           c == sent[s].count
           q == m_input_socket[s]
<1>0. /\ Shape /\ Senders /\ Succession
      /\ Gathered(m_rrh_params, m_first_rrh_time_received, m_waiting, m_work_id)
      /\ Tags(m_rrh_params, m_work_id, m_input_socket)
      /\ \A x \in SyncWorkers : Contiguous(x, m_input_socket[x], Latest(x))
      /\ InStep(m_rrh_params, m_work_id, m_input_socket)
  BY DEF IInv
<1>1. PICK n \in Chunks :
        /\ Deliver(s, Message(None, Symbols(s, w, c + 1, c + n)))
        /\ sent' = [sent EXCEPT ![s].count = @ + n]
  BY DEF ContinueStream
<1> DEFINE m == Message(None, Symbols(s, w, c + 1, c + n))
<1>2. w # None /\ UNCHANGED <<combVars, chainVars, handled, frames, started>>
  BY DEF ContinueStream
<1>3. /\ n \in Nat \ {0} /\ w \in Works \cup {None} /\ c \in Nat
      /\ sent \in [SyncWorkers -> [work : Works \cup {None}, count : Nat]] /\ q \in Seq(Messages)
  BY <1>0, CombiningAssumption DEF Shape
<1>4. /\ m \in Messages /\ m.tag = None /\ Sound(s, m)
      /\ First(m) = Symbol(s, w, c + 1) /\ End(m) = Symbol(s, w, c + n)
  <2> DEFINE none == None
  <2>1. none \in Works \cup {None} /\ (none # None => w = none /\ c = 0)
    OBVIOUS
  <2> DEFINE first == c + 1
             last == c + n
  <2>2. /\ m = Message(none, Symbols(s, w, first, last)) /\ first = c + 1 /\ last = c + n
        /\ first \in Nat \ {0} /\ last \in Nat /\ first <= last
    BY <1>3
  <2> HIDE DEF w, c, none, m, first, last
  <2>3. /\ m \in Messages /\ m.tag = none /\ Sound(s, m)
        /\ First(m) = Symbol(s, w, c + 1) /\ End(m) = Symbol(s, w, c + n)
    BY <1>3, <2>1, <2>2, SoundRun
  <2> QED  BY <2>3 DEF none
<1>5. /\ m_input_socket' \in [SyncWorkers -> Seq(Messages)]
      /\ \A x \in SyncWorkers : Len(m_input_socket'[x]) <= QueueLimit
      /\ \A x \in SyncWorkers \ {s} : m_input_socket'[x] = m_input_socket[x]
      /\ m_input_socket'[s] = Append(q, m)
  BY <1>0, <1>1, <1>4, DeliverShape
<1> HIDE DEF m
<1>6. /\ sent'[s].work = w /\ sent'[s].count = c + n
      /\ sent' \in [SyncWorkers -> [work : Works \cup {None}, count : Nat]]
      /\ \A x \in SyncWorkers : sent'[x].work = sent[x].work
      /\ \A x \in SyncWorkers \ {s} : sent'[x] = sent[x]
  BY <1>1, <1>3
<1>7. /\ Append(q, m) # <<>> /\ Len(Append(q, m)) = Len(q) + 1 /\ Len(q) \in Nat
      /\ \A j \in DOMAIN q : Append(q, m)[j] = q[j]
      /\ Append(q, m)[Len(q) + 1] = m /\ DOMAIN Append(q, m) = DOMAIN q \cup {Len(q) + 1}
  BY <1>3, <1>4, Appended
<1>8. /\ Life' /\ Decoded' /\ StreamsInStep'
      /\ Gathered(m_rrh_params, m_first_rrh_time_received, m_waiting, m_work_id)'
  BY <1>2, SendersLeave
<1>9. Shape'
  BY <1>0, <1>2, <1>5, <1>6 DEF Shape, combVars, chainVars
<1>10. Succession'
  BY <1>0, <1>2 DEF Succession, combVars, chainVars, Complete
<1>11. Tags(m_rrh_params, m_work_id, m_input_socket)'
  <2>1. TagsOf(s, q, m_rrh_params, m_work_id)
    BY <1>0 DEF Tags
  <2>2. TagsOf(s, Append(q, m), m_rrh_params, m_work_id)
    BY <1>4, <1>7, <2>1 DEF TagsOf
  <2>3. \A x \in SyncWorkers : TagsOf(x, m_input_socket'[x], m_rrh_params, m_work_id)
    BY <1>0, <1>5, <2>2 DEF Tags
  <2> QED  BY <1>2, <2>3 DEF Tags, TagsOf, TagExpected, combVars, chainVars, Ids
<1>12. Senders'
  BY <1>0, <1>2, <1>6 DEF Senders
<1>13. \A x \in SyncWorkers : Contiguous(x, m_input_socket[x], Latest(x))'
  <2>1. Contiguous(s, Append(q, m), End(m))
    <3>1. Contiguous(s, q, Latest(s)) /\ Follows(Latest(s), m)
      BY <1>0, <1>4 DEF Follows, Latest, Symbol
    <3> QED  BY <1>3, <1>4, <3>1, ContiguousAppend
  <2>2. \A x \in SyncWorkers \ {s} : Contiguous(x, m_input_socket'[x], Latest(x)')
    BY <1>0, <1>5, <1>6 DEF Latest
  <2>3. End(m) = Latest(s)'
    BY <1>4, <1>6 DEF Latest
  <2>4. \A x \in SyncWorkers : Contiguous(x, m_input_socket'[x], Latest(x)')
    BY <1>5, <2>1, <2>2, <2>3
  <2> QED  BY <2>4
<1>14. InStep(m_rrh_params, m_work_id, m_input_socket)'
  <2> SUFFICES ASSUME NEW i \in DOMAIN m_rrh_params
               PROVE  InStepWith(m_rrh_params[i].rrh_id, m_rrh_params[i].rx_samples, m_work_id,
                                 m_input_socket[m_rrh_params[i].rrh_id])'
    BY <1>2 DEF InStep, combVars
  <2> DEFINE x == m_rrh_params[i].rrh_id
             rx == m_rrh_params[i].rx_samples
  <2>1. InStepWith(x, rx, m_work_id, m_input_socket[x])
    BY <1>0 DEF InStep
  <2>2. m_rrh_params[i] \in RrhParams
    BY <1>0, Element DEF Shape
  <2>3. x \in SyncWorkers
    BY <2>2 DEF RrhParams
  <2>4. CASE x # s
    BY <1>2, <1>5, <1>6, <2>1, <2>3, <2>4 DEF InStepWith, combVars, chainVars, Latest, Follows, First
  <2>5. CASE x = s
    <3>1. m_input_socket'[s] # <<>>
      BY <1>5, <1>7
    <3>2. m_work_id \notin finished =>
            Follows(Symbol(s, m_work_id, Len(rx)), m_input_socket'[s][1])
      <4>1. CASE q # <<>>
        <5>1. m_input_socket'[s][1] = q[1]
          BY <1>3, <1>5, <1>7, <4>1
        <5> QED  BY <2>1, <2>5, <4>1, <5>1 DEF InStepWith
      <4>2. CASE q = <<>>
        <5>1. m_input_socket'[s][1] = m
          BY <1>5, <1>7, <4>2
        <5>2. m_work_id \notin finished => Symbol(s, m_work_id, Len(rx)) = Latest(s)
          BY <2>1, <2>5, <4>2 DEF InStepWith
        <5>3. Follows(Latest(s), m)
          BY <1>4 DEF Follows, Latest, Symbol
        <5> QED  BY <5>1, <5>2, <5>3
      <4> QED  BY <4>1, <4>2
    <3> QED
      BY <1>2, <2>1, <2>5, <3>1, <3>2 DEF InStepWith, combVars, chainVars, Follows, First
  <2> QED  BY <2>4, <2>5
<1> QED  BY <1>8, <1>9, <1>10, <1>11, <1>12, <1>13, <1>14 DEF IInv
(* The frames are records, and there is a last one if a symbol is output.  *)
LEMMA FrameTyped ==
  ASSUME Shape, NEW f \in DOMAIN frames
  PROVE  /\ frames[f] \in FrameSet /\ frames[f].work \in Works
         /\ frames[f].symbols \in Seq(Seq(SymbolSet)) /\ frames[f].streams \in Seq(SyncWorkers)
<1>1. frames \in Seq(FrameSet)
  BY DEF Shape
<1>2. frames[f] \in FrameSet
  BY <1>1, Element
<1> QED  BY <1>2 DEF FrameSet

(* Frames, headers and handled headers are numbered alike, and the last    *)
(* frame is under way when symbols of it have been output.                 *)
LEMMA FrameNumbers ==
  ASSUME Shape, Life
  PROVE  /\ Len(frames) \in Nat /\ Len(headers) \in Nat /\ Len(headers) <= Len(frames)
         /\ handled \in Nat /\ handled <= Len(headers) /\ m_output_symbol_count \in Nat
         /\ DOMAIN frames = 1..Len(frames) /\ DOMAIN headers = 1..Len(headers)
         /\ m_output_symbol_count = 0 => Begins
         /\ m_output_symbol_count # 0 =>
              Underway(Len(frames)) /\ m_output_symbol_count > 0 /\ Len(frames) \in DOMAIN frames
<1>1. /\ Len(frames) \in Nat /\ Len(headers) \in Nat /\ Len(headers) <= Len(frames)
      /\ handled \in Nat /\ handled <= Len(headers) /\ m_output_symbol_count \in Nat
      /\ DOMAIN frames = 1..Len(frames) /\ DOMAIN headers = 1..Len(headers)
  BY DEF Shape
<1>2. m_output_symbol_count # 0 => m_output_symbol_count > 0
  BY <1>1
<1>3. Underway(Len(frames)) => Len(frames) \in DOMAIN frames
  BY <1>1 DEF Underway
<1> QED  BY <1>1, <1>2, <1>3 DEF Life

(* Of two works a stream of which was started, the lesser is finished.     *)
LEMMA LesserFinished ==
  ASSUME Succession, Shape, NEW s, NEW w \in Works, NEW x, NEW v \in Works,
         <<s, w>> \in started, <<x, v>> \in started, v \notin finished
  PROVE  w # v => w < v /\ w \in finished
<1>1. \A y \in started : \A u \in Works : u < y[2] => u \in finished
  BY DEF Succession
<1>2. w \in Nat /\ v \in Nat
  BY CombiningAssumption
<1>3. ~(v < w)
  BY <1>1
<1>4. w < v => w \in finished
  BY <1>1
<1> QED  BY <1>2, <1>3, <1>4

(* A worker starts a stream.                                               *)
LEMMA StartStreamKeeps ==
  ASSUME InTime, IInv, NEW s \in SyncWorkers, NEW w \in Works, StartStream(s, w)
  PROVE  IInv'
<1> DEFINE q == m_input_socket[s]
<1>0. /\ Shape /\ Senders /\ Succession
      /\ Gathered(m_rrh_params, m_first_rrh_time_received, m_waiting, m_work_id)
      /\ Tags(m_rrh_params, m_work_id, m_input_socket)
      /\ \A x \in SyncWorkers : Contiguous(x, m_input_socket[x], Latest(x))
      /\ InStep(m_rrh_params, m_work_id, m_input_socket)
  BY DEF IInv
<1>1. PICK n \in Chunks, tail \in Tails(s) :
        /\ Deliver(s, Message(w, tail \o Symbols(s, w, 1, n)))
        /\ sent' = [sent EXCEPT ![s] = [work |-> w, count |-> n]]
  BY DEF StartStream
<1>2. /\ UNCHANGED <<combVars, chainVars, handled, frames>>
      /\ started' = started \cup {<<s, w>>} /\ <<s, w>> \in Streams
      /\ \A v \in Works : <<s, v>> \in started => v < w
      /\ \A v \in Works : v < w => v \in finished
  BY DEF StartStream
<1>3. /\ n \in Nat \ {0} /\ w \in Nat /\ w # None /\ Works \subseteq Nat
      /\ sent \in [SyncWorkers -> [work : Works \cup {None}, count : Nat]] /\ q \in Seq(Messages)
  BY <1>0, CombiningAssumption DEF Shape, None
<1> DEFINE m == Message(w, Symbols(s, w, 1, n))
<1>4. Deliver(s, m)
  <2>1. tail = <<>>
    BY DEF Tails, InTime, Assumptions
  <2>2. Symbols(s, w, 1, n) \in Seq(SymbolSet)
    BY <1>3, Run
  <2>3. tail \o Symbols(s, w, 1, n) = Symbols(s, w, 1, n)
    BY <2>1, <2>2, ConcatEmptySeq
  <2> QED  BY <1>1, <2>3
<1>5. /\ m \in Messages /\ m.tag = w /\ Sound(s, m)
      /\ First(m) = Symbol(s, w, 1) /\ End(m) = Symbol(s, w, n)
  <2>1. 1 \in Nat \ {0} /\ n \in Nat /\ 1 <= n /\ m = Message(w, Symbols(s, w, 1, n))
    BY <1>3
  <2> HIDE DEF m
  <2> QED  BY <2>1, SoundRun
<1>6. /\ m_input_socket' \in [SyncWorkers -> Seq(Messages)]
      /\ \A x \in SyncWorkers : Len(m_input_socket'[x]) <= QueueLimit
      /\ \A x \in SyncWorkers \ {s} : m_input_socket'[x] = m_input_socket[x]
      /\ m_input_socket'[s] = Append(q, m)
  BY <1>0, <1>4, <1>5, DeliverShape
<1> HIDE DEF m
<1>7. /\ sent'[s].work = w /\ sent'[s].count = n
      /\ sent' \in [SyncWorkers -> [work : Works \cup {None}, count : Nat]]
      /\ \A x \in SyncWorkers \ {s} : sent'[x] = sent[x]
  BY <1>1, <1>3
<1>8. /\ Append(q, m) # <<>> /\ Len(Append(q, m)) = Len(q) + 1 /\ Len(q) \in Nat
      /\ \A j \in DOMAIN q : Append(q, m)[j] = q[j]
      /\ Append(q, m)[Len(q) + 1] = m /\ DOMAIN Append(q, m) = DOMAIN q \cup {Len(q) + 1}
  BY <1>3, <1>5, Appended
<1>9. <<s, w>> \notin started
  BY <1>2, <1>3
<1>10. \A f \in DOMAIN frames : frames[f].work # w
  <2>1. \A f \in DOMAIN frames :
          \A x \in StreamsOf(frames[f].work) : <<x, frames[f].work>> \in started
    BY <1>0 DEF Succession
  <2>2. s \in StreamsOf(w)
    BY <1>2 DEF StreamsOf
  <2> QED  BY <1>9, <2>1, <2>2
<1>11. w \notin finished
  <2>1. \A v \in finished : \E f \in DOMAIN frames : frames[f].work = v
    BY <1>0 DEF Succession
  <2> QED  BY <1>10, <2>1
<1>12. ~(m_rrh_params # <<>> /\ m_work_id = w /\ s \in Ids(m_rrh_params))
  BY <1>0, <1>9 DEF Gathered
<1>13. /\ Life' /\ Decoded' /\ StreamsInStep'
       /\ Gathered(m_rrh_params, m_first_rrh_time_received, m_waiting, m_work_id)'
  BY <1>2, SendersLeave
<1>14. Shape'
  BY <1>0, <1>2, <1>6, <1>7 DEF Shape, combVars, chainVars
<1>15. Succession'
  <2>1. \A x \in started' : \A v \in Works : v < x[2] => v \in finished
    BY <1>0, <1>2 DEF Succession
  <2> QED  BY <1>0, <1>2, <2>1 DEF Succession, combVars, chainVars, Complete
<1>16. Tags(m_rrh_params, m_work_id, m_input_socket)'
  <2>1. \A x \in SyncWorkers : TagsOf(x, m_input_socket[x], m_rrh_params, m_work_id)
    BY <1>0 DEF Tags
  <2>2. \A x, v : TagExpected(x, v, m_rrh_params, m_work_id)
                    => TagExpected(x, v, m_rrh_params, m_work_id)'
    BY <1>2 DEF TagExpected, combVars, chainVars, Ids
  <2>3. TagExpected(s, w, m_rrh_params, m_work_id)'
    BY <1>2, <1>10, <1>11, <1>12 DEF TagExpected, combVars, chainVars, Ids
  <2>4. \A j \in DOMAIN q : q[j].tag # w
    BY <1>3, <1>9, <2>1 DEF TagsOf, TagExpected
  <2>5. ASSUME NEW j \in DOMAIN Append(q, m), NEW t, t = Append(q, m)[j].tag, t # None
        PROVE  TagExpected(s, t, m_rrh_params, m_work_id)'
    <3>1. CASE j \in DOMAIN q
      BY <1>8, <2>1, <2>2, <2>5, <3>1 DEF TagsOf
    <3>2. CASE j = Len(q) + 1
      BY <1>5, <1>8, <2>3, <2>5, <3>2
    <3> QED  BY <1>8, <3>1, <3>2
  <2>6. ASSUME NEW j \in DOMAIN Append(q, m), NEW k \in DOMAIN Append(q, m),
               Append(q, m)[j].tag = Append(q, m)[k].tag, Append(q, m)[j].tag # None
        PROVE  j = k
    BY <1>5, <1>8, <2>1, <2>4, <2>6 DEF TagsOf
  <2>7. TagsOf(s, m_input_socket[s], m_rrh_params, m_work_id)'
    BY <1>6, <2>5, <2>6 DEF TagsOf
  <2>8. ASSUME NEW x \in SyncWorkers \ {s}
        PROVE  TagsOf(x, m_input_socket[x], m_rrh_params, m_work_id)'
    BY <1>6, <2>1, <2>2 DEF TagsOf
  <2> QED  BY <2>7, <2>8 DEF Tags
<1>17. Senders'
  BY <1>0, <1>2, <1>3, <1>7 DEF Senders
<1>18. \A x \in SyncWorkers : Contiguous(x, m_input_socket[x], Latest(x))'
  <2>1. Contiguous(s, Append(q, m), End(m))
    BY <1>0, <1>3, <1>5, ContiguousAppend DEF Follows
  <2>2. \A x \in SyncWorkers \ {s} : Contiguous(x, m_input_socket'[x], Latest(x)')
    BY <1>0, <1>6, <1>7 DEF Latest
  <2>3. End(m) = Latest(s)'
    BY <1>5, <1>7 DEF Latest
  <2>4. \A x \in SyncWorkers : Contiguous(x, m_input_socket'[x], Latest(x)')
    BY <1>6, <2>1, <2>2, <2>3
  <2> QED  BY <2>4
<1>19. InStep(m_rrh_params, m_work_id, m_input_socket)'
  <2> SUFFICES ASSUME NEW i \in DOMAIN m_rrh_params
               PROVE  InStepWith(m_rrh_params[i].rrh_id, m_rrh_params[i].rx_samples, m_work_id,
                                 m_input_socket[m_rrh_params[i].rrh_id])'
    BY <1>2 DEF InStep, combVars
  <2> DEFINE x == m_rrh_params[i].rrh_id
             rx == m_rrh_params[i].rx_samples
  <2>1. InStepWith(x, rx, m_work_id, m_input_socket[x])
    BY <1>0 DEF InStep
  <2>2. m_rrh_params[i] \in RrhParams
    BY <1>0, Element DEF Shape
  <2>3. x \in SyncWorkers
    BY <2>2 DEF RrhParams
  <2>4. CASE x # s
    BY <1>2, <1>6, <1>7, <2>1, <2>3, <2>4 DEF InStepWith, combVars, chainVars, Latest, Follows, First
  <2>5. CASE x = s
    <3>1. m_work_id \in finished
      <4>1. m_rrh_params # <<>> /\ x \in Ids(m_rrh_params)
        BY DEF Ids
      <4>2. m_work_id \in Works /\ <<s, m_work_id>> \in started
        BY <1>0, <2>5, <4>1 DEF Gathered
      <4> QED  BY <1>2, <4>2
    <3> QED  BY <1>2, <2>1, <3>1 DEF InStepWith, combVars, chainVars
  <2> QED  BY <2>4, <2>5
<1> QED  BY <1>13, <1>14, <1>15, <1>16, <1>17, <1>18, <1>19 DEF IInv

-----------------------------------------------------------------------------
(* What the decoding chain and the handler do: of the parts of the         *)
(* invariant only those change that look at what is known of the frames.   *)
LEMMA ChainLeaves ==
  ASSUME IInv,
         UNCHANGED <<m_rrh_params, m_work_id, m_first_rrh_time_received, m_waiting,
                     m_output_symbol_count, senderVars, frames>>,
         finished \subseteq finished'
  PROVE  /\ Gathered(m_rrh_params, m_first_rrh_time_received, m_waiting, m_work_id)'
         /\ Senders' /\ \A s \in SyncWorkers : Contiguous(s, m_input_socket[s], Latest(s))'
         /\ InStep(m_rrh_params, m_work_id, m_input_socket)'
         /\ StreamsInStep'
<1>0. /\ Senders /\ StreamsInStep
      /\ Gathered(m_rrh_params, m_first_rrh_time_received, m_waiting, m_work_id)
      /\ \A s \in SyncWorkers : Contiguous(s, m_input_socket[s], Latest(s))
      /\ InStep(m_rrh_params, m_work_id, m_input_socket)
  BY DEF IInv
<1>1. Gathered(m_rrh_params, m_first_rrh_time_received, m_waiting, m_work_id)'
  BY <1>0 DEF Gathered, Ids, senderVars
<1>2. Senders' /\ StreamsInStep'
  BY <1>0 DEF Senders, StreamsInStep, senderVars
<1>3. \A s \in SyncWorkers : Contiguous(s, m_input_socket[s], Latest(s))'
  <2>1. m_input_socket' = m_input_socket /\ sent' = sent
    BY DEF senderVars
  <2>2. \A s \in SyncWorkers : Contiguous(s, m_input_socket'[s], Latest(s)')
    BY <1>0, <2>1 DEF Latest
  <2> QED  BY <2>2
<1>4. InStep(m_rrh_params, m_work_id, m_input_socket)'
  <2> SUFFICES ASSUME NEW i \in DOMAIN m_rrh_params
               PROVE  InStepWith(m_rrh_params[i].rrh_id, m_rrh_params[i].rx_samples, m_work_id,
                                 m_input_socket[m_rrh_params[i].rrh_id])'
    BY DEF InStep
  <2> DEFINE x == m_rrh_params[i].rrh_id
             rx == m_rrh_params[i].rx_samples
  <2>1. InStepWith(x, rx, m_work_id, m_input_socket[x])
    BY <1>0 DEF InStep
  <2> QED  BY <2>1 DEF InStepWith, senderVars, Latest, Follows, First
<1> QED  BY <1>1, <1>2, <1>3, <1>4

(* header_decoder tells of a frame.                                        *)
LEMMA DecodeHeaderKeeps == ASSUME IInv, DecodeHeader PROVE IInv'
<1> DEFINE f == Len(headers) + 1
           last == Len(frames)
<1>0. /\ Shape /\ Life /\ Decoded /\ Succession
      /\ Tags(m_rrh_params, m_work_id, m_input_socket)
  BY DEF IInv
<1>1. /\ f \in DOMAIN frames /\ Len(frames[f].symbols) >= HEADER_SYMBOLS
      /\ UNCHANGED <<combVars, senderVars, handled, frames, finished>>
  BY DEF DecodeHeader, Undecoded
<1>2. PICK result \in {None, SymbNumb(Headers[frames[f].work])} :
        headers' = Append(headers, result)
  BY DEF DecodeHeader, Undecoded
<1>3. frames[f].work \in Works
  BY <1>0, <1>1, FrameTyped
<1>4. result \in Nat
  BY <1>3, FrameLength DEF None
<1>5. /\ headers \in Seq(Nat) /\ Len(headers) \in Nat /\ headers' \in Seq(Nat)
      /\ Len(headers') = Len(headers) + 1 /\ headers'[f] = result
      /\ \A g \in DOMAIN headers : headers'[g] = headers[g]
      /\ DOMAIN headers' = DOMAIN headers \cup {f}
  BY <1>0, <1>2, <1>4, Appended DEF Shape
<1>6. /\ last \in Nat /\ handled \in Nat /\ handled <= Len(headers) /\ DOMAIN frames = 1..last
      /\ m_output_symbol_count = 0 => Begins
      /\ m_output_symbol_count # 0 => Underway(last) /\ m_output_symbol_count > 0
  BY <1>0, FrameNumbers
<1>7. f <= last /\ handled < last
  BY <1>1, <1>5, <1>6
<1>8. Underway(last) /\ HeaderAwaited(last) /\ m_output_symbol_count > 0
  <2>0. last \in Nat /\ handled \in Nat /\ handled < last
    BY <1>6, <1>7
  <2> HIDE DEF last
  <2>1. handled # last
    BY <2>0
  <2> QED  BY <1>6, <2>1 DEF Begins, Underway, HeaderRejected, LengthKnown
<1>9. Shape'
  BY <1>0, <1>1, <1>5, <1>6, <1>7 DEF Shape, combVars, senderVars
<1>10. Life'
  <2>1. Underway(Len(frames))' /\ m_output_symbol_count' > 0
    BY <1>1, <1>8 DEF Underway, HeaderAwaited, combVars, senderVars
  <2> QED  BY <2>1 DEF Life
<1>11. Decoded'
  <2>1. \A g \in DOMAIN headers' :
          /\ Len(frames[g].symbols) >= HEADER_SYMBOLS
          /\ headers'[g] \in {None, SymbNumb(Headers[frames[g].work])}
    BY <1>0, <1>1, <1>2, <1>5 DEF Decoded
  <2>2. \A g \in DOMAIN frames :
          g < last \/ m_output_symbol_count = 0 \/ m_work_done =>
            g \in DOMAIN headers' /\ (headers'[g] = None \/ Len(frames[g].symbols) = headers'[g])
    BY <1>0, <1>5 DEF Decoded, FrameEnded
  <2> QED  BY <1>1, <2>1, <2>2 DEF Decoded, FrameEnded, combVars
<1>12. Succession'
  <2>1. \A g : Complete(g) => Complete(g)'
    BY <1>1, <1>5 DEF Complete
  <2>2. /\ frames' = frames /\ finished' = finished /\ started' = started
        /\ m_output_symbol_count' = m_output_symbol_count
        /\ m_rrh_params' = m_rrh_params /\ m_work_id' = m_work_id
    BY <1>1 DEF combVars, senderVars
  <2>3. \A w \in finished' : \E g \in DOMAIN frames' : frames'[g].work = w /\ Complete(g)'
    BY <1>0, <2>1, <2>2 DEF Succession
  <2>4. \A x \in started' : \A v \in Works : v < x[2] => v \in finished'
    BY <1>0, <2>2 DEF Succession
  <2>5. \A g \in DOMAIN frames' :
          LET w == frames'[g].work IN
          /\ StreamsOf(w) # {} /\ \A s \in StreamsOf(w) : <<s, w>> \in started'
          /\ \A e \in 1..(g - 1) : frames'[e].work < w
          /\ m_output_symbol_count' = 0 /\ m_rrh_params' # <<>> => w < m_work_id'
    BY <1>0, <2>2 DEF Succession
  <2> QED  BY <2>3, <2>4, <2>5 DEF Succession
<1>13. Tags(m_rrh_params, m_work_id, m_input_socket)'
  <2>1. /\ frames' = frames /\ finished' = finished /\ started' = started
        /\ m_output_symbol_count' = m_output_symbol_count /\ m_input_socket' = m_input_socket
        /\ m_rrh_params' = m_rrh_params /\ m_work_id' = m_work_id
    BY <1>1 DEF combVars, senderVars
  <2>2. Tags(m_rrh_params, m_work_id, m_input_socket)
    BY <1>0
  <2> QED  BY <2>1, <2>2 DEF Tags, TagsOf, TagExpected, Ids
<1>14. /\ Gathered(m_rrh_params, m_first_rrh_time_received, m_waiting, m_work_id)'
       /\ Senders' /\ \A s \in SyncWorkers : Contiguous(s, m_input_socket[s], Latest(s))'
       /\ InStep(m_rrh_params, m_work_id, m_input_socket)'
       /\ StreamsInStep'
  BY <1>1, ChainLeaves DEF combVars
<1> QED  BY <1>9, <1>10, <1>11, <1>12, <1>13, <1>14 DEF IInv

(* worker_zmq_sink reports a frame.                                        *)
LEMMA DemodDoneKeeps == ASSUME IInv, NEW f \in DOMAIN frames, DemodDone(f) PROVE IInv'
<1>0. /\ Shape /\ Life /\ Decoded /\ Succession
      /\ Tags(m_rrh_params, m_work_id, m_input_socket)
  BY DEF IInv
<1>1. /\ Complete(f) /\ finished' = finished \cup {frames[f].work}
      /\ UNCHANGED <<combVars, senderVars, headers, handled, frames>>
  BY DEF DemodDone
<1>2. frames[f].work \in Works
  BY <1>0, FrameTyped
<1>3. Shape' /\ Life' /\ Decoded'
  <2>1. Shape'
    BY <1>0, <1>1, <1>2 DEF Shape, combVars, senderVars
  <2>2. Life'
    BY <1>0, <1>1 DEF Life, Begins, Underway, HeaderAwaited, HeaderRejected, LengthKnown,
                      combVars, senderVars
  <2>3. Decoded'
    BY <1>0, <1>1 DEF Decoded, FrameEnded, combVars, senderVars
  <2> QED  BY <2>1, <2>2, <2>3
<1>4. Succession'
  <2>1. \A g : Complete(g) => Complete(g)'
    BY <1>1 DEF Complete
  <2>2. \A w \in finished' : \E g \in DOMAIN frames : frames[g].work = w /\ Complete(g)
    BY <1>0, <1>1 DEF Succession
  <2>3. \A x \in started : \A v \in Works : v < x[2] => v \in finished'
    BY <1>0, <1>1 DEF Succession
  <2> QED  BY <1>0, <1>1, <2>1, <2>2, <2>3 DEF Succession, combVars, senderVars
<1>5. Tags(m_rrh_params, m_work_id, m_input_socket)'
  <2>1. \A x, v : TagExpected(x, v, m_rrh_params, m_work_id)
                    => TagExpected(x, v, m_rrh_params, m_work_id)'
    BY <1>1 DEF TagExpected, combVars, senderVars, Ids
  <2> QED  BY <1>0, <1>1, <2>1 DEF Tags, TagsOf, combVars, senderVars
<1>6. /\ Gathered(m_rrh_params, m_first_rrh_time_received, m_waiting, m_work_id)'
      /\ Senders' /\ \A s \in SyncWorkers : Contiguous(s, m_input_socket[s], Latest(s))'
      /\ InStep(m_rrh_params, m_work_id, m_input_socket)'
      /\ StreamsInStep'
  BY <1>1, ChainLeaves DEF combVars
<1> QED  BY <1>3, <1>4, <1>5, <1>6 DEF IInv

(* frame_info_handler comes for the frame that is waiting for it.          *)
LEMMA HandledFrame ==
  ASSUME IInv, frame_info_handler
  PROVE  LET f == Len(frames) IN
         /\ f \in DOMAIN frames /\ handled = f - 1 /\ f \in DOMAIN headers
         /\ m_output_symbol_count = HEADER_SYMBOLS /\ Len(frames[f].symbols) = HEADER_SYMBOLS
         /\ ~m_decoded_header /\ ~m_work_done
         /\ frames[f].work = m_work_id
         /\ frames[f].streams = [i \in DOMAIN m_rrh_params |-> m_rrh_params[i].rrh_id]
         /\ headers[f] \in {None, SymbNumb(Headers[m_work_id])}
<1> DEFINE f == Len(frames)
<1>0. Shape /\ Life /\ Decoded
  BY DEF IInv
<1>1. handled < Len(headers)
  BY DEF frame_info_handler
<1>2. /\ Len(headers) \in Nat /\ f \in Nat /\ handled \in Nat /\ Len(headers) <= f
      /\ DOMAIN headers = 1..Len(headers) /\ DOMAIN frames = 1..f /\ m_output_symbol_count \in Nat
      /\ m_output_symbol_count = 0 => Begins
      /\ m_output_symbol_count # 0 => Underway(f)
  BY <1>0, FrameNumbers
<1>3. handled # f
  <2>1. /\ handled \in Nat /\ f \in Nat /\ Len(headers) \in Nat
        /\ handled < Len(headers) /\ Len(headers) <= f
    BY <1>1, <1>2
  <2> HIDE DEF f
  <2> QED  BY <2>1
<1>4. Underway(f) /\ HeaderAwaited(f)
  BY <1>2, <1>3 DEF Begins, Underway, HeaderRejected, LengthKnown
<1>5. /\ f > 0 /\ frames[f].work = m_work_id /\ Len(frames[f].symbols) = m_output_symbol_count
      /\ handled = f - 1 /\ m_output_symbol_count <= HEADER_SYMBOLS
  BY <1>4 DEF Underway, HeaderAwaited
<1>6. f \in DOMAIN headers /\ f \in DOMAIN frames
  BY <1>1, <1>2, <1>5
<1>7. /\ Len(frames[f].symbols) >= HEADER_SYMBOLS
      /\ headers[f] \in {None, SymbNumb(Headers[m_work_id])}
  BY <1>0, <1>5, <1>6 DEF Decoded
<1>8. m_output_symbol_count = HEADER_SYMBOLS
  BY <1>2, <1>5, <1>7 DEF HEADER_SYMBOLS
<1> QED  BY <1>4, <1>5, <1>6, <1>7, <1>8 DEF Underway, HeaderAwaited

(* frame_info_handler: the length of the last frame gets known.            *)
HeaderLength == headers[handled + 1]

LEMMA HandlerKeeps ==
  ASSUME IInv, frame_info_handler, HeaderLength # HEADER_SYMBOLS
  PROVE  IInv'
<1> DEFINE f == Len(frames)
<1>0. /\ Shape /\ Life /\ Decoded /\ Succession
      /\ Tags(m_rrh_params, m_work_id, m_input_socket)
      /\ Gathered(m_rrh_params, m_first_rrh_time_received, m_waiting, m_work_id)
  BY DEF IInv
<1>1. /\ f \in DOMAIN frames /\ handled = f - 1 /\ f \in DOMAIN headers
      /\ m_output_symbol_count = HEADER_SYMBOLS /\ Len(frames[f].symbols) = HEADER_SYMBOLS
      /\ ~m_decoded_header /\ ~m_work_done
      /\ frames[f].work = m_work_id
      /\ frames[f].streams = [i \in DOMAIN m_rrh_params |-> m_rrh_params[i].rrh_id]
      /\ headers[f] \in {None, SymbNumb(Headers[m_work_id])}
  BY HandledFrame
<1>2. /\ handled' = handled + 1
      /\ UNCHANGED <<m_rrh_params, m_work_id, m_first_rrh_time_received, m_waiting,
                     m_output_symbol_count, senderVars, chainVars, frames>>
  BY DEF frame_info_handler
<1>3. /\ Len(headers) \in Nat /\ f \in Nat /\ handled \in Nat /\ Len(headers) <= f
      /\ DOMAIN headers = 1..Len(headers) /\ DOMAIN frames = 1..f
  BY <1>0, FrameNumbers
<1>4. f = Len(headers) /\ handled' = f /\ handled' \in Nat
  <2>1. f \in 1..Len(headers) /\ handled = f - 1 /\ handled' = handled + 1
    BY <1>1, <1>2, <1>3
  <2>2. Len(headers) \in Nat /\ f \in Nat /\ handled \in Nat /\ Len(headers) <= f
    BY <1>3
  <2> HIDE DEF f
  <2> QED  BY <2>1, <2>2
<1>5. m_work_id \in Works
  BY <1>0, <1>1, FrameTyped
<1>6. \/ /\ headers[f] = None /\ m_work_done' = TRUE
         /\ UNCHANGED <<m_symb_numb, m_decoded_header>>
      \/ /\ m_symb_numb' = headers[f] /\ m_decoded_header' = TRUE /\ UNCHANGED m_work_done
         /\ m_symb_numb' \in Nat /\ m_symb_numb' > HEADER_SYMBOLS
  <2>1. handled + 1 = f
    BY <1>2, <1>4
  <2>2. headers[f] # None => headers[f] \in Nat /\ headers[f] > HEADER_SYMBOLS
    <3>1. headers[f] # HEADER_SYMBOLS
      BY <2>1 DEF HeaderLength
    <3>2. PICK n : n = headers[f]
      OBVIOUS
    <3>3. n # None => n \in Nat /\ n >= HEADER_SYMBOLS
      BY <1>1, <1>5, <3>2, FrameLength
    <3> QED  BY <3>1, <3>2, <3>3 DEF HEADER_SYMBOLS
  <2> QED  BY <2>1, <2>2 DEF frame_info_handler
<1>7. Shape'
  BY <1>0, <1>2, <1>3, <1>4, <1>6 DEF Shape, senderVars, chainVars
<1>8. Life'
  <2>1. m_output_symbol_count' = 8 /\ HEADER_SYMBOLS = 8
    BY <1>1, <1>2 DEF HEADER_SYMBOLS
  <2>2. f > 0
    BY <1>1, <1>3
  <2>3. /\ f = Len(frames)' /\ frames[f]'.work = m_work_id'
        /\ frames[f]'.streams = [i \in DOMAIN m_rrh_params |-> m_rrh_params[i].rrh_id]'
        /\ Len(frames[f].symbols)' = m_output_symbol_count' /\ headers[f]' = headers[f]
    BY <1>1, <1>2 DEF chainVars
  <2>4. HeaderRejected(f)' \/ LengthKnown(f)'
    BY <1>1, <1>2, <1>4, <1>6, <2>1, <2>3 DEF HeaderRejected, LengthKnown
  <2>5. Underway(Len(frames))' /\ m_output_symbol_count' > 0
    BY <2>1, <2>2, <2>3, <2>4 DEF Underway
  <2> QED  BY <2>5, <2>1 DEF Life
<1>9. Decoded'
  <2>1. m_work_done' => headers[f] = None
    BY <1>1, <1>6
  <2>2. \A g \in DOMAIN frames : g < f \/ g = f
    BY <1>3
  <2> QED  BY <1>0, <1>1, <1>2, <2>1, <2>2 DEF Decoded, FrameEnded, chainVars, HEADER_SYMBOLS
<1>10. Succession'
  BY <1>0, <1>2 DEF Succession, Complete, chainVars, senderVars
<1>11. Tags(m_rrh_params, m_work_id, m_input_socket)'
  BY <1>0, <1>2 DEF Tags, TagsOf, TagExpected, Ids, chainVars, senderVars
<1>12. /\ Gathered(m_rrh_params, m_first_rrh_time_received, m_waiting, m_work_id)'
       /\ Senders' /\ \A s \in SyncWorkers : Contiguous(s, m_input_socket[s], Latest(s))'
       /\ InStep(m_rrh_params, m_work_id, m_input_socket)'
       /\ StreamsInStep'
  BY <1>2, ChainLeaves DEF chainVars
<1> QED  BY <1>7, <1>8, <1>9, <1>10, <1>11, <1>12 DEF IInv

(* The worker is freed for its next work.                                  *)
LEMMA FreeWorkerKeeps == ASSUME IInv, free_worker_for_next_work PROVE IInv'
<1>0. /\ Shape /\ Life /\ Decoded /\ Succession /\ Senders /\ StreamsInStep
  BY DEF IInv
<1>1. /\ m_work_done /\ m_input_socket' = [s \in SyncWorkers |-> <<>>] /\ m_rrh_params' = <<>>
      /\ m_output_symbol_count' = 0 /\ m_symb_numb' = 0
      /\ m_first_rrh_time_received' = FALSE /\ m_work_done' = FALSE
      /\ UNCHANGED <<m_work_id, m_waiting, m_decoded_header, sent, started, chainVars,
                     handled, frames>>
  BY DEF free_worker_for_next_work
<1>2. handled = Len(frames)
  BY <1>0, <1>1, FrameNumbers DEF Begins, Underway, HeaderAwaited, HeaderRejected, LengthKnown
<1>3. Shape'
  <2>1. <<>> \in Seq(RrhParams) /\ <<>> \in Seq(Messages) /\ QueueLimit \in Nat
    BY CombiningAssumption
  <2>2. m_input_socket' \in [SyncWorkers -> Seq(Messages)]
        /\ \A s \in SyncWorkers : Len(m_input_socket'[s]) <= QueueLimit
    BY <1>1, <2>1
  <2> QED  BY <1>0, <1>1, <2>1, <2>2 DEF Shape, chainVars
<1>4. Gathered(m_rrh_params, m_first_rrh_time_received, m_waiting, m_work_id)'
  BY <1>1, CombiningAssumption DEF Gathered, Ids
<1>5. Life'
  BY <1>1, <1>2 DEF Life, Begins
<1>6. Decoded'
  BY <1>0, <1>1 DEF Decoded, FrameEnded, chainVars
<1>7. Succession'
  BY <1>0, <1>1 DEF Succession, Complete, chainVars
<1>8. Tags(m_rrh_params, m_work_id, m_input_socket)'
  BY <1>1 DEF Tags, TagsOf
<1>9. Senders' /\ StreamsInStep'
  BY <1>0, <1>1 DEF Senders, StreamsInStep
<1>10. \A s \in SyncWorkers : Contiguous(s, m_input_socket[s], Latest(s))'
  BY <1>1 DEF Contiguous
<1>11. InStep(m_rrh_params, m_work_id, m_input_socket)'
  BY <1>1 DEF InStep
<1> QED  BY <1>3, <1>4, <1>5, <1>6, <1>7, <1>8, <1>9, <1>10, <1>11 DEF IInv

-----------------------------------------------------------------------------
(* General_work once a message is received, or none was there, and before  *)
(* symbols are combined: what is true of the new streams, with the symbols *)
(* output so far.                                                          *)
Received(waiting) ==
  /\ m_rrh_params' \in Seq(RrhParams) /\ m_work_id' \in Works \cup {None}
  /\ m_first_rrh_time_received' \in BOOLEAN /\ m_decoded_header' \in BOOLEAN
  /\ waiting \in BOOLEAN
  /\ m_input_socket' \in [SyncWorkers -> Seq(Messages)]
  /\ \A s \in SyncWorkers : Len(m_input_socket'[s]) <= QueueLimit
  /\ Gathered(m_rrh_params', m_first_rrh_time_received', waiting, m_work_id')
  /\ Tags(m_rrh_params', m_work_id', m_input_socket')
  /\ \A s \in SyncWorkers : Contiguous(s, m_input_socket'[s], Latest(s))
  /\ InStep(m_rrh_params', m_work_id', m_input_socket')
  /\ m_output_symbol_count = 0 /\ m_rrh_params' # <<>> =>
       ~m_decoded_header' /\ \A f \in DOMAIN frames : frames[f].work < m_work_id'
  /\ m_output_symbol_count # 0 =>
       /\ UNCHANGED <<m_work_id, m_decoded_header>>
       /\ [i \in DOMAIN m_rrh_params' |-> m_rrh_params'[i].rrh_id]
            = [i \in DOMAIN m_rrh_params |-> m_rrh_params[i].rrh_id]

WorkLeaves == UNCHANGED <<m_symb_numb, sent, started, chainVars, handled>>

(* No symbol is output.                                                    *)
LEMMA NothingOutput ==
  ASSUME IInv, NEW waiting, Received(waiting), WorkLeaves, ~m_work_done,
         UNCHANGED <<m_output_symbol_count, frames>>, m_work_done' = FALSE,
         m_waiting' \in BOOLEAN,
         Gathered(m_rrh_params', m_first_rrh_time_received', m_waiting', m_work_id')
  PROVE  IInv'
<1>0. Shape /\ Life /\ Decoded /\ Succession /\ Senders /\ StreamsInStep
  BY DEF IInv
<1>1. /\ m_rrh_params' \in Seq(RrhParams) /\ m_work_id' \in Works \cup {None}
      /\ m_first_rrh_time_received' \in BOOLEAN /\ m_decoded_header' \in BOOLEAN
      /\ m_input_socket' \in [SyncWorkers -> Seq(Messages)]
      /\ \A s \in SyncWorkers : Len(m_input_socket'[s]) <= QueueLimit
      /\ Tags(m_rrh_params', m_work_id', m_input_socket')
      /\ \A s \in SyncWorkers : Contiguous(s, m_input_socket'[s], Latest(s))
      /\ InStep(m_rrh_params', m_work_id', m_input_socket')
  BY DEF Received
<1>2. m_output_symbol_count = 0 /\ m_rrh_params' # <<>> =>
        ~m_decoded_header' /\ \A f \in DOMAIN frames : frames[f].work < m_work_id'
  BY DEF Received
<1>3. m_output_symbol_count # 0 =>
        /\ UNCHANGED <<m_work_id, m_decoded_header>>
        /\ [i \in DOMAIN m_rrh_params' |-> m_rrh_params'[i].rrh_id]
             = [i \in DOMAIN m_rrh_params |-> m_rrh_params[i].rrh_id]
  BY DEF Received
<1>4. /\ UNCHANGED <<m_symb_numb, sent, started, headers, finished, handled>>
      /\ UNCHANGED <<m_output_symbol_count, m_work_done, frames>>
  BY <1>0 DEF WorkLeaves, chainVars, Shape
<1>5. Shape'
  BY <1>0, <1>1, <1>4 DEF Shape
<1>6. Gathered(m_rrh_params, m_first_rrh_time_received, m_waiting, m_work_id)'
  BY <1>4 DEF Gathered, Ids
<1>7. Life'
  <2>1. CASE m_output_symbol_count = 0
    BY <1>0, <1>2, <1>4, <2>1, FrameNumbers DEF Life, Begins
  <2>2. CASE m_output_symbol_count # 0
    <3>1. Underway(Len(frames)) /\ m_output_symbol_count > 0
      BY <1>0, <2>2, FrameNumbers
    <3>2. Underway(Len(frames))'
      BY <1>3, <1>4, <2>2, <3>1 DEF Underway, HeaderAwaited, HeaderRejected, LengthKnown
    <3> QED  BY <1>4, <2>2, <3>1, <3>2 DEF Life
  <2> QED  BY <2>1, <2>2
<1>8. Decoded'
  BY <1>0, <1>4 DEF Decoded, FrameEnded
<1>9. Succession'
  BY <1>0, <1>2, <1>4 DEF Succession, Complete
<1>10. Tags(m_rrh_params, m_work_id, m_input_socket)'
  BY <1>1, <1>4 DEF Tags, TagsOf, TagExpected, Ids
<1>11. Senders' /\ StreamsInStep'
  BY <1>0, <1>4 DEF Senders, StreamsInStep
<1>12. \A s \in SyncWorkers : Contiguous(s, m_input_socket[s], Latest(s))'
  BY <1>1, <1>4 DEF Latest
<1>13. InStep(m_rrh_params, m_work_id, m_input_socket)'
  BY <1>1, <1>4 DEF InStep, InStepWith, Follows, First, Latest
<1> QED  BY <1>5, <1>6, <1>7, <1>8, <1>9, <1>10, <1>11, <1>12, <1>13 DEF IInv

(* What SymbolsToOutput lets through: symbols that all streams have, eight *)
(* until the header is known, and then those that it announces.            *)
LEMMA OutputNumber ==
  ASSUME IInv, NEW waiting, Received(waiting), ~m_work_done, m_rrh_params' # <<>>,
         NEW n, n = SymbolsToOutput(m_rrh_params', m_decoded_header')
  PROVE  /\ n \in Nat
         /\ \A i \in DOMAIN m_rrh_params' :
              m_output_symbol_count + n <= Len(m_rrh_params'[i].rx_samples)
         /\ ~m_decoded_header' => m_output_symbol_count + n <= HEADER_SYMBOLS
         /\ m_decoded_header' => /\ m_output_symbol_count # 0
                                 /\ m_output_symbol_count + n <= m_symb_numb
<1> DEFINE count == m_output_symbol_count
           params == m_rrh_params'
           lens == {Len(params[i].rx_samples) : i \in DOMAIN params}
           least == Min(lens)
           ready == least - count
           left == Stopping(m_decoded_header') - count
<1>0. Shape /\ Life
  BY DEF IInv
<1>1. count \in Nat /\ m_symb_numb \in Nat /\ params \in Seq(RrhParams)
  BY <1>0 DEF Shape, Received
<1>2. \A i \in DOMAIN params : count <= Len(params[i].rx_samples)
  BY DEF Received, InStep, InStepWith
<1>3. \A i \in DOMAIN params : Len(params[i].rx_samples) \in Nat
  <2> SUFFICES ASSUME NEW i \in DOMAIN params PROVE Len(params[i].rx_samples) \in Nat
    OBVIOUS
  <2>1. params[i] \in RrhParams
    BY <1>1, Element
  <2>2. params[i].rx_samples \in Seq(SymbolSet)
    BY <2>1 DEF RrhParams
  <2> QED  BY <2>2
<1>4. least \in Nat /\ count <= least /\ \A i \in DOMAIN params : least <= Len(params[i].rx_samples)
  <2>1. 1 \in DOMAIN params
    BY <1>1, EmptySeq
  <2>2. lens \subseteq Nat /\ lens # {}
    BY <1>3, <2>1
  <2>3. least \in lens /\ \A y \in lens : least <= y
    BY <2>2, Least
  <2> HIDE DEF least
  <2> QED  BY <1>2, <2>2, <2>3
<1>5. ready \in Nat /\ count + ready = least
  <2> HIDE DEF least, count
  <2> QED  BY <1>1, <1>4
<1>6. \A k \in Nat : k <= ready => \A i \in DOMAIN params : count + k <= Len(params[i].rx_samples)
  <2> HIDE DEF least, count, params, ready
  <2> QED  BY <1>1, <1>3, <1>4, <1>5
<1>7. /\ m_decoded_header' => count # 0 /\ left > 0 /\ left \in Nat /\ count + left = m_symb_numb
      /\ ~m_decoded_header' => left \in Nat /\ count + left = HEADER_SYMBOLS
  <2>1. CASE count = 0
    <3>1. ~m_decoded_header'
      BY <2>1 DEF Received
    <3> QED  BY <2>1, <3>1 DEF Stopping, HEADER_SYMBOLS
  <2>2. CASE count # 0
    <3>1. m_decoded_header' = m_decoded_header
      BY <2>2 DEF Received
    <3>2. HeaderAwaited(Len(frames)) \/ LengthKnown(Len(frames))
      BY <1>0, <2>2, FrameNumbers DEF Underway, HeaderRejected
    <3>3. CASE HeaderAwaited(Len(frames))
      <4>1. ~m_decoded_header' /\ count <= 8 /\ left = 8 - count
        BY <3>1, <3>3 DEF HeaderAwaited, Stopping, HEADER_SYMBOLS
      <4> HIDE DEF count, left
      <4> QED  BY <1>1, <4>1 DEF HEADER_SYMBOLS
    <3>4. CASE LengthKnown(Len(frames))
      <4>1. m_decoded_header' /\ count <= m_symb_numb /\ left = m_symb_numb - count /\ count # m_symb_numb
        BY <3>1, <3>4 DEF LengthKnown, Stopping
      <4> HIDE DEF count, left
      <4> QED  BY <1>1, <2>2, <4>1
    <3> QED  BY <3>2, <3>3, <3>4
  <2> QED  BY <2>1, <2>2
<1>8. n = Min({ready, left})
  <2>1. /\ SymbolsReady(m_rrh_params') = ready
        /\ m_decoded_header' \in BOOLEAN
    BY DEF SymbolsReady, Received
  <2>2. (m_decoded_header' /\ left > 0) \/ (~m_decoded_header' /\ left >= 0)
    <3> HIDE DEF left
    <3> QED  BY <1>7, <2>1
  <2>3. n = IF (m_decoded_header' /\ left > 0) \/ (~m_decoded_header' /\ left >= 0)
            THEN Min({ready, left}) ELSE ready
    BY <2>1 DEF SymbolsToOutput
  <2> HIDE DEF ready, left
  <2> QED  BY <2>2, <2>3
<1>9. n \in Nat /\ n <= ready /\ n <= left /\ left \in Nat
  <2> HIDE DEF ready, left
  <2>1. left \in Nat
    BY <1>7
  <2>2. n = IF ready <= left THEN ready ELSE left
    BY <1>5, <1>8, <2>1, Lesser
  <2> QED  BY <1>5, <2>1, <2>2
<1>10. \A i \in DOMAIN params : count + n <= Len(params[i].rx_samples)
  <2> HIDE DEF ready, left, count, params
  <2> QED  BY <1>6, <1>9
<1>11. /\ m_decoded_header' => count # 0 /\ count + n <= m_symb_numb
       /\ ~m_decoded_header' => count + n <= HEADER_SYMBOLS
  <2> HIDE DEF ready, left, count
  <2> QED  BY <1>1, <1>7, <1>9 DEF HEADER_SYMBOLS
<1> QED  BY <1>9, <1>10, <1>11

(* Combined symbols are sequences of symbols, one of each stream.          *)
LEMMA CombinedTyped ==
  ASSUME NEW params \in Seq(RrhParams), NEW k \in Nat \ {0},
         \A i \in DOMAIN params : k <= Len(params[i].rx_samples)
  PROVE  Combined(params, k) \in Seq(SymbolSet)
<1>1. ASSUME NEW i \in DOMAIN params PROVE params[i].rx_samples[k] \in SymbolSet
  <2>1. params[i] \in RrhParams
    BY Element
  <2>2. params[i].rx_samples \in Seq(SymbolSet)
    BY <2>1 DEF RrhParams
  <2>3. k \in DOMAIN params[i].rx_samples
    BY <2>2
  <2> QED  BY <2>2, <2>3, Element
<1>2. Combined(params, k) \in [1..Len(params) -> SymbolSet] /\ Len(params) \in Nat
  BY <1>1 DEF Combined
<1> QED  BY <1>2, Tabulated

(* The identities of the streams, in their order.                          *)
LEMMA IdsTyped ==
  ASSUME NEW params \in Seq(RrhParams)
  PROVE  /\ [i \in DOMAIN params |-> params[i].rrh_id] \in Seq(SyncWorkers)
         /\ \A i \in DOMAIN params : params[i].rrh_id \in SyncWorkers /\ params[i].rrh_id \in Ids(params)
<1>1. ASSUME NEW i \in DOMAIN params PROVE params[i].rrh_id \in SyncWorkers
  <2>1. params[i] \in RrhParams
    BY Element
  <2> QED  BY <2>1 DEF RrhParams
<1>2. [i \in DOMAIN params |-> params[i].rrh_id] \in [1..Len(params) -> SyncWorkers] /\ Len(params) \in Nat
  BY <1>1
<1> QED  BY <1>1, <1>2, Tabulated DEF Ids

(* The frame that the next symbols belong to.                              *)
NextFrame == IF m_output_symbol_count = 0 THEN Len(frames) + 1 ELSE Len(frames)

(* The frames once n symbols more are output: only the last has changed,   *)
(* or is new.                                                              *)
LEMMA FramesAfter ==
  ASSUME IInv, NEW waiting, Received(waiting), m_rrh_params' # <<>>,
         NEW n \in Nat, n > 0,
         \A i \in DOMAIN m_rrh_params' :
           m_output_symbol_count + n <= Len(m_rrh_params'[i].rx_samples),
         frames' = WithSymbols(Begun(m_work_id', m_rrh_params'), m_rrh_params', n)
  PROVE  /\ frames' \in Seq(FrameSet) /\ Len(frames') = NextFrame /\ NextFrame \in Nat /\ NextFrame > 0
         /\ \A f \in DOMAIN frames' : f # NextFrame => f \in DOMAIN frames /\ frames'[f] = frames[f]
         /\ DOMAIN frames' = DOMAIN frames \cup {NextFrame}
         /\ NextFrame \in DOMAIN frames <=> m_output_symbol_count # 0
         /\ frames'[NextFrame].work = m_work_id' /\ m_work_id' \in Works
         /\ frames'[NextFrame].streams = [i \in DOMAIN m_rrh_params' |-> m_rrh_params'[i].rrh_id]
         /\ Len(frames'[NextFrame].symbols) = m_output_symbol_count + n
         /\ \A k \in 1..n : frames'[NextFrame].symbols[m_output_symbol_count + k]
                              = Combined(m_rrh_params', m_output_symbol_count + k)
         /\ m_output_symbol_count # 0 =>
              /\ frames'[NextFrame].work = frames[NextFrame].work
              /\ frames'[NextFrame].streams = frames[NextFrame].streams
              /\ \A k \in 1..m_output_symbol_count :
                   frames'[NextFrame].symbols[k] = frames[NextFrame].symbols[k]
<1> DEFINE count == m_output_symbol_count
           params == m_rrh_params'
           new == [k \in 1..n |-> Combined(params, count + k)]
           ids == [i \in DOMAIN params |-> params[i].rrh_id]
           begun == Begun(m_work_id', params)
           last == NextFrame
           old == begun[last].symbols
<1>0. Shape /\ Life
  BY DEF IInv
<1>1. /\ count \in Nat /\ params \in Seq(RrhParams) /\ m_work_id' \in Works
      /\ frames \in Seq(FrameSet) /\ Len(frames) \in Nat
  BY <1>0 DEF Shape, Received, Gathered
<1>2. new \in Seq(Seq(SymbolSet)) /\ Len(new) = n /\ DOMAIN new = 1..n
  <2>1. ASSUME NEW k \in 1..n PROVE Combined(params, count + k) \in Seq(SymbolSet)
    <3> DEFINE c == count + k
    <3>1. c \in Nat \ {0} /\ \A i \in DOMAIN params : c <= Len(params[i].rx_samples)
      <4>1. \A i \in DOMAIN params : Len(params[i].rx_samples) \in Nat
        <5> SUFFICES ASSUME NEW i \in DOMAIN params PROVE Len(params[i].rx_samples) \in Nat
          OBVIOUS
        <5>1. params[i] \in RrhParams
          BY <1>1, Element
        <5> QED  BY <5>1 DEF RrhParams
      <4> HIDE DEF count
      <4>2. c \in Nat \ {0} /\ c <= count + n
        BY <1>1
      <4>3. \A i \in DOMAIN params : count + n <= Len(params[i].rx_samples)
        BY DEF count
      <4> HIDE DEF c, params
      <4> QED  BY <1>1, <4>1, <4>2, <4>3
    <3> HIDE DEF c, params
    <3>2. Combined(params, c) \in Seq(SymbolSet)
      BY <1>1, <3>1, CombinedTyped
    <3> QED  BY <3>2 DEF c
  <2>2. new \in [1..n -> Seq(SymbolSet)]
    BY <2>1
  <2> HIDE DEF new
  <2> QED  BY <2>2, Tabulated
<1>3. /\ begun \in Seq(FrameSet) /\ Len(begun) = last /\ last \in Nat /\ last > 0
      /\ \A f \in DOMAIN frames : begun[f] = frames[f]
      /\ DOMAIN begun = DOMAIN frames \cup {last}
      /\ last \in DOMAIN frames <=> count # 0
      /\ begun[last].work = m_work_id' /\ begun[last].streams = ids
      /\ Len(old) = count
  <2>1. CASE count = 0
    <3> DEFINE e == NewFrame(m_work_id', params)
    <3>1. /\ e \in FrameSet /\ e.work = m_work_id' /\ e.streams = ids /\ e.symbols = <<>>
      <4>1. ids \in Seq(SyncWorkers) /\ <<>> \in Seq(Seq(SymbolSet))
        BY <1>1, IdsTyped
      <4> QED  BY <1>1, <4>1 DEF NewFrame, FrameSet
    <3>2. begun = Append(frames, e)
      BY <2>1 DEF Begun
    <3> HIDE DEF e, begun
    <3>3. /\ begun \in Seq(FrameSet) /\ Len(begun) = Len(frames) + 1
          /\ \A f \in DOMAIN frames : begun[f] = frames[f]
          /\ begun[Len(frames) + 1] = e /\ DOMAIN begun = DOMAIN frames \cup {Len(frames) + 1}
      BY <1>1, <3>1, <3>2, Appended
    <3>4. last = Len(frames) + 1
      BY <2>1 DEF NextFrame
    <3>5. last \notin DOMAIN frames /\ last > 0 /\ last \in Nat
      BY <1>1, <3>4
    <3> QED  BY <2>1, <3>1, <3>3, <3>4, <3>5
  <2>2. CASE count # 0
    <3>1. begun = frames /\ last = Len(frames)
      BY <2>2 DEF Begun, NextFrame
    <3>2. Underway(Len(frames)) /\ Len(frames) \in DOMAIN frames
      BY <1>0, <2>2, FrameNumbers
    <3>3. m_work_id' = m_work_id /\ ids = [i \in DOMAIN m_rrh_params |-> m_rrh_params[i].rrh_id]
      BY <2>2 DEF Received
    <3>4. last > 0 /\ frames[last].work = m_work_id' /\ frames[last].streams = ids
          /\ Len(frames[last].symbols) = count
      BY <3>1, <3>2, <3>3 DEF Underway
    <3> QED  BY <1>1, <2>2, <3>1, <3>2, <3>4
  <2> QED  BY <2>1, <2>2
<1> HIDE DEF begun
<1>4. frames' = [begun EXCEPT ![last].symbols = old \o new]
  BY <1>3 DEF WithSymbols, begun
<1> HIDE DEF new, ids
<1>5. begun[last] \in FrameSet /\ last \in DOMAIN begun
  BY <1>3, Element
<1>6. old \in Seq(Seq(SymbolSet))
  BY <1>5 DEF FrameSet
<1>7. /\ old \o new \in Seq(Seq(SymbolSet)) /\ Len(old \o new) = count + n
      /\ \A k \in DOMAIN old : (old \o new)[k] = old[k]
      /\ \A k \in 1..n : (old \o new)[count + k] = new[k]
      /\ DOMAIN old = 1..count
  <2> HIDE DEF old
  <2> DEFINE both == old \o new
             T == Seq(SymbolSet)
  <2>0. old \in Seq(T) /\ new \in Seq(T)
    BY <1>2, <1>6
  <2> HIDE DEF T
  <2>1. /\ both \in Seq(T) /\ Len(both) = Len(old) + Len(new)
        /\ \A k \in DOMAIN old : both[k] = old[k]
        /\ \A k \in DOMAIN new : both[Len(old) + k] = new[k]
    BY <2>0, Joined
  <2>2. Len(old) = count
    BY <1>3 DEF old
  <2>3. DOMAIN old = 1..count
    BY <1>6, <2>2
  <2> QED  BY <1>2, <2>1, <2>2, <2>3 DEF T
<1>8. /\ frames'[last].work = m_work_id' /\ frames'[last].streams = ids
      /\ frames'[last].symbols = old \o new /\ frames'[last] \in FrameSet
  <2>1. frames'[last] = [begun[last] EXCEPT !.symbols = old \o new]
    BY <1>3, <1>4, <1>5
  <2> HIDE DEF old
  <2>2. /\ frames'[last].work = begun[last].work /\ frames'[last].streams = begun[last].streams
        /\ frames'[last].symbols = old \o new /\ frames'[last] \in FrameSet
    BY <1>5, <1>7, <2>1 DEF FrameSet
  <2> QED  BY <1>3, <2>2
<1>9. /\ DOMAIN frames' = DOMAIN begun
      /\ \A f \in DOMAIN frames' : f # last => f \in DOMAIN frames /\ frames'[f] = frames[f]
  BY <1>3, <1>4
<1>10. frames' \in Seq(FrameSet) /\ Len(frames') = last
  <2>1. DOMAIN begun = 1..last
    BY <1>3
  <2>2. \A f \in DOMAIN frames' : frames'[f] \in FrameSet
    BY <1>1, <1>8, <1>9, Element
  <2>3. frames' \in [1..last -> FrameSet]
    BY <1>4, <1>9, <2>1, <2>2
  <2> QED  BY <1>3, <2>3, Tabulated
<1>11. \A k \in 1..n : frames'[last].symbols[count + k] = Combined(params, count + k)
  BY <1>7, <1>8 DEF new
<1>12. count # 0 => /\ frames'[last].work = frames[last].work
                    /\ frames'[last].streams = frames[last].streams
                    /\ \A k \in 1..count : frames'[last].symbols[k] = frames[last].symbols[k]
  <2> SUFFICES ASSUME count # 0
               PROVE  /\ frames'[last].work = frames[last].work
                      /\ frames'[last].streams = frames[last].streams
                      /\ \A k \in 1..count : frames'[last].symbols[k] = frames[last].symbols[k]
    OBVIOUS
  <2>1. /\ frames'[last].work = frames[last].work
        /\ frames'[last].streams = frames[last].streams
    BY <1>3, <1>8
  <2>2. begun[last] = frames[last]
    BY <1>3
  <2>3. \A k \in 1..count : frames'[last].symbols[k] = frames[last].symbols[k]
    BY <1>7, <1>8, <2>2
  <2> QED  BY <2>1, <2>3
<1> QED  BY <1>1, <1>3, <1>7, <1>8, <1>9, <1>10, <1>11, <1>12 DEF ids

(* A frame of a work that is finished takes no more symbols.               *)
LEMMA WorkUnfinished ==
  ASSUME IInv, NEW waiting, Received(waiting), ~m_work_done, m_rrh_params' # <<>>,
         NEW n \in Nat, n > 0,
         ~m_decoded_header' => m_output_symbol_count + n <= HEADER_SYMBOLS
  PROVE  m_work_id' \notin finished
<1> DEFINE last == Len(frames)
<1>0. Shape /\ Life /\ Decoded /\ Succession
  BY DEF IInv
<1> SUFFICES ASSUME m_work_id' \in finished PROVE FALSE
  OBVIOUS
<1>1. PICK f \in DOMAIN frames : frames[f].work = m_work_id' /\ Complete(f)
  BY <1>0 DEF Succession
<1>2. CASE m_output_symbol_count = 0
  <2>1. frames[f].work < m_work_id' /\ frames[f].work \in Nat
    BY <1>0, <1>2, FrameTyped, CombiningAssumption DEF Received
  <2> QED  BY <1>1, <2>1
<1>3. CASE m_output_symbol_count # 0
  <2>1. /\ Underway(last) /\ last \in DOMAIN frames /\ last \in Nat /\ DOMAIN frames = 1..last
        /\ m_output_symbol_count \in Nat
    BY <1>0, <1>3, FrameNumbers
  <2>2. m_work_id' = m_work_id /\ m_decoded_header' = m_decoded_header
    BY <1>3 DEF Received
  <2>3. frames[last].work = frames[f].work /\ frames[f].work \in Nat
    BY <1>0, <1>1, <2>1, <2>2, FrameTyped, CombiningAssumption DEF Underway
  <2>4. f = last
    <3>1. f \in Nat /\ f >= 1 /\ f <= last
      BY <2>1
    <3>2. \A e \in 1..(last - 1) : frames[e].work < frames[last].work
      BY <1>0, <2>1 DEF Succession
    <3>3. f # last => f \in 1..(last - 1)
      <4> HIDE DEF last
      <4> QED  BY <2>1, <3>1
    <3> QED  BY <2>3, <3>2, <3>3
  <2>5. last \in DOMAIN headers /\ Len(frames[last].symbols) = m_output_symbol_count
    BY <1>1, <2>1, <2>4 DEF Complete, Underway
  <2>6. CASE HeaderAwaited(last)
    <3>1. m_output_symbol_count >= HEADER_SYMBOLS
      BY <1>0, <2>5 DEF Decoded
    <3>2. m_output_symbol_count + n <= HEADER_SYMBOLS
      BY <2>2, <2>6 DEF HeaderAwaited
    <3> QED  BY <2>1, <3>1, <3>2 DEF HEADER_SYMBOLS
  <2>7. CASE LengthKnown(last)
    <3>1. /\ headers[last] = m_symb_numb /\ m_symb_numb > 8 /\ m_output_symbol_count <= m_symb_numb
          /\ m_output_symbol_count # m_symb_numb
      BY <2>7 DEF LengthKnown, HEADER_SYMBOLS
    <3>2. headers[last] = None \/ m_output_symbol_count >= headers[last]
      BY <1>1, <2>4, <2>5 DEF Complete
    <3>3. m_symb_numb \in Nat
      BY <1>0 DEF Shape
    <3> QED  BY <2>1, <3>1, <3>2, <3>3 DEF None
  <2> QED  BY <2>1, <2>6, <2>7 DEF Underway, HeaderRejected
<1> QED  BY <1>2, <1>3

(* Symbols are output.                                                     *)
LEMMA SymbolsOutput ==
  ASSUME IInv, NEW waiting, Received(waiting), WorkLeaves, ~m_work_done,
         m_rrh_params' # <<>>, m_waiting' = FALSE,
         Gathered(m_rrh_params', m_first_rrh_time_received', FALSE, m_work_id'),
         NEW n \in Nat, n > 0,
         \A i \in DOMAIN m_rrh_params' :
           m_output_symbol_count + n <= Len(m_rrh_params'[i].rx_samples),
         ~m_decoded_header' => m_output_symbol_count + n <= HEADER_SYMBOLS,
         m_decoded_header' => /\ m_output_symbol_count # 0
                              /\ m_output_symbol_count + n <= m_symb_numb,
         m_output_symbol_count' = m_output_symbol_count + n,
         frames' = WithSymbols(Begun(m_work_id', m_rrh_params'), m_rrh_params', n),
         m_work_done' = (m_decoded_header' /\ m_output_symbol_count' = m_symb_numb)
  PROVE  IInv'
<1> DEFINE last == NextFrame
<1>0. Shape /\ Life /\ Decoded /\ Succession /\ Senders /\ StreamsInStep
  BY DEF IInv
<1>1. /\ m_rrh_params' \in Seq(RrhParams) /\ m_work_id' \in Works \cup {None}
      /\ m_first_rrh_time_received' \in BOOLEAN /\ m_decoded_header' \in BOOLEAN
      /\ m_input_socket' \in [SyncWorkers -> Seq(Messages)]
      /\ \A s \in SyncWorkers : Len(m_input_socket'[s]) <= QueueLimit
      /\ Tags(m_rrh_params', m_work_id', m_input_socket')
      /\ \A s \in SyncWorkers : Contiguous(s, m_input_socket'[s], Latest(s))
      /\ InStep(m_rrh_params', m_work_id', m_input_socket')
  BY DEF Received
<1>2. m_output_symbol_count = 0 =>
        ~m_decoded_header' /\ \A f \in DOMAIN frames : frames[f].work < m_work_id'
  BY DEF Received
<1>3. m_output_symbol_count # 0 => UNCHANGED <<m_work_id, m_decoded_header>>
  BY DEF Received
<1>4. UNCHANGED <<m_symb_numb, sent, started, headers, finished, handled>>
  BY DEF WorkLeaves, chainVars
<1>5. /\ frames' \in Seq(FrameSet) /\ Len(frames') = last /\ last \in Nat /\ last > 0
      /\ \A f \in DOMAIN frames' : f # last => f \in DOMAIN frames /\ frames'[f] = frames[f]
      /\ DOMAIN frames' = DOMAIN frames \cup {last}
      /\ last \in DOMAIN frames <=> m_output_symbol_count # 0
      /\ frames'[last].work = m_work_id' /\ m_work_id' \in Works
      /\ frames'[last].streams = [i \in DOMAIN m_rrh_params' |-> m_rrh_params'[i].rrh_id]
      /\ Len(frames'[last].symbols) = m_output_symbol_count + n
      /\ \A k \in 1..n : frames'[last].symbols[m_output_symbol_count + k]
                           = Combined(m_rrh_params', m_output_symbol_count + k)
      /\ m_output_symbol_count # 0 =>
           /\ frames'[last].work = frames[last].work
           /\ frames'[last].streams = frames[last].streams
           /\ \A k \in 1..m_output_symbol_count :
                frames'[last].symbols[k] = frames[last].symbols[k]
  BY FramesAfter
<1>6. /\ Len(frames) \in Nat /\ Len(headers) \in Nat /\ Len(headers) <= Len(frames)
      /\ handled \in Nat /\ handled <= Len(headers) /\ m_output_symbol_count \in Nat
      /\ DOMAIN frames = 1..Len(frames) /\ DOMAIN headers = 1..Len(headers)
      /\ m_output_symbol_count = 0 => Begins
      /\ m_output_symbol_count # 0 => Underway(Len(frames))
  BY <1>0, FrameNumbers
<1>7. m_work_id' \notin finished
  BY WorkUnfinished
<1>8. Len(frames) <= last /\ m_output_symbol_count' \in Nat /\ m_output_symbol_count' > 0
      /\ (m_output_symbol_count # 0 => last = Len(frames))
      /\ (m_output_symbol_count = 0 => last = Len(frames) + 1)
  <2>1. Len(frames) \in Nat /\ m_output_symbol_count \in Nat
    BY <1>6
  <2> QED  BY <2>1 DEF NextFrame
<1> HIDE DEF last
<1>9. Shape'
  <2>1. /\ m_waiting' \in BOOLEAN /\ m_work_done' \in BOOLEAN
        /\ handled' \in Nat /\ handled' <= Len(headers') /\ Len(headers') <= Len(frames')
    <3>1. Len(headers) <= last
      BY <1>5, <1>6, <1>8
    <3> QED  BY <1>4, <1>5, <1>6, <3>1
  <2> QED  BY <1>0, <1>1, <1>4, <1>5, <1>8, <2>1 DEF Shape
<1>10. Gathered(m_rrh_params, m_first_rrh_time_received, m_waiting, m_work_id)'
  BY <1>4 DEF Gathered, Ids
<1>11. Life'
  <2>1. Len(frames)' = last /\ m_symb_numb \in Nat /\ m_decoded_header \in BOOLEAN
    BY <1>0, <1>5 DEF Shape
  <2>2. ASSUME ~m_decoded_header' PROVE HeaderAwaited(Len(frames))'
    <3>1. handled = last - 1
      <4>1. CASE m_output_symbol_count = 0
        <5>1. handled = Len(frames) /\ last = Len(frames) + 1
          BY <1>6, <1>8, <4>1 DEF Begins
        <5> QED  BY <1>6, <5>1
      <4>2. CASE m_output_symbol_count # 0
        BY <1>3, <1>6, <1>8, <2>2, <4>2 DEF Underway, HeaderAwaited, HeaderRejected, LengthKnown
      <4> QED  BY <4>1, <4>2
    <3>2. HeaderAwaited(Len(frames))'
      BY <1>4, <2>1, <2>2, <3>1 DEF HeaderAwaited
    <3> QED  BY <3>2
  <2>3. ASSUME m_decoded_header' PROVE LengthKnown(Len(frames))'
    <3>1. /\ m_decoded_header /\ last = Len(frames) /\ Underway(last)
          /\ LengthKnown(last)
      BY <1>3, <1>6, <1>8, <2>1, <2>3 DEF Underway, HeaderAwaited, HeaderRejected
    <3>2. m_output_symbol_count' >= HEADER_SYMBOLS /\ m_output_symbol_count' <= m_symb_numb
      <4>1. m_output_symbol_count >= 8 /\ m_output_symbol_count \in Nat
        BY <1>6, <3>1 DEF LengthKnown, HEADER_SYMBOLS
      <4> QED  BY <2>3, <4>1 DEF HEADER_SYMBOLS
    <3>3. LengthKnown(Len(frames))'
      BY <1>4, <2>1, <2>3, <3>1, <3>2 DEF LengthKnown
    <3> QED  BY <3>3
  <2>4. Underway(Len(frames))'
    BY <1>5, <2>1, <2>2, <2>3 DEF Underway
  <2> QED  BY <1>8, <2>4 DEF Life
<1>12. Decoded'
  <2>1. ASSUME NEW f \in DOMAIN headers
        PROVE  /\ Len(frames'[f].symbols) >= HEADER_SYMBOLS
               /\ headers[f] \in {None, SymbNumb(Headers[frames'[f].work])}
    <3>1. f \in DOMAIN frames /\ f \in DOMAIN frames'
      BY <1>5, <1>6
    <3>2. /\ Len(frames[f].symbols) >= HEADER_SYMBOLS
          /\ headers[f] \in {None, SymbNumb(Headers[frames[f].work])}
      BY <1>0 DEF Decoded
    <3>3. CASE f # last
      BY <1>5, <3>1, <3>2, <3>3
    <3>4. CASE f = last
      <4>1. m_output_symbol_count # 0 /\ Underway(last)
        BY <1>5, <1>6, <1>8, <3>1, <3>4
      <4>2. Len(frames[f].symbols) = m_output_symbol_count
        BY <3>4, <4>1 DEF Underway
      <4>3. m_output_symbol_count + n >= HEADER_SYMBOLS
        BY <1>6, <3>2, <4>2 DEF HEADER_SYMBOLS
      <4> QED  BY <1>5, <3>2, <3>4, <4>1, <4>3
    <3> QED  BY <3>3, <3>4
  <2>2. ASSUME NEW f \in DOMAIN frames', f < last \/ m_work_done'
        PROVE  f \in DOMAIN headers /\ (headers[f] = None \/ Len(frames'[f].symbols) = headers[f])
    <3>1. CASE f # last
      <4>1. f \in DOMAIN frames /\ frames'[f] = frames[f]
        BY <1>5, <3>1
      <4>2. f < Len(frames) \/ m_output_symbol_count = 0
        <5>1. f \in 1..Len(frames) /\ Len(frames) \in Nat
          BY <1>6, <4>1
        <5> QED  BY <1>8, <3>1, <5>1
      <4> QED  BY <1>0, <4>1, <4>2 DEF Decoded, FrameEnded
    <3>2. CASE f = last
      <4>1. m_work_done'
        BY <1>5, <2>2, <3>2
      <4>2. LengthKnown(Len(frames))' /\ Len(frames)' = last
        BY <1>5, <1>8, <1>11, <4>1 DEF Life, Underway, HeaderAwaited, HeaderRejected
      <4>3. handled' = last /\ headers'[last] = m_symb_numb' /\ m_output_symbol_count' = m_symb_numb'
        BY <4>1, <4>2 DEF LengthKnown
      <4>4. last \in DOMAIN headers
        <5>1. handled = last /\ handled \in Nat /\ Len(headers) \in Nat /\ last > 0
          BY <1>4, <1>5, <1>6, <4>3
        <5> QED  BY <1>6, <5>1
      <4> QED  BY <1>4, <1>5, <3>2, <4>3, <4>4
    <3> QED  BY <3>1, <3>2
  <2> QED  BY <1>4, <1>5, <1>8, <2>1, <2>2 DEF Decoded, FrameEnded
<1>13. Succession'
  <2>1. \A f \in DOMAIN frames : Complete(f) => Complete(f)' /\ frames'[f].work = frames[f].work
    <3> SUFFICES ASSUME NEW f \in DOMAIN frames
                 PROVE  Complete(f) => Complete(f)' /\ frames'[f].work = frames[f].work
      OBVIOUS
    <3>1. CASE f # last
      BY <1>4, <1>5, <3>1 DEF Complete
    <3>2. CASE f = last
      <4>1. m_output_symbol_count # 0 /\ Underway(last)
        BY <1>5, <1>6, <1>8, <3>2
      <4>2. Len(frames[f].symbols) = m_output_symbol_count
        BY <3>2, <4>1 DEF Underway
      <4>3. f \in DOMAIN headers => headers[f] \in Nat
        BY <1>0, Element DEF Shape
      <4>4. \A x \in Nat : m_output_symbol_count >= x => m_output_symbol_count + n >= x
        BY <1>6
      <4> QED  BY <1>4, <1>5, <3>2, <4>1, <4>2, <4>3, <4>4 DEF Complete
    <3> QED  BY <3>1, <3>2
  <2>2. \A w \in finished' : \E f \in DOMAIN frames' : frames'[f].work = w /\ Complete(f)'
    BY <1>0, <1>4, <1>5, <2>1 DEF Succession
  <2>3. \A x \in started' : \A v \in Works : v < x[2] => v \in finished'
    BY <1>0, <1>4 DEF Succession
  <2>4. StreamsOf(m_work_id') # {} /\ \A s \in StreamsOf(m_work_id') : <<s, m_work_id'>> \in started
    <3>1. 1 \in DOMAIN m_rrh_params'
      BY <1>1, EmptySeq
    <3>2. m_rrh_params'[1].rrh_id \in Ids(m_rrh_params') /\ m_rrh_params'[1].rrh_id \in SyncWorkers
      BY <1>1, <3>1, IdsTyped
    <3>3. \A s \in Ids(m_rrh_params') : <<s, m_work_id'>> \in started
      BY DEF Gathered
    <3>4. StreamsOf(m_work_id') \subseteq Ids(m_rrh_params')
      BY DEF Gathered
    <3>5. started \subseteq Streams
      BY <1>0 DEF Shape
    <3> QED  BY <3>2, <3>3, <3>4, <3>5 DEF StreamsOf
  <2>5. \A e \in 1..(last - 1) : frames[e].work < m_work_id'
    <3>1. CASE m_output_symbol_count = 0
      <4>1. 1..(last - 1) = DOMAIN frames
        BY <1>6, <1>8, <3>1
      <4> QED  BY <1>2, <3>1, <4>1
    <3>2. CASE m_output_symbol_count # 0
      <4>1. last \in DOMAIN frames /\ frames[last].work = m_work_id'
        BY <1>5, <3>2
      <4> QED  BY <1>0, <4>1 DEF Succession
    <3> QED  BY <3>1, <3>2
  <2>6. ASSUME NEW f \in DOMAIN frames'
        PROVE  LET w == frames'[f].work IN
               /\ StreamsOf(w) # {} /\ \A s \in StreamsOf(w) : <<s, w>> \in started
               /\ \A e \in 1..(f - 1) : frames'[e].work < w
    <3>1. \A e \in 1..(f - 1) : e \in DOMAIN frames' /\ e # last /\ e \in 1..(last - 1)
      <4>1. f \in Nat /\ f <= last /\ DOMAIN frames' = 1..last
        <5>0. \A q \in Seq(FrameSet) : DOMAIN q = 1..Len(q)
          OBVIOUS
        <5>1. DOMAIN frames' = 1..last
          BY <1>5, <5>0
        <5> QED  BY <1>5, <5>1
      <4> QED  BY <1>5, <4>1
    <3>2. CASE f = last
      <4>1. frames'[f].work = m_work_id'
        BY <1>5, <3>2
      <4>2. \A e \in 1..(f - 1) : frames'[e] = frames[e] /\ frames[e].work < m_work_id'
        BY <1>5, <2>5, <3>1
      <4> QED  BY <2>4, <4>1, <4>2
    <3>3. CASE f # last
      <4>1. f \in DOMAIN frames /\ frames'[f] = frames[f]
        BY <1>5, <3>3
      <4>2. \A e \in 1..(f - 1) : frames'[e] = frames[e]
        BY <1>5, <3>1
      <4> QED  BY <1>0, <4>1, <4>2 DEF Succession
    <3> QED  BY <3>2, <3>3
  <2> QED  BY <1>4, <1>8, <2>2, <2>3, <2>6 DEF Succession
<1>14. Tags(m_rrh_params, m_work_id, m_input_socket)'
  <2>1. ASSUME NEW s \in SyncWorkers, NEW v, TagExpected(s, v, m_rrh_params', m_work_id')
        PROVE  TagExpected(s, v, m_rrh_params, m_work_id)'
    <3>1. <<s, v>> \in started /\ v \notin finished /\ \A f \in DOMAIN frames : frames[f].work # v
      BY <2>1 DEF TagExpected
    <3>2. v # m_work_id'
      <4>1. StreamsOf(m_work_id') \subseteq Ids(m_rrh_params') /\ started \subseteq Streams
        BY <1>0 DEF Gathered, Shape
      <4> QED  BY <2>1, <3>1, <4>1 DEF TagExpected, StreamsOf
    <3>3. \A f \in DOMAIN frames' : frames'[f].work # v
      BY <1>5, <3>1, <3>2
    <3> QED  BY <1>4, <3>1, <3>2, <3>3 DEF TagExpected, Ids
  <2> QED  BY <1>1, <2>1 DEF Tags, TagsOf
<1>15. Senders'
  BY <1>0, <1>4 DEF Senders
<1>16. \A s \in SyncWorkers : Contiguous(s, m_input_socket[s], Latest(s))'
  BY <1>1, <1>4 DEF Latest
<1>17. ASSUME NEW i \in DOMAIN m_rrh_params', NEW k \in Nat, k >= 1, k <= m_output_symbol_count'
       PROVE  m_rrh_params'[i].rx_samples[k] = Symbol(m_rrh_params'[i].rrh_id, m_work_id', k)
  <2> DEFINE rx == m_rrh_params'[i].rx_samples
  <2>1. m_rrh_params'[i] \in RrhParams
    BY <1>1, <1>17, Element
  <2>2. Len(rx) \in Nat /\ DOMAIN rx = 1..Len(rx)
    BY <2>1 DEF RrhParams
  <2>3. k \in DOMAIN rx
    <3>1. m_output_symbol_count + n <= Len(rx)
      BY <1>17
    <3> HIDE DEF rx
    <3> QED  BY <1>6, <1>17, <2>2, <3>1
  <2> QED  BY <1>1, <1>7, <1>17, <2>3 DEF InStep, InStepWith
<1>18. InStep(m_rrh_params, m_work_id, m_input_socket)'
  <2> SUFFICES ASSUME NEW i \in DOMAIN m_rrh_params'
               PROVE  InStepWith(m_rrh_params[i].rrh_id, m_rrh_params[i].rx_samples, m_work_id,
                                 m_input_socket[m_rrh_params[i].rrh_id])'
    BY DEF InStep
  <2>1. InStepWith(m_rrh_params'[i].rrh_id, m_rrh_params'[i].rx_samples, m_work_id',
                   m_input_socket'[m_rrh_params'[i].rrh_id])
    BY <1>1 DEF InStep
  <2>2. \A k \in 1..m_output_symbol_count' :
          m_rrh_params'[i].rx_samples[k] = Symbol(m_rrh_params'[i].rrh_id, m_work_id', k)
    BY <1>8, <1>17
  <2>3. m_output_symbol_count' <= Len(m_rrh_params'[i].rx_samples)
    OBVIOUS
  <2> QED  BY <1>4, <2>1, <2>2, <2>3 DEF InStepWith, Follows, First, Latest
<1>19. StreamsInStep'
  <2> SUFFICES ASSUME NEW f \in DOMAIN frames', NEW k \in DOMAIN frames'[f].symbols
               PROVE  frames'[f].symbols[k] =
                        [i \in DOMAIN frames'[f].streams |->
                           Symbol(frames'[f].streams[i], frames'[f].work, k)]
    BY DEF StreamsInStep
  <2>1. CASE f # last
    <3>1. f \in DOMAIN frames /\ frames'[f] = frames[f]
      BY <1>5, <2>1
    <3>2. k \in DOMAIN frames[f].symbols
      BY <3>1
    <3>3. frames[f].symbols[k] = [i \in DOMAIN frames[f].streams |->
                                    Symbol(frames[f].streams[i], frames[f].work, k)]
      BY <1>0, <3>1, <3>2 DEF StreamsInStep
    <3> QED  BY <3>1, <3>3
  <2>2. CASE f = last
    <3>1. k \in Nat /\ k >= 1 /\ k <= m_output_symbol_count + n
      <4>1. frames'[last] \in FrameSet
        BY <1>5, Element
      <4>2. DOMAIN frames'[last].symbols = 1..(m_output_symbol_count + n)
        BY <1>5, <4>1 DEF FrameSet
      <4> QED  BY <1>6, <2>2, <4>2
    <3>2. CASE k <= m_output_symbol_count
      <4>1. m_output_symbol_count # 0 /\ k \in 1..m_output_symbol_count
        BY <1>6, <3>1, <3>2
      <4>2. k \in DOMAIN frames[last].symbols /\ last \in DOMAIN frames
        <5>1. last \in DOMAIN frames /\ Underway(last)
          BY <1>5, <1>6, <1>8, <4>1
        <5>2. frames[last].symbols \in Seq(Seq(SymbolSet))
          BY <1>0, <5>1, FrameTyped
        <5>3. Len(frames[last].symbols) = m_output_symbol_count
          BY <5>1 DEF Underway
        <5> QED  BY <4>1, <5>1, <5>2, <5>3
      <4>3. frames[last].symbols[k] = [i \in DOMAIN frames[last].streams |->
                                         Symbol(frames[last].streams[i], frames[last].work, k)]
        BY <1>0, <4>2 DEF StreamsInStep
      <4>4. /\ frames'[last].symbols[k] = frames[last].symbols[k]
            /\ frames'[last].streams = frames[last].streams
            /\ frames'[last].work = frames[last].work
        BY <1>5, <4>1
      <4> QED  BY <2>2, <4>3, <4>4
    <3>3. CASE k > m_output_symbol_count
      <4>1. k - m_output_symbol_count \in 1..n
            /\ m_output_symbol_count + (k - m_output_symbol_count) = k
        BY <1>6, <3>1, <3>3
      <4>2. frames'[last].symbols[k] = Combined(m_rrh_params', k)
        BY <1>5, <4>1
      <4>3. \A i \in DOMAIN m_rrh_params' :
              m_rrh_params'[i].rx_samples[k] = Symbol(m_rrh_params'[i].rrh_id, m_work_id', k)
        BY <1>17, <3>1
      <4>4. /\ frames'[last].streams = [i \in DOMAIN m_rrh_params' |-> m_rrh_params'[i].rrh_id]
            /\ frames'[last].work = m_work_id'
        BY <1>5
      <4>5. /\ DOMAIN frames'[last].streams = DOMAIN m_rrh_params'
            /\ \A i \in DOMAIN m_rrh_params' :
                 frames'[last].streams[i] = m_rrh_params'[i].rrh_id
        BY <4>4
      <4>6. Combined(m_rrh_params', k)
              = [i \in DOMAIN m_rrh_params' |->
                   Symbol(m_rrh_params'[i].rrh_id, m_work_id', k)]
        BY <4>3 DEF Combined
      <4>7. [i \in DOMAIN m_rrh_params' |-> Symbol(m_rrh_params'[i].rrh_id, m_work_id', k)]
              = [i \in DOMAIN frames'[last].streams |->
                   Symbol(frames'[last].streams[i], frames'[last].work, k)]
        BY <4>4, <4>5
      <4> QED  BY <2>2, <4>2, <4>6, <4>7
    <3>4. k <= m_output_symbol_count \/ k > m_output_symbol_count
      BY <1>6, <3>1
    <3> QED  BY <3>2, <3>3, <3>4
  <2> QED  BY <2>1, <2>2
<1> QED
  BY <1>9, <1>10, <1>11, <1>12, <1>13, <1>14, <1>15, <1>16, <1>18, <1>19 DEF IInv

(* The rest of general_work.                                               *)
LEMMA CombineKeeps ==
  ASSUME InTime, IInv, NEW waiting, Received(waiting), WorkLeaves, ~m_work_done, Combine(waiting)
  PROVE  IInv'
<1>0. m_work_done = FALSE
  BY DEF IInv, Shape
<1>1. Gathered(m_rrh_params', m_first_rrh_time_received', waiting, m_work_id') /\ waiting \in BOOLEAN
  BY DEF Received
<1>2. CASE /\ m_first_rrh_time_received' => waiting
           /\ m_waiting' = waiting
           /\ UNCHANGED <<m_output_symbol_count, m_work_done, frames>>
  BY <1>0, <1>1, <1>2, NothingOutput
<1>3. ASSUME m_first_rrh_time_received', waiting => TimeIsUp(m_work_id', m_rrh_params'),
             m_waiting' = FALSE,
             NEW n, n = SymbolsToOutput(m_rrh_params', m_decoded_header'),
             m_output_symbol_count' = m_output_symbol_count + n,
             frames' = IF n = 0 THEN frames
                       ELSE WithSymbols(Begun(m_work_id', m_rrh_params'), m_rrh_params', n),
             m_work_done' = (n > 0 /\ m_decoded_header' /\ m_output_symbol_count' = m_symb_numb)
      PROVE  IInv'
  <2>1. m_rrh_params' # <<>>
    BY <1>1, <1>3 DEF Gathered
  <2>2. /\ n \in Nat
        /\ \A i \in DOMAIN m_rrh_params' :
             m_output_symbol_count + n <= Len(m_rrh_params'[i].rx_samples)
        /\ ~m_decoded_header' => m_output_symbol_count + n <= HEADER_SYMBOLS
        /\ m_decoded_header' => /\ m_output_symbol_count # 0
                                /\ m_output_symbol_count + n <= m_symb_numb
    BY <1>3, <2>1, OutputNumber
  <2>3. Gathered(m_rrh_params', m_first_rrh_time_received', FALSE, m_work_id')
    <3>1. waiting => StreamsOf(m_work_id') \subseteq Ids(m_rrh_params')
      BY <1>3 DEF TimeIsUp, InTime, Assumptions, StreamsOf, Ids
    <3> QED  BY <1>1, <2>1, <3>1 DEF Gathered
  <2>4. CASE n = 0
    <3>1. UNCHANGED <<m_output_symbol_count, frames>>
      <4>1. m_output_symbol_count \in Nat
        BY DEF IInv, Shape
      <4> QED  BY <1>3, <2>4, <4>1
    <3>2. m_work_done' = FALSE /\ m_waiting' \in BOOLEAN
      <4>1. ~(n > 0)
        BY <2>4
      <4> QED  BY <1>3, <4>1
    <3> QED  BY <1>3, <2>3, <3>1, <3>2, NothingOutput
  <2>5. CASE n # 0
    <3>1. n > 0 /\ frames' = WithSymbols(Begun(m_work_id', m_rrh_params'), m_rrh_params', n)
      BY <1>3, <2>2, <2>5
    <3>2. m_work_done' = (m_decoded_header' /\ m_output_symbol_count' = m_symb_numb)
      BY <1>3, <3>1
    <3> QED  BY <1>3, <2>1, <2>2, <2>3, <3>1, <3>2, SymbolsOutput
  <2> QED  BY <2>4, <2>5
<1> QED  BY <1>2, <1>3 DEF Combine

Receives(waiting) == Received(waiting) /\ WorkLeaves /\ ~m_work_done /\ Combine(waiting)

(* Without a message nothing is received.                                  *)
LEMMA NothingReceived == ASSUME IInv, WorkOnNothing PROVE Receives(m_waiting)
<1>1. /\ ~m_work_done /\ Combine(m_waiting)
      /\ UNCHANGED <<m_rrh_params, m_first_rrh_time_received, m_work_id, m_decoded_header>>
      /\ UNCHANGED <<m_symb_numb, senderVars, chainVars, handled>>
  BY DEF WorkOnNothing
<1>2. WorkLeaves
  BY <1>1 DEF WorkLeaves, senderVars
<1>3. /\ Shape /\ Life /\ Succession
      /\ Gathered(m_rrh_params, m_first_rrh_time_received, m_waiting, m_work_id)
      /\ Tags(m_rrh_params, m_work_id, m_input_socket)
      /\ \A s \in SyncWorkers : Contiguous(s, m_input_socket[s], Latest(s))
      /\ InStep(m_rrh_params, m_work_id, m_input_socket)
  BY DEF IInv
<1>4. m_output_symbol_count = 0 /\ m_rrh_params # <<>> =>
        ~m_decoded_header /\ \A f \in DOMAIN frames : frames[f].work < m_work_id
  BY <1>3 DEF Life, Begins, Succession
<1>5. Received(m_waiting)
  BY <1>1, <1>3, <1>4 DEF Received, Shape, senderVars
<1> QED  BY <1>1, <1>2, <1>5 DEF Receives

-----------------------------------------------------------------------------
(* The tag of a message is that of no other message.                       *)
Others(m, queue) == m.tag # None => \A j \in DOMAIN queue : queue[j].tag # m.tag

(* A message is taken from its socket: what it says, and what is left.     *)
LEMMA Taken ==
  ASSUME IInv, NEW s \in SyncWorkers, m_input_socket[s] # <<>>,
         m_input_socket' = [m_input_socket EXCEPT ![s] = Tail(@)],
         NEW m, m = Head(m_input_socket[s])
  PROVE  /\ m_input_socket' \in [SyncWorkers -> Seq(Messages)]
         /\ \A x \in SyncWorkers : Len(m_input_socket'[x]) <= QueueLimit
         /\ \A x \in SyncWorkers \ {s} : m_input_socket'[x] = m_input_socket[x]
         /\ \A x \in SyncWorkers : Contiguous(x, m_input_socket'[x], Latest(x))
         /\ m \in Messages /\ m = m_input_socket[s][1] /\ Sound(s, m)
         /\ m_input_socket'[s] = <<>> => End(m) = Latest(s)
         /\ m_input_socket'[s] # <<>> => Follows(End(m), m_input_socket'[s][1])
         /\ m.tag # None => TagExpected(s, m.tag, m_rrh_params, m_work_id)
         /\ Tags(m_rrh_params, m_work_id, m_input_socket')
         /\ Others(m, m_input_socket'[s])
<1> DEFINE q == m_input_socket[s]
<1>1. /\ m_input_socket \in [SyncWorkers -> Seq(Messages)] /\ q \in Seq(Messages)
      /\ \A x \in SyncWorkers : Len(m_input_socket[x]) <= QueueLimit
      /\ \A x \in SyncWorkers : TagsOf(x, m_input_socket[x], m_rrh_params, m_work_id)
      /\ \A x \in SyncWorkers : Contiguous(x, m_input_socket[x], Latest(x))
  BY DEF IInv, Shape, Tags
<1>2. /\ \A x \in SyncWorkers \ {s} : m_input_socket'[x] = m_input_socket[x]
      /\ m_input_socket'[s] = Tail(q) /\ DOMAIN m_input_socket' = SyncWorkers
  BY <1>1
<1>3. /\ Tail(q) \in Seq(Messages) /\ Len(Tail(q)) = Len(q) - 1
      /\ m = q[1] /\ 1 \in DOMAIN q /\ m \in Messages
      /\ \A i \in DOMAIN Tail(q) : i \in Nat /\ i + 1 \in DOMAIN q /\ Tail(q)[i] = q[i + 1]
      /\ Len(q) \in Nat
  BY <1>1, Shifted
<1>4. m_input_socket' \in [SyncWorkers -> Seq(Messages)]
  BY <1>1, <1>2, <1>3
<1>5. \A x \in SyncWorkers : Len(m_input_socket'[x]) <= QueueLimit
  <2>1. Len(Tail(q)) <= QueueLimit
    <3>1. Len(q) <= QueueLimit /\ QueueLimit \in Nat
      BY <1>1, CombiningAssumption
    <3> QED  BY <1>3, <3>1
  <2> QED  BY <1>1, <1>2, <2>1
<1>6. /\ Contiguous(s, Tail(q), Latest(s)) /\ Sound(s, q[1])
      /\ Tail(q) = <<>> => End(q[1]) = Latest(s)
      /\ Tail(q) # <<>> => Follows(End(q[1]), Tail(q)[1])
  BY <1>1, ContiguousTail
<1>7. \A x \in SyncWorkers : Contiguous(x, m_input_socket'[x], Latest(x))
  BY <1>1, <1>2, <1>6
<1>8. m.tag # None => TagExpected(s, m.tag, m_rrh_params, m_work_id)
  BY <1>1, <1>3 DEF TagsOf
<1>9. TagsOf(s, Tail(q), m_rrh_params, m_work_id)
  <2>1. ASSUME NEW j \in DOMAIN Tail(q), NEW k \in DOMAIN Tail(q),
               Tail(q)[j].tag = Tail(q)[k].tag, Tail(q)[j].tag # None
        PROVE  j = k
    <3>1. j + 1 = k + 1 /\ j \in Nat /\ k \in Nat
      BY <1>1, <1>3, <2>1 DEF TagsOf
    <3> QED  BY <3>1
  <2> QED  BY <1>1, <1>3, <2>1 DEF TagsOf
<1>10. Tags(m_rrh_params, m_work_id, m_input_socket')
  BY <1>1, <1>2, <1>9 DEF Tags
<1>11. ASSUME m.tag # None, NEW j \in DOMAIN Tail(q) PROVE Tail(q)[j].tag # m.tag
  <2>1. j \in Nat /\ j + 1 # 1 /\ j + 1 \in DOMAIN q /\ Tail(q)[j] = q[j + 1]
    <3>1. j \in DOMAIN Tail(q) => j >= 1
      BY <1>3
    <3>2. j \in Nat /\ j + 1 \in DOMAIN q /\ Tail(q)[j] = q[j + 1]
      BY <1>3, <1>11
    <3> QED  BY <1>11, <3>1, <3>2
  <2> QED  BY <1>1, <1>3, <1>11, <2>1 DEF TagsOf
<1>12. Others(m, Tail(q))
  BY <1>11 DEF Others
<1> QED  BY <1>2, <1>3, <1>4, <1>5, <1>6, <1>7, <1>8, <1>10, <1>12

(* A message that changes the streams' samples only.                       *)
LEMMA SameStreams ==
  ASSUME IInv,
         UNCHANGED <<m_first_rrh_time_received, m_work_id, m_decoded_header>>,
         m_input_socket' \in [SyncWorkers -> Seq(Messages)],
         \A x \in SyncWorkers : Len(m_input_socket'[x]) <= QueueLimit,
         \A x \in SyncWorkers : Contiguous(x, m_input_socket'[x], Latest(x)),
         Tags(m_rrh_params, m_work_id, m_input_socket'),
         m_rrh_params' \in Seq(RrhParams), DOMAIN m_rrh_params' = DOMAIN m_rrh_params,
         \A i \in DOMAIN m_rrh_params : m_rrh_params'[i].rrh_id = m_rrh_params[i].rrh_id,
         InStep(m_rrh_params', m_work_id', m_input_socket')
  PROVE  Received(m_waiting)
<1>1. /\ Shape /\ Life /\ Succession
      /\ Gathered(m_rrh_params, m_first_rrh_time_received, m_waiting, m_work_id)
  BY DEF IInv
<1>2. m_rrh_params \in Seq(RrhParams)
  BY <1>1 DEF Shape
<1>3. /\ Ids(m_rrh_params') = Ids(m_rrh_params)
      /\ [i \in DOMAIN m_rrh_params' |-> m_rrh_params'[i].rrh_id]
           = [i \in DOMAIN m_rrh_params |-> m_rrh_params[i].rrh_id]
  BY DEF Ids
<1>4. Len(m_rrh_params') = Len(m_rrh_params) /\ (m_rrh_params' = <<>> <=> m_rrh_params = <<>>)
  <2>1. Len(m_rrh_params') \in Nat /\ Len(m_rrh_params) \in Nat
        /\ 1..Len(m_rrh_params') = 1..Len(m_rrh_params)
    BY <1>2
  <2>2. Len(m_rrh_params') = Len(m_rrh_params)
    BY <2>1
  <2> QED  BY <1>2, <2>2, EmptySeq
<1>5. Gathered(m_rrh_params', m_first_rrh_time_received', m_waiting, m_work_id')
  BY <1>1, <1>3, <1>4 DEF Gathered
<1>6. Tags(m_rrh_params', m_work_id', m_input_socket')
  BY <1>3, <1>4 DEF Tags, TagsOf, TagExpected
<1>7. m_output_symbol_count = 0 /\ m_rrh_params' # <<>> =>
        ~m_decoded_header' /\ \A f \in DOMAIN frames : frames[f].work < m_work_id'
  BY <1>1, <1>4 DEF Life, Begins, Succession
<1> QED  BY <1>1, <1>3, <1>5, <1>6, <1>7 DEF Received, Shape

Extended(i, m) == m_rrh_params[i].rx_samples \o m.samples

(* The samples of a message are added to those of a stream.                *)
LEMMA ExtendedSamples ==
  ASSUME IInv, NEW i \in DOMAIN m_rrh_params, NEW m \in Messages
  PROVE  /\ Extended(i, m) \in Seq(SymbolSet) /\ m_output_symbol_count <= Len(Extended(i, m))
         /\ Len(Extended(i, m)) = Len(m_rrh_params[i].rx_samples) + Len(m.samples)
         /\ Len(m_rrh_params[i].rx_samples) \in Nat /\ Len(m.samples) \in Nat
         /\ \A k \in DOMAIN m_rrh_params[i].rx_samples : Extended(i, m)[k] = m_rrh_params[i].rx_samples[k]
         /\ \A k \in DOMAIN m.samples : Extended(i, m)[Len(m_rrh_params[i].rx_samples) + k] = m.samples[k]
         /\ \A k \in DOMAIN Extended(i, m) : \/ k \in DOMAIN m_rrh_params[i].rx_samples
                                   \/ k - Len(m_rrh_params[i].rx_samples) \in DOMAIN m.samples
         /\ \A k \in 1..m_output_symbol_count :
              Extended(i, m)[k] = Symbol(m_rrh_params[i].rrh_id, m_work_id, k)
<1> DEFINE rx == m_rrh_params[i].rx_samples
           samples == m.samples
           count == m_output_symbol_count
           both == Extended(i, m)
<1>1. rx \in Seq(SymbolSet) /\ samples \in Seq(SymbolSet) /\ count \in Nat
  <2>1. m_rrh_params \in Seq(RrhParams) /\ count \in Nat
    BY DEF IInv, Shape
  <2>2. m_rrh_params[i] \in RrhParams
    BY <2>1, Element
  <2> QED  BY <2>1, <2>2 DEF RrhParams, Messages
<1>2. count <= Len(rx) /\ \A k \in 1..count : rx[k] = Symbol(m_rrh_params[i].rrh_id, m_work_id, k)
  BY DEF IInv, InStep, InStepWith
<1>3. both = rx \o samples
  BY DEF Extended
<1> HIDE DEF rx, samples, count, both
<1>4. /\ both \in Seq(SymbolSet) /\ Len(both) = Len(rx) + Len(samples)
      /\ Len(rx) \in Nat /\ Len(samples) \in Nat
      /\ \A k \in DOMAIN rx : k \in DOMAIN both /\ both[k] = rx[k]
      /\ \A k \in DOMAIN samples : Len(rx) + k \in DOMAIN both /\ both[Len(rx) + k] = samples[k]
      /\ \A k \in DOMAIN both : k \in DOMAIN rx \/ k - Len(rx) \in DOMAIN samples
  BY <1>1, <1>3, Joined
<1>5. count <= Len(both)
  BY <1>1, <1>2, <1>4
<1>6. \A k \in 1..count : k \in DOMAIN rx
  BY <1>1, <1>2, <1>4
<1>7. \A k \in 1..count : both[k] = Symbol(m_rrh_params[i].rrh_id, m_work_id, k)
  BY <1>2, <1>4, <1>6
<1> QED  BY <1>4, <1>5, <1>7 DEF rx, samples, count, both

(* The streams when a message is stored.                                   *)
LEMMA StoredStreams ==
  ASSUME IInv, NEW i \in DOMAIN m_rrh_params, NEW m \in Messages, m_rrh_params' = Stored(i, m)
  PROVE  /\ m_rrh_params' \in Seq(RrhParams) /\ DOMAIN m_rrh_params' = DOMAIN m_rrh_params
         /\ \A j \in DOMAIN m_rrh_params : m_rrh_params'[j].rrh_id = m_rrh_params[j].rrh_id
         /\ \A j \in DOMAIN m_rrh_params : j # i => m_rrh_params'[j] = m_rrh_params[j]
         /\ m_rrh_params'[i].rx_samples = Extended(i, m)
<1> DEFINE both == Extended(i, m)
           e == [m_rrh_params[i] EXCEPT !.rx_samples = both]
<1>1. both \in Seq(SymbolSet)
  BY ExtendedSamples
<1>2. m_rrh_params \in Seq(RrhParams)
  BY DEF IInv, Shape
<1>3. m_rrh_params[i] \in RrhParams
  BY <1>2, Element
<1>4. m_rrh_params' = [m_rrh_params EXCEPT ![i] = e]
  BY DEF Stored, Extended
<1> HIDE DEF both
<1>5. e \in RrhParams /\ e.rrh_id = m_rrh_params[i].rrh_id /\ e.rx_samples = both
  BY <1>1, <1>3 DEF RrhParams
<1> HIDE DEF e
<1>6. m_rrh_params' \in Seq(RrhParams) /\ DOMAIN m_rrh_params' = DOMAIN m_rrh_params
  BY <1>2, <1>4, <1>5
<1>7. /\ \A j \in DOMAIN m_rrh_params : j # i => m_rrh_params'[j] = m_rrh_params[j]
      /\ m_rrh_params'[i] = e
  BY <1>2, <1>4
<1> QED  BY <1>5, <1>6, <1>7 DEF both

(* Samples of a stream whose work is not finished continue it.             *)
LEMMA SamplesContinue ==
  ASSUME IInv, NEW s \in SyncWorkers, m_input_socket[s] # <<>>,
         NEW m \in Messages, m = m_input_socket[s][1], Sound(s, m), m.tag = None,
         NEW i \in DOMAIN m_rrh_params, m_rrh_params[i].rrh_id = s, m_work_id \notin finished
  PROVE  /\ \A k \in DOMAIN Extended(i, m) : Extended(i, m)[k] = Symbol(s, m_work_id, k)
         /\ Symbol(s, m_work_id, Len(Extended(i, m))) = End(m)
<1> DEFINE both == Extended(i, m)
           rx == m_rrh_params[i].rx_samples
           c == Len(rx)
           n == Len(m.samples)
<1>1. /\ both \in Seq(SymbolSet) /\ Len(both) = c + n /\ c \in Nat /\ n \in Nat
      /\ \A k \in DOMAIN rx : both[k] = rx[k]
      /\ \A k \in DOMAIN m.samples : both[c + k] = m.samples[k]
      /\ \A k \in DOMAIN both : k \in DOMAIN rx \/ k - c \in DOMAIN m.samples
  BY ExtendedSamples
<1>2. /\ \A k \in DOMAIN rx : rx[k] = Symbol(s, m_work_id, k)
      /\ Follows(Symbol(s, m_work_id, c), m)
  BY DEF IInv, InStep, InStepWith
<1>3. First(m) = Symbol(s, m_work_id, c + 1)
  BY <1>2 DEF Follows, Symbol
<1>4. PICK w \in Works \cup {None}, from \in Nat :
        \A k \in DOMAIN m.samples : m.samples[k] = Symbol(s, w, from + k)
  BY DEF Sound
<1>5. m.samples \in Seq(SymbolSet) /\ n >= 1
  BY DEF Messages, Sound
<1>6. DOMAIN m.samples = 1..n /\ 1 \in DOMAIN m.samples /\ n \in DOMAIN m.samples
  BY <1>1, <1>5
<1>7. w = m_work_id /\ from = c
  <2>1. Symbol(s, w, from + 1) = Symbol(s, m_work_id, c + 1)
    BY <1>3, <1>4, <1>6 DEF First
  <2>2. w = m_work_id /\ from + 1 = c + 1
    BY <2>1 DEF Symbol
  <2> HIDE DEF c
  <2> QED  BY <1>1, <2>2
<1>8. \A k \in DOMAIN m.samples : m.samples[k] = Symbol(s, m_work_id, c + k)
  BY <1>4, <1>7
<1> HIDE DEF c, rx, both
<1>9. ASSUME NEW k \in DOMAIN both PROVE both[k] = Symbol(s, m_work_id, k)
  <2>1. CASE k \in DOMAIN rx
    BY <1>1, <1>2, <2>1
  <2>2. CASE k - c \in DOMAIN m.samples
    <3>1. k \in Nat /\ c + (k - c) = k
      BY <1>1, <1>9
    <3>2. both[c + (k - c)] = Symbol(s, m_work_id, c + (k - c))
      BY <1>1, <1>8, <2>2
    <3> QED  BY <3>1, <3>2
  <2> QED  BY <1>1, <1>9, <2>1, <2>2
<1>10. End(m) = Symbol(s, m_work_id, Len(both))
  <2>1. End(m) = Symbol(s, m_work_id, c + n)
    BY <1>6, <1>8 DEF End
  <2>2. Len(both) = c + n
    BY <1>1
  <2> QED  BY <2>1, <2>2
<1> QED  BY <1>9, <1>10 DEF both

(* A message is stored with the stream that it belongs to, or with any     *)
(* when the work is finished: the streams stay in step.                    *)
LEMMA StoredKeeps ==
  ASSUME IInv, NEW s \in SyncWorkers, m_input_socket[s] # <<>>,
         m_input_socket' = [m_input_socket EXCEPT ![s] = Tail(@)],
         NEW m, m = Head(m_input_socket[s]),
         NEW i \in DOMAIN m_rrh_params, m_rrh_params' = Stored(i, m),
         UNCHANGED <<m_first_rrh_time_received, m_work_id, m_decoded_header>>,
         m_work_id \in finished \/ (m_rrh_params[i].rrh_id = s /\ m.tag = None)
  PROVE  Received(m_waiting)
<1>1. /\ m_input_socket' \in [SyncWorkers -> Seq(Messages)]
      /\ \A x \in SyncWorkers : Len(m_input_socket'[x]) <= QueueLimit
      /\ \A x \in SyncWorkers \ {s} : m_input_socket'[x] = m_input_socket[x]
      /\ \A x \in SyncWorkers : Contiguous(x, m_input_socket'[x], Latest(x))
      /\ m \in Messages /\ m = m_input_socket[s][1] /\ Sound(s, m)
      /\ m_input_socket'[s] = <<>> => End(m) = Latest(s)
      /\ m_input_socket'[s] # <<>> => Follows(End(m), m_input_socket'[s][1])
      /\ Tags(m_rrh_params, m_work_id, m_input_socket')
  BY Taken
<1>2. /\ m_rrh_params' \in Seq(RrhParams) /\ DOMAIN m_rrh_params' = DOMAIN m_rrh_params
      /\ \A j \in DOMAIN m_rrh_params : m_rrh_params'[j].rrh_id = m_rrh_params[j].rrh_id
      /\ \A j \in DOMAIN m_rrh_params : j # i => m_rrh_params'[j] = m_rrh_params[j]
      /\ m_rrh_params'[i].rx_samples = Extended(i, m)
  BY <1>1, StoredStreams
<1>3. ASSUME NEW j \in DOMAIN m_rrh_params'
      PROVE  InStepWith(m_rrh_params'[j].rrh_id, m_rrh_params'[j].rx_samples, m_work_id',
                        m_input_socket'[m_rrh_params'[j].rrh_id])
  <2> DEFINE id == m_rrh_params[j].rrh_id
  <2>1. InStepWith(id, m_rrh_params[j].rx_samples, m_work_id, m_input_socket[id])
    BY <1>2, <1>3 DEF IInv, InStep
  <2>2. id \in SyncWorkers
    BY <1>2, <1>3, IdsTyped DEF IInv, Shape
  <2>3. CASE j = i
    <3> DEFINE both == Extended(i, m)
    <3>1. /\ m_output_symbol_count <= Len(both)
          /\ \A k \in 1..m_output_symbol_count : both[k] = Symbol(id, m_work_id, k)
      <4>1. m \in Messages
        BY <1>1
      <4>2. /\ m_output_symbol_count <= Len(Extended(i, m))
            /\ \A k \in 1..m_output_symbol_count :
                 Extended(i, m)[k] = Symbol(m_rrh_params[i].rrh_id, m_work_id, k)
        BY <4>1, ExtendedSamples
      <4> QED  BY <2>3, <4>2
    <3>2. m_work_id \notin finished =>
            /\ id = s
            /\ \A k \in DOMAIN both : both[k] = Symbol(s, m_work_id, k)
            /\ Symbol(s, m_work_id, Len(both)) = End(m)
      BY <1>1, <2>3, SamplesContinue
    <3> HIDE DEF both
    <3>3. InStepWith(id, both, m_work_id, m_input_socket'[id])
      BY <1>1, <3>1, <3>2 DEF InStepWith
    <3> QED  BY <1>2, <2>3, <3>3 DEF both
  <2>4. CASE j # i
    <3>1. m_rrh_params'[j] = m_rrh_params[j]
      BY <1>2, <1>3, <2>4
    <3>2. CASE id = s
      <4>1. m_work_id \in finished
        <5>1. m_rrh_params[i].rrh_id # s
          BY <1>2, <1>3, <2>4, <3>2 DEF IInv, Gathered
        <5> QED  BY <5>1
      <4> QED  BY <2>1, <3>1, <4>1 DEF InStepWith
    <3>3. CASE id # s
      BY <1>1, <2>1, <2>2, <3>1, <3>3
    <3> QED  BY <3>2, <3>3
  <2> QED  BY <2>3, <2>4
<1>4. InStep(m_rrh_params', m_work_id', m_input_socket')
  BY <1>3 DEF InStep
<1> QED  BY <1>1, <1>2, <1>4, SameStreams

(* A message is thrown away.                                               *)
LEMMA IgnoredKeeps ==
  ASSUME IInv, NEW s \in SyncWorkers, m_input_socket[s] # <<>>,
         m_input_socket' = [m_input_socket EXCEPT ![s] = Tail(@)],
         UNCHANGED <<m_rrh_params, m_first_rrh_time_received, m_work_id, m_decoded_header>>,
         IsNewStream(s)
  PROVE  Received(m_waiting)
<1>1. /\ m_input_socket' \in [SyncWorkers -> Seq(Messages)]
      /\ \A x \in SyncWorkers : Len(m_input_socket'[x]) <= QueueLimit
      /\ \A x \in SyncWorkers \ {s} : m_input_socket'[x] = m_input_socket[x]
      /\ \A x \in SyncWorkers : Contiguous(x, m_input_socket'[x], Latest(x))
      /\ Tags(m_rrh_params, m_work_id, m_input_socket')
  BY Taken
<1>2. m_rrh_params \in Seq(RrhParams)
  BY DEF IInv, Shape
<1>3. InStep(m_rrh_params', m_work_id', m_input_socket')
  <2>1. \A i \in DOMAIN m_rrh_params :
          m_rrh_params[i].rrh_id \in SyncWorkers \ {s}
    BY <1>2, IdsTyped DEF IsNewStream
  <2>2. InStep(m_rrh_params, m_work_id, m_input_socket)
    BY DEF IInv
  <2> QED  BY <1>1, <2>1, <2>2 DEF InStep
<1> QED  BY <1>1, <1>2, <1>3, SameStreams

(* A message opens one more stream, or the first.                          *)
LEMMA JoinsKeeps ==
  ASSUME IInv, NEW s \in SyncWorkers, m_input_socket[s] # <<>>,
         m_input_socket' = [m_input_socket EXCEPT ![s] = Tail(@)],
         NEW m, m = Head(m_input_socket[s]), IsNewStream(s), Accepted(m),
         m_rrh_params' = Append(m_rrh_params, [rrh_id |-> s, rx_samples |-> m.samples]),
         m_first_rrh_time_received' = ClockAfter(m),
         m_work_id' = IF IsFirst(m) THEN m.tag ELSE m_work_id,
         m_decoded_header' = StillDecoded(m)
  PROVE  Received(Opened(m))
<1> DEFINE e == [rrh_id |-> s, rx_samples |-> m.samples]
<1>0. /\ Shape /\ Life /\ Succession
      /\ Gathered(m_rrh_params, m_first_rrh_time_received, m_waiting, m_work_id)
      /\ InStep(m_rrh_params, m_work_id, m_input_socket)
  BY DEF IInv
<1>1. /\ m_input_socket' \in [SyncWorkers -> Seq(Messages)]
      /\ \A x \in SyncWorkers : Len(m_input_socket'[x]) <= QueueLimit
      /\ \A x \in SyncWorkers \ {s} : m_input_socket'[x] = m_input_socket[x]
      /\ \A x \in SyncWorkers : Contiguous(x, m_input_socket'[x], Latest(x))
      /\ m \in Messages /\ Sound(s, m)
      /\ m_input_socket'[s] = <<>> => End(m) = Latest(s)
      /\ m_input_socket'[s] # <<>> => Follows(End(m), m_input_socket'[s][1])
      /\ m.tag # None => TagExpected(s, m.tag, m_rrh_params, m_work_id)
      /\ Tags(m_rrh_params, m_work_id, m_input_socket')
      /\ m.tag # None => \A j \in DOMAIN m_input_socket'[s] : m_input_socket'[s][j].tag # m.tag
  <2>1. /\ m_input_socket' \in [SyncWorkers -> Seq(Messages)]
        /\ \A x \in SyncWorkers : Len(m_input_socket'[x]) <= QueueLimit
        /\ \A x \in SyncWorkers \ {s} : m_input_socket'[x] = m_input_socket[x]
        /\ \A x \in SyncWorkers : Contiguous(x, m_input_socket'[x], Latest(x))
        /\ Tags(m_rrh_params, m_work_id, m_input_socket')
    BY Taken
  <2>2. /\ m \in Messages /\ Sound(s, m)
        /\ m_input_socket'[s] = <<>> => End(m) = Latest(s)
        /\ m_input_socket'[s] # <<>> => Follows(End(m), m_input_socket'[s][1])
    BY Taken
  <2>3. /\ m.tag # None => TagExpected(s, m.tag, m_rrh_params, m_work_id)
        /\ m.tag # None => \A j \in DOMAIN m_input_socket'[s] : m_input_socket'[s][j].tag # m.tag
    <3>1. m.tag # None => TagExpected(s, m.tag, m_rrh_params, m_work_id)
      BY Taken
    <3>2. Others(m, m_input_socket'[s])
      BY Taken
    <3> QED  BY <3>1, <3>2 DEF Others
  <2> QED  BY <2>1, <2>2, <2>3
<1>2. /\ m.tag # None /\ m.tag \in Works /\ m.samples \in Seq(SymbolSet)
      /\ Len(m_rrh_params) < MAX_COMBINED_RRH
      /\ TagExpected(s, m.tag, m_rrh_params, m_work_id)
  BY <1>1 DEF Accepted, Messages
<1>3. /\ m_rrh_params \in Seq(RrhParams) /\ e \in RrhParams
  BY <1>0, <1>2 DEF Shape, RrhParams
<1>4. /\ m_rrh_params' \in Seq(RrhParams) /\ m_rrh_params' # <<>>
      /\ Len(m_rrh_params) \in Nat /\ Len(m_rrh_params') = Len(m_rrh_params) + 1
      /\ \A i \in DOMAIN m_rrh_params : m_rrh_params'[i] = m_rrh_params[i]
      /\ m_rrh_params'[Len(m_rrh_params) + 1] = e
      /\ DOMAIN m_rrh_params' = DOMAIN m_rrh_params \cup {Len(m_rrh_params) + 1}
  <2> HIDE DEF e
  <2> QED  BY <1>3, Appended DEF e
<1>5. Ids(m_rrh_params') = Ids(m_rrh_params) \cup {s} /\ s \notin Ids(m_rrh_params)
  <2>1. \A i \in DOMAIN m_rrh_params' :
          \/ i \in DOMAIN m_rrh_params /\ m_rrh_params'[i].rrh_id = m_rrh_params[i].rrh_id
          \/ i = Len(m_rrh_params) + 1 /\ m_rrh_params'[i].rrh_id = s
    BY <1>4
  <2>2. Len(m_rrh_params) + 1 \in DOMAIN m_rrh_params'
    BY <1>4
  <2> QED  BY <1>4, <2>1, <2>2 DEF Ids, IsNewStream
<1>6. /\ m_output_symbol_count = 0 /\ m_work_id' = m.tag
      /\ m_first_rrh_time_received' = TRUE /\ Opened(m) = TRUE
      /\ m_rrh_params # <<>> => m_work_id = m.tag /\ m_decoded_header' = m_decoded_header
      /\ m_rrh_params = <<>> => m_decoded_header' = FALSE
  <2>1. CASE m_rrh_params = <<>>
    BY <1>0, <1>2, <2>1 DEF Gathered, IsFirst, ClockAfter, Opened, StillDecoded
  <2>2. CASE m_rrh_params # <<>>
    <3>1. m_waiting /\ m.tag = m_work_id /\ ~IsFirst(m)
      BY <2>2 DEF Accepted, IsFirst
    <3>2. m_output_symbol_count = 0 /\ m_first_rrh_time_received = TRUE
      BY <1>0, <2>2, <3>1 DEF Gathered, Shape
    <3>3. m_first_rrh_time_received' = TRUE /\ Opened(m) = TRUE
      BY <1>2, <3>1, <3>2 DEF ClockAfter, Opened, Shape
    <3>4. m_decoded_header' = m_decoded_header
      BY <1>0, <3>1 DEF StillDecoded, Shape
    <3> QED  BY <2>2, <3>1, <3>2, <3>3, <3>4
  <2> QED  BY <2>1, <2>2
<1>7. \A f \in DOMAIN frames : frames[f].work < m.tag
  <2> SUFFICES ASSUME NEW f \in DOMAIN frames PROVE frames[f].work < m.tag
    OBVIOUS
  <2> DEFINE w == frames[f].work
  <2>1. /\ w \in Works /\ w # m.tag /\ m.tag \notin finished /\ <<s, m.tag>> \in started
    BY <1>0, <1>2, FrameTyped DEF TagExpected
  <2>2. PICK x \in StreamsOf(w) : <<x, w>> \in started
    BY <1>0 DEF Succession
  <2> HIDE DEF w
  <2>3. w < m.tag
    BY <1>0, <1>2, <2>1, <2>2, LesserFinished
  <2> QED  BY <2>3 DEF w
<1>8. Gathered(m_rrh_params', m_first_rrh_time_received', Opened(m), m_work_id')
  <2>1. \A i, j \in DOMAIN m_rrh_params' : m_rrh_params'[i].rrh_id = m_rrh_params'[j].rrh_id => i = j
    <3>1. \A i \in DOMAIN m_rrh_params : m_rrh_params[i].rrh_id # s
      BY DEF IsNewStream
    <3>2. \A i, j \in DOMAIN m_rrh_params : m_rrh_params[i].rrh_id = m_rrh_params[j].rrh_id => i = j
      BY <1>0 DEF Gathered
    <3>3. m_rrh_params'[Len(m_rrh_params) + 1].rrh_id = s
      BY <1>4
    <3> QED  BY <1>4, <3>1, <3>2, <3>3
  <2>2. \A x \in Ids(m_rrh_params') : <<x, m.tag>> \in started
    <3>1. <<s, m.tag>> \in started
      BY <1>2 DEF TagExpected
    <3>2. \A x \in Ids(m_rrh_params) : <<x, m.tag>> \in started
      <4>1. CASE m_rrh_params = <<>>
        BY <4>1 DEF Ids
      <4>2. CASE m_rrh_params # <<>>
        BY <1>0, <1>6, <4>2 DEF Gathered
      <4> QED  BY <4>1, <4>2
    <3> QED  BY <1>5, <3>1, <3>2
  <2>3. Len(m_rrh_params') <= MAX_COMBINED_RRH
    BY <1>2, <1>4, CombiningAssumption
  <2> QED  BY <1>2, <1>4, <1>6, <2>1, <2>2, <2>3 DEF Gathered
<1>9. Tags(m_rrh_params', m_work_id', m_input_socket')
  <2>1. ASSUME NEW x \in SyncWorkers, NEW j \in DOMAIN m_input_socket'[x],
               m_input_socket'[x][j].tag # None
        PROVE  TagExpected(x, m_input_socket'[x][j].tag, m_rrh_params', m_work_id')
    <3> DEFINE v == m_input_socket'[x][j].tag
    <3>1. TagExpected(x, v, m_rrh_params, m_work_id)
      BY <1>1, <2>1 DEF Tags, TagsOf
    <3>2. x = s => v # m.tag
      BY <1>1, <1>2
    <3> HIDE DEF v
    <3>3. ~(m_rrh_params' # <<>> /\ m_work_id' = v /\ x \in Ids(m_rrh_params'))
      <4>1. CASE m_rrh_params = <<>>
        <5>1. Ids(m_rrh_params) = {}
          BY <4>1 DEF Ids
        <5> QED  BY <1>5, <1>6, <3>2, <5>1
      <4>2. CASE m_rrh_params # <<>>
        BY <1>5, <1>6, <3>1, <3>2, <4>2 DEF TagExpected
      <4> QED  BY <4>1, <4>2
    <3>4. TagExpected(x, v, m_rrh_params', m_work_id')
      BY <3>1, <3>3 DEF TagExpected
    <3> QED  BY <3>4 DEF v
  <2> QED  BY <1>1, <2>1 DEF Tags, TagsOf
<1>10. InStep(m_rrh_params', m_work_id', m_input_socket')
  <2>1. ASSUME NEW i \in DOMAIN m_rrh_params
        PROVE  InStepWith(m_rrh_params'[i].rrh_id, m_rrh_params'[i].rx_samples, m_work_id',
                          m_input_socket'[m_rrh_params'[i].rrh_id])
    <3>1. m_rrh_params # <<>> /\ m_rrh_params'[i] = m_rrh_params[i]
      BY <1>4
    <3>2. m_work_id' = m_work_id
      BY <1>6, <3>1
    <3>3. m_rrh_params[i].rrh_id \in SyncWorkers \ {s}
      BY <1>3, IdsTyped DEF IsNewStream
    <3> QED  BY <1>0, <1>1, <3>1, <3>2, <3>3 DEF InStep
  <2>2. InStepWith(s, m.samples, m.tag, m_input_socket'[s])
    <3>1. \A k \in DOMAIN m.samples : m.samples[k] = Symbol(s, m.tag, k)
      <4>1. PICK w \in Works \cup {None}, from \in Nat :
              /\ \A k \in DOMAIN m.samples : m.samples[k] = Symbol(s, w, from + k)
              /\ m.tag # None => w = m.tag /\ from = 0
        BY <1>1 DEF Sound
      <4>2. \A k \in DOMAIN m.samples : 0 + k = k
        BY <1>2
      <4> QED  BY <1>2, <4>1, <4>2
    <3>2. Len(m.samples) \in Nat /\ Len(m.samples) \in DOMAIN m.samples
      <4>1. Len(m.samples) >= 1
        BY <1>1 DEF Sound
      <4> QED  BY <1>2, <4>1
    <3>3. End(m) = Symbol(s, m.tag, Len(m.samples))
      BY <3>1, <3>2 DEF End
    <3> QED  BY <1>1, <1>6, <3>1, <3>2, <3>3 DEF InStepWith
  <2>3. \A i \in DOMAIN m_rrh_params' : i \in DOMAIN m_rrh_params \/ m_rrh_params'[i] = e
    BY <1>4
  <2> QED  BY <1>6, <2>1, <2>2, <2>3 DEF InStep
<1>11. m_output_symbol_count = 0 /\ m_rrh_params' # <<>> =>
         ~m_decoded_header' /\ \A f \in DOMAIN frames : frames[f].work < m_work_id'
  <2>1. ~m_decoded_header'
    BY <1>0, <1>6 DEF Life, Begins
  <2> QED  BY <1>6, <1>7, <2>1
<1>12. m_decoded_header' \in BOOLEAN
  BY <1>0, <1>6 DEF Shape
<1> QED  BY <1>1, <1>2, <1>4, <1>6, <1>8, <1>9, <1>10, <1>11, <1>12 DEF Received

(* There is room for every stream of a work.                               *)
LEMMA Room ==
  ASSUME InTime, IInv, m_rrh_params # <<>>, NEW s \in StreamsOf(m_work_id),
         s \notin Ids(m_rrh_params)
  PROVE  Len(m_rrh_params) < MAX_COMBINED_RRH
<1> DEFINE n == Len(m_rrh_params)
           ids == [i \in 1..n |-> m_rrh_params[i].rrh_id]
           others == StreamsOf(m_work_id) \ {s}
<1>1. /\ m_rrh_params \in Seq(RrhParams) /\ n \in Nat /\ DOMAIN m_rrh_params = 1..n
      /\ m_work_id \in Works /\ started \subseteq Streams
      /\ \A i, j \in DOMAIN m_rrh_params : m_rrh_params[i].rrh_id = m_rrh_params[j].rrh_id => i = j
      /\ \A x \in Ids(m_rrh_params) : <<x, m_work_id>> \in started
  BY DEF IInv, Shape, Gathered
<1>2. \A i \in 1..n : m_rrh_params[i].rrh_id \in others
  <2>1. \A i \in 1..n : m_rrh_params[i].rrh_id \in SyncWorkers /\ m_rrh_params[i].rrh_id \in Ids(m_rrh_params)
    BY <1>1, IdsTyped
  <2> QED  BY <1>1, <2>1 DEF StreamsOf
<1>3. IsFiniteSet(StreamsOf(m_work_id)) /\ Cardinality(StreamsOf(m_work_id)) <= MAX_COMBINED_RRH
  BY <1>1 DEF InTime
<1>4. /\ IsFiniteSet(others) /\ Cardinality(others) = Cardinality(StreamsOf(m_work_id)) - 1
      /\ Cardinality(StreamsOf(m_work_id)) \in Nat
  BY <1>3, FS_RemoveElement, FS_CardinalityType
<1>5. IsFiniteSet(1..n) /\ Cardinality(1..n) = n
  <2>1. 1 <= n \/ n = 0
    BY <1>1
  <2> HIDE DEF n
  <2> QED  BY <1>1, <2>1, FS_Interval
<1>6. ids \in Injection(1..n, others)
  BY <1>1, <1>2 DEF Injection, IsInjective
<1>7. n <= Cardinality(others)
  <2> HIDE DEF ids, others, n
  <2>1. Cardinality(1..n) <= Cardinality(others)
    BY <1>4, <1>5, <1>6, FS_Injection
  <2> QED  BY <1>5, <2>1
<1> HIDE DEF others, n
<1>8. n < MAX_COMBINED_RRH
  BY <1>1, <1>3, <1>4, <1>7, CombiningAssumption
<1> QED  BY <1>8 DEF n

(* With a message, whatever it is.                                         *)
LEMMA MessageReceived ==
  ASSUME InTime, IInv, NEW s \in SyncWorkers, WorkOnMessage(s)
  PROVE  \E waiting \in BOOLEAN : Receives(waiting)
<1> DEFINE m == Head(m_input_socket[s])
<1>0. /\ Shape /\ Succession
      /\ Gathered(m_rrh_params, m_first_rrh_time_received, m_waiting, m_work_id)
  BY DEF IInv
<1>1. /\ ~m_work_done /\ m_input_socket[s] # <<>>
      /\ ReceiveMessage(s, m) /\ Combine(Opened(m))
      /\ m_input_socket' = [m_input_socket EXCEPT ![s] = Tail(@)]
      /\ UNCHANGED <<m_symb_numb, sent, started, chainVars, handled>>
  BY DEF WorkOnMessage
<1>2. /\ m_rrh_params' \in ParamsAfter(s, m)
      /\ m_first_rrh_time_received' = ClockAfter(m)
      /\ m_work_id' = IF IsFirst(m) THEN m.tag ELSE m_work_id
      /\ m_decoded_header' = StillDecoded(m)
  BY <1>1 DEF ReceiveMessage
<1>3. m \in Messages /\ (m.tag # None => TagExpected(s, m.tag, m_rrh_params, m_work_id))
  BY <1>1, Taken
<1>4. /\ m_first_rrh_time_received \in BOOLEAN /\ m_waiting \in BOOLEAN
      /\ m_decoded_header \in BOOLEAN
  BY <1>0 DEF Shape
<1> HIDE DEF m
<1>5. m = Head(m_input_socket[s])
  BY DEF m
<1>6. ASSUME ~IsFirst(m)
      PROVE  /\ UNCHANGED <<m_first_rrh_time_received, m_work_id, m_decoded_header>>
             /\ Opened(m) = m_waiting
  <2>1. m_first_rrh_time_received' = m_first_rrh_time_received
    <3>1. ~(m_first_rrh_time_received /\ m_rrh_params = <<>>)
      BY <1>0 DEF Gathered
    <3> QED  BY <1>2, <1>4, <1>6, <3>1 DEF ClockAfter
  <2> QED  BY <1>2, <1>4, <1>6, <2>1 DEF StillDecoded, Opened
<1>7. CASE ~IsNewStream(s)
  <2>1. PICK i \in DOMAIN m_rrh_params :
          m_rrh_params[i].rrh_id = s /\ m_rrh_params' = Stored(i, m)
    BY <1>2, <1>7 DEF ParamsAfter
  <2>2. ~IsFirst(m)
    BY <1>0, <2>1 DEF IsFirst
  <2>3. m_rrh_params # <<>> /\ s \in Ids(m_rrh_params)
    BY <2>1 DEF Ids
  <2>4. m.tag # None => m_work_id \in finished
    <3>1. m_work_id \in Works /\ <<s, m_work_id>> \in started
      BY <1>0, <2>3 DEF Gathered
    <3>2. m.tag # None => /\ m.tag \in Works /\ m.tag # m_work_id
                          /\ <<s, m.tag>> \in started /\ m.tag \notin finished
      BY <1>3, <2>3 DEF TagExpected, Messages
    <3> QED  BY <1>0, <3>1, <3>2, LesserFinished
  <2>5. Received(m_waiting)
    BY <1>1, <1>5, <1>6, <2>1, <2>2, <2>4, StoredKeeps
  <2> QED  BY <1>1, <1>4, <1>6, <2>2, <2>5 DEF Receives, WorkLeaves
<1>8. CASE IsNewStream(s) /\ m.tag = None
  <2>1. m_rrh_params' = m_rrh_params /\ ~IsFirst(m)
    BY <1>2, <1>8 DEF ParamsAfter, IsFirst
  <2>2. Received(m_waiting)
    BY <1>1, <1>6, <1>8, <2>1, IgnoredKeeps
  <2> QED  BY <1>1, <1>4, <1>6, <2>1, <2>2 DEF Receives, WorkLeaves
<1>9. CASE IsNewStream(s) /\ m.tag # None /\ Accepted(m)
  <2>1. m_rrh_params' = Append(m_rrh_params, [rrh_id |-> s, rx_samples |-> m.samples])
    BY <1>2, <1>9 DEF ParamsAfter
  <2>2. Received(Opened(m))
    BY <1>1, <1>2, <1>5, <1>9, <2>1, JoinsKeeps
  <2>3. Opened(m) \in BOOLEAN
    BY <1>4 DEF Opened
  <2> QED  BY <1>1, <2>2, <2>3 DEF Receives, WorkLeaves
<1>10. CASE IsNewStream(s) /\ m.tag # None /\ ~Accepted(m)
  <2>1. PICK i \in DOMAIN m_rrh_params : m_rrh_params' = Stored(i, m)
    BY <1>2, <1>10 DEF ParamsAfter
  <2>2. m_rrh_params # <<>> /\ ~IsFirst(m)
    BY <2>1 DEF IsFirst
  <2>3. /\ m.tag \in Works /\ <<s, m.tag>> \in started /\ m.tag \notin finished
        /\ m_work_id \in Works /\ m_rrh_params[i].rrh_id \in Ids(m_rrh_params)
        /\ <<m_rrh_params[i].rrh_id, m_work_id>> \in started
    BY <1>0, <1>3, <1>10, <2>2 DEF TagExpected, Messages, Gathered, Ids
  <2>4. s \notin Ids(m_rrh_params)
    BY <1>10 DEF IsNewStream, Ids
  <2>5. m.tag # m_work_id
    <3> SUFFICES ASSUME m.tag = m_work_id PROVE FALSE
      OBVIOUS
    <3>1. s \in StreamsOf(m_work_id)
      BY <1>0, <2>3 DEF Shape, StreamsOf
    <3>2. m_waiting
      BY <1>0, <2>2, <2>4, <3>1 DEF Gathered
    <3>3. Len(m_rrh_params) < MAX_COMBINED_RRH
      BY <2>2, <2>4, <3>1, Room
    <3> QED  BY <1>10, <3>2, <3>3 DEF Accepted
  <2>6. m_work_id \in finished
    BY <1>0, <2>3, <2>5, LesserFinished
  <2>7. Received(m_waiting)
    BY <1>1, <1>5, <1>6, <2>1, <2>2, <2>6, StoredKeeps
  <2> QED  BY <1>1, <1>4, <1>6, <2>2, <2>7 DEF Receives, WorkLeaves
<1> QED  BY <1>7, <1>8, <1>9, <1>10

(* Every step keeps the invariant.                                         *)
LEMMA NextKeeps ==
  ASSUME InTime, IInv, [Next]_vars, frame_info_handler => HeaderLength # HEADER_SYMBOLS
  PROVE  IInv'
<1>1. ASSUME NEW s \in SyncWorkers, NEW w \in Works, StartStream(s, w) PROVE IInv'
  BY <1>1, StartStreamKeeps
<1>2. ASSUME NEW s \in SyncWorkers, ContinueStream(s) PROVE IInv'
  BY <1>2, ContinueStreamKeeps
<1>3. ASSUME NEW s \in SyncWorkers, WorkOnMessage(s) PROVE IInv'
  BY <1>3, MessageReceived, CombineKeeps DEF Receives
<1>4. CASE WorkOnNothing
  BY <1>4, NothingReceived, CombineKeeps DEF Receives
<1>5. CASE free_worker_for_next_work
  BY <1>5, FreeWorkerKeeps
<1>6. CASE frame_info_handler
  BY <1>6, HandlerKeeps
<1>7. CASE DecodeHeader
  BY <1>7, DecodeHeaderKeeps
<1>8. ASSUME NEW f \in DOMAIN frames, DemodDone(f) PROVE IInv'
  BY <1>8, DemodDoneKeeps
<1>9. CASE UNCHANGED vars
  <2>1. UNCHANGED <<combVars, senderVars, chainVars, handled, frames>>
    BY <1>9 DEF vars
  <2>2. /\ Shape' /\ Senders'
        /\ Gathered(m_rrh_params, m_first_rrh_time_received, m_waiting, m_work_id)'
    BY <2>1 DEF IInv, Shape, Senders, Gathered, Ids, combVars, senderVars, chainVars
  <2>3. Life'
    BY <2>1 DEF IInv, Life, Begins, Underway, HeaderAwaited, HeaderRejected, LengthKnown,
                combVars, senderVars, chainVars
  <2>4. Decoded' /\ Succession'
    BY <2>1 DEF IInv, Decoded, FrameEnded, Succession, Complete, combVars, senderVars, chainVars
  <2>5. Tags(m_rrh_params, m_work_id, m_input_socket)'
    BY <2>1 DEF IInv, Tags, TagsOf, TagExpected, Ids, combVars, senderVars, chainVars
  <2>6. \A s \in SyncWorkers : Contiguous(s, m_input_socket[s], Latest(s))'
    <3>1. \A s \in SyncWorkers : Contiguous(s, m_input_socket[s], Latest(s))
      BY DEF IInv
    <3>2. m_input_socket' = m_input_socket /\ sent' = sent
      BY <2>1 DEF combVars, senderVars
    <3>3. \A s \in SyncWorkers : Contiguous(s, m_input_socket'[s], Latest(s)')
      BY <3>1, <3>2 DEF Latest
    <3> QED  BY <3>3
  <2>7. InStep(m_rrh_params, m_work_id, m_input_socket)'
    BY <2>1 DEF IInv, InStep, InStepWith, Follows, First, Latest, combVars, senderVars, chainVars
  <2>8. StreamsInStep'
    BY <2>1 DEF IInv, StreamsInStep
  <2> QED  BY <2>2, <2>3, <2>4, <2>5, <2>6, <2>7, <2>8 DEF IInv
<1> QED  BY <1>1, <1>2, <1>3, <1>4, <1>5, <1>6, <1>7, <1>8, <1>9 DEF Next

-----------------------------------------------------------------------------
(* When a frame ends with its header, its eight symbols have been output   *)
(* before rx_combining learns so, and it never finds that the frame has    *)
(* ended: it goes on with the streams it has.                              *)
Overrun ==
  /\ m_decoded_header = TRUE /\ m_symb_numb = HEADER_SYMBOLS
  /\ m_work_done = FALSE /\ m_waiting = FALSE /\ m_first_rrh_time_received = TRUE
  /\ m_output_symbol_count \in Nat /\ m_output_symbol_count >= HEADER_SYMBOLS
  /\ m_rrh_params \in Seq(RrhParams) /\ m_rrh_params # <<>>
  /\ \A i \in DOMAIN m_rrh_params : m_output_symbol_count <= Len(m_rrh_params[i].rx_samples)
  /\ m_input_socket \in [SyncWorkers -> Seq(Messages)]
  /\ sent \in [SyncWorkers -> [work : Works \cup {None}, count : Nat]]
  /\ Len(headers) \in Nat /\ handled = Len(headers) /\ Undecoded \notin DOMAIN frames

(* It is frame_info_handler that starts it.                                *)
LEMMA HandlerOverruns ==
  ASSUME IInv, frame_info_handler, HeaderLength = HEADER_SYMBOLS
  PROVE  Overrun'
<1> DEFINE f == Len(frames)
<1>0. /\ Shape /\ Life
      /\ Gathered(m_rrh_params, m_first_rrh_time_received, m_waiting, m_work_id)
      /\ InStep(m_rrh_params, m_work_id, m_input_socket)
  BY DEF IInv
<1>1. /\ f \in DOMAIN frames /\ handled = f - 1 /\ f \in DOMAIN headers
      /\ m_output_symbol_count = HEADER_SYMBOLS /\ ~m_decoded_header /\ ~m_work_done
  BY HandledFrame
<1>2. /\ handled' = handled + 1 /\ m_symb_numb' = HEADER_SYMBOLS /\ m_decoded_header' = TRUE
      /\ UNCHANGED <<m_rrh_params, m_work_id, m_first_rrh_time_received, m_waiting, m_work_done,
                     m_output_symbol_count, m_input_socket, sent, headers, frames>>
  BY DEF frame_info_handler, HeaderLength, HEADER_SYMBOLS, None, senderVars, chainVars
<1>3. /\ Len(headers) \in Nat /\ f \in Nat /\ handled \in Nat /\ Len(headers) <= f
      /\ DOMAIN headers = 1..Len(headers) /\ DOMAIN frames = 1..f
  BY <1>0, FrameNumbers
<1>4. handled' = Len(headers) /\ Len(headers) + 1 \notin DOMAIN frames
  <2>1. PICK n : n = Len(headers)
    OBVIOUS
  <2> HIDE DEF f
  <2>2. f \in 1..n /\ n \in Nat /\ f \in Nat /\ n <= f /\ handled = f - 1 /\ handled' = handled + 1
    BY <1>1, <1>2, <1>3, <2>1
  <2>3. handled' = n /\ n + 1 \notin 1..f
    BY <2>2
  <2> QED  BY <1>3, <2>1, <2>3
<1>5. m_rrh_params # <<>> /\ m_waiting = FALSE /\ m_first_rrh_time_received = TRUE
  <2>1. m_output_symbol_count # 0
    BY <1>1 DEF HEADER_SYMBOLS
  <2>2. m_rrh_params # <<>> /\ ~m_waiting /\ m_first_rrh_time_received
    BY <1>0, <2>1 DEF Gathered
  <2> QED  BY <1>0, <2>2 DEF Shape
<1>6. \A i \in DOMAIN m_rrh_params : m_output_symbol_count <= Len(m_rrh_params[i].rx_samples)
  BY <1>0 DEF InStep, InStepWith
<1>7. m_work_done = FALSE
  BY <1>0, <1>1 DEF Shape
<1>8. /\ m_rrh_params \in Seq(RrhParams) /\ m_input_socket \in [SyncWorkers -> Seq(Messages)]
      /\ sent \in [SyncWorkers -> [work : Works \cup {None}, count : Nat]]
  BY <1>0 DEF Shape
<1>9. m_output_symbol_count' \in Nat /\ m_output_symbol_count' >= HEADER_SYMBOLS
  <2>1. m_output_symbol_count' = m_output_symbol_count
    BY <1>2
  <2>2. m_output_symbol_count = 8
    BY <1>1 DEF HEADER_SYMBOLS
  <2> QED  BY <2>1, <2>2 DEF HEADER_SYMBOLS
<1>10. /\ Len(headers') \in Nat /\ handled' = Len(headers') /\ Undecoded' \notin DOMAIN frames'
  BY <1>2, <1>3, <1>4 DEF Undecoded
<1> QED  BY <1>2, <1>5, <1>6, <1>7, <1>8, <1>9, <1>10 DEF Overrun

(* A worker that sends one more message does not end it.                   *)
LEMMA DeliverOverruns ==
  ASSUME Overrun, UNCHANGED <<combVars, headers, handled, frames>>,
         NEW s \in SyncWorkers, NEW m \in Messages, Deliver(s, m),
         sent' \in [SyncWorkers -> [work : Works \cup {None}, count : Nat]]
  PROVE  Overrun'
<1>1. Append(m_input_socket[s], m) \in Seq(Messages)
  BY Appended DEF Overrun
<1>2. m_input_socket' \in [SyncWorkers -> Seq(Messages)]
  BY <1>1 DEF Overrun, Deliver
<1> QED  BY <1>2 DEF Overrun, combVars, Undecoded

LEMMA StartOverruns ==
  ASSUME InTime, Overrun, NEW s \in SyncWorkers, NEW w \in Works, StartStream(s, w)
  PROVE  Overrun'
<1>1. PICK n \in Chunks, tail \in Tails(s) :
        /\ Deliver(s, Message(w, tail \o Symbols(s, w, 1, n)))
        /\ sent' = [sent EXCEPT ![s] = [work |-> w, count |-> n]]
  BY DEF StartStream
<1>2. n \in Nat \ {0} /\ w # None
  BY CombiningAssumption DEF None
<1> DEFINE m == Message(w, Symbols(s, w, 1, n))
<1>3. Deliver(s, m)
  <2>1. tail = <<>>
    BY DEF Tails, InTime, Assumptions
  <2>2. Symbols(s, w, 1, n) \in Seq(SymbolSet)
    BY <1>2, Run
  <2>3. tail \o Symbols(s, w, 1, n) = Symbols(s, w, 1, n)
    BY <2>1, <2>2, ConcatEmptySeq
  <2> QED  BY <1>1, <2>3
<1>4. m \in Messages
  <2>1. 1 \in Nat \ {0} /\ n \in Nat /\ 1 <= n /\ m = Message(w, Symbols(s, w, 1, n))
    BY <1>2
  <2> HIDE DEF m
  <2> QED  BY <2>1, SoundRun
<1>5. sent' \in [SyncWorkers -> [work : Works \cup {None}, count : Nat]]
  BY <1>1, <1>2 DEF Overrun
<1>6. UNCHANGED <<combVars, headers, handled, frames>>
  BY DEF StartStream, chainVars
<1> HIDE DEF m
<1> QED  BY <1>3, <1>4, <1>5, <1>6, DeliverOverruns

LEMMA ContinueOverruns ==
  ASSUME Overrun, NEW s \in SyncWorkers, ContinueStream(s)
  PROVE  Overrun'
<1> DEFINE w == sent[s].work
           c == sent[s].count
<1>1. PICK n \in Chunks :
        /\ Deliver(s, Message(None, Symbols(s, w, c + 1, c + n)))
        /\ sent' = [sent EXCEPT ![s].count = @ + n]
  BY DEF ContinueStream
<1> DEFINE m == Message(None, Symbols(s, w, c + 1, c + n))
<1>2. n \in Nat \ {0} /\ w \in Works \cup {None} /\ c \in Nat
  BY CombiningAssumption DEF Overrun
<1>3. m \in Messages
  <2> DEFINE none == None
             first == c + 1
             last == c + n
  <2>1. none \in Works \cup {None} /\ (none # None => w = none /\ first = 1)
    OBVIOUS
  <2>2. /\ m = Message(none, Symbols(s, w, first, last))
        /\ first \in Nat \ {0} /\ last \in Nat /\ first <= last
    BY <1>2
  <2> HIDE DEF w, c, none, m, first, last
  <2> QED  BY <1>2, <2>1, <2>2, SoundRun
<1>4. sent' \in [SyncWorkers -> [work : Works \cup {None}, count : Nat]]
  <2>1. sent[s].count + n \in Nat
    BY <1>2
  <2> QED  BY <1>1, <2>1 DEF Overrun
<1>5. UNCHANGED <<combVars, headers, handled, frames>>
  BY DEF ContinueStream, chainVars
<1> HIDE DEF m
<1> QED  BY <1>1, <1>3, <1>4, <1>5, DeliverOverruns DEF m

(* What is ready is what the shortest stream has more than was output.     *)
LEMMA Ready ==
  ASSUME NEW params \in Seq(RrhParams), params # <<>>, m_output_symbol_count \in Nat,
         \A i \in DOMAIN params : m_output_symbol_count <= Len(params[i].rx_samples)
  PROVE  /\ SymbolsReady(params) \in Nat
         /\ \A i \in DOMAIN params :
              m_output_symbol_count + SymbolsReady(params) <= Len(params[i].rx_samples)
<1> DEFINE lens == {Len(params[i].rx_samples) : i \in DOMAIN params}
           least == Min(lens)
<1>1. \A i \in DOMAIN params : Len(params[i].rx_samples) \in Nat
  <2> SUFFICES ASSUME NEW i \in DOMAIN params PROVE Len(params[i].rx_samples) \in Nat
    OBVIOUS
  <2>1. params[i] \in RrhParams
    BY Element
  <2>2. params[i].rx_samples \in Seq(SymbolSet)
    BY <2>1 DEF RrhParams
  <2> QED  BY <2>2
<1>2. /\ least \in Nat /\ m_output_symbol_count <= least
      /\ \A i \in DOMAIN params : least <= Len(params[i].rx_samples)
  <2>1. 1 \in DOMAIN params
    BY EmptySeq
  <2>2. lens \subseteq Nat /\ lens # {}
    BY <1>1, <2>1
  <2>3. least \in lens /\ \A y \in lens : least <= y
    BY <2>2, Least
  <2> HIDE DEF least
  <2> QED  BY <2>2, <2>3
<1>3. SymbolsReady(params) = least - m_output_symbol_count
  BY DEF SymbolsReady
<1> HIDE DEF least
<1> QED  BY <1>2, <1>3

(* It goes on to the end of its streams, and past the count it waits for.  *)
LEMMA CombineOverruns ==
  ASSUME Overrun, UNCHANGED <<m_symb_numb, sent, headers, handled>>,
         m_rrh_params' \in Seq(RrhParams), m_rrh_params' # <<>>,
         \A i \in DOMAIN m_rrh_params' :
           m_output_symbol_count <= Len(m_rrh_params'[i].rx_samples),
         m_decoded_header' = TRUE, m_first_rrh_time_received' = TRUE,
         m_input_socket' \in [SyncWorkers -> Seq(Messages)], Combine(FALSE)
  PROVE  Overrun'
<1> DEFINE ready == SymbolsReady(m_rrh_params')
<1>1. /\ m_output_symbol_count \in Nat /\ m_output_symbol_count >= 8 /\ m_symb_numb = 8
      /\ Undecoded \notin DOMAIN frames
  BY DEF Overrun, HEADER_SYMBOLS
<1>2. ready \in Nat /\ \A i \in DOMAIN m_rrh_params' :
                         m_output_symbol_count + ready <= Len(m_rrh_params'[i].rx_samples)
  BY <1>1, Ready
<1>3. SymbolsToOutput(m_rrh_params', TRUE) = ready
  <2>1. Stopping(TRUE) = 8
    BY <1>1 DEF Stopping
  <2>2. ~(8 - m_output_symbol_count > 0)
    BY <1>1
  <2> QED  BY <2>1, <2>2 DEF SymbolsToOutput
<1> HIDE DEF ready
<1>4. PICK n : n = SymbolsToOutput(m_rrh_params', m_decoded_header')
  OBVIOUS
<1>5. n = ready
  BY <1>3, <1>4
<1>6. /\ m_waiting' = FALSE
      /\ m_output_symbol_count' = m_output_symbol_count + n
      /\ frames' = IF n = 0 THEN frames
                   ELSE WithSymbols(Begun(m_work_id', m_rrh_params'), m_rrh_params', n)
      /\ m_work_done' = (n > 0 /\ m_decoded_header' /\ m_output_symbol_count' = m_symb_numb)
  BY <1>4 DEF Combine
<1>7. m_work_done' = FALSE
  <2>1. ~(n > 0 /\ m_output_symbol_count' = m_symb_numb)
    BY <1>1, <1>2, <1>5, <1>6
  <2> QED  BY <1>6, <2>1
<1>8. DOMAIN frames' = DOMAIN frames
  <2>1. m_output_symbol_count # 0
    BY <1>1
  <2>2. Begun(m_work_id', m_rrh_params') = frames
    BY <2>1 DEF Begun
  <2> QED  BY <1>6, <2>2 DEF WithSymbols
<1>9. m_output_symbol_count' \in Nat /\ m_output_symbol_count' >= 8
  BY <1>1, <1>2, <1>5, <1>6
<1>10. \A i \in DOMAIN m_rrh_params' : m_output_symbol_count' <= Len(m_rrh_params'[i].rx_samples)
  BY <1>2, <1>5, <1>6
<1> QED
  BY <1>1, <1>6, <1>7, <1>8, <1>9, <1>10 DEF Overrun, Undecoded, HEADER_SYMBOLS

(* A message adds to a stream or is thrown away; no tag is accepted.       *)
LEMMA MessageOverruns ==
  ASSUME Overrun, NEW s \in SyncWorkers, WorkOnMessage(s)
  PROVE  Overrun'
<1> DEFINE m == Head(m_input_socket[s])
           count == m_output_symbol_count
<1>1. /\ m_input_socket[s] # <<>> /\ ReceiveMessage(s, m) /\ Combine(Opened(m))
      /\ m_input_socket' = [m_input_socket EXCEPT ![s] = Tail(@)]
      /\ UNCHANGED <<m_symb_numb, sent, headers, handled>>
  BY DEF WorkOnMessage, chainVars
<1>2. m \in Messages /\ Tail(m_input_socket[s]) \in Seq(Messages)
  <2>1. m_input_socket[s] \in Seq(Messages)
    BY DEF Overrun
  <2> QED  BY <1>1, <2>1, Shifted
<1>3. m_input_socket' \in [SyncWorkers -> Seq(Messages)]
  BY <1>1, <1>2 DEF Overrun
<1> HIDE DEF m
<1>4. ~IsFirst(m) /\ ~Accepted(m) /\ Opened(m) = FALSE
  BY DEF Overrun, IsFirst, Accepted, Opened
<1>5. m_decoded_header' = TRUE /\ m_first_rrh_time_received' = TRUE
  BY <1>1, <1>4 DEF Overrun, ReceiveMessage, StillDecoded, ClockAfter
<1>6. Combine(FALSE)
  BY <1>1, <1>4
<1>7. m_rrh_params' = m_rrh_params \/ \E i \in DOMAIN m_rrh_params : m_rrh_params' = Stored(i, m)
  BY <1>1, <1>4 DEF ReceiveMessage, ParamsAfter
<1>8. /\ m_rrh_params \in Seq(RrhParams) /\ m_rrh_params # <<>> /\ count \in Nat
      /\ \A i \in DOMAIN m_rrh_params : count <= Len(m_rrh_params[i].rx_samples)
  BY DEF Overrun
<1>9. /\ m_rrh_params' \in Seq(RrhParams) /\ m_rrh_params' # <<>>
      /\ \A i \in DOMAIN m_rrh_params' : count <= Len(m_rrh_params'[i].rx_samples)
  <2>1. CASE m_rrh_params' = m_rrh_params
    BY <1>8, <2>1
  <2>2. ASSUME NEW i \in DOMAIN m_rrh_params, m_rrh_params' = Stored(i, m)
        PROVE  /\ m_rrh_params' \in Seq(RrhParams) /\ m_rrh_params' # <<>>
               /\ \A j \in DOMAIN m_rrh_params' : count <= Len(m_rrh_params'[j].rx_samples)
    <3> DEFINE rx == m_rrh_params[i].rx_samples
               both == rx \o m.samples
               e == [m_rrh_params[i] EXCEPT !.rx_samples = both]
    <3>1. m_rrh_params[i] \in RrhParams
      BY <1>8, Element
    <3>2. rx \in Seq(SymbolSet) /\ m.samples \in Seq(SymbolSet)
      BY <1>2, <3>1 DEF RrhParams, Messages
    <3>3. /\ both \in Seq(SymbolSet) /\ Len(both) = Len(rx) + Len(m.samples)
          /\ Len(rx) \in Nat /\ Len(m.samples) \in Nat
      BY <3>2, Joined
    <3>4. count <= Len(both)
      <4>1. count <= Len(rx)
        BY <1>8
      <4> HIDE DEF rx, both, count
      <4> QED  BY <1>8, <3>3, <4>1
    <3>5. m_rrh_params' = [m_rrh_params EXCEPT ![i] = e]
      BY <2>2 DEF Stored
    <3> HIDE DEF both
    <3>6. e \in RrhParams /\ e.rx_samples = both
      BY <3>1, <3>3 DEF RrhParams
    <3> HIDE DEF e
    <3>7. /\ m_rrh_params' \in Seq(RrhParams) /\ m_rrh_params'[i] = e
          /\ DOMAIN m_rrh_params' = DOMAIN m_rrh_params
          /\ \A j \in DOMAIN m_rrh_params : j # i => m_rrh_params'[j] = m_rrh_params[j]
      BY <1>8, <3>5, <3>6
    <3>8. m_rrh_params' # <<>>
      BY <3>7
    <3> QED  BY <1>8, <3>4, <3>6, <3>7, <3>8
  <2> QED  BY <1>7, <2>1, <2>2
<1> QED  BY <1>1, <1>3, <1>5, <1>6, <1>9, CombineOverruns

(* It never ends.                                                          *)
LEMMA OverrunStays == ASSUME InTime, Overrun, [Next]_vars PROVE Overrun'
<1>1. ASSUME NEW s \in SyncWorkers, NEW w \in Works, StartStream(s, w) PROVE Overrun'
  BY <1>1, StartOverruns
<1>2. ASSUME NEW s \in SyncWorkers, ContinueStream(s) PROVE Overrun'
  BY <1>2, ContinueOverruns
<1>3. ASSUME NEW s \in SyncWorkers, WorkOnMessage(s) PROVE Overrun'
  BY <1>3, MessageOverruns
<1>4. CASE WorkOnNothing
  <2>1. /\ UNCHANGED <<m_rrh_params, m_first_rrh_time_received, m_work_id, m_decoded_header>>
        /\ Combine(m_waiting) /\ UNCHANGED <<m_symb_numb, senderVars, headers, handled>>
    BY <1>4 DEF WorkOnNothing, chainVars
  <2>2. m_waiting = FALSE
    BY DEF Overrun
  <2>3. Combine(FALSE)
    BY <2>1, <2>2 DEF Combine
  <2> QED  BY <2>1, <2>3, CombineOverruns DEF Overrun, senderVars
<1>5. ~free_worker_for_next_work
  BY DEF Overrun, free_worker_for_next_work
<1>6. ~frame_info_handler
  <2>1. ~(handled < Len(headers))
    BY DEF Overrun
  <2> QED  BY <2>1 DEF frame_info_handler
<1>7. ~DecodeHeader
  BY DEF Overrun, DecodeHeader
<1>8. ASSUME NEW f \in DOMAIN frames, DemodDone(f) PROVE Overrun'
  BY <1>8 DEF DemodDone, Overrun, combVars, senderVars, Undecoded
<1>9. CASE UNCHANGED vars
  BY <1>9 DEF Overrun, vars, combVars, senderVars, chainVars, Undecoded
<1> QED  BY <1>1, <1>2, <1>3, <1>4, <1>5, <1>6, <1>7, <1>8, <1>9 DEF Next

(* So in every state the invariant holds or such a frame has come.         *)
LEMMA InvariantOrOverrun == ASSUME InTime PROVE Spec => [](IInv \/ Overrun)
<1>1. ASSUME IInv \/ Overrun, [Next]_vars PROVE IInv' \/ Overrun'
  <2>1. CASE Overrun
    BY <1>1, <2>1, OverrunStays
  <2>2. CASE IInv /\ frame_info_handler /\ HeaderLength = HEADER_SYMBOLS
    BY <2>2, HandlerOverruns
  <2>3. CASE IInv /\ (frame_info_handler => HeaderLength # HEADER_SYMBOLS)
    BY <1>1, <2>3, NextKeeps
  <2> QED  BY <1>1, <2>1, <2>2, <2>3
<1> QED  BY <1>1, InitInv, PTL DEF Spec

(* A frame longer than its header is not mistaken for such a one.          *)
LEMMA LongHeader ==
  ASSUME LongFrames, IInv, frame_info_handler
  PROVE  HeaderLength # HEADER_SYMBOLS
<1> DEFINE f == Len(frames)
<1>1. /\ f \in DOMAIN frames /\ handled = f - 1 /\ frames[f].work = m_work_id
      /\ headers[f] \in {None, SymbNumb(Headers[m_work_id])}
  BY HandledFrame
<1>2. Shape /\ f \in Nat
  BY FrameNumbers DEF IInv
<1>3. m_work_id \in Works
  BY <1>1, <1>2, FrameTyped
<1>4. SymbNumb(Headers[m_work_id]) \in Nat /\ SymbNumb(Headers[m_work_id]) > HEADER_SYMBOLS
  BY <1>3, FrameLength DEF LongFrames
<1>5. handled + 1 = f
  <2> HIDE DEF f
  <2> QED  BY <1>1, <1>2
<1> QED  BY <1>1, <1>4, <1>5 DEF HeaderLength, HEADER_SYMBOLS, None

(* The invariant holds in every state, when no frame ends with its header. *)
THEOREM Invariant == ASSUME InTime, LongFrames PROVE Spec => []IInv
<1>1. IInv /\ [Next]_vars => IInv'
  BY NextKeeps, LongHeader
<1> QED  BY <1>1, InitInv, PTL DEF Spec

(* However messages of the workers interleave, with leftovers of former    *)
(* works in the sockets and invalid headers, rx_combining adds up symbols  *)
(* of the same work and the same number only.                              *)
THEOREM StreamsStayInStep == ASSUME InTime, LongFrames PROVE Spec => []StreamsInStep
<1>1. IInv => StreamsInStep
  BY DEF IInv
<1> QED  BY <1>1, Invariant, PTL

(* Of a frame that is longer than its header no symbol too many is output: *)
(* the count that m_symb_numb is compared with never jumps over it,        *)
(* whatever frames come before, those that end with their header included. *)
THEOREM FramesEnd == ASSUME InTime PROVE Spec => []FrameEnds
<1>1. IInv => FrameEnds
  <2> SUFFICES ASSUME IInv, m_decoded_header PROVE m_output_symbol_count <= m_symb_numb
    BY DEF FrameEnds
  <2>1. Shape /\ Life /\ m_output_symbol_count \in Nat /\ m_symb_numb \in Nat
    BY DEF IInv, Shape
  <2>2. CASE m_output_symbol_count = 0
    BY <2>1, <2>2
  <2>3. CASE m_output_symbol_count # 0
    BY <2>1, <2>3, FrameNumbers DEF Underway, HeaderAwaited, HeaderRejected, LengthKnown
  <2> QED  BY <2>2, <2>3
<1>2. Overrun => FrameEnds
  BY DEF Overrun, FrameEnds, HEADER_SYMBOLS
<1> QED  BY <1>1, <1>2, InvariantOrOverrun, PTL

(* The clock that decides when symbols are output runs exactly while there *)
(* are streams, whatever the lengths of the frames.                        *)
THEOREM ClockIsRight == ASSUME InTime PROVE Spec => []ClockRunsForStreams
<1>1. IInv => ClockRunsForStreams
  BY DEF IInv, Gathered, ClockRunsForStreams
<1>2. Overrun => ClockRunsForStreams
  BY DEF Overrun, ClockRunsForStreams
<1> QED  BY <1>1, <1>2, InvariantOrOverrun, PTL

(* The variables of rx_combining have their types, and no more streams are *)
(* combined than its arrays have room for.                                 *)
THEOREM CombiningTypeCorrect == ASSUME InTime, LongFrames PROVE Spec => []TypeOK
<1>1. ASSUME IInv PROVE TypeOK
  <2>1. Shape /\ Len(m_rrh_params) <= MAX_COMBINED_RRH
    BY <1>1 DEF IInv, Gathered
  <2>2. \A i \in DOMAIN m_rrh_params : m_rrh_params[i].rrh_id \in SyncWorkers
    BY <2>1, IdsTyped DEF Shape
  <2>3. handled \in 0..Len(headers) /\ Len(headers) \in 0..Len(frames)
    <3>1. Len(headers) \in Nat /\ Len(frames) \in Nat
      BY <2>1 DEF Shape
    <3> QED  BY <2>1, <3>1 DEF Shape
  <2> QED  BY <2>1, <2>2, <2>3 DEF Shape, TypeOK
<1> QED  BY <1>1, Invariant, PTL

-----------------------------------------------------------------------------
(* The frames as FrameOutput sees them.                                    *)
Out == [f \in DOMAIN frames |-> [work   |-> frames[f].work,
                                 count  |-> Len(frames[f].symbols),
                                 length |-> Known(f)]]

OutFrame == [work : Works, count : Nat, length : Int]

OutRight ==
  /\ Out \in Seq(OutFrame) /\ Len(Out) = Len(frames) /\ DOMAIN Out = 1..Len(frames)
  /\ Len(frames) \in Nat /\ DOMAIN frames = 1..Len(frames)

(* They are a sequence of frames, in one state and in the next.            *)
LEMMA OutTyped == Shape => OutRight
<1> SUFFICES ASSUME Shape PROVE OutRight
  OBVIOUS
<1> DEFINE n == Len(frames)
<1>1. n \in Nat /\ DOMAIN frames = 1..n
  BY DEF Shape
<1>2. ASSUME NEW f \in 1..n PROVE Out[f] \in OutFrame
  <2>1. f \in DOMAIN frames
    BY <1>1
  <2>2. frames[f].work \in Works /\ frames[f].symbols \in Seq(Seq(SymbolSet))
    BY <2>1, FrameTyped
  <2>3. Len(frames[f].symbols) \in Nat
    BY <2>2
  <2>4. Known(f) \in Int
    <3>1. f <= handled => f \in DOMAIN headers
      BY <1>1, <1>2 DEF Shape
    <3>2. f \in DOMAIN headers => headers[f] \in Nat
      BY Element DEF Shape
    <3>3. f > handled \/ f <= handled
      BY <1>1, <1>2 DEF Shape
    <3> QED  BY <3>1, <3>2, <3>3 DEF Known
  <2> HIDE DEF n
  <2> QED  BY <2>1, <2>2, <2>3, <2>4 DEF Out, OutFrame
<1>3. Out \in [1..n -> OutFrame]
  BY <1>1, <1>2 DEF Out
<1> QED  BY <1>1, <1>3, Tabulated DEF OutRight

(* What is seen of the frames keeps its form in the next state.            *)
LEMMA OutTypedNext == Shape' => OutRight'
<1> QED  BY OutTyped, PTL

(* What the decoding chain and the workers do is not seen.                 *)
LEMMA OutSame ==
  ASSUME Shape, UNCHANGED <<frames, handled>>,
         \A f \in DOMAIN headers : headers'[f] = headers[f]
  PROVE  Out' = Out
<1>1. ASSUME NEW f \in DOMAIN frames PROVE Known(f)' = Known(f)
  <2>1. handled \in Nat /\ handled <= Len(headers) /\ Len(headers) \in Nat
        /\ DOMAIN headers = 1..Len(headers) /\ f \in Nat /\ f >= 1
    BY DEF Shape
  <2>2. f > handled \/ f \in DOMAIN headers
    BY <2>1
  <2> QED  BY <2>1, <2>2 DEF Known
<1> QED  BY <1>1 DEF Out

(* frame_info_handler tells the length of the frame.                       *)
LEMMA HandlerMaps ==
  ASSUME LongFrames, IInv, frame_info_handler
  PROVE  Output!HeaderKnown
<1> DEFINE last == Len(frames)
           length == IF headers[last] = None THEN -2 ELSE headers[last]
<1>0. Shape /\ Shape'
  BY HandlerKeeps, LongHeader DEF IInv
<1>1. /\ last \in DOMAIN frames /\ handled = last - 1 /\ last \in DOMAIN headers
      /\ Len(frames[last].symbols) = HEADER_SYMBOLS
      /\ headers[last] \in {None, SymbNumb(Headers[m_work_id])}
      /\ frames[last].work = m_work_id
  BY HandledFrame
<1>2. handled' = handled + 1 /\ UNCHANGED <<frames, headers>>
  BY DEF frame_info_handler, chainVars
<1>3. /\ Out \in Seq(OutFrame) /\ Len(Out) = last /\ DOMAIN Out = 1..last
      /\ Out' \in Seq(OutFrame) /\ Len(Out') = last /\ DOMAIN Out' = 1..last
      /\ last \in Nat /\ DOMAIN frames = 1..last
  <2>1. /\ Out' \in Seq(OutFrame) /\ Len(Out') = Len(frames') /\ DOMAIN Out' = 1..Len(frames')
    BY <1>0, OutTypedNext DEF OutRight
  <2> QED  BY <1>0, <1>2, <2>1, OutTyped DEF OutRight
<1> HIDE DEF last
<1>4. last > 0 /\ handled' = last /\ last > handled /\ last # 0
  BY <1>1, <1>2, <1>3
<1>5. Out[last].length = -1 /\ Out[last].count = 8
  BY <1>1, <1>3, <1>4 DEF Out, Known, HEADER_SYMBOLS
<1>6. length \in {-2} \cup {SymbNumb(Headers[w]) : w \in Works}
  <2>1. m_work_id \in Works
    BY <1>0, <1>1, FrameTyped
  <2> QED  BY <1>1, <2>1
<1>7. ASSUME NEW f \in 1..last
      PROVE  Out'[f] = IF f = last THEN [Out[f] EXCEPT !.length = length] ELSE Out[f]
  <2>1. CASE f = last
    <3>1. Known(f)' = length
      BY <1>2, <1>4, <2>1 DEF Known
    <3> QED  BY <1>2, <1>3, <2>1, <3>1 DEF Out
  <2>2. CASE f # last
    <3>1. Known(f)' = Known(f)
      <4>1. f \in Nat /\ f <= handled /\ f <= last
        BY <1>1, <1>3, <2>2
      <4>2. ~(f > handled) /\ ~(f > handled')
        BY <1>1, <1>3, <1>4, <4>1
      <4> QED  BY <1>2, <4>2 DEF Known
    <3> QED  BY <1>2, <1>3, <2>2, <3>1 DEF Out
  <2> QED  BY <2>1, <2>2
<1> HIDE DEF length
<1>8. Out' = [Out EXCEPT ![last].length = length]
  <2>1. Out' = [f \in 1..last |-> Out'[f]]
    BY <1>3
  <2>2. Out = [f \in 1..last |-> Out[f]]
    BY <1>3
  <2> QED  BY <1>3, <1>7, <2>1, <2>2
<1>9. Out # <<>>
  BY <1>3, <1>4, EmptySeq
<1> QED
  BY <1>3, <1>5, <1>6, <1>8, <1>9
     DEF Output!HeaderKnown, Output!Latest, Output!Unknown, Output!Invalid, Output!HeaderSymbols, Out

(* What general_work outputs begins a frame or extends it.                 *)
LEMMA WorkMaps ==
  ASSUME InTime, IInv, NEW waiting, Receives(waiting)
  PROVE  Output!Begin \/ Output!Extend \/ Out' = Out
<1> DEFINE count == m_output_symbol_count
           last == NextFrame
<1>0. /\ Shape /\ Life /\ Decoded /\ Shape'
      /\ Received(waiting) /\ WorkLeaves /\ ~m_work_done /\ Combine(waiting)
  BY CombineKeeps DEF Receives, IInv
<1>1. UNCHANGED <<headers, handled>>
  BY <1>0 DEF WorkLeaves, chainVars
<1>2. CASE UNCHANGED frames
  BY <1>0, <1>1, <1>2, OutSame
<1>3. ASSUME frames' # frames
      PROVE  Output!Begin \/ Output!Extend
  <2>1. PICK n : /\ m_first_rrh_time_received' /\ n # 0
                 /\ n = SymbolsToOutput(m_rrh_params', m_decoded_header')
                 /\ frames' = WithSymbols(Begun(m_work_id', m_rrh_params'), m_rrh_params', n)
    BY <1>0, <1>3 DEF Combine
  <2>2. m_rrh_params' # <<>>
    BY <1>0, <2>1 DEF Received, Gathered
  <2>3. /\ n \in Nat
        /\ \A i \in DOMAIN m_rrh_params' : count + n <= Len(m_rrh_params'[i].rx_samples)
        /\ ~m_decoded_header' => count + n <= HEADER_SYMBOLS
        /\ m_decoded_header' => count # 0 /\ count + n <= m_symb_numb
    BY <1>0, <2>1, <2>2, OutputNumber
  <2>4. n > 0
    BY <2>1, <2>3
  <2>5. /\ Len(frames') = last /\ last \in Nat /\ last > 0
        /\ \A f \in DOMAIN frames' : f # last => f \in DOMAIN frames /\ frames'[f] = frames[f]
        /\ DOMAIN frames' = DOMAIN frames \cup {last}
        /\ frames'[last].work = m_work_id' /\ m_work_id' \in Works
        /\ Len(frames'[last].symbols) = count + n
        /\ count # 0 => frames'[last].work = frames[last].work
    BY <1>0, <2>1, <2>2, <2>3, <2>4, FramesAfter
  <2>6. /\ Len(headers) \in Nat /\ Len(headers) <= Len(frames)
        /\ handled \in Nat /\ handled <= Len(headers) /\ count \in Nat
        /\ DOMAIN headers = 1..Len(headers)
        /\ count = 0 => Begins
        /\ count # 0 => Underway(Len(frames))
    BY <1>0, FrameNumbers
  <2>7. /\ Out \in Seq(OutFrame) /\ Len(Out) = Len(frames) /\ DOMAIN Out = 1..Len(frames)
        /\ Len(frames) \in Nat /\ DOMAIN frames = 1..Len(frames)
        /\ Out' \in Seq(OutFrame) /\ Len(Out') = last /\ DOMAIN Out' = 1..last
    BY <1>0, <2>5, OutTyped, OutTypedNext DEF OutRight
  <2>8. \A f : Known(f)' = Known(f)
    BY <1>1 DEF Known
  <2>9. ASSUME NEW f \in 1..last, f # last PROVE f \in DOMAIN Out /\ Out'[f] = Out[f]
    <3>1. f \in DOMAIN frames' /\ f \in DOMAIN frames /\ frames'[f] = frames[f]
      <4>1. DOMAIN frames' = DOMAIN Out'
        BY DEF Out
      <4> QED  BY <2>5, <2>7, <2>9, <4>1
    <3> QED  BY <2>7, <2>8, <3>1 DEF Out
  <2>10. Out'[last] = [work |-> m_work_id', count |-> count + n, length |-> Known(last)]
    <3>1. last \in DOMAIN frames'
      BY <2>5
    <3> QED  BY <2>5, <2>8, <3>1 DEF Out
  <2>11. CASE count = 0
    <3>1. /\ last = Len(frames) + 1 /\ handled = Len(frames) /\ ~m_decoded_header'
          /\ \A f \in DOMAIN frames : frames[f].work < m_work_id'
          /\ n \in 1..8
      <4>1. ~m_decoded_header' /\ \A f \in DOMAIN frames : frames[f].work < m_work_id'
        BY <1>0, <2>2, <2>11 DEF Received
      <4>2. n \in 1..8
        BY <2>3, <2>4, <2>11, <4>1 DEF HEADER_SYMBOLS
      <4> QED  BY <2>6, <2>11, <4>1, <4>2 DEF NextFrame, Begins
    <3> DEFINE e == Output!Frame(m_work_id', n)
    <3>2. e = Out'[last] /\ e \in OutFrame
      <4>1. Known(last) = -1
        BY <2>7, <3>1 DEF Known
      <4>2. 0 + n = n
        BY <2>3
      <4> QED  BY <2>3, <2>5, <2>10, <2>11, <4>1, <4>2 DEF Output!Frame, Output!Unknown, OutFrame
    <3> HIDE DEF e, last
    <3>3. Out' = Append(Out, e)
      <4>1. /\ Append(Out, e) \in Seq(OutFrame) /\ Len(Append(Out, e)) = last
            /\ \A f \in DOMAIN Out : Append(Out, e)[f] = Out[f]
            /\ Append(Out, e)[last] = e
        BY <2>7, <3>1, <3>2, Appended
      <4>2. \A f \in 1..last : Out'[f] = Append(Out, e)[f]
        BY <2>9, <3>2, <4>1
      <4> QED  BY <2>7, <4>1, <4>2, SeqEqual
    <3>4. Out # <<>> => Output!Ended(Out[Len(Out)])
      <4> SUFFICES ASSUME Out # <<>> PROVE Output!Ended(Out[Len(Out)])
        OBVIOUS
      <4> DEFINE f == Len(frames)
      <4>1. f \in DOMAIN frames /\ f \in Nat
        BY <2>7, EmptySeq
      <4>2. FrameEnded(f)
        BY <1>0, <2>11, <4>1 DEF Decoded
      <4>3. f = handled
        BY <3>1
      <4> HIDE DEF f
      <4>4. Known(f) = IF headers[f] = None THEN -2 ELSE headers[f]
        BY <2>6, <4>1, <4>3 DEF Known
      <4>5. Out[f].length = Known(f) /\ Out[f].count = Len(frames[f].symbols)
        BY <4>1 DEF Out
      <4>6. Output!Ended(Out[f])
        BY <4>2, <4>4, <4>5 DEF Output!Ended, Output!Invalid, FrameEnded
      <4> QED  BY <2>7, <4>6 DEF f
    <3>5. \A f \in DOMAIN Out : Out[f].work < m_work_id'
      BY <2>7, <3>1 DEF Out
    <3> QED
      BY <2>5, <3>1, <3>3, <3>4, <3>5 DEF Output!Begin, Output!Latest, Output!HeaderSymbols, Out, e
  <2>12. CASE count # 0
    <3>1. last = Len(frames) /\ last \in DOMAIN frames /\ Underway(last)
      BY <2>5, <2>6, <2>7, <2>12 DEF NextFrame
    <3>2. frames[last].work = m_work_id' /\ Len(frames[last].symbols) = count
      BY <2>5, <2>12, <3>1 DEF Underway
    <3>3. /\ Out[last].work = m_work_id' /\ Out[last].count = count
          /\ Out[last].length = Known(last) /\ Out[last] = [work |-> m_work_id', count |-> count,
                                                            length |-> Known(last)]
      BY <3>1, <3>2 DEF Out
    <3>4. Out' = [Out EXCEPT ![last].count = count + n]
      <4>1. \A f \in 1..last : Out'[f] = IF f = last THEN [Out[f] EXCEPT !.count = count + n] ELSE Out[f]
        BY <2>9, <2>10, <3>3
      <4>2. Out' = [f \in 1..last |-> Out'[f]] /\ Out = [f \in 1..last |-> Out[f]]
        BY <2>7, <3>1
      <4> HIDE DEF last, count
      <4> QED  BY <4>1, <4>2
    <3>5. /\ Known(last) # -2
          /\ count + n \in count..(IF Known(last) = -1 THEN 8 ELSE Known(last))
      <4> HIDE DEF last, count
      <4>1. m_decoded_header' = m_decoded_header
        BY <1>0, <2>12 DEF Received, count
      <4>2. CASE HeaderAwaited(last)
        <5>1. Known(last) = -1
          BY <2>5, <4>2 DEF HeaderAwaited, Known
        <5>2. count + n <= 8
          BY <2>3, <4>1, <4>2 DEF HeaderAwaited, HEADER_SYMBOLS
        <5> QED  BY <2>3, <2>6, <5>1, <5>2
      <4>3. CASE LengthKnown(last)
        <5>1. headers[last] = m_symb_numb /\ m_symb_numb > 8 /\ m_symb_numb \in Nat /\ handled = last
          BY <1>0, <4>3 DEF LengthKnown, HEADER_SYMBOLS, Shape
        <5>2. Known(last) = m_symb_numb
          BY <2>5, <5>1 DEF Known, None
        <5>3. count + n <= m_symb_numb
          BY <2>3, <4>1, <4>3 DEF LengthKnown
        <5> QED  BY <2>3, <2>6, <5>1, <5>2, <5>3
      <4>4. ~HeaderRejected(last)
        BY <1>0 DEF HeaderRejected
      <4> QED  BY <3>1, <4>2, <4>3, <4>4 DEF Underway
    <3>6. Out # <<>> /\ Len(Out) = last
      BY <2>5, <2>7, <3>1, EmptySeq
    <3> HIDE DEF last, count
    <3> QED
      BY <3>3, <3>4, <3>5, <3>6
         DEF Output!Extend, Output!Latest, Output!MostOf, Output!Unknown, Output!Invalid,
             Output!HeaderSymbols, Out
  <2> QED  BY <2>11, <2>12
<1> QED  BY <1>2, <1>3

(* Frames leave rx_combining as FrameOutput says: one per work and in the  *)
(* order of works, no symbol of the next before the one before has ended,  *)
(* eight symbols until the header is known and then as many as it says.    *)
THEOREM ImplementsFrameOutput == ASSUME InTime, LongFrames PROVE Spec => FramesInOrder
<1>1. Init => Output!OutputInit
  <2> SUFFICES ASSUME Init PROVE Out = <<>>
    BY DEF Output!OutputInit, Out
  <2>1. frames = <<>>
    BY DEF Init
  <2> QED  BY <2>1 DEF Out
<1>2. ASSUME IInv, [Next]_vars PROVE Output!OutputNext \/ Out' = Out
  <2>1. Shape
    BY <1>2 DEF IInv
  <2>2. ASSUME NEW s \in SyncWorkers, NEW w \in Works, StartStream(s, w) PROVE Out' = Out
    BY <2>1, <2>2, OutSame DEF StartStream, chainVars
  <2>3. ASSUME NEW s \in SyncWorkers, ContinueStream(s) PROVE Out' = Out
    BY <2>1, <2>3, OutSame DEF ContinueStream, chainVars
  <2>4. ASSUME NEW s \in SyncWorkers, WorkOnMessage(s) PROVE Output!OutputNext \/ Out' = Out
    <3>1. PICK waiting \in BOOLEAN : Receives(waiting)
      BY <1>2, <2>4, MessageReceived
    <3> QED  BY <1>2, <3>1, WorkMaps DEF Output!OutputNext
  <2>5. ASSUME WorkOnNothing PROVE Output!OutputNext \/ Out' = Out
    BY <1>2, <2>5, NothingReceived, WorkMaps DEF Output!OutputNext
  <2>6. ASSUME free_worker_for_next_work PROVE Out' = Out
    BY <2>1, <2>6, OutSame DEF free_worker_for_next_work, chainVars
  <2>7. ASSUME frame_info_handler PROVE Output!OutputNext
    BY <1>2, <2>7, HandlerMaps DEF Output!OutputNext
  <2>8. ASSUME DecodeHeader PROVE Out' = Out
    <3>1. PICK x : headers' = Append(headers, x)
      BY <2>8 DEF DecodeHeader
    <3>2. headers \in Seq(Nat)
      BY <2>1 DEF Shape
    <3>3. \A f \in DOMAIN headers : headers'[f] = headers[f]
      BY <3>1, <3>2
    <3> QED  BY <2>1, <2>8, <3>3, OutSame DEF DecodeHeader
  <2>9. ASSUME NEW f \in DOMAIN frames, DemodDone(f) PROVE Out' = Out
    BY <2>1, <2>9, OutSame DEF DemodDone
  <2>10. ASSUME UNCHANGED vars PROVE Out' = Out
    BY <2>1, <2>10, OutSame DEF vars, chainVars
  <2> QED
    BY <1>2, <2>2, <2>3, <2>4, <2>5, <2>6, <2>7, <2>8, <2>9, <2>10 DEF Next
<1>3. IInv /\ [Next]_vars => [Output!OutputNext]_Out
  BY <1>2
<1>4. Spec => [][Output!OutputNext]_Out
  BY <1>3, Invariant, PTL DEF Spec
<1>5. Spec => Output!OutputInit
  BY <1>1 DEF Spec
<1> QED  BY <1>4, <1>5, PTL DEF FramesInOrder, Output!OutputSpec, Out
=============================================================================
