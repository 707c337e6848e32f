--------------------------- MODULE DecodingChain ---------------------------
(***************************************************************************)
(* The last blocks of a demodulation worker: header_decoder, dewhitening,  *)
(* crc_verif and worker_zmq_sink, each a thread that is called when there  *)
(* is something in its input and takes what it finds there.  Tags travel   *)
(* with the items and mark where a frame, or its payload, begins.          *)
(*                                                                         *)
(* A nibble is <<frame, number>>; numbers count from the header on in      *)
(* front of header_decoder, and from the payload on behind it.  A byte     *)
(* knows its nibbles and the place in the whitening sequence that was used *)
(* for it.  A tag is on the item it marks, so <<f, 1>> has the tag of its  *)
(* frame; what the tag of frame f says is announced[f].                    *)
(***************************************************************************)
EXTENDS Integers, Sequences, FiniteSetsExt

CONSTANTS
  Frames,           \* the frames that reach the worker, in order
  GarbledHeaders    \* what an invalid header may announce

PhyFrames == [sf : 7..12, ldro : {0, 1}, pay_len : 1..255, has_crc : {0, 1}]

ASSUME ChainAssumption ==
  /\ Frames \in Seq(PhyFrames)
  /\ GarbledHeaders \subseteq [pay_len : 0..255, has_crc : {0, 1}]

VARIABLES
  fed,              \* frames begun, and blocks of the last one's payload fed
  announced,        \* what header_decoder found in each header
  nibbles,          \* input of header_decoder,
  payload_nibbles,  \* of dewhitening,
  bytes,            \* of crc_verif,
  verified,         \* of worker_zmq_sink
  header_decoder,   \* state of each block
  dewhitening,
  crc_verif,
  zmq_sink,
  reports           \* what worker_zmq_sink has told of the frames

blocks == <<header_decoder, dewhitening, crc_verif, zmq_sink>>
buffers == <<nibbles, payload_nibbles, bytes, verified>>
vars == <<fed, announced, buffers, blocks, reports>>

None == 0
Invalid == <<>>
header_len == 5

NothingAnnounced == [pay_len |-> 0, has_crc |-> 0, err |-> 0]

Init ==
  /\ fed = [frame |-> 0, blocks |-> 0]
  /\ announced = [f \in DOMAIN Frames |-> NothingAnnounced]
  /\ nibbles = <<>> /\ payload_nibbles = <<>> /\ bytes = <<>> /\ verified = <<>>
  /\ header_decoder = [is_header |-> FALSE, pay_cnt |-> 0, pay_len |-> 255, has_crc |-> 1]
  /\ dewhitening = [pay_len |-> 0, has_crc |-> 0, offset |-> 0]
  /\ crc_verif = [tag |-> None, in_buff |-> <<>>]
  /\ zmq_sink = [tag |-> None]
  /\ reports = <<>>

CeilDiv(a, b) == -((-a) \div b)
UpTo(k, n) == Max({0, Min({k, n})})

(* Where a tag is not the first item of the input, the call ends before it. *)
ItemsToProcess(input, tags) ==
  IF tags \subseteq {1} THEN Len(input) ELSE Min(tags \ {1}) - 1

-----------------------------------------------------------------------------
(* rx_combining, the deinterleaver and the Hamming decoder: a frame comes  *)
(* in blocks, the first with the header, the others when the header has    *)
(* been decoded and says that there are any.                               *)

HeaderNibbles(f) == Frames[f].sf - 2
BlockNibbles(f) == Frames[f].sf - 2 * Frames[f].ldro
Useful(h) == 2 * h.pay_len + 4 * h.has_crc
PayloadBlocks(f) ==
  CeilDiv(Useful(announced[f]) - (HeaderNibbles(f) - header_len), BlockNibbles(f))

Nibbles(f, from, n) == [i \in 1..n |-> <<f, from + i - 1>>]

(* The broker gives a worker its next work when it has reported the last.  *)
MayBegin == Len(reports) = fed.frame

BeginFrame ==
  /\ fed.frame < Len(Frames) /\ MayBegin
  /\ LET f == fed.frame + 1 IN
       /\ fed' = [frame |-> f, blocks |-> 0]
       /\ nibbles' = nibbles \o Nibbles(f, 1, HeaderNibbles(f))
  /\ UNCHANGED <<announced, payload_nibbles, bytes, verified, blocks, reports>>

NextBlock ==
  LET f == fed.frame IN
  /\ f # 0 /\ announced[f].pay_len # 0 /\ announced[f].err = 0
  /\ fed.blocks < PayloadBlocks(f)
  /\ fed' = [fed EXCEPT !.blocks = @ + 1]
  /\ nibbles' = nibbles \o Nibbles(f, HeaderNibbles(f) + fed.blocks * BlockNibbles(f) + 1,
                                   BlockNibbles(f))
  /\ UNCHANGED <<announced, payload_nibbles, bytes, verified, blocks, reports>>

-----------------------------------------------------------------------------
(* header_decoder.  rx_combining puts a tag on the first symbol of a frame *)
(* and one on the first symbol of its payload.                             *)

StartsFrame(x) == x[2] = 1
StartsPayload(x) == x[2] = HeaderNibbles(x[1]) + 1

(* What a header may be taken for: what it is, or, if its checksum fails,  *)
(* anything.  An empty frame is an error and is made to have one byte.     *)
HeaderResults(f) ==
  {[pay_len |-> Frames[f].pay_len, has_crc |-> Frames[f].has_crc, err |-> 0]}
  \cup {[pay_len |-> Max({1, h.pay_len}), has_crc |-> h.has_crc, err |-> 1] : h \in GarbledHeaders}

(* Nibbles behind the header, numbered anew.                               *)
PayloadPart(xs) == [i \in DOMAIN xs |-> <<xs[i][1], xs[i][2] - header_len>>]

(* Of an invalid header two items are produced, whatever they hold.        *)
DecodeHeader(f, pay_cnt, n) ==
  \E h \in HeaderResults(f) :
    /\ announced' = [announced EXCEPT ![f] = h]
    /\ payload_nibbles' = payload_nibbles \o
         (IF h.err = 1 THEN Nibbles(f, 1, 2)
          ELSE PayloadPart(SubSeq(nibbles, header_len + 1, n)))
    /\ header_decoder' = [is_header |-> TRUE, pay_cnt |-> pay_cnt + n - header_len,
                          pay_len |-> h.pay_len, has_crc |-> h.has_crc]

(* The rest of a frame is payload, as much of it as has been announced.    *)
UsefulNibbles_Broken(n) == n

UsefulNibbles(n) == UpTo(n, Useful(header_decoder) - header_decoder.pay_cnt)

PassPayload(n) ==
  LET nout == UsefulNibbles(n) IN
  /\ payload_nibbles' = payload_nibbles \o PayloadPart(SubSeq(nibbles, 1, nout))
  /\ header_decoder' = [header_decoder EXCEPT !.is_header = FALSE, !.pay_cnt = @ + nout]
  /\ UNCHANGED announced

HeaderDecoderWork ==
  /\ nibbles # <<>>
  /\ LET tags == {i \in DOMAIN nibbles : StartsFrame(nibbles[i]) \/ StartsPayload(nibbles[i])}
         n == ItemsToProcess(nibbles, tags)
         first == nibbles[1]
         is_header == IF 1 \in tags THEN StartsFrame(first) ELSE header_decoder.is_header
     IN  /\ \/ /\ is_header /\ n >= header_len
               /\ DecodeHeader(first[1], IF StartsFrame(first) THEN 0 ELSE header_decoder.pay_cnt, n)
            \/ ~is_header /\ PassPayload(n)
         /\ nibbles' = SubSeq(nibbles, n + 1, Len(nibbles))
  /\ UNCHANGED <<fed, bytes, verified, dewhitening, crc_verif, zmq_sink, reports>>

-----------------------------------------------------------------------------
(* dewhitening: two nibbles make a byte; it stops behind the CRC.          *)

Offset_Broken(f) == dewhitening.offset

Offset(f) == 0

NewFrame(f) ==
  [pay_len |-> announced[f].pay_len, has_crc |-> announced[f].has_crc, offset |-> Offset(f)]

Byte(lo, hi, offset, tag) == [lo |-> lo, hi |-> hi, offset |-> offset, tag |-> tag]

DewhiteningWork ==
  /\ Len(payload_nibbles) >= 2
  /\ LET xs == payload_nibbles
         tags == {i \in DOMAIN xs : StartsFrame(xs[i])}
         d == IF 1 \in tags THEN NewFrame(xs[1][1]) ELSE dewhitening
         n == UpTo(ItemsToProcess(xs, tags) \div 2, d.pay_len + 2 * d.has_crc - d.offset)
     IN  /\ bytes' = bytes \o
              [i \in 1..n |-> Byte(xs[2 * i - 1], xs[2 * i], d.offset + i - 1,
                                   IF i = 1 /\ 1 \in tags THEN xs[1][1] ELSE None)]
         /\ payload_nibbles' = SubSeq(xs, 2 * n + 1, Len(xs))
         /\ dewhitening' = [d EXCEPT !.offset = @ + n]
  /\ UNCHANGED <<fed, announced, nibbles, verified, header_decoder, crc_verif, zmq_sink, reports>>

-----------------------------------------------------------------------------
(* crc_verif collects a frame and its CRC.  It takes the first tag in its  *)
(* input for that of the frame it is collecting, wherever the tag is.      *)

FirstTag(xs, old) ==
  LET tags == {i \in DOMAIN xs : xs[i].tag # None} IN
  IF tags = {} THEN old ELSE xs[Min(tags)].tag

Tagged(xs, tag) == [i \in DOMAIN xs |-> [xs[i] EXCEPT !.tag = IF i = 1 THEN tag ELSE None]]

LeftAfterError_Broken(in_buff) == in_buff

LeftAfterError(in_buff) == <<>>

Length(f) == announced[f].pay_len + 2 * announced[f].has_crc

CrcVerifWork ==
  /\ bytes # <<>>
  /\ LET f == FirstTag(bytes, crc_verif.tag)
         in_buff == crc_verif.in_buff \o bytes
         Holds(left) == crc_verif' = [tag |-> f, in_buff |-> left]
     IN  \/ /\ announced[f].err = 1
            /\ verified' = verified \o Tagged(SubSeq(in_buff, 1, 1), f)
            /\ Holds(LeftAfterError(in_buff))
         \/ /\ announced[f].err = 0 /\ Len(in_buff) >= Length(f)
            /\ verified' = verified \o Tagged(SubSeq(in_buff, 1, announced[f].pay_len), f)
            /\ Holds(SubSeq(in_buff, Length(f) + 1, Len(in_buff)))
         \/ /\ announced[f].err = 0 /\ Len(in_buff) < Length(f)
            /\ Holds(in_buff)
            /\ UNCHANGED verified
  /\ bytes' = <<>>
  /\ UNCHANGED <<fed, announced, nibbles, payload_nibbles, header_decoder, dewhitening,
                 zmq_sink, reports>>

-----------------------------------------------------------------------------
(* worker_zmq_sink sends DEMOD_DONE, and before it the payload to the      *)
(* application.                                                            *)

Contents(xs) == [i \in DOMAIN xs |-> [lo |-> xs[i].lo, hi |-> xs[i].hi, offset |-> xs[i].offset]]

ZmqSinkWork ==
  /\ verified # <<>>
  /\ LET f == FirstTag(verified, zmq_sink.tag) IN
       /\ zmq_sink' = [tag |-> f]
       /\ announced[f].err = 0 => Len(verified) >= announced[f].pay_len
       /\ reports' = Append(reports,
            [frame |-> f,
             payload |-> IF announced[f].err = 1 THEN Invalid
                         ELSE Contents(SubSeq(verified, 1, announced[f].pay_len))])
  /\ verified' = <<>>
  /\ UNCHANGED <<fed, announced, nibbles, payload_nibbles, bytes, header_decoder, dewhitening, crc_verif>>

Next == \/ BeginFrame \/ NextBlock
        \/ HeaderDecoderWork \/ DewhiteningWork \/ CrcVerifWork \/ ZmqSinkWork

Spec == Init /\ [][Next]_vars
=============================================================================
