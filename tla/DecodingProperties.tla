------------------------- MODULE DecodingProperties -------------------------
(***************************************************************************)
(* What the decoding chain promises, and instances for TLC.                *)
(***************************************************************************)
EXTENDS DecodingChain

(* The symbols of the header hold no more nibbles than a frame has.        *)
NoSurplus ==
  \A f \in DOMAIN Frames : HeaderNibbles(f) - header_len <= Useful(Frames[f])

Payload(f) ==
  [i \in 1..Frames[f].pay_len |->
     [lo |-> <<f, 2 * i - 1>>, hi |-> <<f, 2 * i>>, offset |-> i - 1]]

Delivery == INSTANCE PayloadDelivery WITH
  Payloads <- [f \in DOMAIN Frames |-> Payload(f)], begun <- fed.frame

(* Each frame is reported once, in order, and with its own bytes, each of  *)
(* them whitened with its own place of the sequence: four threads cut the  *)
(* stream where they like, and no byte of an invalid frame, no padding and *)
(* no CRC slips into another one.                                          *)
DeliversPayloads == Delivery!DeliverySpec

(* When a frame has been reported nothing of it is left in the chain that  *)
(* the next frame could meet, for frames whose payload goes beyond the     *)
(* symbols of the header or fills them.                                    *)
NothingLeft ==
  Len(reports) = fed.frame =>
    /\ nibbles = <<>> /\ payload_nibbles = <<>> /\ bytes = <<>> /\ verified = <<>>
    /\ crc_verif.in_buff = <<>>

(* GNU Radio calls a block whose input has something for it.               *)
FairSpec == Spec /\ WF_vars(BeginFrame) /\ WF_vars(NextBlock)
                 /\ WF_vars(HeaderDecoderWork) /\ WF_vars(DewhiteningWork)
                 /\ WF_vars(CrcVerifWork) /\ WF_vars(ZmqSinkWork)

(* Every frame is reported to the broker, so that its work can end: none   *)
(* gets stuck behind what an earlier one left.                             *)
FramesReported == <>(Len(reports) = Len(Frames))

-----------------------------------------------------------------------------
Frame(sf, pay_len, has_crc) == [sf |-> sf, ldro |-> 0, pay_len |-> pay_len, has_crc |-> has_crc]

(* SF 7 leaves no room behind the header, so a tag waits for its item;     *)
(* then a payload that fills the header block, one of several blocks with  *)
(* CRC, and one without.                                                   *)
MixedFrames == <<Frame(7, 3, 1), Frame(9, 1, 0), Frame(8, 9, 1), Frame(10, 4, 0)>>

(* One byte and no CRC at SF 10: two nibbles, where the block has three.   *)
SurplusFrames == <<Frame(10, 1, 0), Frame(10, 1, 0)>>

Garbled == {[pay_len |-> 0, has_crc |-> 1], [pay_len |-> 2, has_crc |-> 0]}
=============================================================================
