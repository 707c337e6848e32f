---------------------------- MODULE MCCombining ----------------------------
(***************************************************************************)
(* Small instances of a demodulation worker for TLC.                       *)
(***************************************************************************)
EXTENDS CombiningProperties

CONSTANTS s1, s2, s3

Header(len, crc) == [pay_len |-> len, has_crc |-> crc, cr |-> 1]

(* Two works of two and three streams.  The streams of the first one leave *)
(* symbols behind, and s3 joins when the others may still have messages of *)
(* the first under way.                                                    *)
TwoWorks == {<<s1, 1>>, <<s2, 1>>, <<s1, 2>>, <<s2, 2>>, <<s3, 2>>}

OneStream == {<<s1, 1>>}

(* Payload of one byte with CRC: eight symbols and one block of five.      *)
ShortFrames == [w \in Works |-> Header(1, 1)]

(* Payload of one byte and no CRC: it fits into the header's eight symbols. *)
HeaderFrames == [w \in Works |-> Header(1, 0)]
=============================================================================
