-------------------------- MODULE PayloadDelivery --------------------------
(***************************************************************************)
(* What the broker and the application may count on: of the frames that    *)
(* reach the decoding chain each is reported once, in order, either as     *)
(* invalid or with its own payload.                                        *)
(***************************************************************************)
EXTENDS Integers, Sequences

CONSTANTS Payloads,   \* the payload of each frame, in order
          Invalid

VARIABLES begun,      \* how many frames have begun to arrive
          reports     \* the reports on them

DeliveryInit == begun = 0 /\ reports = <<>>

Begin ==
  /\ begun < Len(Payloads)
  /\ begun' = begun + 1
  /\ UNCHANGED reports

Report ==
  /\ Len(reports) < begun
  /\ \E p \in {Invalid, Payloads[Len(reports) + 1]} :
       reports' = Append(reports, [frame |-> Len(reports) + 1, payload |-> p])
  /\ UNCHANGED begun

DeliverySpec == DeliveryInit /\ [][Begin \/ Report]_<<begun, reports>>
=============================================================================
