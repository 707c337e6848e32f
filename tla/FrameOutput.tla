---------------------------- MODULE FrameOutput ----------------------------
(***************************************************************************)
(* What the decoding chain may count on: rx_combining hands it one frame   *)
(* after the other, a frame per work and in the order of the works; of a   *)
(* frame it gets the eight symbols of the header, and the rest only once   *)
(* it has told how many there are, and exactly that many.                  *)
(***************************************************************************)
EXTENDS Integers, Sequences

CONSTANTS Works,
          Lengths    \* numbers of symbols that a header may announce

VARIABLE output   \* the frames: work, number of symbols output, symbols in all

Unknown == -1
Invalid == -2
HeaderSymbols == 8

Frame(w, n) == [work |-> w, count |-> n, length |-> Unknown]

Latest == output[Len(output)]

Ended(f) == f.length = Invalid \/ f.count = f.length

OutputInit == output = <<>>

Begin ==
  /\ output # <<>> => Ended(Latest)
  /\ \E w \in Works, n \in 1..HeaderSymbols :
       /\ \A i \in DOMAIN output : output[i].work < w
       /\ output' = Append(output, Frame(w, n))

MostOf(f) == IF f.length = Unknown THEN HeaderSymbols ELSE f.length

Extend ==
  /\ output # <<>> /\ Latest.length # Invalid
  /\ \E n \in Latest.count..MostOf(Latest) :
       output' = [output EXCEPT ![Len(output)].count = n]

HeaderKnown ==
  /\ output # <<>> /\ Latest.length = Unknown /\ Latest.count = HeaderSymbols
  /\ \E length \in {Invalid} \cup Lengths :
       output' = [output EXCEPT ![Len(output)].length = length]

OutputNext == Begin \/ Extend \/ HeaderKnown

OutputSpec == OutputInit /\ [][OutputNext]_output
=============================================================================
