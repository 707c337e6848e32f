---------------------------- MODULE SymbolStream ----------------------------
(***************************************************************************)
(* What a demodulation worker may count on of a stream: the symbols of a   *)
(* frame follow each other without a gap, the first one carries the tag of *)
(* the frame's work, and a work has one frame at most.                     *)
(***************************************************************************)
EXTENDS Integers, Sequences

VARIABLE current   \* the last frame: its work, and where its symbols are from

Consecutive(symbols) == \A i \in DOMAIN symbols : symbols[i] = symbols[1] + i - 1

IsFrame(frame) == frame.symbols # <<>> /\ Consecutive(frame.symbols)

StreamInit == current = [work |-> 0, symbols |-> <<>>]

NextFrame == current'.work > current.work /\ IsFrame(current')

MoreSymbols ==
  /\ current'.work = current.work /\ IsFrame(current')
  /\ Len(current'.symbols) > Len(current.symbols)
  /\ current'.symbols[1] = current.symbols[1]

StreamSpec == StreamInit /\ [][NextFrame \/ MoreSymbols]_current
=============================================================================
