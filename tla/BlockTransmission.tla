------------------------- MODULE BlockTransmission -------------------------
(***************************************************************************)
(* A block of a frame on its way: coded, interleaved and Gray mapped by    *)
(* the transmitter, disturbed on the air, decoded by the receiver with     *)
(* hard decisions (gr-lora_sdr) and with soft ones (the base band unit).   *)
(* The air is no code: it changes symbols.                                 *)
(***************************************************************************)
EXTENDS Coding

CONSTANTS
  Sf,           \* spreading factor
  Kinds,        \* of block: code rate, and whether the rate is reduced
  Blocks,       \* contents of blocks, longer than a block needs
  Shifts,       \* from the symbol sent to the one received, if disturbed
  Reliability,  \* magnitude of the LLRs of an undisturbed symbol
  Trust,        \* and of a disturbed one
  MaxDisturbed  \* bound: symbols disturbed

ASSUME TransmissionAssumption ==
  /\ Sf \in 7..12
  /\ Kinds \subseteq [cr : CodeRates, reduced : BOOLEAN]
  /\ \A b \in Blocks : b \in [0..(Sf - 1) -> Nibble]
  /\ Shifts \subseteq 1..(2^Sf - 1)
  /\ Reliability \in Nat \ {0} /\ Trust \subseteq Nat /\ MaxDisturbed \in Nat

VARIABLES kind,       \* of the block under way
          data,       \* its nibbles
          sent,       \* its symbols
          received,   \* its symbols as the receiver finds them
          trust,      \* how sure it is of each
          hard, soft  \* what it decodes

vars == <<kind, data, sent, received, trust, hard, soft>>

NoBlock == [i \in {} |-> 0]

SfApp == IF kind.reduced THEN Sf - 2 ELSE Sf
CwLen == kind.cr + 4

Transmit(k, block) ==
  LET s == IF k.reduced THEN Sf - 2 ELSE Sf
      len == k.cr + 4
      words == Interleave([i \in 0..(s - 1) |-> Codeword(block[i], k.cr)], s, len)
  IN  [i \in 0..(len - 1) |->
         gray_demap(IF k.reduced THEN WithParity(words[i], s) ELSE words[i], Sf)]

Init ==
  /\ kind \in Kinds
  /\ data \in {[i \in 0..(SfApp - 1) |-> b[i]] : b \in Blocks}
  /\ sent = Transmit(kind, data)
  /\ received = sent
  /\ trust = [i \in 0..(CwLen - 1) |-> Reliability]
  /\ hard = NoBlock /\ soft = NoBlock

Disturbed == {i \in DOMAIN sent : received[i] # sent[i]}

Disturb ==
  /\ hard = NoBlock
  /\ \E i \in DOMAIN sent \ Disturbed :
       /\ Cardinality(Disturbed) < MaxDisturbed
       /\ \E d \in Shifts : received' = [received EXCEPT ![i] = (@ + d) % 2^Sf]
       /\ \E t \in Trust : trust' = [trust EXCEPT ![i] = t]
  /\ UNCHANGED <<kind, data, sent, hard, soft>>

Demapped == [i \in DOMAIN received |-> GrayWord(received[i], Sf, kind.reduced)]

Decode ==
  /\ hard = NoBlock
  /\ LET words == Demapped
         bits == Deinterleave(words, SfApp, CwLen)
         llrs == Deinterleave([i \in DOMAIN received |-> [j \in 0..(SfApp - 1) |->
                                 IF words[i][j] = 1 THEN trust[i] ELSE -trust[i]]],
                              SfApp, CwLen)
     IN  /\ hard' = [k \in 0..(SfApp - 1) |-> HardNibble(bits[k], kind.cr)]
         /\ soft' = [k \in 0..(SfApp - 1) |-> SoftNibble(llrs[k], kind.cr)]
  /\ UNCHANGED <<kind, data, sent, received, trust>>

Next == Disturb \/ Decode

Spec == Init /\ [][Next]_vars

-----------------------------------------------------------------------------
Decoded == hard # NoBlock

(* The interleaver spreads a symbol over all code words, so that one wrong *)
(* symbol is one wrong bit in each at most: with code rates 4/7 and 4/8    *)
(* the block survives whatever became of one symbol, and every block       *)
(* survives an undisturbed channel.  Hard decisions need no more.          *)
OneSymbolCorrected ==
  Decoded /\ Cardinality(Disturbed) <= (IF kind.cr >= 3 THEN 1 ELSE 0) => hard = data

(* Soft decisions as well, unless the receiver is surer of the wrong       *)
(* symbol than of two right ones together.                                 *)
OneSymbolOutvoted ==
  /\ Decoded /\ Cardinality(Disturbed) <= (IF kind.cr >= 3 THEN 1 ELSE 0)
  /\ \A i \in DOMAIN trust : trust[i] < 2 * Reliability
  => soft = data

BitsWrong(i) ==
  LET right == GrayWord(sent[i], Sf, kind.reduced)
      demapped == GrayWord(received[i], Sf, kind.reduced)
  IN  {j \in 0..(SfApp - 1) : right[j] # demapped[j]}

(* A peak of the spectrum one bin off, the usual error, costs one bit of a *)
(* symbol and never more; at the reduced rate a shift upwards by less than *)
(* four bins costs none.                                                   *)
ShiftCostsOneBit ==
  \A i \in DOMAIN sent :
    LET shift == (received[i] - sent[i]) % 2^Sf IN
    /\ shift \in {1, 2^Sf - 1} => Cardinality(BitsWrong(i)) <= 1
    /\ kind.reduced /\ shift < 4 => BitsWrong(i) = {}

-----------------------------------------------------------------------------
NibbleOf(v) == [k \in 0..3 |-> (v \div 2^k) % 2]

(* Every nibble occurs, at every place of a block.                         *)
SampleBlocks == {[i \in 0..(Sf - 1) |-> NibbleOf((5 * i + b) % 16)] : b \in {0, 6, 13}}

(* The header, a payload at low data rate, and payloads at all code rates. *)
SampleKinds == [cr : {3, 4}, reduced : BOOLEAN] \cup [cr : {1, 2}, reduced : {FALSE}]

(* The neighbours, and shifts that change many bits.                       *)
SampleShifts == {1, 2, 3, 21, 64, 90, 127}
=============================================================================
