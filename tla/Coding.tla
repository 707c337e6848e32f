------------------------------- MODULE Coding -------------------------------
(***************************************************************************)
(* Hamming code, interleaver and Gray mapping of gr-lora_sdr, for the      *)
(* transmitter and the receiver.  Words are functions of bits, so that the *)
(* lemmas of DecodingProofs hold for words of any value.                   *)
(*                                                                         *)
(* A nibble has its least significant bit at 0, which is the order in      *)
(* which the encoder sends it; a symbol has its most significant bit at 0, *)
(* as int2bool leaves it.  A block is s nibbles, sent as len symbols.      *)
(***************************************************************************)
EXTENDS Integers, FiniteSetsExt

Bit == {0, 1}
Nibble == [0..3 -> Bit]
CodeRates == 1..4

Flip(b) == 1 - b

-----------------------------------------------------------------------------
(* hamming_enc.                                                            *)

ParityBit(n, k) ==
  CASE k = 4 -> (n[0] + n[1] + n[2]) % 2
    [] k = 5 -> (n[1] + n[2] + n[3]) % 2
    [] k = 6 -> (n[0] + n[1] + n[3]) % 2
    [] k = 7 -> (n[0] + n[2] + n[3]) % 2

Codeword(n, cr) ==
  [k \in 0..(cr + 3) |->
     IF k < 4 THEN n[k]
     ELSE IF cr = 1 THEN (n[0] + n[1] + n[2] + n[3]) % 2 ELSE ParityBit(n, k)]

(* hamming_dec, hard decisions: the syndrome names the bit to correct; a   *)
(* code word of eight bits with an even number of ones is left as it is.   *)
Syndrome(c) ==
  <<(c[0] + c[1] + c[2] + c[4]) % 2,
    (c[1] + c[2] + c[3] + c[5]) % 2,
    (c[0] + c[1] + c[3] + c[6]) % 2>>

SyndromeOf(k) ==
  CASE k = 0 -> <<1, 0, 1>> [] k = 1 -> <<1, 1, 1>> [] k = 2 -> <<1, 1, 0>> [] k = 3 -> <<0, 1, 1>>

OddOnes(c) == (c[0] + c[1] + c[2] + c[3] + c[4] + c[5] + c[6] + c[7]) % 2 = 1

Correctable(c, cr) == cr = 3 \/ (cr = 4 /\ OddOnes(c))

HardNibble(c, cr) ==
  [k \in 0..3 |-> IF Correctable(c, cr) /\ Syndrome(c) = SyndromeOf(k) THEN Flip(c[k]) ELSE c[k]]

(* hamming_dec, soft decisions: the code word that agrees best with the    *)
(* log-likelihood ratios of its bits, the first one of equals.             *)
cw_LUT == <<0, 23, 45, 58, 78, 89, 99, 116, 139, 156, 166, 177, 197, 210, 232, 255>>
cw_LUT_cr5 == <<0, 24, 40, 48, 72, 80, 96, 120, 136, 144, 160, 184, 192, 216, 232, 240>>

BitOf(value, j) == (value \div 2^(7 - j)) % 2

BitsOf(lut) == [n \in 1..16 |-> [j \in 0..7 |-> BitOf(lut[n], j)]]
LutBits == BitsOf(cw_LUT)

LutBitsCr5_Broken == BitsOf(cw_LUT)

LutBitsCr5 == BitsOf(cw_LUT_cr5)

cw_proba(llr, cr, n) ==
  LET bits == IF cr # 1 THEN LutBits[n] ELSE LutBitsCr5[n]
  IN  MapThenSumSet(LAMBDA j : IF bits[j] = 1 THEN llr[j] ELSE -llr[j], 0..(cr + 3))

SoftNibble(llr, cr) ==
  LET proba == [n \in 1..16 |-> cw_proba(llr, cr, n)]
      idx_max == Min({n \in 1..16 : \A m \in 1..16 : proba[m] <= proba[n]})
  IN  [k \in 0..3 |-> LutBits[idx_max][k]]

-----------------------------------------------------------------------------
(* interleaver and deinterleaver.                                          *)

Interleave(cw_bin, s, len) ==
  [i \in 0..(len - 1) |-> [j \in 0..(s - 1) |-> cw_bin[(i - j - 1) % s][i]]]

Deinterleave_Broken(inter_bin, s, len) ==
  [k \in 0..(s - 1) |-> [i \in 0..(len - 1) |-> inter_bin[i][(i - k) % s]]]

Deinterleave(inter_bin, s, len) ==
  [k \in 0..(s - 1) |-> [i \in 0..(len - 1) |-> inter_bin[i][(i - k - 1) % s]]]

(* In a block of reduced rate a symbol ends with a parity bit and a zero.  *)
WithParity(word, s) ==
  [j \in 0..(s + 1) |->
     IF j < s THEN word[j]
     ELSE IF j = s THEN MapThenSumSet(LAMBDA k : word[k], 0..(s - 1)) % 2
     ELSE 0]

-----------------------------------------------------------------------------
(* gray_demap of the transmitter: the prefix parities, plus one; and the   *)
(* receiver, which takes one away, drops the two bits of a reduced rate    *)
(* and maps back.                                                          *)

Prefix(word, j) == MapThenSumSet(LAMBDA k : word[k], 0..j) % 2

gray_demap(word, sf) ==
  (MapThenSumSet(LAMBDA j : Prefix(word, j) * 2^(sf - 1 - j), 0..(sf - 1)) + 1) % 2^sf

GrayWord_Broken(bin, sf, reduced) ==
  LET value == (bin % 2^sf) \div (IF reduced THEN 4 ELSE 1)
      s == IF reduced THEN sf - 2 ELSE sf
      Digit(j) == (value \div 2^(s - 1 - j)) % 2
  IN  [j \in 0..(s - 1) |-> Digit(j)]

GrayWord(bin, sf, reduced) ==
  LET value == ((bin - 1) % 2^sf) \div (IF reduced THEN 4 ELSE 1)
      s == IF reduced THEN sf - 2 ELSE sf
      Digit(j) == (value \div 2^(s - 1 - j)) % 2
  IN  [j \in 0..(s - 1) |-> IF j = 0 THEN Digit(0) ELSE (Digit(j) + Digit(j - 1)) % 2]

=============================================================================
