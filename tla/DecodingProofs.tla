--------------------------- MODULE DecodingProofs ---------------------------
(***************************************************************************)
(* What the decoding of a frame promises, for frames of every size.        *)
(*                                                                         *)
(* The code: one wrong symbol of a block, whatever became of it, does no   *)
(* harm at code rates 4/7 and 4/8.                                         *)
(*                                                                         *)
(* The chain behind it implements PayloadDelivery: what is on its way of a *)
(* frame is always one unbroken stretch of its nibbles and bytes, cut into *)
(* the buffers of the four blocks, and the chain is empty when the frame   *)
(* has been reported.                                                      *)
(***************************************************************************)
EXTENDS Coding, DecodingProperties, QueueLemmas

-----------------------------------------------------------------------------
(* The code                                                                *)


Corrected == {3, 4}     \* code rates with correction
Sizes == 5..12          \* nibbles of a block: spreading factor, less 2 if reduced

(* A code word of which at most bit j is wrong.                            *)
AlmostCodeword(c, n, cr, j) ==
  /\ c \in [0..(cr + 3) -> Bit]
  /\ \A k \in 0..(cr + 3) : k # j => c[k] = Codeword(n, cr)[k]

-----------------------------------------------------------------------------
(* The bits of a code word, one by one.                                    *)
LEMMA CodewordBits ==
  ASSUME NEW n \in Nibble, NEW cr \in Corrected
  PROVE  LET c == Codeword(n, cr) IN
         /\ c[0] = n[0] /\ c[1] = n[1] /\ c[2] = n[2] /\ c[3] = n[3]
         /\ c[4] = (n[0] + n[1] + n[2]) % 2
         /\ c[5] = (n[1] + n[2] + n[3]) % 2
         /\ c[6] = (n[0] + n[1] + n[3]) % 2
         /\ cr = 4 => c[7] = (n[0] + n[2] + n[3]) % 2
<1>1. 0..6 \subseteq 0..(cr + 3) /\ cr # 1 /\ (cr = 4 => 7 \in 0..(cr + 3))
  BY DEF Corrected
<1> DEFINE B(k) == IF k < 4 THEN n[k] ELSE ParityBit(n, k)
<1>2. \A k \in 0..(cr + 3) : Codeword(n, cr)[k] = B(k)
  BY <1>1 DEF Codeword
<1>3. /\ B(0) = n[0] /\ B(1) = n[1] /\ B(2) = n[2] /\ B(3) = n[3]
      /\ B(4) = (n[0] + n[1] + n[2]) % 2 /\ B(5) = (n[1] + n[2] + n[3]) % 2
      /\ B(6) = (n[0] + n[1] + n[3]) % 2 /\ B(7) = (n[0] + n[2] + n[3]) % 2
  BY DEF ParityBit
<1> HIDE DEF B
<1> QED  BY <1>1, <1>2, <1>3

(* Which syndrome names which bit.                                         *)
LEMMA SyndromeNames ==
  ASSUME NEW c
  PROVE  LET s0 == (c[0] + c[1] + c[2] + c[4]) % 2
             s1 == (c[1] + c[2] + c[3] + c[5]) % 2
             s2 == (c[0] + c[1] + c[3] + c[6]) % 2
         IN  /\ Syndrome(c) = SyndromeOf(0) <=> s0 = 1 /\ s1 = 0 /\ s2 = 1
             /\ Syndrome(c) = SyndromeOf(1) <=> s0 = 1 /\ s1 = 1 /\ s2 = 1
             /\ Syndrome(c) = SyndromeOf(2) <=> s0 = 1 /\ s1 = 1 /\ s2 = 0
             /\ Syndrome(c) = SyndromeOf(3) <=> s0 = 0 /\ s1 = 1 /\ s2 = 1
PROOF BY DEF Syndrome, SyndromeOf

Parity(a, b, d, e) == (a + b + d + e) % 2
ParityWith(a, b, d, e, rest) == (a + b + d + e + rest) % 2

(* A wrong bit turns a parity over.                                        *)
LEMMA ParityTurns ==
  ASSUME NEW a \in Bit, NEW b \in Bit, NEW d \in Bit, NEW e \in Bit,
         Parity(a, b, d, e) = 0
  PROVE  /\ Parity(Flip(a), b, d, e) = 1
         /\ Parity(a, Flip(b), d, e) = 1
         /\ Parity(a, b, Flip(d), e) = 1
         /\ Parity(a, b, d, Flip(e)) = 1
PROOF BY DEF Bit, Flip, Parity

(* One wrong bit turns the parity of a sum.                                *)
LEMMA SumTurns ==
  ASSUME NEW a \in Bit, NEW others \in Nat, (a + others) % 2 = 0
  PROVE  (Flip(a) + others) % 2 = 1
PROOF BY DEF Bit, Flip

(* In a code word the parities hold.                                       *)
LEMMA ParityHolds ==
  ASSUME NEW a \in Bit, NEW b \in Bit, NEW d \in Bit
  PROVE  /\ (a + b + d) % 2 \in Bit
         /\ Parity(a, b, d, (a + b + d) % 2) = 0
PROOF BY DEF Bit, Parity

(* A code word of rate 4/8 has even parity, whichever nibble it is of.     *)
LEMMA ParityWithHolds ==
  ASSUME NEW a \in Bit, NEW b \in Bit, NEW d \in Bit, NEW e \in Bit
  PROVE  LET rest == ((a + b + d) % 2) + ((b + d + e) % 2) + ((a + b + e) % 2) + ((a + d + e) % 2)
         IN  rest \in Nat /\ ParityWith(a, b, d, e, rest) = 0
PROOF BY DEF Bit, ParityWith

(* Of two different bits each is the other one flipped.                    *)
LEMMA FlipBit ==
  ASSUME NEW a \in Bit, NEW b \in Bit, a # b
  PROVE  a = Flip(b) /\ Flip(a) = b
PROOF BY DEF Bit, Flip

(* Hard decisions correct a code word with one wrong bit, or none.         *)
LEMMA OneBitCorrected ==
  ASSUME NEW n \in Nibble, NEW cr \in Corrected, NEW c, NEW j \in 0..(cr + 3),
         AlmostCodeword(c, n, cr, j)
  PROVE  HardNibble(c, cr) = n
PROOF
  <1> DEFINE w == Codeword(n, cr)
             s0(v) == Parity(v[0], v[1], v[2], v[4])
             s1(v) == Parity(v[1], v[2], v[3], v[5])
             s2(v) == Parity(v[0], v[1], v[3], v[6])
             all(v) == ParityWith(v[0], v[1], v[2], v[3], v[4] + v[5] + v[6] + v[7])
  <1>1. n[0] \in Bit /\ n[1] \in Bit /\ n[2] \in Bit /\ n[3] \in Bit
    BY DEF Nibble
  <1>2. \A i \in 0..6 : i \in 0..(cr + 3)
    BY DEF Corrected
  <1>3. j \in 0..7 /\ (cr = 3 => j # 7) /\ (cr = 4 => 7 \in 0..(cr + 3))
    BY DEF Corrected
  <1>4. \A i \in 0..(cr + 3) : c[i] \in Bit /\ (i # j => c[i] = w[i])
    BY DEF AlmostCodeword
  <1>5. /\ Syndrome(c) = SyndromeOf(0) <=> s0(c) = 1 /\ s1(c) = 0 /\ s2(c) = 1
        /\ Syndrome(c) = SyndromeOf(1) <=> s0(c) = 1 /\ s1(c) = 1 /\ s2(c) = 1
        /\ Syndrome(c) = SyndromeOf(2) <=> s0(c) = 1 /\ s1(c) = 1 /\ s2(c) = 0
        /\ Syndrome(c) = SyndromeOf(3) <=> s0(c) = 0 /\ s1(c) = 1 /\ s2(c) = 1
    BY SyndromeNames DEF Parity
  <1>6. cr = 4 => (OddOnes(c) <=> all(c) = 1)
    BY <1>1, <1>2, <1>3, <1>4 DEF OddOnes, ParityWith, Correctable, Corrected, Bit
  <1>7. /\ w[0] = n[0] /\ w[1] = n[1] /\ w[2] = n[2] /\ w[3] = n[3]
        /\ w[4] = (n[0] + n[1] + n[2]) % 2
        /\ w[5] = (n[1] + n[2] + n[3]) % 2
        /\ w[6] = (n[0] + n[1] + n[3]) % 2
        /\ cr = 4 => w[7] = (n[0] + n[2] + n[3]) % 2
    BY CodewordBits
  <1>8. /\ \A i \in 0..6 : w[i] \in Bit
        /\ cr = 4 => w[7] \in Bit
    <2>1. w[4] \in Bit /\ w[5] \in Bit /\ w[6] \in Bit /\ (cr = 4 => w[7] \in Bit)
      BY <1>1, <1>7, ParityHolds
    <2> QED BY <1>1, <1>7, <2>1
  <1>9. s0(w) = 0 /\ s1(w) = 0 /\ s2(w) = 0
    BY <1>1, <1>7, ParityHolds
  <1>10. cr = 4 => all(w) = 0
    <2> DEFINE rest == ((n[0] + n[1] + n[2]) % 2) + ((n[1] + n[2] + n[3]) % 2)
                       + ((n[0] + n[1] + n[3]) % 2) + ((n[0] + n[2] + n[3]) % 2)
    <2>1. ParityWith(n[0], n[1], n[2], n[3], rest) = 0
      BY <1>1, ParityWithHolds
    <2>2. cr = 4 => w[4] + w[5] + w[6] + w[7] = rest
      BY <1>7
    <2> HIDE DEF rest, w
    <2> QED BY <1>7, <2>1, <2>2
  <1> SUFFICES ASSUME NEW k \in 0..3 PROVE HardNibble(c, cr)[k] = n[k]
    <2>1. HardNibble(c, cr) = [i \in 0..3 |-> HardNibble(c, cr)[i]]
      BY DEF HardNibble
    <2>2. n = [i \in 0..3 |-> n[i]]
      BY DEF Nibble
    <2>3. \A i \in 0..3 : HardNibble(c, cr)[i] = n[i]
      OBVIOUS
    <2> QED BY <2>1, <2>2, <2>3, Zenon
  <1>11. HardNibble(c, cr)[k] =
           IF Correctable(c, cr) /\ Syndrome(c) = SyndromeOf(k) THEN Flip(c[k]) ELSE c[k]
    BY DEF HardNibble
  <1>12. k \in 0..6 /\ w[k] = n[k]
    BY <1>7
  <1> HIDE DEF w
  <1>13. CASE c[j] = w[j]
    <2>1. \A i \in 0..(cr + 3) : c[i] = w[i]
      BY <1>4, <1>13
    <2>2. s0(c) = 0 /\ s1(c) = 0 /\ s2(c) = 0
      BY <1>2, <1>9, <2>1
    <2>3. Syndrome(c) # SyndromeOf(k)
      BY <2>2, <1>5
    <2> QED BY <1>2, <1>11, <1>12, <2>1, <2>3
  <1>14. CASE c[j] # w[j]
    <2>1. w[j] \in Bit
      BY <1>3, <1>8 DEF Corrected
    <2>2. c[j] = Flip(w[j]) /\ Flip(c[j]) = w[j]
      BY <1>4, <1>14, <2>1, FlipBit
    <2>3. /\ \A i \in 0..6 : c[i] = IF i = j THEN Flip(w[i]) ELSE w[i]
          /\ cr = 4 => c[7] = IF j = 7 THEN Flip(w[7]) ELSE w[7]
      BY <1>2, <1>3, <1>4, <2>2
    <2>4. /\ c[0] = IF j = 0 THEN Flip(w[0]) ELSE w[0]
          /\ c[1] = IF j = 1 THEN Flip(w[1]) ELSE w[1]
          /\ c[2] = IF j = 2 THEN Flip(w[2]) ELSE w[2]
          /\ c[3] = IF j = 3 THEN Flip(w[3]) ELSE w[3]
          /\ c[4] = IF j = 4 THEN Flip(w[4]) ELSE w[4]
          /\ c[5] = IF j = 5 THEN Flip(w[5]) ELSE w[5]
          /\ c[6] = IF j = 6 THEN Flip(w[6]) ELSE w[6]
      BY <2>3
    <2>5. s0(c) = IF j \in {0, 1, 2, 4} THEN 1 ELSE 0
      <3>1. /\ Parity(Flip(w[0]), w[1], w[2], w[4]) = 1
            /\ Parity(w[0], Flip(w[1]), w[2], w[4]) = 1
            /\ Parity(w[0], w[1], Flip(w[2]), w[4]) = 1
            /\ Parity(w[0], w[1], w[2], Flip(w[4])) = 1
        BY <1>8, <1>9, ParityTurns
      <3> QED BY <1>9, <2>4, <3>1
    <2>6. s1(c) = IF j \in {1, 2, 3, 5} THEN 1 ELSE 0
      <3>1. /\ Parity(Flip(w[1]), w[2], w[3], w[5]) = 1
            /\ Parity(w[1], Flip(w[2]), w[3], w[5]) = 1
            /\ Parity(w[1], w[2], Flip(w[3]), w[5]) = 1
            /\ Parity(w[1], w[2], w[3], Flip(w[5])) = 1
        BY <1>8, <1>9, ParityTurns
      <3> QED BY <1>9, <2>4, <3>1
    <2>7. s2(c) = IF j \in {0, 1, 3, 6} THEN 1 ELSE 0
      <3>1. /\ Parity(Flip(w[0]), w[1], w[3], w[6]) = 1
            /\ Parity(w[0], Flip(w[1]), w[3], w[6]) = 1
            /\ Parity(w[0], w[1], Flip(w[3]), w[6]) = 1
            /\ Parity(w[0], w[1], w[3], Flip(w[6])) = 1
        BY <1>8, <1>9, ParityTurns
      <3> QED BY <1>9, <2>4, <3>1
    <2>8. ASSUME j \in 0..3, cr = 4 PROVE all(c) = 1
      <3>1. /\ w[0] \in Bit /\ w[1] \in Bit /\ w[2] \in Bit /\ w[3] \in Bit
            /\ w[4] \in Bit /\ w[5] \in Bit /\ w[6] \in Bit /\ w[7] \in Bit
            /\ all(w) = 0
        BY <1>8, <1>10, <2>8
      <3> DEFINE rest == w[4] + w[5] + w[6] + w[7]
                 others == w[0] + w[1] + w[2] + w[3] + rest - w[j]
      <3>2. j = 0 \/ j = 1 \/ j = 2 \/ j = 3
        BY <2>8
      <3>3. w[j] \in Bit /\ others \in Nat
        <4>1. /\ w[0] \in Nat /\ w[1] \in Nat /\ w[2] \in Nat /\ w[3] \in Nat
              /\ w[4] \in Nat /\ w[5] \in Nat /\ w[6] \in Nat /\ w[7] \in Nat
          BY <3>1 DEF Bit
        <4>2. rest \in Nat
          BY <4>1
        <4> HIDE DEF rest
        <4>3. CASE j = 0
          BY <4>1, <4>2, <4>3, <3>1
        <4>4. CASE j = 1
          BY <4>1, <4>2, <4>4, <3>1
        <4>5. CASE j = 2
          BY <4>1, <4>2, <4>5, <3>1
        <4>6. CASE j = 3
          BY <4>1, <4>2, <4>6, <3>1
        <4> QED BY <3>2, <4>3, <4>4, <4>5, <4>6
      <3>4. (w[j] + others) % 2 = 0
        BY <3>1, <3>2 DEF ParityWith, Bit
      <3>5. (Flip(w[j]) + others) % 2 = 1
        <4> HIDE DEF others
        <4> QED BY <3>3, <3>4, SumTurns
      <3>6. c[4] + c[5] + c[6] + c[7] = rest
        BY <2>3, <2>4, <2>8
      <3>7. c[0] + c[1] + c[2] + c[3] + rest = Flip(w[j]) + others
        BY <2>4, <3>1, <3>2 DEF Bit, Flip
      <3> QED BY <3>5, <3>6, <3>7 DEF ParityWith
    <2>9. j \in 0..3 => Correctable(c, cr)
      BY <1>6, <2>8 DEF Correctable, Corrected
    <2>10. Syndrome(c) = SyndromeOf(k) <=> k = j
      BY <1>3, <1>5, <2>5, <2>6, <2>7
    <2> QED BY <1>2, <1>11, <1>12, <2>2, <2>3, <2>9, <2>10
  <1> QED BY <1>13, <1>14

-----------------------------------------------------------------------------
(* The place of a bit in the interleaved block and back.                   *)
LEMMA PlaceInBlock ==
  ASSUME NEW s \in Sizes, NEW i \in 0..7, NEW k \in 0..(s - 1)
  PROVE  /\ (i - k - 1) % s \in 0..(s - 1)
         /\ (i - ((i - k - 1) % s) - 1) % s = k
PROOF
  <1>1. CASE s = 5 BY <1>1
  <1>2. CASE s = 6 BY <1>2
  <1>3. CASE s = 7 BY <1>3
  <1>4. CASE s = 8 BY <1>4
  <1>5. CASE s = 9 BY <1>5
  <1>6. CASE s = 10 BY <1>6
  <1>7. CASE s = 11 BY <1>7
  <1>8. CASE s = 12 BY <1>8
  <1> QED BY <1>1, <1>2, <1>3, <1>4, <1>5, <1>6, <1>7, <1>8 DEF Sizes

(* Which bit of which symbol the deinterleaver puts where.                 *)
LEMMA DeinterleavedWord ==
  ASSUME NEW w, NEW s \in Sizes, NEW len \in Int, NEW k \in 0..(s - 1),
         \A i \in 0..(len - 1) : w[i][(i - k - 1) % s] \in Bit
  PROVE  /\ Deinterleave(w, s, len)[k] \in [0..(len - 1) -> Bit]
         /\ \A i \in 0..(len - 1) : Deinterleave(w, s, len)[k][i] = w[i][(i - k - 1) % s]
PROOF BY DEF Deinterleave

(* Which bit of which code word the interleaver puts where.                *)
LEMMA InterleavedBit ==
  ASSUME NEW w, NEW s, NEW len, NEW i \in 0..(len - 1), NEW j \in 0..(s - 1)
  PROVE  Interleave(w, s, len)[i][j] = w[(i - j - 1) % s][i]
PROOF BY DEF Interleave

Coded(data, s, cr) == [k \in 0..(s - 1) |-> Codeword(data[k], cr)]
Words(data, s, cr) == Interleave(Coded(data, s, cr), s, cr + 4)

(* Symbols as they were sent, but for at most one, symbol i.               *)
AlmostSent(received, data, s, cr, i) ==
  /\ received \in [0..(cr + 3) -> [0..(s - 1) -> Bit]]
  /\ \A m \in 0..(cr + 3) : m # i => received[m] = Words(data, s, cr)[m]

(* deinterleaver undoes interleaver, so that a wrong symbol is at most one *)
(* wrong bit of each code word, the one with the number of the symbol.     *)
LEMMA SymbolsSpread ==
  ASSUME NEW s \in Sizes, NEW cr \in Corrected, NEW data \in [0..(s - 1) -> Nibble],
         NEW received, NEW i \in 0..(cr + 3), AlmostSent(received, data, s, cr, i),
         NEW k \in 0..(s - 1)
  PROVE  AlmostCodeword(Deinterleave(received, s, cr + 4)[k], data[k], cr, i)
PROOF
  <1> DEFINE c == Deinterleave(received, s, cr + 4)[k]
  <1>1. 0..((cr + 4) - 1) = 0..(cr + 3) /\ 0..(cr + 3) \subseteq 0..7
    BY DEF Corrected
  <1>2. \A m \in 0..(cr + 3) :
          /\ (m - k - 1) % s \in 0..(s - 1)
          /\ (m - ((m - k - 1) % s) - 1) % s = k
    BY <1>1, PlaceInBlock
  <1>3. \A m \in 0..(cr + 3) : received[m][(m - k - 1) % s] \in Bit
    BY <1>2 DEF AlmostSent
  <1>4. /\ c \in [0..(cr + 3) -> Bit]
        /\ \A m \in 0..(cr + 3) : c[m] = received[m][(m - k - 1) % s]
    <2> DEFINE len == cr + 4
    <2>1. len \in Int
      BY DEF Corrected
    <2>2. 0..(len - 1) = 0..(cr + 3)
      BY <1>1
    <2> HIDE DEF len
    <2>3. /\ Deinterleave(received, s, len)[k] \in [0..(len - 1) -> Bit]
          /\ \A m \in 0..(len - 1) :
               Deinterleave(received, s, len)[k][m] = received[m][(m - k - 1) % s]
      BY <1>3, <2>2, <2>1, DeinterleavedWord
    <2> QED BY <2>2, <2>3 DEF len
  <1>5. ASSUME NEW m \in 0..(cr + 3), m # i PROVE c[m] = Codeword(data[k], cr)[m]
    <2> DEFINE place == (m - k - 1) % s
    <2>1. place \in 0..(s - 1) /\ (m - place - 1) % s = k
      BY <1>2
    <2>2. c[m] = received[m][place]
      BY <1>4
    <2> HIDE DEF place, c
    <2>3. received[m] = Words(data, s, cr)[m]
      BY <1>5 DEF AlmostSent
    <2>4. Words(data, s, cr)[m][place] = Coded(data, s, cr)[(m - place - 1) % s][m]
      <3>1. m \in 0..((cr + 4) - 1)
        BY <1>1
      <3> QED BY <2>1, <3>1, InterleavedBit DEF Words
    <2>5. Coded(data, s, cr)[k] = Codeword(data[k], cr)
      BY DEF Coded
    <2> QED BY <2>1, <2>2, <2>3, <2>4, <2>5
  <1> QED BY <1>4, <1>5, Zenon DEF AlmostCodeword

(* Whatever became of one symbol of a block, and whichever it was, hard    *)
(* decisions give back the data, at code rates 4/7 and 4/8: what           *)
(* interleaver and hamming_enc send and deinterleaver and hamming_dec make *)
(* of it, for every block size of spreading factors 7 to 12 with and       *)
(* without reduced rate and all contents.                                  *)
THEOREM OneSymbolHarmless ==
  ASSUME NEW s \in Sizes, NEW cr \in Corrected, NEW data \in [0..(s - 1) -> Nibble],
         NEW received, NEW i \in 0..(cr + 3), AlmostSent(received, data, s, cr, i)
  PROVE  [k \in 0..(s - 1) |-> HardNibble(Deinterleave(received, s, cr + 4)[k], cr)] = data
PROOF
  <1>1. ASSUME NEW k \in 0..(s - 1)
        PROVE  HardNibble(Deinterleave(received, s, cr + 4)[k], cr) = data[k]
    <2>1. AlmostCodeword(Deinterleave(received, s, cr + 4)[k], data[k], cr, i)
      BY SymbolsSpread
    <2>2. data[k] \in Nibble
      OBVIOUS
    <2> QED BY <2>1, <2>2, OneBitCorrected
  <1>2. data = [k \in 0..(s - 1) |-> data[k]]
    OBVIOUS
  <1> QED BY <1>1, <1>2, Zenon

-----------------------------------------------------------------------------
(* Parts of frames                                                         *)

(* The items number from, from + 1, ... of F.                              *)
Slice(F, from, n) == [i \in 1..n |-> F[from + i - 1]]

Items(F) == {F[j] : j \in Int}

(* What a slice is as a sequence.                                          *)
LEMMA SliceType ==
  ASSUME NEW F, NEW from \in Int, NEW n \in Nat
  PROVE  /\ Slice(F, from, n) \in Seq(Items(F)) /\ Len(Slice(F, from, n)) = n
         /\ DOMAIN Slice(F, from, n) = 1..n
         /\ \A i \in 1..n : Slice(F, from, n)[i] = F[from + i - 1]
         /\ Slice(F, from, n) = <<>> <=> n = 0
<1> DEFINE s == Slice(F, from, n)
<1>1. s \in [1..n -> Items(F)] /\ \A i \in 1..n : s[i] = F[from + i - 1]
  BY DEF Slice, Items
<1> HIDE DEF s
<1>2. s \in Seq(Items(F)) /\ Len(s) = n /\ DOMAIN s = 1..n
  BY <1>1, Tabulated
<1>3. s = <<>> <=> n = 0
  BY <1>2, EmptySeq
<1> QED  BY <1>1, <1>2, <1>3 DEF s

(* A sequence is a slice if its elements are.                              *)
LEMMA IsSlice ==
  ASSUME NEW F, NEW from \in Int, NEW n \in Nat,
         NEW T, NEW s \in Seq(T), Len(s) = n, \A i \in 1..n : s[i] = F[from + i - 1]
  PROVE  s = Slice(F, from, n)
<1> DEFINE t == Slice(F, from, n)
<1>1. t \in Seq(Items(F)) /\ Len(t) = n /\ \A i \in 1..n : t[i] = F[from + i - 1]
  BY SliceType
<1> HIDE DEF t
<1>2. s = t
  BY <1>1, SeqEqual
<1> QED  BY <1>2 DEF t

(* Slices that follow each other are one.                                  *)
LEMMA SlicesJoin ==
  ASSUME NEW F, NEW from \in Int, NEW m \in Nat, NEW n \in Nat
  PROVE  Slice(F, from, m) \o Slice(F, from + m, n) = Slice(F, from, m + n)
<1> DEFINE s == Slice(F, from, m)
           t == Slice(F, from + m, n)
           u == s \o t
<1>1. /\ s \in Seq(Items(F)) /\ Len(s) = m /\ \A i \in 1..m : s[i] = F[from + i - 1]
      /\ t \in Seq(Items(F)) /\ Len(t) = n /\ \A i \in 1..n : t[i] = F[from + m + i - 1]
  BY SliceType
<1> HIDE DEF s, t
<1>2. /\ u \in Seq(Items(F)) /\ Len(u) = m + n
      /\ \A i \in 1..(m + n) : u[i] = IF i <= m THEN s[i] ELSE t[i - m]
  <2>1. s \in Seq(Items(F)) /\ t \in Seq(Items(F)) /\ Len(s) = m /\ Len(t) = n
    BY <1>1
  <2> QED  BY <2>1, ConcatProperties
<1> HIDE DEF u
<1>3. \A i \in 1..(m + n) : u[i] = F[from + i - 1]
  <2> SUFFICES ASSUME NEW i \in 1..(m + n) PROVE u[i] = F[from + i - 1]
    OBVIOUS
  <2>1. CASE i <= m
    BY <1>1, <1>2, <2>1
  <2>2. CASE ~(i <= m)
    <3>1. i - m \in 1..n /\ from + m + (i - m) - 1 = from + i - 1
      BY <2>2
    <3> QED  BY <1>1, <1>2, <2>2, <3>1
  <2> QED  BY <2>1, <2>2
<1> DEFINE k == m + n
<1>4. k \in Nat /\ u \in Seq(Items(F)) /\ Len(u) = k /\ \A i \in 1..k : u[i] = F[from + i - 1]
  BY <1>2, <1>3
<1> HIDE DEF k
<1>5. u = Slice(F, from, k)
  BY <1>4, IsSlice
<1> QED  BY <1>5 DEF s, t, u, k

(* The beginning of a slice, and the rest.                                 *)
LEMMA SliceParts ==
  ASSUME NEW F, NEW from \in Int, NEW n \in Nat, NEW m \in 0..n
  PROVE  /\ SubSeq(Slice(F, from, n), 1, m) = Slice(F, from, m)
         /\ SubSeq(Slice(F, from, n), m + 1, n) = Slice(F, from + m, n - m)
<1> DEFINE s == Slice(F, from, n)
           b == SubSeq(s, 1, m)
           r == SubSeq(s, m + 1, n)
<1>1. s \in Seq(Items(F)) /\ Len(s) = n /\ \A i \in 1..n : s[i] = F[from + i - 1]
  BY SliceType
<1> HIDE DEF s
<1>2. b \in Seq(Items(F)) /\ Len(b) = m /\ \A i \in 1..m : b[i] = s[i]
  BY <1>1, SubSeqProperties
<1>3. r \in Seq(Items(F)) /\ Len(r) = n - m /\ \A i \in 1..(n - m) : r[i] = s[m + i]
  BY <1>1, SubSeqProperties
<1> HIDE DEF b, r
<1>4. b = Slice(F, from, m)
  BY <1>1, <1>2, IsSlice
<1>5. \A i \in 1..(n - m) : r[i] = F[from + m + i - 1]
  <2> SUFFICES ASSUME NEW i \in 1..(n - m) PROVE r[i] = F[from + m + i - 1]
    OBVIOUS
  <2>1. m + i \in 1..n /\ from + (m + i) - 1 = from + m + i - 1
    OBVIOUS
  <2> QED  BY <1>1, <1>3, <2>1
<1>6. r = Slice(F, from + m, n - m)
  <2> DEFINE k == n - m
             q == from + m
  <2>1. k \in Nat /\ q \in Int /\ \A i \in 1..k : r[i] = F[q + i - 1]
    BY <1>5
  <2>2. r \in Seq(Items(F)) /\ Len(r) = k
    BY <1>3
  <2> HIDE DEF k, q
  <2>3. r = Slice(F, q, k)
    BY <2>1, <2>2, IsSlice
  <2> QED  BY <2>3 DEF k, q
<1> QED  BY <1>4, <1>6 DEF s, b, r

(* The number of items that a call may take.                               *)
LEMMA UpToIs ==
  ASSUME NEW k \in Int, NEW n \in Int
  PROVE  UpTo(k, n) = IF n < 0 \/ k < 0 THEN 0 ELSE IF k <= n THEN k ELSE n
<1> DEFINE m == IF k <= n THEN k ELSE n
<1>1. Min({k, n}) = m
  BY Lesser
<1>2. m \in Int
  OBVIOUS
<1> HIDE DEF m
<1>3. Max({0, m}) = IF 0 >= m THEN 0 ELSE m
  BY <1>2, Greater
<1> QED  BY <1>1, <1>3 DEF UpTo, m

(* The first of one tag.                                                   *)
LEMMA OnlyOne == Min({1}) = 1
<1>1. Min({1, 1}) = 1
  BY Lesser
<1> QED  BY <1>1

(* A block is sent only when there is a nibble for it.                     *)
LEMMA BlocksNeeded ==
  ASSUME NEW a \in Int, NEW b \in 5..12, NEW m \in Nat, m < CeilDiv(a, b)
  PROVE  m * b < a
<1> DEFINE q == (-a) \div b
           p == q * b
           r == m * b
<1>1. q \in Int /\ m < -q
  BY DEF CeilDiv
<1>2. p \in Int /\ r \in Int /\ -a < p + b
  OBVIOUS
<1>3. r + p <= -b
  <2>1. m + q <= -1
    BY <1>1
  <2> HIDE DEF q
  <2>2. (m + q) * b <= -b
    BY <1>1, <2>1
  <2>3. (m + q) * b = r + p
    BY <1>1
  <2> HIDE DEF p, r
  <2> QED  BY <2>2, <2>3
<1> HIDE DEF p, r
<1>4. r < a
  BY <1>2, <1>3
<1> QED  BY <1>4 DEF r

-----------------------------------------------------------------------------
(* A frame on its way through the chain                                     *)

(* The nibbles of a frame, and the bytes they make: the first byte has the *)
(* tag.                                                                    *)
Numbered(f) == [j \in Int |-> <<f, j>>]

WhitenedByte(f, j) == Byte(<<f, 2 * j - 1>>, <<f, 2 * j>>, j - 1, IF j = 1 THEN f ELSE None)
Whitened(f) == [j \in Int |-> WhitenedByte(f, j)]

(* Nibbles of the payload that have been fed, and that have been passed on.*)
Fed(f) == HeaderNibbles(f) - header_len + fed.blocks * BlockNibbles(f)
Passed == header_decoder.pay_cnt

Header(f) == [pay_len |-> Frames[f].pay_len, has_crc |-> Frames[f].has_crc, err |-> 0]

(* Nothing is on its way, and nothing more will come.                      *)
Idle(f) ==
  /\ Len(reports) = f
  /\ nibbles = <<>> /\ payload_nibbles = <<>> /\ bytes = <<>> /\ verified = <<>>
  /\ crc_verif.in_buff = <<>>
  /\ f # 0 => announced[f].err = 1 \/ Useful(announced[f]) <= Fed(f)

(* The header has been fed.                                                *)
HeaderComes(f) ==
  /\ announced[f] = NothingAnnounced /\ fed.blocks = 0
  /\ nibbles = Slice(Numbered(f), 1, HeaderNibbles(f))
  /\ payload_nibbles = <<>> /\ bytes = <<>> /\ verified = <<>> /\ crc_verif.in_buff = <<>>

(* It was invalid, and what stands for the frame is in one of the buffers. *)
Garbage(f) ==
  /\ announced[f].err = 1 /\ announced[f].pay_len >= 1
  /\ nibbles = <<>> /\ crc_verif.in_buff = <<>>
  /\ \/ payload_nibbles = Slice(Numbered(f), 1, 2) /\ bytes = <<>> /\ verified = <<>>
     \/ payload_nibbles = <<>> /\ bytes = Slice(Whitened(f), 1, 1) /\ verified = <<>>
     \/ payload_nibbles = <<>> /\ bytes = <<>> /\ verified = Slice(Whitened(f), 1, 1)

(* Of the k bytes dewhitened crc_verif has t, and waits for the rest.      *)
Collecting(f, k, t) ==
  /\ verified = <<>> /\ t < Length(f)
  /\ bytes = Slice(Whitened(f), t + 1, k - t)
  /\ crc_verif.in_buff = Slice(Whitened(f), 1, t)
  /\ t > 0 => crc_verif.tag = f

(* It had all of them.                                                     *)
Collected(f, k) ==
  /\ k = Length(f) /\ Passed = 2 * k
  /\ bytes = <<>> /\ crc_verif.in_buff = <<>>
  /\ verified = Slice(Whitened(f), 1, Frames[f].pay_len)

(* As many nibbles have been passed on as there are in front of dewhitening*)
(* and in its k bytes.                                                     *)
Dewhitened(f, k) ==
  /\ 2 * k <= Passed
  /\ payload_nibbles = Slice(Numbered(f), 2 * k + 1, Passed - 2 * k)
  /\ k > 0 => dewhitening = [pay_len |-> Frames[f].pay_len, has_crc |-> Frames[f].has_crc,
                             offset |-> k]

(* What is left in front of header_decoder: nothing, if all that is useful *)
(* has been passed on.                                                     *)
PassedOn(f) ==
  /\ HeaderNibbles(f) - header_len <= Passed /\ Passed <= Fed(f) /\ Passed <= Useful(Frames[f])
  /\ nibbles = IF Passed < Useful(Frames[f])
               THEN Slice(Numbered(f), Passed + header_len + 1, Fed(f) - Passed) ELSE <<>>
  /\ Passed > HeaderNibbles(f) - header_len => ~header_decoder.is_header
  /\ header_decoder.pay_len = Frames[f].pay_len /\ header_decoder.has_crc = Frames[f].has_crc

PayloadComes(f) ==
  /\ announced[f] = Header(f)
  /\ PassedOn(f)
  /\ \E k \in Nat : /\ Dewhitened(f, k)
                    /\ Collected(f, k) \/ \E t \in 0..k : Collecting(f, k, t)

Told == [frame : Nat, payload : {Invalid} \cup {Payload(f) : f \in DOMAIN Frames}]

ChainTypeOK ==
  /\ fed \in [frame : 0..Len(Frames), blocks : Nat]
  /\ announced \in [DOMAIN Frames -> [pay_len : Nat, has_crc : {0, 1}, err : {0, 1}]]
  /\ header_decoder \in [is_header : BOOLEAN, pay_cnt : Int, pay_len : Nat, has_crc : {0, 1}]
  /\ dewhitening \in [pay_len : Nat, has_crc : {0, 1}, offset : Int]
  /\ reports \in Seq(Told)

Later == \A g \in DOMAIN Frames : g > fed.frame => announced[g] = NothingAnnounced

Busy(f) ==
  /\ f > 0 /\ Len(reports) = f - 1
  /\ HeaderComes(f) \/ Garbage(f) \/ PayloadComes(f)

ChainInv == ChainTypeOK /\ Later /\ (Idle(fed.frame) \/ Busy(fed.frame))

-----------------------------------------------------------------------------
(* Slices of frames.                                                       *)

(* What the assumptions say of the numbers of nibbles of a frame.          *)
LEMMA FrameNumbers ==
  ASSUME NoSurplus, NEW f \in DOMAIN Frames
  PROVE  /\ HeaderNibbles(f) \in 5..10 /\ BlockNibbles(f) \in 5..12
         /\ Frames[f].pay_len \in 1..255 /\ Frames[f].has_crc \in {0, 1}
         /\ Useful(Frames[f]) = 2 * (Frames[f].pay_len + 2 * Frames[f].has_crc)
         /\ Useful(Frames[f]) \in Nat
         /\ HeaderNibbles(f) - header_len <= Useful(Frames[f])
         /\ Frames \in Seq(PhyFrames) /\ DOMAIN Frames = 1..Len(Frames) /\ Len(Frames) \in Nat
<1>1. /\ Frames \in Seq(PhyFrames) /\ DOMAIN Frames = 1..Len(Frames) /\ Len(Frames) \in Nat
  BY ChainAssumption
<1>2. Frames[f] \in PhyFrames
  BY <1>1, Element
<1>3. /\ Frames[f].sf \in 7..12 /\ Frames[f].ldro \in {0, 1}
      /\ Frames[f].pay_len \in 1..255 /\ Frames[f].has_crc \in {0, 1}
  BY <1>2 DEF PhyFrames
<1>4. HeaderNibbles(f) \in 5..10 /\ BlockNibbles(f) \in 5..12
  BY <1>3 DEF HeaderNibbles, BlockNibbles
<1>5. /\ Useful(Frames[f]) = 2 * (Frames[f].pay_len + 2 * Frames[f].has_crc)
      /\ Useful(Frames[f]) \in Nat
  BY <1>3 DEF Useful
<1> QED  BY <1>1, <1>3, <1>4, <1>5 DEF NoSurplus

(* Frames are counted from one, and none is empty.                         *)
LEMMA FramePositive ==
  ASSUME NoSurplus, NEW f \in DOMAIN Frames
  PROVE  f \in Nat \ {0} /\ Frames[f].pay_len \in Nat \ {0}
<1>1. f \in Nat \ {0}
  <2>1. DOMAIN Frames = 1..Len(Frames) /\ Len(Frames) \in Nat
    BY ChainAssumption
  <2> QED  BY <2>1
<1> DEFINE l == Frames[f].pay_len
<1>2. l \in 1..255
  BY FrameNumbers
<1> HIDE DEF l
<1>3. l \in Nat \ {0}
  BY <1>2
<1> QED  BY <1>1, <1>3 DEF l

(* What is fed is a slice of the frame.                                    *)
LEMMA NibblesAre ==
  ASSUME NEW f, NEW from \in Int, NEW n \in Nat
  PROVE  Nibbles(f, from, n) = Slice(Numbered(f), from, n)
BY DEF Nibbles, Slice, Numbered

(* Its nibbles are numbered in order.                                      *)
LEMMA NumberedItems ==
  ASSUME NEW f, NEW from \in Int, NEW n \in Nat
  PROVE  \A i \in 1..n : Slice(Numbered(f), from, n)[i] = <<f, from + i - 1>>
BY DEF Slice, Numbered

(* header_decoder numbers the payload anew.                                *)
LEMMA PayloadNumbered ==
  ASSUME NEW f, NEW from \in Int, NEW n \in Nat
  PROVE  PayloadPart(Slice(Numbered(f), from, n)) = Slice(Numbered(f), from - header_len, n)
<1> DEFINE s == Slice(Numbered(f), from, n)
<1>1. DOMAIN s = 1..n /\ \A i \in 1..n : s[i] = <<f, from + i - 1>>
  BY SliceType, NumberedItems
<1> HIDE DEF s
<1>2. \A i \in 1..n : <<s[i][1], s[i][2] - header_len>> = <<f, (from - header_len) + i - 1>>
  <2> SUFFICES ASSUME NEW i \in 1..n
               PROVE  <<s[i][1], s[i][2] - header_len>> = <<f, (from - header_len) + i - 1>>
    OBVIOUS
  <2> DEFINE x == s[i]
             y == from + i - 1
             z == (from - header_len) + i - 1
  <2>1. x = <<f, y>>
    BY <1>1
  <2>2. y - header_len = z
    BY DEF header_len
  <2> HIDE DEF x, y, z
  <2>3. <<x[1], x[2] - header_len>> = <<f, z>>
    BY <2>1, <2>2
  <2> QED  BY <2>3 DEF x, z
<1>3. PayloadPart(s) = [i \in 1..n |-> <<f, (from - header_len) + i - 1>>]
  BY <1>1, <1>2 DEF PayloadPart
<1>4. Slice(Numbered(f), from - header_len, n) = [i \in 1..n |-> <<f, (from - header_len) + i - 1>>]
  BY DEF Slice, Numbered, header_len
<1> QED  BY <1>3, <1>4 DEF s

(* A byte comes from two nibbles and has its place of the sequence.        *)
LEMMA ByteFields ==
  ASSUME NEW lo, NEW hi, NEW offset, NEW tag, NEW u
  PROVE  /\ Byte(lo, hi, offset, tag).lo = lo /\ Byte(lo, hi, offset, tag).hi = hi
         /\ Byte(lo, hi, offset, tag).offset = offset /\ Byte(lo, hi, offset, tag).tag = tag
         /\ [Byte(lo, hi, offset, tag) EXCEPT !.tag = u] = Byte(lo, hi, offset, u)
BY DEF Byte

(* What the bytes of a slice are made of.                                  *)
LEMMA WhitenedItem ==
  ASSUME NEW f, NEW from \in Int, NEW n \in Nat, NEW i \in 1..n
  PROVE  LET x == Slice(Whitened(f), from, n)[i]
             j == from + i - 1 IN
         /\ x = WhitenedByte(f, j)
         /\ x.lo = <<f, 2 * j - 1>> /\ x.hi = <<f, 2 * j>> /\ x.offset = j - 1
         /\ x.tag = IF j = 1 THEN f ELSE None
<1> DEFINE x == Slice(Whitened(f), from, n)[i]
           j == from + i - 1
<1>1. x = WhitenedByte(f, j)
  BY DEF Slice, Whitened
<1> HIDE DEF x
<1> DEFINE lo == <<f, 2 * j - 1>>
           hi == <<f, 2 * j>>
           offset == j - 1
           tag == IF j = 1 THEN f ELSE None
<1>2. x = Byte(lo, hi, offset, tag)
  BY <1>1 DEF WhitenedByte
<1> HIDE DEF lo, hi, offset, tag
<1>3. x.lo = lo /\ x.hi = hi /\ x.offset = offset /\ x.tag = tag
  BY <1>2, ByteFields
<1> QED  BY <1>1, <1>3 DEF x, lo, hi, offset, tag

(* And those at the beginning of a frame.                                  *)
LEMMA FirstBytes ==
  ASSUME NEW f, NEW n \in Nat, NEW i \in 1..n
  PROVE  LET x == Slice(Whitened(f), 1, n)[i] IN
         /\ x = WhitenedByte(f, i)
         /\ x.lo = <<f, 2 * i - 1>> /\ x.hi = <<f, 2 * i>> /\ x.offset = i - 1
<1> DEFINE one == 1
<1>1. one \in Int /\ i = one + i - 1 /\ i \in Int
  OBVIOUS
<1> HIDE DEF one
<1> DEFINE x == Slice(Whitened(f), one, n)[i]
           j == one + i - 1
<1>2. /\ x = WhitenedByte(f, j)
      /\ x.lo = <<f, 2 * j - 1>> /\ x.hi = <<f, 2 * j>> /\ x.offset = j - 1
  <2>1. one \in Int
    BY <1>1
  <2> QED  BY <2>1, WhitenedItem
<1>3. j = i
  BY <1>1
<1> HIDE DEF x, j
<1> QED  BY <1>2, <1>3 DEF one, x

(* Only the first byte of a frame has a tag.                               *)
LEMMA FirstTagIs ==
  ASSUME NEW f \in Nat \ {0}, NEW from \in Nat \ {0}, NEW n \in Nat \ {0}, NEW old
  PROVE  FirstTag(Slice(Whitened(f), from, n), old) = IF from = 1 THEN f ELSE old
<1> DEFINE s == Slice(Whitened(f), from, n)
           tags == {i \in DOMAIN s : s[i].tag # None}
<1>1. DOMAIN s = 1..n
  BY SliceType
<1>2. \A i \in 1..n : s[i].tag = IF from + i - 1 = 1 THEN f ELSE None
  <2> SUFFICES ASSUME NEW i \in 1..n PROVE s[i].tag = IF from + i - 1 = 1 THEN f ELSE None
    OBVIOUS
  <2> DEFINE j == from + i - 1
  <2>2. s[i].tag = IF j = 1 THEN f ELSE None
    BY WhitenedItem
  <2> QED  BY <2>2
<1> HIDE DEF s
<1>3. CASE from = 1
  <2>1. \A i \in 1..n : s[i].tag # None <=> i = 1
    BY <1>2, <1>3 DEF None
  <2>2. 1 \in 1..n
    OBVIOUS
  <2>3. tags = {1}
    BY <1>1, <2>1, <2>2
  <2>4. s[1].tag = f
    BY <1>2, <1>3, <2>2
  <2> HIDE DEF tags
  <2>5. tags # {} /\ Min(tags) = 1
    BY <2>3, OnlyOne
  <2> QED  BY <1>3, <2>4, <2>5 DEF FirstTag, tags, s
<1>4. CASE from # 1
  <2>1. \A i \in 1..n : s[i].tag = None
    BY <1>2, <1>4
  <2>2. tags = {}
    BY <1>1, <2>1
  <2> QED  BY <1>4, <2>2 DEF FirstTag, tags, s
<1> QED  BY <1>3, <1>4

(* So the tags that crc_verif puts on a frame are those it has already.    *)
LEMMA TaggedIs ==
  ASSUME NEW f \in Nat, NEW n \in Nat
  PROVE  Tagged(Slice(Whitened(f), 1, n), f) = Slice(Whitened(f), 1, n)
<1> DEFINE s == Slice(Whitened(f), 1, n)
<1>1. DOMAIN s = 1..n /\ s = [i \in 1..n |-> s[i]]
  BY SliceType DEF Slice
<1>2. \A i \in 1..n : s[i] = WhitenedByte(f, i)
  BY FirstBytes
<1> HIDE DEF s
<1>3. \A i \in 1..n : [s[i] EXCEPT !.tag = IF i = 1 THEN f ELSE None] = s[i]
  <2> SUFFICES ASSUME NEW i \in 1..n
               PROVE  [s[i] EXCEPT !.tag = IF i = 1 THEN f ELSE None] = s[i]
    OBVIOUS
  <2> DEFINE lo == <<f, 2 * i - 1>>
             hi == <<f, 2 * i>>
             offset == i - 1
             tag == IF i = 1 THEN f ELSE None
  <2>1. s[i] = Byte(lo, hi, offset, tag)
    BY <1>2 DEF WhitenedByte
  <2> HIDE DEF lo, hi, offset, tag
  <2>2. [s[i] EXCEPT !.tag = tag] = s[i]
    BY <2>1, ByteFields
  <2> QED  BY <2>2 DEF tag
<1>4. Tagged(s, f) = s
  BY <1>1, <1>3 DEF Tagged
<1> QED  BY <1>4 DEF s

(* What worker_zmq_sink sends of a frame is its payload.                   *)
LEMMA ContentsAre ==
  ASSUME NEW f \in DOMAIN Frames, Frames[f].pay_len \in Nat
  PROVE  Contents(Slice(Whitened(f), 1, Frames[f].pay_len)) = Payload(f)
<1> DEFINE n == Frames[f].pay_len
           s == Slice(Whitened(f), 1, n)
<1>1. DOMAIN s = 1..n
  BY SliceType
<1>3. \A i \in 1..n : /\ s[i].lo = <<f, 2 * i - 1>> /\ s[i].hi = <<f, 2 * i>>
                      /\ s[i].offset = i - 1
  <2> HIDE DEF n
  <2> QED  BY FirstBytes DEF n
<1> HIDE DEF s
<1>4. Contents(s) = Payload(f)
  BY <1>1, <1>3 DEF Contents, Payload
<1> QED  BY <1>4 DEF s

-----------------------------------------------------------------------------
(* What a call of each block makes of a frame on its way                   *)

(* header_decoder finds nothing but the header that was fed.               *)
LEMMA HeaderDecoded ==
  ASSUME NoSurplus, NEW f \in DOMAIN Frames, ChainTypeOK, HeaderComes(f), HeaderDecoderWork
  PROVE  DecodeHeader(f, 0, HeaderNibbles(f)) /\ nibbles' = <<>>
<1> DEFINE N == HeaderNibbles(f)
           tags == {i \in DOMAIN nibbles : StartsFrame(nibbles[i]) \/ StartsPayload(nibbles[i])}
<1>1. N \in 5..10
  BY FrameNumbers
<1>2. /\ DOMAIN nibbles = 1..N /\ Len(nibbles) = N
      /\ \A i \in 1..N : nibbles[i] = <<f, i>>
      /\ nibbles \in Seq(Items(Numbered(f)))
  <2>1. nibbles = Slice(Numbered(f), 1, N) /\ N \in Nat
    BY <1>1 DEF HeaderComes
  <2> HIDE DEF N
  <2>2. DOMAIN nibbles = 1..N /\ Len(nibbles) = N /\ nibbles \in Seq(Items(Numbered(f)))
    BY <2>1, SliceType
  <2>3. \A i \in 1..N : nibbles[i] = <<f, i>>
    <3> SUFFICES ASSUME NEW i \in 1..N PROVE nibbles[i] = <<f, i>>
      OBVIOUS
    <3> DEFINE one == 1
    <3>1. one \in Int /\ one + i - 1 = i
      OBVIOUS
    <3>2. nibbles = Slice(Numbered(f), one, N)
      BY <2>1
    <3> HIDE DEF one
    <3> QED  BY <2>1, <3>1, <3>2, NumberedItems
  <2> QED  BY <2>2, <2>3
<1>3. \A i \in 1..N : (StartsFrame(nibbles[i]) \/ StartsPayload(nibbles[i])) <=> i = 1
  <2> SUFFICES ASSUME NEW i \in 1..N
               PROVE  (StartsFrame(nibbles[i]) \/ StartsPayload(nibbles[i])) <=> i = 1
    OBVIOUS
  <2>1. nibbles[i][1] = f /\ nibbles[i][2] = i
    BY <1>1, <1>2
  <2>2. i # N + 1
    BY <1>1
  <2> QED  BY <2>1, <2>2 DEF StartsFrame, StartsPayload
<1>4. 1 \in 1..N
  BY <1>1
<1>5. tags = {1}
  BY <1>2, <1>3, <1>4
<1>6. StartsFrame(nibbles[1]) /\ nibbles[1][1] = f
  BY <1>1, <1>2, <1>4 DEF StartsFrame
<1> HIDE DEF tags
<1>7. ItemsToProcess(nibbles, tags) = N
  BY <1>2, <1>5 DEF ItemsToProcess
<1>8. 1 \in tags
  BY <1>5
<1>9. DecodeHeader(f, 0, N) /\ nibbles' = SubSeq(nibbles, N + 1, Len(nibbles))
  BY <1>6, <1>7, <1>8 DEF HeaderDecoderWork, tags
<1>10. SubSeq(nibbles, N + 1, N) = <<>>
  BY <1>1, <1>2, SubSeqProperties, EmptySeq
<1> QED  BY <1>2, <1>9, <1>10

(* Garbled headers are announced with at least one byte.                   *)
LEMMA HeaderResult ==
  ASSUME NoSurplus, NEW f \in DOMAIN Frames, NEW h \in HeaderResults(f)
  PROVE  /\ h \in [pay_len : Nat, has_crc : {0, 1}, err : {0, 1}]
         /\ h.err = 1 => h.pay_len >= 1
         /\ h.err # 1 => h = Header(f)
<1>1. CASE h = Header(f)
  <2>1. Frames[f].pay_len \in 1..255 /\ Frames[f].has_crc \in {0, 1}
    BY FrameNumbers
  <2>2. h = [pay_len |-> Frames[f].pay_len, has_crc |-> Frames[f].has_crc, err |-> 0]
    BY <1>1 DEF Header
  <2>3. h \in [pay_len : Nat, has_crc : {0, 1}, err : {0, 1}] /\ h.err # 1
    BY <2>1, <2>2
  <2> QED  BY <1>1, <2>3
<1>2. ASSUME NEW g \in GarbledHeaders,
             h = [pay_len |-> Max({1, g.pay_len}), has_crc |-> g.has_crc, err |-> 1]
      PROVE  /\ h \in [pay_len : Nat, has_crc : {0, 1}, err : {0, 1}]
             /\ h.err = 1 /\ h.pay_len >= 1
  <2>1. g.pay_len \in 0..255 /\ g.has_crc \in {0, 1}
    BY ChainAssumption
  <2> DEFINE m == Max({1, g.pay_len})
  <2>2. m \in Nat /\ m >= 1
    <3> DEFINE p == g.pay_len
               one == 1
    <3>1. one \in Int /\ p \in Int /\ p >= 0
      BY <2>1
    <3> HIDE DEF p, one
    <3>2. Max({one, p}) = IF one >= p THEN one ELSE p
      BY <3>1, Greater
    <3> QED  BY <3>1, <3>2 DEF p, one
  <2> HIDE DEF m
  <2>3. h = [pay_len |-> m, has_crc |-> g.has_crc, err |-> 1]
    BY <1>2 DEF m
  <2> QED  BY <2>1, <2>2, <2>3
<1> QED  BY <1>1, <1>2 DEF HeaderResults, Header

(* It takes it for what it is, or for the header of an invalid frame.      *)
LEMMA HeaderStep ==
  ASSUME NoSurplus, NEW f \in DOMAIN Frames, ChainTypeOK, HeaderComes(f), HeaderDecoderWork
  PROVE  /\ ChainTypeOK' /\ (Garbage(f)' \/ PayloadComes(f)')
         /\ \A g \in DOMAIN Frames : g # f => announced'[g] = announced[g]
<1> DEFINE N == HeaderNibbles(f)
<1>1. /\ N \in 5..10 /\ BlockNibbles(f) \in 5..12 /\ N - header_len <= Useful(Frames[f])
      /\ Frames[f].pay_len \in 1..255 /\ Frames[f].has_crc \in {0, 1}
      /\ Useful(Frames[f]) \in Nat
  BY FrameNumbers
<1>2. DecodeHeader(f, 0, N) /\ nibbles' = <<>>
  BY HeaderDecoded
<1>3. PICK h \in HeaderResults(f) :
        /\ announced' = [announced EXCEPT ![f] = h]
        /\ payload_nibbles' = payload_nibbles \o
             (IF h.err = 1 THEN Nibbles(f, 1, 2) ELSE PayloadPart(SubSeq(nibbles, header_len + 1, N)))
        /\ header_decoder' = [is_header |-> TRUE, pay_cnt |-> 0 + N - header_len,
                              pay_len |-> h.pay_len, has_crc |-> h.has_crc]
  BY <1>2 DEF DecodeHeader
<1>4. /\ h \in [pay_len : Nat, has_crc : {0, 1}, err : {0, 1}]
      /\ h.err = 1 => h.pay_len >= 1
      /\ h.err # 1 => h = Header(f)
  BY HeaderResult
<1>5. /\ announced' \in [DOMAIN Frames -> [pay_len : Nat, has_crc : {0, 1}, err : {0, 1}]]
      /\ announced'[f] = h /\ \A g \in DOMAIN Frames : g # f => announced'[g] = announced[g]
  BY <1>3, <1>4 DEF ChainTypeOK
<1>6. /\ header_decoder' \in [is_header : BOOLEAN, pay_cnt : Int, pay_len : Nat, has_crc : {0, 1}]
      /\ header_decoder'.pay_cnt = N - header_len
      /\ header_decoder'.pay_len = h.pay_len /\ header_decoder'.has_crc = h.has_crc
  <2> DEFINE c == N - header_len
  <2>1. c \in Int /\ 0 + N - header_len = c
    BY <1>1 DEF header_len
  <2> HIDE DEF c, N
  <2>2. header_decoder' = [is_header |-> TRUE, pay_cnt |-> c, pay_len |-> h.pay_len,
                           has_crc |-> h.has_crc]
    BY <1>3, <2>1
  <2> QED  BY <1>4, <2>1, <2>2 DEF c
<1>7. fed' = fed /\ bytes' = bytes /\ verified' = verified /\ dewhitening' = dewhitening
      /\ crc_verif' = crc_verif /\ reports' = reports
  BY DEF HeaderDecoderWork
<1>8. ChainTypeOK'
  BY <1>5, <1>6, <1>7 DEF ChainTypeOK
<1>9. /\ payload_nibbles = <<>> /\ bytes = <<>> /\ verified = <<>> /\ crc_verif.in_buff = <<>>
      /\ fed.blocks = 0 /\ nibbles = Slice(Numbered(f), 1, N)
  BY DEF HeaderComes
<1>10. CASE h.err = 1
  <2>1. payload_nibbles' = <<>> \o Slice(Numbered(f), 1, 2)
    BY <1>3, <1>9, <1>10, NibblesAre
  <2>2. payload_nibbles' = Slice(Numbered(f), 1, 2)
    BY <2>1, SliceType, ConcatEmptySeq
  <2>3. Garbage(f)'
    BY <1>2, <1>4, <1>5, <1>7, <1>9, <1>10, <2>2 DEF Garbage
  <2> QED  BY <1>5, <1>8, <2>3
<1>11. CASE h.err # 1
  <2> DEFINE c == N - header_len
  <2>1. c \in Nat /\ N = 5 + c /\ c <= Useful(Frames[f]) /\ 5 \in 0..N /\ 1 + 5 = 6 /\ N - 5 = c
    BY <1>1 DEF header_len
  <2>2. SubSeq(nibbles, header_len + 1, N) = Slice(Numbered(f), 6, c)
    <3> DEFINE one == 1
               five == 5
    <3>1. one \in Int /\ five \in 0..N /\ N \in Nat /\ one + five = 6 /\ five + 1 = 6 /\ N - five = c
      BY <2>1
    <3>2. nibbles = Slice(Numbered(f), one, N) /\ header_len + 1 = 6
      BY <1>9 DEF header_len
    <3> HIDE DEF one, five, c, N
    <3>3. SubSeq(Slice(Numbered(f), one, N), five + 1, N) = Slice(Numbered(f), one + five, N - five)
      BY <3>1, SliceParts
    <3> QED  BY <3>1, <3>2, <3>3
  <2>3. PayloadPart(Slice(Numbered(f), 6, c)) = Slice(Numbered(f), 1, c)
    <3> DEFINE six == 6
    <3>1. six \in Int /\ six - header_len = 1
      BY DEF header_len
    <3> HIDE DEF six, c
    <3>2. PayloadPart(Slice(Numbered(f), six, c)) = Slice(Numbered(f), six - header_len, c)
      BY <2>1, <3>1, PayloadNumbered
    <3> QED  BY <3>1, <3>2 DEF six
  <2>4. payload_nibbles' = <<>> \o Slice(Numbered(f), 1, c)
    BY <1>3, <1>9, <1>11, <2>2, <2>3
  <2>5. payload_nibbles' = Slice(Numbered(f), 1, c)
    BY <2>1, <2>4, SliceType, ConcatEmptySeq
  <2>6. announced'[f] = Header(f)
    BY <1>4, <1>5, <1>11
  <2>7. Fed(f)' = c
    BY <1>1, <1>7, <1>9, <2>1 DEF Fed
  <2>8. PassedOn(f)'
    <3>1. Passed' = c
      BY <1>6 DEF Passed
    <3> DEFINE q == Passed' + header_len + 1
    <3>2. q \in Int /\ c - c = 0
      BY <2>1, <3>1 DEF header_len
    <3> HIDE DEF q, c
    <3>3. Slice(Numbered(f), q, Fed(f)' - Passed') = <<>>
      BY <2>7, <3>1, <3>2, SliceType
    <3>4. nibbles' = IF Passed' < Useful(Frames[f])
                     THEN Slice(Numbered(f), q, Fed(f)' - Passed') ELSE <<>>
      BY <1>2, <3>3
    <3>5. /\ N - header_len <= Passed' /\ Passed' <= Fed(f)' /\ Passed' <= Useful(Frames[f])
          /\ ~(Passed' > N - header_len)
      BY <2>1, <2>7, <3>1 DEF c
    <3>6. header_decoder'.pay_len = Frames[f].pay_len /\ header_decoder'.has_crc = Frames[f].has_crc
      BY <1>4, <1>6, <1>11 DEF Header
    <3> QED  BY <3>4, <3>5, <3>6 DEF PassedOn, q
  <2>9. Dewhitened(f, 0)'
    <3> HIDE DEF c
    <3>1. Passed' = c
      BY <1>6 DEF Passed, c
    <3>2. 2 * 0 = 0 /\ c - 0 = c /\ 0 <= c /\ 0 + 1 = 1
      BY <2>1
    <3> QED  BY <2>5, <3>1, <3>2 DEF Dewhitened
  <2>10. Collecting(f, 0, 0)'
    <3>1. Length(f)' > 0
      BY <1>1, <2>6 DEF Length, Header
    <3>2. Slice(Whitened(f), 1, 0) = <<>>
      BY SliceType
    <3> QED  BY <1>7, <1>9, <3>1, <3>2 DEF Collecting
  <2>11. PayloadComes(f)'
    BY <2>6, <2>8, <2>9, <2>10 DEF PayloadComes
  <2> QED  BY <1>5, <1>8, <2>11
<1> QED  BY <1>10, <1>11

(* What header_decoder finds in front of it of a payload is passed on, as  *)
(* much of it as is useful.                                                *)
LEMMA PayloadPassed ==
  ASSUME NoSurplus, NEW f \in DOMAIN Frames, ChainTypeOK, PassedOn(f), HeaderDecoderWork
  PROVE  /\ Passed < Useful(Frames[f]) /\ Passed < Fed(f) /\ Passed \in Int /\ Fed(f) \in Int
         /\ nibbles = Slice(Numbered(f), Passed + header_len + 1, Fed(f) - Passed)
         /\ PassPayload(Fed(f) - Passed) /\ nibbles' = <<>>
<1> DEFINE N == HeaderNibbles(f)
           n == Fed(f) - Passed
           from == Passed + header_len + 1
           tags == {i \in DOMAIN nibbles : StartsFrame(nibbles[i]) \/ StartsPayload(nibbles[i])}
<1>1. N \in 5..10 /\ BlockNibbles(f) \in 5..12 /\ Useful(Frames[f]) \in Nat
  BY FrameNumbers
<1>2. Passed \in Int /\ fed.blocks \in Nat
  BY DEF ChainTypeOK, Passed
<1>3. Fed(f) \in Int
  <2> DEFINE b == BlockNibbles(f)
             p == fed.blocks * b
  <2>1. p \in Int
    BY <1>1, <1>2
  <2> HIDE DEF p
  <2> QED  BY <1>1, <2>1 DEF Fed, header_len, p
<1>4. Passed <= Fed(f) /\ Passed <= Useful(Frames[f]) /\ N - header_len <= Passed
  BY DEF PassedOn
<1>5. nibbles # <<>>
  BY DEF HeaderDecoderWork
<1>6. Passed < Useful(Frames[f]) /\ nibbles = Slice(Numbered(f), from, n)
  BY <1>5 DEF PassedOn
<1>7. n \in Nat /\ from \in Int /\ from >= N + 1 /\ N \in Nat
  BY <1>1, <1>2, <1>3, <1>4 DEF header_len
<1>8. from = N + 1 \/ ~header_decoder.is_header
  BY <1>1, <1>2, <1>4 DEF PassedOn, header_len
<1> HIDE DEF N, n, from
<1>9. /\ DOMAIN nibbles = 1..n /\ Len(nibbles) = n /\ n # 0
      /\ nibbles \in Seq(Items(Numbered(f)))
      /\ \A i \in 1..n : nibbles[i] = <<f, from + i - 1>>
  BY <1>5, <1>6, <1>7, SliceType, NumberedItems
<1>10. 1 \in 1..n /\ from + 1 - 1 = from
  BY <1>7, <1>9
<1>11. nibbles[1] = <<f, from>>
  BY <1>9, <1>10
<1>12. \A i \in 1..n : /\ ~StartsFrame(nibbles[i])
                       /\ StartsPayload(nibbles[i]) => i = 1 /\ from = N + 1
  <2> SUFFICES ASSUME NEW i \in 1..n
               PROVE  /\ ~StartsFrame(nibbles[i])
                      /\ StartsPayload(nibbles[i]) => i = 1 /\ from = N + 1
    OBVIOUS
  <2> DEFINE x == nibbles[i]
             j == from + i - 1
  <2>1. j >= N + 1 /\ (j = N + 1 => i = 1 /\ from = N + 1) /\ j # 1
    BY <1>7, <1>1
  <2>2. x = <<f, j>>
    BY <1>9
  <2> HIDE DEF x, j
  <2>3. x[1] = f /\ x[2] = j
    BY <2>2
  <2> QED  BY <2>1, <2>3 DEF StartsFrame, StartsPayload, x, N
<1>13. tags \subseteq {1} /\ (1 \in tags => ~StartsFrame(nibbles[1]))
       /\ (1 \notin tags => ~header_decoder.is_header)
  <2>1. from = N + 1 => StartsPayload(nibbles[1])
    BY <1>11 DEF StartsPayload, N
  <2> QED  BY <1>8, <1>9, <1>10, <1>12, <2>1
<1> HIDE DEF tags
<1>14. ItemsToProcess(nibbles, tags) = n
  BY <1>9, <1>13 DEF ItemsToProcess
<1>15. PassPayload(n) /\ nibbles' = SubSeq(nibbles, n + 1, Len(nibbles))
  BY <1>13, <1>14 DEF HeaderDecoderWork, tags
<1>16. SubSeq(nibbles, n + 1, n) = <<>>
  BY <1>7, <1>9, SubSeqProperties, EmptySeq
<1>17. nibbles' = <<>>
  BY <1>9, <1>15, <1>16
<1>18. Passed < Fed(f)
  BY <1>2, <1>3, <1>4, <1>9 DEF n
<1> QED  BY <1>2, <1>3, <1>6, <1>15, <1>17, <1>18 DEF n, from

(* And the rest of the frame is still in order.                            *)
LEMMA PayloadStep ==
  ASSUME NoSurplus, NEW f \in DOMAIN Frames, ChainTypeOK, PayloadComes(f), HeaderDecoderWork
  PROVE  ChainTypeOK' /\ PayloadComes(f)' /\ announced' = announced
<1> DEFINE u == Useful(Frames[f])
           n == Fed(f) - Passed
           m == UsefulNibbles(n)
           N == HeaderNibbles(f)
<1>1. announced[f] = Header(f) /\ PassedOn(f)
  BY DEF PayloadComes
<1>2. /\ Passed < u /\ Passed < Fed(f) /\ Passed \in Int /\ Fed(f) \in Int
      /\ nibbles = Slice(Numbered(f), Passed + header_len + 1, n)
      /\ PassPayload(n) /\ nibbles' = <<>>
  BY <1>1, PayloadPassed
<1>3. /\ u \in Nat /\ N \in 5..10 /\ Frames[f].pay_len \in 1..255 /\ Frames[f].has_crc \in {0, 1}
      /\ u = 2 * (Frames[f].pay_len + 2 * Frames[f].has_crc)
  BY FrameNumbers
<1>4. /\ fed' = fed /\ bytes' = bytes /\ verified' = verified /\ dewhitening' = dewhitening
      /\ crc_verif' = crc_verif /\ reports' = reports /\ announced' = announced
  BY <1>2 DEF HeaderDecoderWork, PassPayload
<1>5. Useful(header_decoder) = u
  BY <1>1 DEF PassedOn, Useful
<1>6. m = IF n <= u - Passed THEN n ELSE u - Passed
  <2> DEFINE r == u - Passed
  <2>1. n \in Int /\ r \in Int /\ r > 0 /\ n > 0
    BY <1>2, <1>3
  <2>2. m = UpTo(n, r)
    BY <1>5 DEF UsefulNibbles, Passed
  <2> HIDE DEF n, r, m
  <2>3. m = IF n <= r THEN n ELSE r
    BY <2>1, <2>2, UpToIs
  <2> QED  BY <2>3 DEF r
<1> HIDE DEF m
<1>7. m \in 0..n /\ m \in Nat /\ Passed + m <= Fed(f) /\ Passed + m <= u /\ m > 0
      /\ (Passed + m < u => Passed + m = Fed(f))
  <2> HIDE DEF u
  <2> QED BY <1>2, <1>3, <1>6
<1>8. /\ payload_nibbles' = payload_nibbles \o PayloadPart(SubSeq(nibbles, 1, m))
      /\ header_decoder' = [header_decoder EXCEPT !.is_header = FALSE, !.pay_cnt = @ + m]
  BY <1>2 DEF PassPayload, m
<1>9. PayloadPart(SubSeq(nibbles, 1, m)) = Slice(Numbered(f), Passed + 1, m)
  <2> DEFINE from == Passed + header_len + 1
             to == from - header_len
  <2>1. from \in Int /\ to = Passed + 1 /\ n \in Nat
    BY <1>2 DEF header_len
  <2>2. nibbles = Slice(Numbered(f), from, n)
    BY <1>2
  <2> HIDE DEF from, n
  <2>3. SubSeq(nibbles, 1, m) = Slice(Numbered(f), from, m)
    BY <1>7, <2>1, <2>2, SliceParts
  <2>4. PayloadPart(Slice(Numbered(f), from, m)) = Slice(Numbered(f), to, m)
    BY <1>7, <2>1, PayloadNumbered
  <2> HIDE DEF to
  <2> QED  BY <2>1, <2>3, <2>4
<1>10. /\ header_decoder' \in [is_header : BOOLEAN, pay_cnt : Int, pay_len : Nat, has_crc : {0, 1}]
       /\ Passed' = Passed + m /\ ~header_decoder'.is_header
       /\ header_decoder'.pay_len = header_decoder.pay_len
       /\ header_decoder'.has_crc = header_decoder.has_crc
  <2>1. header_decoder \in [is_header : BOOLEAN, pay_cnt : Int, pay_len : Nat, has_crc : {0, 1}]
    BY DEF ChainTypeOK
  <2> DEFINE c == header_decoder.pay_cnt + m
  <2>2. c \in Int
    BY <1>7, <2>1
  <2> HIDE DEF c
  <2>3. header_decoder' = [header_decoder EXCEPT !.is_header = FALSE, !.pay_cnt = c]
    BY <1>8 DEF c
  <2>4. /\ header_decoder' \in [is_header : BOOLEAN, pay_cnt : Int, pay_len : Nat, has_crc : {0, 1}]
        /\ header_decoder'.pay_cnt = c /\ ~header_decoder'.is_header
        /\ header_decoder'.pay_len = header_decoder.pay_len
        /\ header_decoder'.has_crc = header_decoder.has_crc
    BY <2>1, <2>2, <2>3
  <2> QED  BY <2>4 DEF Passed, c
<1>11. ChainTypeOK'
  BY <1>4, <1>10 DEF ChainTypeOK
<1>12. Fed(f)' = Fed(f)
  BY <1>4 DEF Fed
<1>13. PassedOn(f)'
  <2> DEFINE q == Passed' + header_len + 1
  <2>1. q \in Int
    BY <1>2, <1>7, <1>10 DEF header_len
  <2>2. Passed' < u => Slice(Numbered(f), q, Fed(f)' - Passed') = <<>>
    <3> HIDE DEF q
    <3> SUFFICES ASSUME Passed' < u PROVE Slice(Numbered(f), q, Fed(f)' - Passed') = <<>>
      OBVIOUS
    <3>1. Fed(f)' - Passed' = 0
      BY <1>2, <1>7, <1>10, <1>12
    <3> QED  BY <2>1, <3>1, SliceType
  <2>3. nibbles' = IF Passed' < u THEN Slice(Numbered(f), q, Fed(f)' - Passed') ELSE <<>>
    BY <1>2, <2>2
  <2>4. N - header_len <= Passed' /\ Passed' <= Fed(f)' /\ Passed' <= u
    <3>1. N - header_len <= Passed
      BY <1>1 DEF PassedOn
    <3>2. N - header_len \in Int
      BY <1>3 DEF header_len
    <3> HIDE DEF u, N
    <3>3. N - header_len <= Passed + m
      BY <1>2, <1>7, <3>1, <3>2
    <3> QED  BY <1>7, <1>10, <1>12, <3>3
  <2>5. header_decoder'.pay_len = Frames[f].pay_len /\ header_decoder'.has_crc = Frames[f].has_crc
    BY <1>1, <1>10 DEF PassedOn
  <2> QED  BY <1>10, <2>3, <2>4, <2>5 DEF PassedOn
<1>14. PICK k \in Nat : Dewhitened(f, k) /\ (Collected(f, k) \/ \E t \in 0..k : Collecting(f, k, t))
  BY DEF PayloadComes
<1>15. Length(f) = Frames[f].pay_len + 2 * Frames[f].has_crc /\ Length(f)' = Length(f)
  BY <1>1, <1>4 DEF Length, Header
<1>16. PICK t \in 0..k : Collecting(f, k, t)
  <2>1. ~Collected(f, k)
    BY <1>2, <1>3, <1>15 DEF Collected
  <2> QED  BY <1>14, <2>1
<1>17. Collecting(f, k, t)'
  BY <1>4, <1>15, <1>16 DEF Collecting
<1>18. Dewhitened(f, k)'
  <2> DEFINE a == 2 * k + 1
             c == Passed - 2 * k
             b == a + c
             d == c + m
  <2>1. a \in Int /\ c \in Nat /\ b = Passed + 1 /\ d = Passed' - 2 * k /\ 2 * k <= Passed'
    BY <1>2, <1>7, <1>10, <1>14 DEF Dewhitened
  <2>2. payload_nibbles = Slice(Numbered(f), a, c)
    BY <1>14 DEF Dewhitened
  <2>3. payload_nibbles' = Slice(Numbered(f), a, c) \o Slice(Numbered(f), b, m)
    BY <1>8, <1>9, <2>1, <2>2
  <2>4. payload_nibbles' = Slice(Numbered(f), a, d)
    <3> HIDE DEF a, c
    <3> QED  BY <1>7, <2>1, <2>3, SlicesJoin
  <2>5. payload_nibbles' = Slice(Numbered(f), a, Passed' - 2 * k)
    <3> HIDE DEF a, d
    <3> QED  BY <2>1, <2>4
  <2> QED  BY <1>4, <1>14, <2>1, <2>5 DEF Dewhitened
<1> QED  BY <1>1, <1>4, <1>11, <1>13, <1>17, <1>18 DEF PayloadComes, Header

(* A call of dewhitening makes as many bytes of a frame as it finds pairs  *)
(* of nibbles, up to the end of the CRC.                                   *)
Found(f, k, c, l, r) ==
  /\ payload_nibbles = Slice(Numbered(f), 2 * k + 1, c)
  /\ k = 0 => announced[f].pay_len = l /\ announced[f].has_crc = r
  /\ k > 0 => dewhitening = [pay_len |-> l, has_crc |-> r, offset |-> k]

Made(k, c, l, r) == UpTo(c \div 2, (l + 2 * r) - k)

Dewhitens(f, k, c, l, r, n) ==
  /\ c >= 2
  /\ bytes' = bytes \o Slice(Whitened(f), k + 1, n)
  /\ payload_nibbles' = Slice(Numbered(f), 2 * (k + n) + 1, c - 2 * n)
  /\ dewhitening' = [pay_len |-> l, has_crc |-> r, offset |-> k + n]
  /\ n \in Nat /\ 2 * n <= c

LEMMA DewhiteningCall ==
  ASSUME NEW f \in Nat \ {0}, NEW k \in Nat, NEW c \in Nat, NEW l \in Nat, NEW r \in {0, 1},
         Found(f, k, c, l, r), DewhiteningWork
  PROVE  Dewhitens(f, k, c, l, r, Made(k, c, l, r))
<1> DEFINE from == 2 * k + 1
           xs == payload_nibbles
           tags == {i \in DOMAIN xs : StartsFrame(xs[i])}
           d == IF 1 \in tags THEN NewFrame(xs[1][1]) ELSE dewhitening
           z == UpTo(ItemsToProcess(xs, tags) \div 2, d.pay_len + 2 * d.has_crc - d.offset)
           n == Made(k, c, l, r)
<1>1. from \in Int /\ from > 0 /\ (from = 1 <=> k = 0) /\ xs = Slice(Numbered(f), from, c)
  BY DEF Found
<1> HIDE DEF from
<1>2. /\ DOMAIN xs = 1..c /\ Len(xs) = c /\ xs \in Seq(Items(Numbered(f)))
      /\ \A i \in 1..c : xs[i] = <<f, from + i - 1>>
  <2>1. DOMAIN xs = 1..c /\ Len(xs) = c /\ xs \in Seq(Items(Numbered(f)))
    BY <1>1, SliceType
  <2>2. \A i \in 1..c : Slice(Numbered(f), from, c)[i] = <<f, from + i - 1>>
    BY <1>1, NumberedItems
  <2> QED  BY <1>1, <2>1, <2>2
<1>3. c >= 2
  BY <1>2 DEF DewhiteningWork
<1>4. \A i \in 1..c : xs[i][1] = f /\ (StartsFrame(xs[i]) <=> i = 1 /\ k = 0)
  <2> SUFFICES ASSUME NEW i \in 1..c
               PROVE  xs[i][1] = f /\ (StartsFrame(xs[i]) <=> i = 1 /\ k = 0)
    OBVIOUS
  <2> DEFINE j == from + i - 1
  <2>1. j = 1 <=> i = 1 /\ k = 0
    BY <1>1
  <2> HIDE DEF j
  <2>2. xs[i] = <<f, j>>
    BY <1>2 DEF j
  <2> QED  BY <2>1, <2>2 DEF StartsFrame
<1>5. 1 \in 1..c
  BY <1>3
<1>6. tags \subseteq {1} /\ (1 \in tags <=> k = 0)
  BY <1>2, <1>4, <1>5
<1>7. /\ dewhitening' = [d EXCEPT !.offset = @ + z]
      /\ payload_nibbles' = SubSeq(xs, 2 * z + 1, Len(xs))
      /\ bytes' = bytes \o [i \in 1..z |-> Byte(xs[2 * i - 1], xs[2 * i], d.offset + i - 1,
                                             IF i = 1 /\ 1 \in tags THEN xs[1][1] ELSE None)]
  BY DEF DewhiteningWork
<1>8. xs[1][1] = f
  BY <1>4, <1>5
<1> HIDE DEF tags
<1>9. ItemsToProcess(xs, tags) = c
  BY <1>2, <1>6 DEF ItemsToProcess
<1>10. d = [pay_len |-> l, has_crc |-> r, offset |-> k]
  BY <1>6, <1>8 DEF NewFrame, Offset, Found
<1> HIDE DEF d
<1>11. z = n
  BY <1>9, <1>10 DEF Made
<1>12. n \in Nat /\ 2 * n <= c
  <2> DEFINE h == c \div 2
             q == (l + 2 * r) - k
  <2>1. h \in Nat /\ q \in Int /\ 2 * h <= c
    OBVIOUS
  <2> HIDE DEF h, q
  <2>2. UpTo(h, q) = IF q < 0 \/ h < 0 THEN 0 ELSE IF h <= q THEN h ELSE q
    BY <2>1, UpToIs
  <2>3. UpTo(h, q) \in Nat /\ UpTo(h, q) <= h
    BY <2>1, <2>2
  <2> QED  BY <2>1, <2>3 DEF h, q, Made
<1> HIDE DEF n, z
<1>13. dewhitening' = [pay_len |-> l, has_crc |-> r, offset |-> k + n]
  BY <1>7, <1>10, <1>11
<1>14. payload_nibbles' = Slice(Numbered(f), 2 * (k + n) + 1, c - 2 * n)
  <2> DEFINE p == 2 * n
             q == from + p
  <2>1. p \in 0..c /\ q = 2 * (k + n) + 1
    BY <1>12 DEF from
  <2>2. payload_nibbles' = SubSeq(Slice(Numbered(f), from, c), p + 1, c)
    BY <1>1, <1>2, <1>7, <1>11
  <2> HIDE DEF p
  <2>3. payload_nibbles' = Slice(Numbered(f), q, c - p)
    BY <1>1, <2>1, <2>2, SliceParts
  <2> QED  BY <2>1, <2>3 DEF p
<1>15. \A i \in 1..n : Byte(xs[2 * i - 1], xs[2 * i], k + i - 1,
                           IF i = 1 /\ k = 0 THEN f ELSE None) = WhitenedByte(f, k + 1 + i - 1)
  <2> SUFFICES ASSUME NEW i \in 1..n
               PROVE  Byte(xs[2 * i - 1], xs[2 * i], k + i - 1, IF i = 1 /\ k = 0 THEN f ELSE None)
                        = WhitenedByte(f, k + 1 + i - 1)
    OBVIOUS
  <2> DEFINE a == 2 * i - 1
             b == 2 * i
             j == k + 1 + i - 1
  <2>1. a \in 1..c /\ b \in 1..c
    BY <1>12
  <2>2. from + a - 1 = 2 * j - 1 /\ from + b - 1 = 2 * j /\ j - 1 = k + i - 1
        /\ (j = 1 <=> i = 1 /\ k = 0)
    BY <1>12 DEF from
  <2> HIDE DEF a, b, j
  <2>3. xs[a] = <<f, 2 * j - 1>> /\ xs[b] = <<f, 2 * j>>
    BY <1>2, <2>1, <2>2
  <2>4. Byte(xs[a], xs[b], k + i - 1, IF i = 1 /\ k = 0 THEN f ELSE None) = WhitenedByte(f, j)
    BY <2>2, <2>3 DEF WhitenedByte
  <2> QED  BY <2>4 DEF a, b, j
<1>16. [i \in 1..z |-> Byte(xs[2 * i - 1], xs[2 * i], d.offset + i - 1,
                            IF i = 1 /\ 1 \in tags THEN xs[1][1] ELSE None)]
       = Slice(Whitened(f), k + 1, n)
  <2>1. \A i \in 1..n : Whitened(f)[k + 1 + i - 1] = WhitenedByte(f, k + 1 + i - 1)
    BY <1>12 DEF Whitened
  <2>2. d.offset = k
    BY <1>10
  <2> DEFINE F(i) == Byte(xs[2 * i - 1], xs[2 * i], d.offset + i - 1,
                          IF i = 1 /\ 1 \in tags THEN xs[1][1] ELSE None)
             W == Whitened(f)
  <2>3. \A i \in 1..n : F(i) = W[k + 1 + i - 1]
    <3> SUFFICES ASSUME NEW i \in 1..n PROVE F(i) = W[k + 1 + i - 1]
      OBVIOUS
    <3>1. (i = 1 /\ 1 \in tags <=> i = 1 /\ k = 0)
      BY <1>6
    <3>2. F(i) = Byte(xs[2 * i - 1], xs[2 * i], k + i - 1, IF i = 1 /\ k = 0 THEN f ELSE None)
      BY <1>8, <2>2, <3>1
    <3> QED  BY <1>15, <2>1, <3>2
  <2> HIDE DEF F, W
  <2>4. [i \in 1..z |-> F(i)] = Slice(W, k + 1, n)
    BY <1>11, <2>3 DEF Slice
  <2> QED  BY <2>4 DEF F, W
<1> QED  BY <1>3, <1>7, <1>12, <1>13, <1>14, <1>16 DEF n, Dewhitens

(* An empty part of a frame stands for nothing.                            *)
LEMMA EmptySlice == ASSUME NEW F, NEW from \in Int PROVE Slice(F, from, 0) = <<>>
BY SliceType

(* The items of an invalid frame make one byte.                            *)
LEMMA DewhiteningGarbage ==
  ASSUME NoSurplus, NEW f \in DOMAIN Frames, ChainTypeOK, Garbage(f), DewhiteningWork
  PROVE  ChainTypeOK' /\ Garbage(f)' /\ announced' = announced
<1> PICK l, r : l = announced[f].pay_len /\ r = announced[f].has_crc
  OBVIOUS
<1> DEFINE n == Made(0, 2, l, r)
<1>1. f \in Nat \ {0} /\ l \in Nat /\ l >= 1 /\ r \in {0, 1}
  <2>1. announced[f] \in [pay_len : Nat, has_crc : {0, 1}, err : {0, 1}]
    BY DEF ChainTypeOK
  <2> QED  BY <2>1, FramePositive DEF Garbage
<1>2. payload_nibbles # <<>>
  <2>1. Len(<<>>) = 0
    BY EmptySeq
  <2>2. Len(payload_nibbles) >= 2
    BY DEF DewhiteningWork
  <2> QED  BY <2>1, <2>2
<1>3. /\ payload_nibbles = Slice(Numbered(f), 1, 2) /\ bytes = <<>> /\ verified = <<>>
      /\ nibbles = <<>> /\ crc_verif.in_buff = <<>> /\ announced[f].err = 1
  BY <1>2 DEF Garbage
<1>4. /\ fed' = fed /\ announced' = announced /\ nibbles' = nibbles /\ verified' = verified
      /\ header_decoder' = header_decoder /\ crc_verif' = crc_verif /\ reports' = reports
  BY DEF DewhiteningWork
<1>5. n = 1
  <2> DEFINE h == 2 \div 2
             q == (l + 2 * r) - 0
  <2>1. h = 1 /\ h \in Int /\ q \in Int /\ q >= 1
    BY <1>1
  <2> HIDE DEF h, q
  <2>2. UpTo(h, q) = IF q < 0 \/ h < 0 THEN 0 ELSE IF h <= q THEN h ELSE q
    BY <2>1, UpToIs
  <2> QED  BY <2>1, <2>2 DEF h, q, Made
<1> HIDE DEF n
<1>6. /\ bytes' = bytes \o Slice(Whitened(f), 0 + 1, n)
      /\ payload_nibbles' = Slice(Numbered(f), 2 * (0 + n) + 1, 2 - 2 * n)
      /\ dewhitening' = [pay_len |-> l, has_crc |-> r, offset |-> 0 + n]
  <2> DEFINE k == 0
             c == 2
             from == 2 * k + 1
  <2>1. k \in Nat /\ c \in Nat /\ k = 0 /\ from = 1
    OBVIOUS
  <2>2. Found(f, k, c, l, r)
    BY <1>3, <2>1 DEF Found
  <2>3. n = Made(k, c, l, r)
    BY DEF n
  <2> HIDE DEF k, c
  <2>4. /\ bytes' = bytes \o Slice(Whitened(f), k + 1, n)
        /\ payload_nibbles' = Slice(Numbered(f), 2 * (k + n) + 1, c - 2 * n)
        /\ dewhitening' = [pay_len |-> l, has_crc |-> r, offset |-> k + n]
    <3>1. Dewhitens(f, k, c, l, r, n)
      BY <1>1, <2>1, <2>2, <2>3, DewhiteningCall
    <3> QED  BY <3>1 DEF Dewhitens
  <2> QED  BY <2>4 DEF k, c
<1>7. bytes' = Slice(Whitened(f), 1, 1)
  <2>1. bytes' = <<>> \o Slice(Whitened(f), 1, 1)
    BY <1>3, <1>5, <1>6
  <2> QED  BY <2>1, SliceType, ConcatEmptySeq
<1>8. payload_nibbles' = <<>>
  <2>1. 2 * (0 + n) + 1 \in Int /\ 2 - 2 * n = 0
    BY <1>5
  <2> QED  BY <1>6, <2>1, EmptySlice
<1>9. ChainTypeOK'
  <2>1. dewhitening' \in [pay_len : Nat, has_crc : {0, 1}, offset : Int]
    BY <1>1, <1>5, <1>6
  <2> QED  BY <1>4, <2>1 DEF ChainTypeOK
<1>10. Garbage(f)'
  BY <1>1, <1>3, <1>4, <1>7, <1>8 DEF Garbage
<1> QED  BY <1>4, <1>9, <1>10

(* Those of a payload make the bytes that follow the ones before.          *)
LEMMA DewhiteningPayload ==
  ASSUME NoSurplus, NEW f \in DOMAIN Frames, ChainTypeOK, PayloadComes(f), DewhiteningWork
  PROVE  ChainTypeOK' /\ PayloadComes(f)' /\ announced' = announced
<1> DEFINE l == Frames[f].pay_len
           r == Frames[f].has_crc
<1>1. /\ f \in Nat \ {0} /\ l \in Nat /\ r \in {0, 1}
      /\ Useful(Frames[f]) = 2 * (l + 2 * r)
  BY FrameNumbers, FramePositive
<1>2. announced[f] = Header(f) /\ PassedOn(f)
  BY DEF PayloadComes
<1>3. PICK k \in Nat : Dewhitened(f, k) /\ (Collected(f, k) \/ \E t \in 0..k : Collecting(f, k, t))
  BY DEF PayloadComes
<1> PICK c : c = Passed - 2 * k
  OBVIOUS
<1> DEFINE n == Made(k, c, l, r)
<1>4. /\ fed' = fed /\ announced' = announced /\ nibbles' = nibbles /\ verified' = verified
      /\ header_decoder' = header_decoder /\ crc_verif' = crc_verif /\ reports' = reports
  BY DEF DewhiteningWork
<1>5. c \in Nat /\ Passed \in Int /\ payload_nibbles = Slice(Numbered(f), 2 * k + 1, c)
      /\ Passed <= 2 * (l + 2 * r)
  <2>1. Passed \in Int
    BY DEF ChainTypeOK, Passed
  <2> HIDE DEF l, r
  <2> QED  BY <1>1, <1>2, <1>3, <2>1 DEF Dewhitened, PassedOn, l, r
<1>6. Found(f, k, c, l, r)
  BY <1>2, <1>3, <1>5 DEF Dewhitened, Header, Found
<1> HIDE DEF l, r
<1>7. /\ c >= 2
      /\ bytes' = bytes \o Slice(Whitened(f), k + 1, n)
      /\ payload_nibbles' = Slice(Numbered(f), 2 * (k + n) + 1, c - 2 * n)
      /\ dewhitening' = [pay_len |-> l, has_crc |-> r, offset |-> k + n]
      /\ n \in Nat /\ 2 * n <= c
  <2>1. Dewhitens(f, k, c, l, r, n)
    BY <1>1, <1>5, <1>6, DewhiteningCall
  <2> HIDE DEF n
  <2> QED  BY <2>1 DEF Dewhitens
<1> HIDE DEF n
<1>8. PICK t \in 0..k : Collecting(f, k, t)
  <2>1. ~Collected(f, k)
    BY <1>7, <1>5 DEF Collected
  <2> QED  BY <1>3, <2>1
<1>9. k + n \in Nat /\ t \in 0..(k + n) /\ t \in Nat
  BY <1>7
<1>10. Collecting(f, k + n, t)'
  <2> DEFINE a == t + 1
             m == k - t
             b == a + m
             d == m + n
  <2>1. a \in Int /\ m \in Nat /\ b = k + 1 /\ d = (k + n) - t
    BY <1>7
  <2>2. bytes' = Slice(Whitened(f), a, m) \o Slice(Whitened(f), b, n)
    BY <1>7, <1>8, <2>1 DEF Collecting
  <2>3. bytes' = Slice(Whitened(f), a, d)
    <3> HIDE DEF a, m
    <3> QED  BY <1>7, <2>1, <2>2, SlicesJoin
  <2>4. bytes' = Slice(Whitened(f), t + 1, (k + n) - t)
    BY <2>1, <2>3
  <2>5. Length(f)' = Length(f)
    BY <1>4 DEF Length
  <2>6. verified' = <<>> /\ t < Length(f)' /\ crc_verif' = crc_verif
        /\ crc_verif.in_buff = Slice(Whitened(f), 1, t) /\ (t > 0 => crc_verif.tag = f)
    BY <1>4, <1>8, <2>5 DEF Collecting
  <2> DEFINE j == k + n
  <2> HIDE DEF a, m, b, d
  <2>7. bytes' = Slice(Whitened(f), t + 1, j - t)
    BY <2>4
  <2> HIDE DEF j
  <2>8. Collecting(f, j, t)'
    BY <2>6, <2>7 DEF Collecting
  <2> QED  BY <2>8 DEF j
<1>11. Dewhitened(f, k + n)'
  <2> DEFINE j == k + n
  <2>1. Passed' = Passed /\ c - 2 * n = Passed - 2 * j /\ 2 * j <= Passed
    BY <1>4, <1>5, <1>7 DEF Passed
  <2>2. payload_nibbles' = Slice(Numbered(f), 2 * j + 1, Passed' - 2 * j)
    BY <1>7, <2>1
  <2> HIDE DEF j
  <2>3. dewhitening' = [pay_len |-> l, has_crc |-> r, offset |-> j]
    BY <1>7 DEF j
  <2>4. 2 * j <= Passed'
    BY <2>1
  <2>5. Dewhitened(f, j)'
    BY <2>2, <2>3, <2>4 DEF Dewhitened, l, r
  <2> QED  BY <2>5 DEF j
<1>12. PassedOn(f)'
  BY <1>2, <1>4 DEF PassedOn, Passed, Fed
<1>13. ChainTypeOK'
  <2>1. dewhitening' \in [pay_len : Nat, has_crc : {0, 1}, offset : Int]
    BY <1>1, <1>7
  <2> QED  BY <1>4, <2>1 DEF ChainTypeOK
<1>14. announced'[f] = Header(f)
  BY <1>2, <1>4
<1> DEFINE j == k + n
<1>15. \E q \in Nat : Dewhitened(f, q)' /\ (Collected(f, q)' \/ \E p \in 0..q : Collecting(f, q, p)')
  <2>1. j \in Nat /\ t \in 0..j /\ Dewhitened(f, j)' /\ Collecting(f, j, t)'
    BY <1>9, <1>10, <1>11
  <2> HIDE DEF j
  <2> QED  BY <2>1
<1> HIDE DEF j
<1> QED  BY <1>4, <1>12, <1>13, <1>14, <1>15 DEF PayloadComes

(* What a call of crc_verif does with the items it holds of a frame.       *)
CrcCall(f, s) ==
  \/ /\ announced[f].err = 1
     /\ verified' = verified \o Tagged(SubSeq(s, 1, 1), f)
     /\ crc_verif' = [tag |-> f, in_buff |-> <<>>]
  \/ /\ announced[f].err = 0 /\ Len(s) >= Length(f)
     /\ verified' = verified \o Tagged(SubSeq(s, 1, announced[f].pay_len), f)
     /\ crc_verif' = [tag |-> f, in_buff |-> SubSeq(s, Length(f) + 1, Len(s))]
  \/ /\ announced[f].err = 0 /\ Len(s) < Length(f)
     /\ verified' = verified
     /\ crc_verif' = [tag |-> f, in_buff |-> s]

LEMMA CrcCalled ==
  ASSUME CrcVerifWork
  PROVE  CrcCall(FirstTag(bytes, crc_verif.tag), crc_verif.in_buff \o bytes)
BY DEF CrcVerifWork, CrcCall, LeftAfterError

(* Two items stand for an invalid frame, and crc_verif passes one on and   *)
(* keeps nothing.                                                          *)
LEMMA CrcGarbage ==
  ASSUME NoSurplus, NEW f \in DOMAIN Frames, ChainTypeOK, Garbage(f), CrcVerifWork
  PROVE  ChainTypeOK' /\ Garbage(f)' /\ announced' = announced
<1> DEFINE W == Whitened(f)
           one == 1
           s == Slice(W, one, one)
<1>1. f \in Nat \ {0} /\ one \in Nat \ {0} /\ one \in 0..one
  BY FrameNumbers
<1>2. bytes # <<>>
  BY DEF CrcVerifWork
<1>3. /\ bytes = s /\ payload_nibbles = <<>> /\ verified = <<>>
      /\ nibbles = <<>> /\ crc_verif.in_buff = <<>> /\ announced[f].err = 1
      /\ announced[f].pay_len >= 1
  BY <1>2 DEF Garbage
<1>4. /\ fed' = fed /\ announced' = announced /\ nibbles' = nibbles /\ bytes' = <<>>
      /\ payload_nibbles' = payload_nibbles /\ dewhitening' = dewhitening
      /\ header_decoder' = header_decoder /\ reports' = reports
  BY DEF CrcVerifWork
<1>5. FirstTag(bytes, crc_verif.tag) = f
  <2> HIDE DEF one
  <2>1. FirstTag(Slice(W, one, one), crc_verif.tag) = IF one = 1 THEN f ELSE crc_verif.tag
    BY <1>1, FirstTagIs
  <2> QED  BY <1>3, <2>1 DEF one
<1>6. crc_verif.in_buff \o bytes = s /\ verified \o s = s
  BY <1>1, <1>3, SliceType, ConcatEmptySeq
<1>7. SubSeq(s, 1, 1) = s
  <2> HIDE DEF one, W
  <2>1. SubSeq(Slice(W, one, one), 1, one) = Slice(W, one, one)
    BY <1>1, SliceParts
  <2> QED  BY <2>1 DEF one
<1>8. Tagged(s, f) = s
  BY <1>1, TaggedIs
<1> HIDE DEF s, W
<1>9. verified' = s /\ crc_verif'.in_buff = <<>>
  <2>1. CrcCall(f, s)
    BY <1>5, <1>6, CrcCalled
  <2>2. /\ verified' = verified \o Tagged(SubSeq(s, 1, 1), f)
        /\ crc_verif' = [tag |-> f, in_buff |-> <<>>]
    BY <1>3, <2>1 DEF CrcCall
  <2>3. verified' = verified \o s
    BY <1>7, <1>8, <2>2
  <2>4. crc_verif'.in_buff = <<>>
    BY <2>2
  <2> QED  BY <1>6, <2>3, <2>4
<1>10. Garbage(f)'
  BY <1>3, <1>4, <1>9 DEF Garbage, s, W
<1>11. ChainTypeOK'
  BY <1>4 DEF ChainTypeOK
<1> QED  BY <1>4, <1>10, <1>11

(* crc_verif waits for the whole frame and its CRC.                        *)
LEMMA CrcPayload ==
  ASSUME NoSurplus, NEW f \in DOMAIN Frames, ChainTypeOK, PayloadComes(f), CrcVerifWork
  PROVE  ChainTypeOK' /\ PayloadComes(f)' /\ announced' = announced
<1> DEFINE W == Whitened(f)
           l == Frames[f].pay_len
           L == Length(f)
<1>1. f \in Nat \ {0} /\ l \in Nat \ {0} /\ Frames[f].has_crc \in {0, 1}
      /\ Useful(Frames[f]) = 2 * (l + 2 * Frames[f].has_crc)
  BY FrameNumbers, FramePositive
<1>2. announced[f] = Header(f) /\ PassedOn(f)
  BY DEF PayloadComes
<1>3. L = l + 2 * Frames[f].has_crc /\ announced[f].pay_len = l /\ announced[f].err = 0
  BY <1>2 DEF Length, Header
<1>4. L \in Nat /\ l \in 0..L /\ Passed <= 2 * L /\ Passed \in Int
  <2>1. Passed \in Int /\ Passed <= Useful(Frames[f])
    BY <1>2 DEF ChainTypeOK, PassedOn, Passed
  <2> HIDE DEF l, L
  <2> QED  BY <1>1, <1>3, <2>1
<1>5. PICK k \in Nat : Dewhitened(f, k) /\ (Collected(f, k) \/ \E t \in 0..k : Collecting(f, k, t))
  BY DEF PayloadComes
<1>6. bytes # <<>>
  BY DEF CrcVerifWork
<1>7. PICK t \in 0..k : Collecting(f, k, t)
  BY <1>5, <1>6 DEF Collected
<1>8. 2 * k <= Passed /\ k <= L
  BY <1>4, <1>5 DEF Dewhitened
<1>9. /\ verified = <<>> /\ bytes = Slice(W, t + 1, k - t) /\ crc_verif.in_buff = Slice(W, 1, t)
      /\ t > 0 => crc_verif.tag = f
  BY <1>7 DEF Collecting
<1>10. /\ fed' = fed /\ announced' = announced /\ nibbles' = nibbles /\ bytes' = <<>>
       /\ payload_nibbles' = payload_nibbles /\ dewhitening' = dewhitening
       /\ header_decoder' = header_decoder /\ reports' = reports
  BY DEF CrcVerifWork
<1>11. FirstTag(bytes, crc_verif.tag) = f
  <2> DEFINE from == t + 1
             n == k - t
  <2>1. from \in Nat \ {0} /\ from \in Int /\ n \in Nat /\ (from = 1 <=> t = 0)
    OBVIOUS
  <2> HIDE DEF from
  <2>2. n # 0
    <3> HIDE DEF n
    <3> QED  BY <1>6, <1>9, <2>1, EmptySlice DEF from, n
  <2>3. n \in Nat \ {0}
    BY <2>1, <2>2
  <2> HIDE DEF n
  <2>4. FirstTag(Slice(W, from, n), crc_verif.tag) = IF from = 1 THEN f ELSE crc_verif.tag
    BY <1>1, <2>1, <2>3, FirstTagIs
  <2>5. from = 1 \/ t > 0
    BY <2>1
  <2> QED  BY <1>9, <2>4, <2>5 DEF from, n
<1> DEFINE s == Slice(W, 1, k)
<1>12. crc_verif.in_buff \o bytes = s
  <2> DEFINE one == 1
             from == one + t
             n == k - t
             m == t + n
  <2>1. one \in Int /\ from = t + 1 /\ t \in Nat /\ n \in Nat /\ m = k
    OBVIOUS
  <2>2. crc_verif.in_buff = Slice(W, one, t) /\ bytes = Slice(W, from, n)
    BY <1>9, <2>1
  <2> HIDE DEF one, n, W
  <2>3. Slice(W, one, t) \o Slice(W, from, n) = Slice(W, one, m)
    BY <2>1, SlicesJoin
  <2> HIDE DEF from, m
  <2> QED  BY <2>1, <2>2, <2>3 DEF one
<1>13. s \in Seq(Items(W)) /\ Len(s) = k
  BY SliceType
<1> HIDE DEF s, W, L, l
<1>14. /\ k >= L => /\ verified' = verified \o Tagged(SubSeq(s, 1, l), f)
                    /\ crc_verif' = [tag |-> f, in_buff |-> SubSeq(s, L + 1, k)]
       /\ k < L => verified' = verified /\ crc_verif' = [tag |-> f, in_buff |-> s]
  <2>1. CrcCall(f, s)
    BY <1>11, <1>12, CrcCalled
  <2> DEFINE case2 == /\ verified' = verified \o Tagged(SubSeq(s, 1, l), f)
                      /\ crc_verif' = [tag |-> f, in_buff |-> SubSeq(s, L + 1, k)]
             case3 == verified' = verified /\ crc_verif' = [tag |-> f, in_buff |-> s]
  <2>2. (k >= L /\ case2) \/ (k < L /\ case3)
    BY <1>3, <1>13, <2>1 DEF CrcCall, L
  <2> HIDE DEF case2, case3
  <2>3. (k >= L => case2) /\ (k < L => case3)
    BY <1>4, <2>2
  <2> QED  BY <2>3 DEF case2, case3
<1>15. L' = L /\ Passed' = Passed
  BY <1>10 DEF L, Length, Passed
<1>16. ChainTypeOK' /\ PassedOn(f)' /\ announced'[f] = Header(f) /\ Dewhitened(f, k)'
  BY <1>2, <1>5, <1>10 DEF ChainTypeOK, PassedOn, Passed, Fed, Dewhitened
<1>17. CASE k < L
  <2> DEFINE next == k + 1
  <2>1. next \in Int /\ k - k = 0 /\ k \in 0..k
    OBVIOUS
  <2> HIDE DEF next
  <2>2. bytes' = Slice(W, next, k - k)
    BY <1>10, <2>1, EmptySlice
  <2>3. Collecting(f, k, k)'
    BY <1>9, <1>14, <1>15, <1>17, <2>2 DEF Collecting, s, W, L, next
  <2> QED  BY <1>10, <1>16, <2>1, <2>3 DEF PayloadComes
<1>18. CASE k >= L
  <2>1. k = L /\ Passed = 2 * k
    BY <1>4, <1>8, <1>18
  <2>2. SubSeq(s, 1, l) = Slice(W, 1, l) /\ SubSeq(s, L + 1, k) = <<>>
    <3> DEFINE one == 1
    <3>1. one \in Int /\ l \in 0..k /\ s = Slice(W, one, k)
      BY <1>4, <2>1 DEF s
    <3> HIDE DEF one
    <3>2. SubSeq(s, 1, l) = Slice(W, one, l)
      BY <3>1, SliceParts
    <3>3. SubSeq(s, L + 1, k) = <<>>
      BY <1>4, <1>13, <2>1, SubSeqProperties, EmptySeq
    <3> QED  BY <3>2, <3>3 DEF one
  <2>3. Tagged(Slice(W, 1, l), f) = Slice(W, 1, l)
    BY <1>1, TaggedIs DEF W
  <2>4. verified' = Slice(W, 1, l)
    <3>1. verified' = <<>> \o Slice(W, 1, l)
      BY <1>9, <1>14, <1>18, <2>2, <2>3
    <3>2. Slice(W, 1, l) \in Seq(Items(W))
      BY <1>1, SliceType
    <3> QED  BY <3>1, <3>2, ConcatEmptySeq
  <2>5. crc_verif'.in_buff = <<>>
    <3>1. crc_verif' = [tag |-> f, in_buff |-> <<>>]
      BY <1>14, <1>18, <2>2
    <3> QED  BY <3>1
  <2>6. Collected(f, k)'
    BY <1>10, <1>15, <2>1, <2>4, <2>5 DEF Collected, L, W, l
  <2> QED  BY <1>10, <1>16, <2>6 DEF PayloadComes
<1> QED  BY <1>4, <1>10, <1>17, <1>18

-----------------------------------------------------------------------------
(* The steps of the chain, and what they are of PayloadDelivery             *)

(* The payloads that PayloadDelivery is about.                             *)
LEMMA Delivered ==
  ASSUME NoSurplus
  PROVE  LET P == [f \in DOMAIN Frames |-> Payload(f)] IN
         /\ Len(P) = Len(Frames) /\ \A f \in DOMAIN Frames : P[f] = Payload(f)
<1> DEFINE P == [f \in DOMAIN Frames |-> Payload(f)]
           S == {Payload(f) : f \in DOMAIN Frames}
<1>1. Frames \in Seq(PhyFrames) /\ DOMAIN Frames = 1..Len(Frames) /\ Len(Frames) \in Nat
  BY ChainAssumption
<1>2. P \in [1..Len(Frames) -> S]
  BY <1>1
<1> HIDE DEF P, S
<1>3. Len(P) = Len(Frames)
  BY <1>1, <1>2, Tabulated
<1> QED  BY <1>3 DEF P

(* A report on frame f is one that PayloadDelivery allows.                 *)
LEMMA ReportStep ==
  ASSUME NoSurplus, NEW f \in DOMAIN Frames, ChainTypeOK, fed.frame = f, Len(reports) = f - 1,
         NEW p \in {Invalid, Payload(f)},
         reports' = Append(reports, [frame |-> f, payload |-> p]), fed' = fed
  PROVE  Delivery!Report /\ reports' \in Seq(Told) /\ Len(reports') = f
<1>1. f \in Nat /\ Len(Frames) \in Nat /\ DOMAIN Frames = 1..Len(Frames)
  BY FrameNumbers
<1>2. (f - 1) + 1 = f /\ f - 1 < f
  BY <1>1
<1>3. reports \in Seq(Told) /\ [frame |-> f, payload |-> p] \in Told
  BY <1>1 DEF ChainTypeOK, Told
<1>4. reports' \in Seq(Told) /\ Len(reports') = f
  BY <1>1, <1>3, AppendProperties
<1> DEFINE P == [g \in DOMAIN Frames |-> Payload(g)]
<1>5. P[f] = Payload(f)
  OBVIOUS
<1> HIDE DEF P
<1>6. /\ Len(reports) + 1 = f /\ Len(reports) < fed.frame /\ fed'.frame = fed.frame
      /\ p \in {Invalid, P[f]}
  BY <1>2, <1>5
<1>7. Delivery!Report
  BY <1>6 DEF Delivery!Report, P
<1> QED  BY <1>4, <1>7

(* Of an invalid frame that much is reported.                              *)
LEMMA SinkGarbage ==
  ASSUME NoSurplus, NEW f \in DOMAIN Frames, ChainTypeOK, Garbage(f), ZmqSinkWork
  PROVE  /\ reports' = Append(reports, [frame |-> f, payload |-> Invalid])
         /\ nibbles' = <<>> /\ payload_nibbles' = <<>> /\ bytes' = <<>> /\ verified' = <<>>
         /\ crc_verif'.in_buff = <<>> /\ announced[f].err = 1
<1>1. f \in Nat \ {0}
  BY FrameNumbers
<1>2. verified # <<>>
  BY DEF ZmqSinkWork
<1>3. /\ verified = Slice(Whitened(f), 1, 1) /\ payload_nibbles = <<>> /\ bytes = <<>>
      /\ nibbles = <<>> /\ crc_verif.in_buff = <<>> /\ announced[f].err = 1
  BY <1>2 DEF Garbage
<1>4. FirstTag(verified, zmq_sink.tag) = f
  <2> DEFINE one == 1
  <2>1. one \in Nat \ {0} /\ verified = Slice(Whitened(f), one, one)
    BY <1>3
  <2> HIDE DEF one
  <2>2. FirstTag(Slice(Whitened(f), one, one), zmq_sink.tag) = IF one = 1 THEN f ELSE zmq_sink.tag
    BY <1>1, <2>1, FirstTagIs
  <2> QED  BY <2>1, <2>2 DEF one
<1>5. /\ nibbles' = nibbles /\ payload_nibbles' = payload_nibbles /\ bytes' = bytes
      /\ crc_verif' = crc_verif /\ verified' = <<>>
  BY DEF ZmqSinkWork
<1>6. reports' = Append(reports, [frame |-> f, payload |-> Invalid])
  BY <1>3, <1>4 DEF ZmqSinkWork
<1> QED  BY <1>3, <1>5, <1>6

(* And of another one its payload, when nothing of it is left.             *)
LEMMA SinkPayload ==
  ASSUME NoSurplus, NEW f \in DOMAIN Frames, ChainTypeOK, PayloadComes(f), ZmqSinkWork
  PROVE  /\ reports' = Append(reports, [frame |-> f, payload |-> Payload(f)])
         /\ nibbles' = <<>> /\ payload_nibbles' = <<>> /\ bytes' = <<>> /\ verified' = <<>>
         /\ crc_verif'.in_buff = <<>> /\ Useful(announced[f]) <= Fed(f)
<1> DEFINE l == Frames[f].pay_len
           r == Frames[f].has_crc
           W == Whitened(f)
           s == Slice(W, 1, l)
<1>1. f \in Nat \ {0} /\ l \in Nat \ {0} /\ r \in {0, 1} /\ Useful(Frames[f]) = 2 * (l + 2 * r)
  BY FrameNumbers, FramePositive
<1>2. announced[f] = Header(f) /\ PassedOn(f)
  BY DEF PayloadComes
<1>3. /\ announced[f].pay_len = l /\ announced[f].err = 0 /\ Length(f) = l + 2 * r
      /\ Useful(announced[f]) = Useful(Frames[f])
  BY <1>2 DEF Length, Header, Useful
<1>4. verified # <<>>
  BY DEF ZmqSinkWork
<1>5. PICK k \in Nat : Dewhitened(f, k) /\ Collected(f, k)
  BY <1>4 DEF PayloadComes, Collecting
<1>6. /\ k = l + 2 * r /\ Passed = 2 * k /\ bytes = <<>> /\ crc_verif.in_buff = <<>>
      /\ verified = s
  BY <1>3, <1>5 DEF Collected
<1>7. Passed = Useful(Frames[f]) /\ Passed <= Fed(f)
  BY <1>1, <1>2, <1>6 DEF PassedOn
<1>8. nibbles = <<>>
  <2> DEFINE u == Useful(Frames[f])
  <2>1. ~(Passed < u)
    <3>1. u \in Nat
      BY FrameNumbers
    <3> HIDE DEF u
    <3> QED  BY <1>7, <3>1 DEF u
  <2> QED  BY <1>2, <2>1 DEF PassedOn
<1>9. payload_nibbles = <<>>
  <2> DEFINE from == 2 * k + 1
  <2>1. from \in Int /\ Passed - 2 * k = 0
    BY <1>6
  <2>2. payload_nibbles = Slice(Numbered(f), from, Passed - 2 * k)
    BY <1>5 DEF Dewhitened
  <2> HIDE DEF from
  <2> QED  BY <2>1, <2>2, EmptySlice
<1>10. FirstTag(verified, zmq_sink.tag) = f
  <2> DEFINE one == 1
  <2>1. one \in Nat \ {0} /\ verified = Slice(W, one, l) /\ l \in Nat \ {0} /\ f \in Nat \ {0}
    BY <1>1, <1>6
  <2> HIDE DEF one, l
  <2>2. FirstTag(Slice(W, one, l), zmq_sink.tag) = IF one = 1 THEN f ELSE zmq_sink.tag
    BY <2>1, FirstTagIs
  <2> QED  BY <2>1, <2>2 DEF one
<1>11. SubSeq(verified, 1, l) = s
  <2> DEFINE one == 1
  <2>1. one \in Int /\ l \in 0..l /\ l \in Nat
    BY <1>1
  <2> HIDE DEF one, l, W
  <2>2. SubSeq(Slice(W, one, l), 1, l) = Slice(W, one, l)
    BY <2>1, SliceParts
  <2> QED  BY <1>6, <2>2 DEF one
<1>12. Contents(s) = Payload(f)
  BY <1>1, ContentsAre
<1> HIDE DEF s, l, r, W
<1>13. Contents(SubSeq(verified, 1, announced[f].pay_len)) = Payload(f)
  BY <1>3, <1>11, <1>12
<1>14. reports' = Append(reports, [frame |-> f, payload |-> Payload(f)])
  BY <1>3, <1>10, <1>13 DEF ZmqSinkWork
<1>15. /\ nibbles' = nibbles /\ payload_nibbles' = payload_nibbles /\ bytes' = bytes
       /\ crc_verif' = crc_verif /\ verified' = <<>>
  BY DEF ZmqSinkWork
<1> QED  BY <1>3, <1>6, <1>7, <1>8, <1>9, <1>14, <1>15

(* A frame is on its way, or none is: what the steps are told of it.       *)
LEMMA OnItsWay ==
  ASSUME NoSurplus, ChainInv, Busy(fed.frame)
  PROVE  fed.frame \in DOMAIN Frames
<1>1. fed.frame \in 0..Len(Frames) /\ fed.frame > 0
  BY DEF ChainInv, ChainTypeOK, Busy
<1>2. DOMAIN Frames = 1..Len(Frames) /\ Len(Frames) \in Nat
  BY ChainAssumption
<1> QED  BY <1>1, <1>2

(* A frame begins when nothing of the last one is on its way.              *)
LEMMA BeginStep ==
  ASSUME NoSurplus, ChainInv, BeginFrame
  PROVE  ChainInv' /\ Delivery!Begin
<1> PICK f : f = fed.frame + 1
  OBVIOUS
<1> DEFINE N == HeaderNibbles(f)
<1>1. fed.frame \in 0..Len(Frames) /\ Len(reports) = fed.frame /\ fed.frame < Len(Frames)
  BY DEF ChainInv, ChainTypeOK, BeginFrame, MayBegin
<1>2. DOMAIN Frames = 1..Len(Frames) /\ Len(Frames) \in Nat
  BY ChainAssumption
<1>3. f \in DOMAIN Frames /\ f \in 0..Len(Frames) /\ f > fed.frame /\ f > 0 /\ fed.frame = f - 1
  BY <1>1, <1>2
<1>4. N \in 5..10
  BY <1>3, FrameNumbers
<1>5. ~Busy(fed.frame)
  BY <1>1 DEF Busy
<1>6. Idle(fed.frame) /\ announced[f] = NothingAnnounced
  BY <1>3, <1>5 DEF ChainInv, Later
<1>7. /\ nibbles = <<>> /\ payload_nibbles = <<>> /\ bytes = <<>> /\ verified = <<>>
      /\ crc_verif.in_buff = <<>>
  BY <1>6 DEF Idle
<1>8. /\ fed' = [frame |-> f, blocks |-> 0] /\ nibbles' = nibbles \o Nibbles(f, 1, N)
      /\ announced' = announced /\ payload_nibbles' = payload_nibbles /\ bytes' = bytes
      /\ verified' = verified /\ header_decoder' = header_decoder /\ dewhitening' = dewhitening
      /\ crc_verif' = crc_verif /\ reports' = reports
  BY DEF BeginFrame, blocks
<1>9. nibbles' = Slice(Numbered(f), 1, N)
  <2>1. N \in Nat
    BY <1>4
  <2> HIDE DEF N
  <2>2. nibbles' = <<>> \o Slice(Numbered(f), 1, N)
    BY <1>7, <1>8, <2>1, NibblesAre
  <2>3. Slice(Numbered(f), 1, N) \in Seq(Items(Numbered(f)))
    BY <2>1, SliceType
  <2> QED  BY <2>2, <2>3, ConcatEmptySeq
<1>10. HeaderComes(f)'
  BY <1>6, <1>7, <1>8, <1>9 DEF HeaderComes
<1>11. fed'.frame = f /\ fed' \in [frame : 0..Len(Frames), blocks : Nat]
  BY <1>3, <1>8
<1>12. ChainTypeOK'
  BY <1>8, <1>11 DEF ChainInv, ChainTypeOK
<1>13. Later'
  <2>1. \A g \in DOMAIN Frames : g > f => g > fed.frame
    BY <1>1, <1>2, <1>3
  <2> QED  BY <1>8, <1>11, <2>1 DEF Later, ChainInv
<1>14. Busy(f)'
  BY <1>1, <1>3, <1>8, <1>10 DEF Busy
<1>15. Delivery!Begin
  <2>1. Len([g \in DOMAIN Frames |-> Payload(g)]) = Len(Frames)
    BY Delivered
  <2> QED  BY <1>1, <1>8, <1>11, <2>1 DEF Delivery!Begin
<1> QED  BY <1>11, <1>12, <1>13, <1>14, <1>15 DEF ChainInv

(* A block of a payload comes only when it has something useful.           *)
LEMMA BlockStep ==
  ASSUME NoSurplus, ChainInv, NextBlock
  PROVE  ChainInv' /\ fed'.frame = fed.frame /\ reports' = reports
<1> PICK f : f = fed.frame
  OBVIOUS
<1> DEFINE N == HeaderNibbles(f)
           B == BlockNibbles(f)
           u == Useful(announced[f])
           p == fed.blocks * B
<1>1. /\ f # 0 /\ announced[f].pay_len # 0 /\ announced[f].err = 0 /\ fed.blocks < PayloadBlocks(f)
      /\ fed' = [fed EXCEPT !.blocks = @ + 1]
      /\ nibbles' = nibbles \o Nibbles(f, N + p + 1, B)
      /\ announced' = announced /\ payload_nibbles' = payload_nibbles /\ bytes' = bytes
      /\ verified' = verified /\ header_decoder' = header_decoder /\ dewhitening' = dewhitening
      /\ crc_verif' = crc_verif /\ reports' = reports
  BY DEF NextBlock, blocks
<1>2. /\ ChainTypeOK /\ Later
      /\ f \in 0..Len(Frames) /\ fed.blocks \in Nat
      /\ announced \in [DOMAIN Frames -> [pay_len : Nat, has_crc : {0, 1}, err : {0, 1}]]
  BY DEF ChainInv, ChainTypeOK
<1>3. f \in DOMAIN Frames /\ announced[f] \in [pay_len : Nat, has_crc : {0, 1}, err : {0, 1}]
  <2>1. DOMAIN Frames = 1..Len(Frames) /\ Len(Frames) \in Nat
    BY ChainAssumption
  <2>2. f \in DOMAIN Frames
    BY <1>1, <1>2, <2>1
  <2> QED  BY <1>2, <2>2
<1>4. N \in 5..10 /\ B \in 5..12 /\ u \in Nat
  <2>1. N \in 5..10 /\ B \in 5..12
    BY <1>3, FrameNumbers
  <2>2. u \in Nat
    BY <1>3 DEF Useful
  <2> QED  BY <2>1, <2>2
<1>5. p \in Int /\ (fed.blocks + 1) * B = p + B
  <2> HIDE DEF B
  <2> QED  BY <1>2, <1>4
<1>6. p < u - (N - header_len)
  <2> DEFINE a == u - (N - header_len)
  <2>1. a \in Int
    BY <1>4 DEF header_len
  <2>2. fed.blocks < CeilDiv(a, B)
    BY <1>1 DEF PayloadBlocks
  <2> DEFINE m == fed.blocks
  <2>3. m \in Nat /\ m < CeilDiv(a, B) /\ B \in 5..12
    BY <1>2, <1>4, <2>2
  <2> HIDE DEF a, B, m
  <2>4. m * B < a
    BY <2>1, <2>3, BlocksNeeded
  <2> QED  BY <2>4 DEF a, m
<1> HIDE DEF N, B, u, p
<1>7. Fed(f) = N - header_len + p /\ Fed(f) < u /\ Fed(f) \in Int
  <2>1. Fed(f) = N - header_len + p
    BY DEF Fed, N, p, B
  <2> QED  BY <1>4, <1>5, <1>6, <2>1 DEF header_len
<1>8. PayloadComes(f) /\ Len(reports) = f - 1 /\ f > 0
  <2>1. ~Idle(f)
    BY <1>1, <1>4, <1>7 DEF Idle, u
  <2>2. ~HeaderComes(f)
    BY <1>1 DEF HeaderComes, NothingAnnounced
  <2>3. ~Garbage(f)
    BY <1>1 DEF Garbage
  <2> QED  BY <2>1, <2>2, <2>3 DEF ChainInv, Busy
<1>9. announced[f] = Header(f) /\ PassedOn(f)
  BY <1>8 DEF PayloadComes
<1>10. u = Useful(Frames[f])
  BY <1>9 DEF Header, Useful, u
<1>11. Passed \in Int /\ Passed <= Fed(f) /\ Passed < u
  <2>1. Passed \in Int
    BY <1>2 DEF ChainTypeOK, Passed
  <2>2. Passed <= Fed(f)
    BY <1>9 DEF PassedOn
  <2> QED  BY <1>4, <1>7, <2>1, <2>2
<1>12. nibbles = Slice(Numbered(f), Passed + header_len + 1, Fed(f) - Passed)
  BY <1>9, <1>10, <1>11 DEF PassedOn
<1>13. fed'.frame = f /\ fed'.blocks = fed.blocks + 1 /\ fed' \in [frame : 0..Len(Frames), blocks : Nat]
  <2> DEFINE b == fed.blocks + 1
  <2>1. fed \in [frame : 0..Len(Frames), blocks : Nat] /\ b \in Nat
    BY <1>2 DEF ChainTypeOK
  <2> HIDE DEF b
  <2>2. fed' = [fed EXCEPT !.blocks = b]
    BY <1>1 DEF b
  <2>3. fed'.frame = fed.frame /\ fed'.blocks = b /\ fed' \in [frame : 0..Len(Frames), blocks : Nat]
    BY <2>1, <2>2
  <2> QED  BY <2>3 DEF b
<1>14. Fed(f)' = Fed(f) + B
  <2>1. Fed(f)' = N - header_len + (fed.blocks + 1) * B
    BY <1>13 DEF Fed, N, B
  <2> QED  BY <1>4, <1>5, <1>7, <2>1 DEF header_len
<1>15. nibbles' = Slice(Numbered(f), Passed + header_len + 1, (Fed(f) + B) - Passed)
  <2> DEFINE a == Passed + header_len + 1
             m == Fed(f) - Passed
             b == a + m
             d == m + B
  <2>1. a \in Int /\ m \in Nat /\ b \in Int /\ B \in Nat /\ b = N + p + 1 /\ d = (Fed(f) + B) - Passed
    BY <1>4, <1>5, <1>7, <1>11 DEF header_len
  <2>2. nibbles = Slice(Numbered(f), a, m)
    BY <1>12
  <2> HIDE DEF a, m
  <2>3. Slice(Numbered(f), a, m) \o Slice(Numbered(f), b, B) = Slice(Numbered(f), a, d)
    BY <2>1, SlicesJoin
  <2> HIDE DEF b, d
  <2>4. Nibbles(f, b, B) = Slice(Numbered(f), b, B)
    BY <2>1, NibblesAre
  <2> QED  BY <1>1, <2>1, <2>2, <2>3, <2>4 DEF a
<1>16. PassedOn(f)'
  <2> DEFINE q == Passed + header_len + 1
  <2>1. Passed' = Passed
    BY <1>1 DEF Passed
  <2>2. nibbles' = IF Passed' < Useful(Frames[f])
                   THEN Slice(Numbered(f), Passed' + header_len + 1, Fed(f)' - Passed') ELSE <<>>
    BY <1>10, <1>11, <1>14, <1>15, <2>1
  <2>3. Passed' <= Fed(f)'
    BY <1>4, <1>7, <1>11, <1>14, <2>1
  <2> QED  BY <1>1, <1>9, <2>1, <2>2, <2>3 DEF PassedOn
<1>17. PayloadComes(f)'
  <2>1. announced'[f] = Header(f)
    BY <1>1, <1>9
  <2>2. PICK k \in Nat : Dewhitened(f, k) /\ (Collected(f, k) \/ \E t \in 0..k : Collecting(f, k, t))
    BY <1>8 DEF PayloadComes
  <2>3. Dewhitened(f, k)'
    BY <1>1, <2>2 DEF Dewhitened, Passed
  <2>4. Collected(f, k) => Collected(f, k)'
    BY <1>1 DEF Collected, Passed, Length
  <2>5. \A t \in 0..k : Collecting(f, k, t) => Collecting(f, k, t)'
    BY <1>1 DEF Collecting, Length
  <2> QED  BY <1>16, <2>1, <2>2, <2>3, <2>4, <2>5 DEF PayloadComes
<1>18. ChainTypeOK' /\ Later'
  BY <1>1, <1>2, <1>13 DEF ChainTypeOK, Later
<1>19. Busy(f)'
  BY <1>1, <1>8, <1>17 DEF Busy
<1> QED  BY <1>1, <1>13, <1>18, <1>19 DEF ChainInv

DeliveryStep == [Delivery!Begin \/ Delivery!Report]_<<fed.frame, reports>>

(* The blocks behind the feeding pass a frame on, and none of them works   *)
(* when there is none.                                                     *)
LEMMA BlocksStep ==
  ASSUME NoSurplus, ChainInv, HeaderDecoderWork \/ DewhiteningWork \/ CrcVerifWork
  PROVE  ChainInv' /\ fed'.frame = fed.frame /\ reports' = reports
<1> PICK f : f = fed.frame
  OBVIOUS
<1>1. fed' = fed /\ reports' = reports
  BY DEF HeaderDecoderWork, DewhiteningWork, CrcVerifWork
<1>2. nibbles # <<>> \/ payload_nibbles # <<>> \/ bytes # <<>>
  <2>1. Len(<<>>) = 0
    BY EmptySeq
  <2>2. DewhiteningWork => payload_nibbles # <<>>
    <3>1. DewhiteningWork => Len(payload_nibbles) >= 2
      BY DEF DewhiteningWork
    <3>2. ~(0 >= 2)
      OBVIOUS
    <3> QED  BY <2>1, <3>1, <3>2
  <2>3. (HeaderDecoderWork => nibbles # <<>>) /\ (CrcVerifWork => bytes # <<>>)
    BY DEF HeaderDecoderWork, CrcVerifWork
  <2> QED  BY <2>2, <2>3
<1>3. Busy(f)
  BY <1>2 DEF ChainInv, Idle
<1>4. f \in DOMAIN Frames /\ ChainTypeOK /\ Later
  BY <1>3, OnItsWay DEF ChainInv
<1>5. SUFFICES /\ ChainTypeOK' /\ (Garbage(f)' \/ PayloadComes(f)')
               /\ \A g \in DOMAIN Frames : g # f => announced'[g] = announced[g]
  <2>1. Later'
    <3>1. \A g \in DOMAIN Frames : g > f => g # f
      BY <1>4, FrameNumbers
    <3> QED  BY <1>1, <1>4, <1>5, <3>1 DEF Later
  <2>2. Busy(f)'
    BY <1>1, <1>3, <1>5 DEF Busy
  <2> QED  BY <1>1, <1>5, <2>1, <2>2 DEF ChainInv
<1>6. CASE HeaderComes(f)
  <2>1. HeaderDecoderWork
    <3>1. payload_nibbles = <<>> /\ bytes = <<>>
      BY <1>6 DEF HeaderComes
    <3>2. Len(<<>>) = 0
      BY EmptySeq
    <3> QED  BY <3>1, <3>2 DEF DewhiteningWork, CrcVerifWork
  <2> QED  BY <1>4, <1>6, <2>1, HeaderStep
<1>7. CASE Garbage(f)
  <2>1. DewhiteningWork \/ CrcVerifWork
    BY <1>7 DEF Garbage, HeaderDecoderWork
  <2> QED  BY <1>4, <1>7, <2>1, DewhiteningGarbage, CrcGarbage
<1>8. CASE PayloadComes(f)
  BY <1>4, <1>8, PayloadStep, DewhiteningPayload, CrcPayload
<1> QED  BY <1>3, <1>6, <1>7, <1>8 DEF Busy

(* A report is the one on the frame that is on its way.                    *)
LEMMA SinkStep ==
  ASSUME NoSurplus, ChainInv, ZmqSinkWork
  PROVE  ChainInv' /\ Delivery!Report
<1> PICK f : f = fed.frame
  OBVIOUS
<1>1. /\ fed' = fed /\ announced' = announced /\ header_decoder' = header_decoder
      /\ dewhitening' = dewhitening
  BY DEF ZmqSinkWork
<1>2. verified # <<>>
  BY DEF ZmqSinkWork
<1>3. Busy(f)
  BY <1>2 DEF ChainInv, Idle
<1>4. f \in DOMAIN Frames /\ ChainTypeOK /\ Later /\ Len(reports) = f - 1
  BY <1>3, OnItsWay DEF ChainInv, Busy
<1>5. Garbage(f) \/ PayloadComes(f)
  BY <1>2, <1>3 DEF Busy, HeaderComes
<1>6. /\ nibbles' = <<>> /\ payload_nibbles' = <<>> /\ bytes' = <<>> /\ verified' = <<>>
      /\ crc_verif'.in_buff = <<>>
      /\ announced[f].err = 1 \/ Useful(announced[f]) <= Fed(f)
      /\ \E p \in {Invalid, Payload(f)} :
           reports' = Append(reports, [frame |-> f, payload |-> p])
  BY <1>4, <1>5, SinkGarbage, SinkPayload
<1>7. Delivery!Report /\ reports' \in Seq(Told) /\ Len(reports') = f
  BY <1>1, <1>4, <1>6, ReportStep
<1>8. ChainTypeOK' /\ Later'
  BY <1>1, <1>4, <1>7 DEF ChainTypeOK, Later
<1>9. Fed(f)' = Fed(f)
  BY <1>1 DEF Fed
<1>10. Idle(f)'
  BY <1>1, <1>6, <1>7, <1>9 DEF Idle
<1> QED  BY <1>1, <1>7, <1>8, <1>10 DEF ChainInv

(* In the beginning nothing is on its way.                                 *)
LEMMA InitChain == ASSUME NoSurplus, Init PROVE ChainInv /\ Delivery!DeliveryInit
<1>1. /\ fed = [frame |-> 0, blocks |-> 0]
      /\ announced = [f \in DOMAIN Frames |-> NothingAnnounced]
      /\ nibbles = <<>> /\ payload_nibbles = <<>> /\ bytes = <<>> /\ verified = <<>>
      /\ header_decoder = [is_header |-> FALSE, pay_cnt |-> 0, pay_len |-> 255, has_crc |-> 1]
      /\ dewhitening = [pay_len |-> 0, has_crc |-> 0, offset |-> 0]
      /\ crc_verif.in_buff = <<>> /\ reports = <<>>
  BY DEF Init
<1>2. Len(Frames) \in Nat
  BY ChainAssumption
<1>3. reports \in Seq(Told) /\ Len(reports) = 0
  BY <1>1, EmptySeq
<1>4. fed \in [frame : 0..Len(Frames), blocks : Nat] /\ fed.frame = 0
  BY <1>1, <1>2
<1>5. ChainTypeOK
  BY <1>1, <1>3, <1>4 DEF ChainTypeOK, NothingAnnounced
<1>6. Later
  BY <1>1 DEF Later
<1>7. Idle(0)
  BY <1>1, <1>3 DEF Idle
<1> QED  BY <1>1, <1>4, <1>5, <1>6, <1>7 DEF ChainInv, Delivery!DeliveryInit

(* So no step leaves the invariant, and each is one of PayloadDelivery.    *)
LEMMA ChainStep ==
  ASSUME NoSurplus, ChainInv, [Next]_vars
  PROVE  ChainInv' /\ DeliveryStep
<1>1. CASE BeginFrame
  BY <1>1, BeginStep DEF DeliveryStep
<1>2. CASE NextBlock
  BY <1>2, BlockStep DEF DeliveryStep
<1>3. CASE HeaderDecoderWork \/ DewhiteningWork \/ CrcVerifWork
  BY <1>3, BlocksStep DEF DeliveryStep
<1>4. CASE ZmqSinkWork
  BY <1>4, SinkStep DEF DeliveryStep
<1>5. CASE UNCHANGED vars
  <2> PICK f : f = fed.frame
    OBVIOUS
  <2>1. /\ fed' = fed /\ announced' = announced /\ nibbles' = nibbles
        /\ payload_nibbles' = payload_nibbles /\ bytes' = bytes /\ verified' = verified
        /\ header_decoder' = header_decoder /\ dewhitening' = dewhitening
        /\ crc_verif' = crc_verif /\ reports' = reports
    BY <1>5 DEF vars, buffers, blocks
  <2>2. ChainTypeOK' /\ Later'
    BY <2>1 DEF ChainInv, ChainTypeOK, Later
  <2>3. (Idle(f) => Idle(f)') /\ (HeaderComes(f) => HeaderComes(f)') /\ (Garbage(f) => Garbage(f)')
    BY <2>1 DEF Idle, HeaderComes, Garbage, Fed
  <2>4. PassedOn(f) => PassedOn(f)'
    BY <2>1 DEF PassedOn, Passed, Fed
  <2>5. \A k : (Dewhitened(f, k) => Dewhitened(f, k)') /\ (Collected(f, k) => Collected(f, k)')
    BY <2>1 DEF Dewhitened, Collected, Passed, Length
  <2>6. \A k, t : Collecting(f, k, t) => Collecting(f, k, t)'
    BY <2>1 DEF Collecting, Length
  <2>7. PayloadComes(f) => PayloadComes(f)'
    BY <2>1, <2>4, <2>5, <2>6 DEF PayloadComes
  <2> QED  BY <2>1, <2>2, <2>3, <2>7 DEF ChainInv, Busy, DeliveryStep
<1> QED  BY <1>1, <1>2, <1>3, <1>4, <1>5 DEF Next

(* NoSurplus asks little of the frames: every one of three bytes or more,  *)
(* or with a CRC, has what header_decoder calls useful behind the symbols  *)
(* of its header, or fills them.                                           *)
THEOREM FewHaveSurplus ==
  ASSUME \A f \in DOMAIN Frames : Frames[f].pay_len >= 3 \/ Frames[f].has_crc = 1
  PROVE  NoSurplus
<1> SUFFICES ASSUME NEW f \in DOMAIN Frames
             PROVE  HeaderNibbles(f) - header_len <= Useful(Frames[f])
  BY DEF NoSurplus
<1>1. Frames[f] \in PhyFrames
  BY ChainAssumption, Element
<1>2. /\ Frames[f].sf \in 7..12 /\ Frames[f].pay_len \in 1..255 /\ Frames[f].has_crc \in {0, 1}
      /\ Frames[f].pay_len >= 3 \/ Frames[f].has_crc = 1
  BY <1>1 DEF PhyFrames
<1> DEFINE sf == Frames[f].sf
           l == Frames[f].pay_len
           r == Frames[f].has_crc
<1>3. sf \in 7..12 /\ l \in 1..255 /\ r \in {0, 1} /\ (l >= 3 \/ r = 1)
  BY <1>2
<1>4. sf - 2 - 5 <= 2 * l + 4 * r
  <2> HIDE DEF sf, l, r
  <2> QED  BY <1>3
<1> QED  BY <1>4 DEF HeaderNibbles, Useful, header_len

(* When a frame has been reported nothing of it is left in front of any    *)
(* block that the next frame could meet: a block that is called again      *)
(* finds only items of one frame.                                          *)
THEOREM NothingIsLeft == ASSUME NoSurplus PROVE Spec => []NothingLeft
<1>1. Init => ChainInv
  BY InitChain
<1>2. ChainInv /\ [Next]_vars => ChainInv'
  BY ChainStep
<1>3. ChainInv => NothingLeft
  <2> SUFFICES ASSUME ChainInv, Len(reports) = fed.frame
               PROVE  /\ nibbles = <<>> /\ payload_nibbles = <<>> /\ bytes = <<>>
                      /\ verified = <<>> /\ crc_verif.in_buff = <<>>
    BY DEF NothingLeft
  <2>1. fed.frame \in Int
    BY ChainAssumption DEF ChainInv, ChainTypeOK
  <2>2. ~Busy(fed.frame)
    BY <2>1 DEF Busy
  <2> QED  BY <2>2 DEF ChainInv, Idle
<1> QED  BY <1>1, <1>2, <1>3, PTL DEF Spec

(* The decoding chain implements PayloadDelivery: whichever block is       *)
(* called next, each frame is reported once, in order, and with its own    *)
(* bytes or as invalid.                                                    *)
THEOREM ChainDelivers == ASSUME NoSurplus PROVE Spec => DeliversPayloads
<1>1. Init => ChainInv /\ Delivery!DeliveryInit
  BY InitChain
<1>2. ChainInv /\ [Next]_vars => ChainInv' /\ DeliveryStep
  BY ChainStep
<1> QED  BY <1>1, <1>2, PTL DEF Spec, DeliversPayloads, Delivery!DeliverySpec, DeliveryStep
=============================================================================
