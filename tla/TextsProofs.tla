----------------------------- MODULE TextsProofs -----------------------------
(***************************************************************************)
(* Proofs about Texts, for every set of characters, texts of any length    *)
(* and every size of keys, passwords and buffers.                          *)
(***************************************************************************)
EXTENDS Texts, PositionsTheorems

-----------------------------------------------------------------------------
(* Digits.  Each of the sixteen values has a lower case digit, which stands*)
(* for it, and each digit stands for one of them.                          *)
LEMMA DigitTables ==
  /\ Len(Hex) = 16 /\ Len(UpperHex) = 16
  /\ \A v \in 1 .. 10 : UpperHex[v] = Hex[v]
  /\ \A v \in 11 .. 16 : UpperHex[v] = <<"A", "B", "C", "D", "E", "F">>[v - 10]
<1> DEFINE upper == <<"A", "B", "C", "D", "E", "F">>
           S == {Hex[i] : i \in 1 .. 16} \union {upper[i] : i \in 1 .. 6}
<1>1. Hex = [i \in 1 .. 16 |-> Hex[i]] /\ upper = [i \in 1 .. 6 |-> upper[i]]
  BY DEF Hex
<1> HIDE DEF upper
<1>2. Hex \in [1 .. 16 -> S] /\ upper \in [1 .. 6 -> S]
  BY <1>1
<1>3. Hex \in Seq(S) /\ upper \in Seq(S)
  <2> HIDE DEF S
  <2>1. 16 \in Nat /\ 6 \in Nat
    OBVIOUS
  <2>2. \A n \in Nat : \A f \in [1 .. n -> S] : f \in Seq(S)
    BY SeqDef
  <2> QED
    BY <1>2, <2>1, <2>2
<1>4. Len(Hex) = 16 /\ Len(upper) = 6
  BY <1>2, <1>3
<1> HIDE DEF S
<1>5. /\ SubSeq(Hex, 1, 10) \in Seq(S) /\ Len(SubSeq(Hex, 1, 10)) = 10
      /\ \A v \in 1 .. 10 : SubSeq(Hex, 1, 10)[v] = Hex[v]
  <2>1. 1 \in 1 .. Len(Hex) + 1 /\ 10 \in 1 - 1 .. Len(Hex)
    BY <1>4
  <2>2. /\ SubSeq(Hex, 1, 10) \in Seq(S) /\ Len(SubSeq(Hex, 1, 10)) = 10 - 1 + 1
        /\ \A v \in 1 .. 10 - 1 + 1 : SubSeq(Hex, 1, 10)[v] = Hex[1 + v - 1]
    BY <1>3, <2>1, PartOfText
  <2>3. ASSUME NEW v \in 1 .. 10 PROVE SubSeq(Hex, 1, 10)[v] = Hex[v]
    <3>1. 1 + v - 1 = v /\ v \in 1 .. 10 - 1 + 1
      OBVIOUS
    <3> QED
      BY <2>2, <3>1
  <2> QED
    BY <2>2, <2>3
<1>6. /\ Len(UpperHex) = 16
      /\ \A v \in 1 .. 10 : UpperHex[v] = SubSeq(Hex, 1, 10)[v]
      /\ \A v \in 11 .. 16 : UpperHex[v] = upper[v - 10]
  BY <1>3, <1>4, <1>5, ConcatProperties DEF UpperHex, upper
<1> QED
  BY <1>4, <1>5, <1>6 DEF upper

LEMMA DigitOfValue ==
  ASSUME NEW v \in 1 .. 16
  PROVE  IsHex(Hex[v]) /\ HexValue(Hex[v]) = v - 1
<1>1. IsHex(Hex[v])
  BY DigitTables DEF IsHex, ToSet
<1>2. ASSUME NEW w \in 1 .. 16, Hex[v] \in {Hex[w], UpperHex[w]} PROVE w = v
  BY <1>2, DigitTables DEF Hex
<1>3. (CHOOSE w \in 1 .. 16 : Hex[v] \in {Hex[w], UpperHex[w]}) = v
  BY <1>2
<1> QED
  BY <1>1, <1>3 DEF HexValue

LEMMA ValueOfDigit ==
  ASSUME NEW c, IsHex(c)
  PROVE  HexValue(c) \in 0 .. 15
<1>1. Len(Hex) = 16 /\ Len(UpperHex) = 16
  BY DigitTables
<1>2. \E v \in 1 .. 16 : c \in {Hex[v], UpperHex[v]}
  BY <1>1 DEF IsHex, ToSet
<1>3. (CHOOSE v \in 1 .. 16 : c \in {Hex[v], UpperHex[v]}) \in 1 .. 16
  BY <1>2
<1> QED
  BY <1>3 DEF HexValue

-----------------------------------------------------------------------------
(* The text of some bytes has two digits for each, the higher half first.  *)
ByteValue == 0 .. 255
Digit == {Hex[v] : v \in 1 .. 16}

DigitsOf(b) ==
  [k \in 1 .. 2 * Len(b) |->
    IF k % 2 = 1 THEN Hex[(b[(k + 1) \div 2] \div 16) + 1] ELSE Hex[(b[k \div 2] % 16) + 1]]

LEMMA HalvesOfByte ==
  ASSUME NEW b \in ByteValue
  PROVE  /\ (b \div 16) + 1 \in 1 .. 16 /\ (b % 16) + 1 \in 1 .. 16
         /\ 16 * (b \div 16) + (b % 16) = b
  BY DEF ByteValue

LEMMA DigitsMakeByte ==
  ASSUME NEW high \in 0 .. 15, NEW low \in 0 .. 15
  PROVE  16 * high + low \in ByteValue /\ high * 16 + low \in ByteValue
  BY DEF ByteValue

LEMMA DigitsOfBytes ==
  ASSUME NEW b \in Seq(ByteValue)
  PROVE  /\ DigitsOf(b) \in Seq(Digit) /\ Len(DigitsOf(b)) = 2 * Len(b)
         /\ \A i \in 1 .. Len(b) :
              /\ 2 * i - 1 \in 1 .. 2 * Len(b) /\ 2 * i \in 1 .. 2 * Len(b)
              /\ DigitsOf(b)[2 * i - 1] = Hex[(b[i] \div 16) + 1]
              /\ DigitsOf(b)[2 * i] = Hex[(b[i] % 16) + 1]
<1> DEFINE L == Len(b)
           R == DigitsOf(b)
<1>1. L \in Nat /\ 2 * L \in Nat /\ \A i \in 1 .. L : b[i] \in ByteValue
  OBVIOUS
<1>2. ASSUME NEW k \in 1 .. 2 * L PROVE R[k] \in Digit
  <2>1. CASE k % 2 = 1
    <3>1. (k + 1) \div 2 \in 1 .. L
      BY <1>1, <2>1
    <3>2. PICK v \in ByteValue : v = b[(k + 1) \div 2]
      BY <1>1, <3>1
    <3>3. R[k] = Hex[(v \div 16) + 1]
      BY <2>1, <3>2 DEF DigitsOf
    <3> QED
      BY <3>3, HalvesOfByte DEF Digit
  <2>2. CASE k % 2 # 1
    <3>1. k \div 2 \in 1 .. L
      BY <1>1, <2>2
    <3>2. PICK v \in ByteValue : v = b[k \div 2]
      BY <1>1, <3>1
    <3>3. R[k] = Hex[(v % 16) + 1]
      BY <2>2, <3>2 DEF DigitsOf
    <3> QED
      BY <3>3, HalvesOfByte DEF Digit
  <2> QED
    BY <2>1, <2>2
<1>3. R = [k \in 1 .. 2 * L |-> R[k]]
  BY DEF DigitsOf
<1>4. R \in Seq(Digit) /\ Len(R) = 2 * L
  <2> HIDE DEF L, R
  <2> QED
    BY <1>1, <1>2, <1>3
<1>5. ASSUME NEW i \in 1 .. L
      PROVE  /\ 2 * i - 1 \in 1 .. 2 * L /\ 2 * i \in 1 .. 2 * L
             /\ R[2 * i - 1] = Hex[(b[i] \div 16) + 1]
             /\ R[2 * i] = Hex[(b[i] % 16) + 1]
  <2>1. 2 * i - 1 \in 1 .. 2 * L /\ 2 * i \in 1 .. 2 * L
    BY <1>1
  <2>2. (2 * i - 1) % 2 = 1 /\ ((2 * i - 1) + 1) \div 2 = i
    OBVIOUS
  <2>3. (2 * i) % 2 # 1 /\ (2 * i) \div 2 = i
    OBVIOUS
  <2>4. R[2 * i - 1] = Hex[(b[((2 * i - 1) + 1) \div 2] \div 16) + 1]
    BY <2>1, <2>2 DEF DigitsOf
  <2>5. R[2 * i] = Hex[(b[(2 * i) \div 2] % 16) + 1]
    BY <2>1, <2>3 DEF DigitsOf
  <2>6. R[2 * i - 1] = Hex[(b[i] \div 16) + 1]
    BY <2>2, <2>4
  <2>7. R[2 * i] = Hex[(b[i] % 16) + 1]
    BY <2>3, <2>5
  <2> QED
    BY <2>1, <2>6, <2>7
<1> QED
  BY <1>4, <1>5

LEMMA EncodeIs ==
  ASSUME NEW b \in Seq(ByteValue)
  PROVE  Encode(b) = DigitsOf(b)
<1> DEFINE L == Len(b)
           R == DigitsOf(b)
           pair(i) == <<Hex[(b[i] \div 16) + 1], Hex[(b[i] % 16) + 1]>>
           seqs == [i \in 1 .. L |-> pair(i)]
           e == [i \in 0 .. L |-> 2 * i]
<1>1. L \in Nat /\ \A i \in 1 .. L : b[i] \in ByteValue
  OBVIOUS
<1>2. R \in Seq(Digit) /\ Len(R) = 2 * L
  BY DigitsOfBytes
<1>3. ASSUME NEW i \in 1 .. L
      PROVE  /\ pair(i) \in Seq(Digit) /\ Len(pair(i)) = 2
             /\ R[2 * (i - 1) + 1] = pair(i)[1] /\ R[2 * (i - 1) + 2] = pair(i)[2]
  <2>1. R[2 * i - 1] = Hex[(b[i] \div 16) + 1] /\ R[2 * i] = Hex[(b[i] % 16) + 1]
    BY DigitsOfBytes
  <2>2. 2 * (i - 1) + 1 = 2 * i - 1 /\ 2 * (i - 1) + 2 = 2 * i
    OBVIOUS
  <2>3. PICK x \in Digit, y \in Digit : pair(i) = <<x, y>>
    BY <1>1, HalvesOfByte DEF Digit
  <2>4. pair(i)[1] = Hex[(b[i] \div 16) + 1] /\ pair(i)[2] = Hex[(b[i] % 16) + 1]
    OBVIOUS
  <2> HIDE DEF pair, R
  <2>5. pair(i) \in Seq(Digit) /\ Len(pair(i)) = 2
    BY <2>3
  <2> QED
    BY <2>1, <2>2, <2>4, <2>5
<1>4. Encode(b) = FlattenSeq(seqs)
  BY DEF Encode
<1> HIDE DEF pair, R
<1>5. seqs \in Seq(Seq(Digit)) /\ Len(seqs) = L
  BY <1>1, <1>3
<1>6. e \in [0 .. Len(seqs) -> 0 .. Len(R)] /\ e[0] = 0 /\ e[Len(seqs)] = Len(R)
  BY <1>1, <1>2, <1>5
<1>7. \A i \in 1 .. Len(seqs) :
        /\ e[i] = e[i - 1] + Len(seqs[i])
        /\ \A k \in 1 .. Len(seqs[i]) : R[e[i - 1] + k] = seqs[i][k]
  <2> SUFFICES ASSUME NEW i \in 1 .. L
               PROVE  /\ e[i] = e[i - 1] + Len(seqs[i])
                      /\ \A k \in 1 .. Len(seqs[i]) : R[e[i - 1] + k] = seqs[i][k]
    BY <1>5
  <2>1. seqs[i] = pair(i) /\ Len(seqs[i]) = 2
    BY <1>3
  <2>2. e[i] = 2 * i /\ e[i - 1] = 2 * (i - 1) /\ 2 * i = 2 * (i - 1) + 2
    BY <1>1
  <2> HIDE DEF e, seqs
  <2>3. e[i] = e[i - 1] + Len(seqs[i])
    BY <2>1, <2>2
  <2>4. ASSUME NEW k \in 1 .. 2 PROVE R[e[i - 1] + k] = seqs[i][k]
    <3>1. k = 1 \/ k = 2
      OBVIOUS
    <3> QED
      BY <1>3, <2>1, <2>2, <3>1
  <2> QED
    BY <2>1, <2>3, <2>4
<1> HIDE DEF seqs, e, L
<1>8. Cuts(e, seqs, R)
  BY <1>6, <1>7 DEF Cuts
<1>9. FlattenSeq(seqs) = R
  BY <1>2, <1>5, <1>8, FlattenIs
<1> QED
  BY <1>4, <1>9 DEF R

-----------------------------------------------------------------------------
(* Decoding.  The decoder goes from digit to digit: what DecodeBits leaves *)
(* is the text behind the next of them.                                    *)
Behind(t, p) == SubSeq(t, p + 1, Len(t))
DigitAt(t, j) == IF j = 0 THEN 0 ELSE Nth(DigitsAt(t), j)

LEMMA BehindIs ==
  ASSUME NEW C, NEW t \in Seq(C), NEW p \in 0 .. Len(t)
  PROVE  /\ Behind(t, p) \in Seq(C) /\ Len(Behind(t, p)) = Len(t) - p
         /\ \A i \in 1 .. Len(t) - p : Behind(t, p)[i] = t[p + i]
<1>1. p + 1 \in 1 .. Len(t) + 1 /\ Len(t) \in (p + 1) - 1 .. Len(t) /\ Len(t) \in Nat
  OBVIOUS
<1>2. /\ Behind(t, p) \in Seq(C) /\ Len(Behind(t, p)) = Len(t) - (p + 1) + 1
      /\ \A i \in 1 .. Len(t) - (p + 1) + 1 : Behind(t, p)[i] = t[(p + 1) + i - 1]
  BY <1>1, PartOfText DEF Behind
<1>3. Len(t) - (p + 1) + 1 = Len(t) - p
  BY <1>1
<1>4. ASSUME NEW i \in 1 .. Len(t) - p PROVE Behind(t, p)[i] = t[p + i]
  <2>1. (p + 1) + i - 1 = p + i
    BY <1>1
  <2> QED
    BY <1>2, <1>3, <2>1
<1> QED
  BY <1>2, <1>3, <1>4

LEMMA BehindBehind ==
  ASSUME NEW C, NEW t \in Seq(C), NEW p \in 0 .. Len(t), NEW q \in 0 .. Len(t) - p
  PROVE  Behind(Behind(t, p), q) = Behind(t, p + q)
<1>1. Len(t) \in Nat /\ p + q \in 0 .. Len(t) /\ p \in Nat /\ q \in Nat
  OBVIOUS
<1>2. PICK s \in Seq(C) : s = Behind(t, p)
  BY BehindIs
<1>3. Len(s) = Len(t) - p /\ \A i \in 1 .. Len(t) - p : s[i] = t[p + i]
  BY <1>2, BehindIs
<1>4. q \in 0 .. Len(s)
  BY <1>3
<1>5. /\ Behind(s, q) \in Seq(C) /\ Len(Behind(s, q)) = Len(s) - q
      /\ \A i \in 1 .. Len(s) - q : Behind(s, q)[i] = s[q + i]
  BY <1>4, BehindIs
<1>6. /\ Behind(t, p + q) \in Seq(C) /\ Len(Behind(t, p + q)) = Len(t) - (p + q)
      /\ \A i \in 1 .. Len(t) - (p + q) : Behind(t, p + q)[i] = t[(p + q) + i]
  BY <1>1, BehindIs
<1>7. Len(s) - q = Len(t) - (p + q)
  BY <1>1, <1>3
<1>8. ASSUME NEW i \in 1 .. Len(s) - q PROVE Behind(s, q)[i] = Behind(t, p + q)[i]
  <2>1. q + i \in 1 .. Len(t) - p /\ p + (q + i) = (p + q) + i
    BY <1>1, <1>3, <1>7
  <2>2. s[q + i] = t[p + (q + i)]
    BY <1>3, <2>1
  <2> QED
    BY <1>5, <1>6, <1>7, <2>1, <2>2
<1> HIDE DEF Behind
<1>9. Behind(s, q) = Behind(t, p + q)
  BY <1>5, <1>6, <1>7, <1>8, SeqEqual
<1> QED
  BY <1>2, <1>9

LEMMA BehindNothing ==
  ASSUME NEW C, NEW t \in Seq(C)
  PROVE  Behind(t, 0) = t
<1>1. 0 \in 0 .. Len(t) /\ Len(t) \in Nat
  OBVIOUS
<1>2. /\ Behind(t, 0) \in Seq(C) /\ Len(Behind(t, 0)) = Len(t) - 0
      /\ \A i \in 1 .. Len(t) - 0 : Behind(t, 0)[i] = t[0 + i]
  BY <1>1, BehindIs
<1>3. Len(t) - 0 = Len(t) /\ \A i \in 1 .. Len(t) : 0 + i = i
  BY <1>1
<1> QED
  BY <1>2, <1>3, SeqEqual

LEMMA DigitsOfText ==
  ASSUME NEW C, NEW t \in Seq(C)
  PROVE  /\ Len(t) \in Nat /\ DigitsAt(t) \in SUBSET (1 .. Len(t))
         /\ Cardinality(DigitsAt(t)) \in Nat
         /\ HexDigits(t) \in Seq(C) /\ Len(HexDigits(t)) = Cardinality(DigitsAt(t))
         /\ \A j \in 1 .. Cardinality(DigitsAt(t)) :
              /\ DigitAt(t, j) \in DigitsAt(t) /\ HexDigits(t)[j] = t[DigitAt(t, j)]
              /\ IsHex(HexDigits(t)[j])
<1>1. Len(t) \in Nat /\ DigitsAt(t) \in SUBSET (1 .. Len(t))
  BY DEF DigitsAt
<1>2. Cardinality(DigitsAt(t)) \in Nat
  BY <1>1, PartFinite
<1>3. /\ HexDigits(t) \in Seq(C) /\ Len(HexDigits(t)) = Cardinality(DigitsAt(t))
      /\ \A j \in 1 .. Cardinality(DigitsAt(t)) : HexDigits(t)[j] = t[Nth(DigitsAt(t), j)]
  BY <1>1, SelectedIsText DEF HexDigits
<1>4. ASSUME NEW j \in 1 .. Cardinality(DigitsAt(t))
      PROVE  /\ DigitAt(t, j) \in DigitsAt(t) /\ HexDigits(t)[j] = t[DigitAt(t, j)]
             /\ IsHex(HexDigits(t)[j])
  <2>1. DigitAt(t, j) = Nth(DigitsAt(t), j)
    BY <1>2 DEF DigitAt
  <2>2. Nth(DigitsAt(t), j) \in DigitsAt(t)
    BY <1>1, NthIsThere
  <2>3. IsHex(t[Nth(DigitsAt(t), j)])
    BY <2>2 DEF DigitsAt
  <2> QED
    BY <1>3, <2>1, <2>2, <2>3
<1> QED
  BY <1>1, <1>2, <1>3, <1>4

LEMMA NextDigit ==
  ASSUME NEW C, NEW t \in Seq(C), NEW j \in 0 .. Len(HexDigits(t)) - 1
  PROVE  /\ DigitAt(t, j) \in 0 .. Len(t) /\ DigitAt(t, j + 1) \in DigitsAt(t)
         /\ DigitAt(t, j) < DigitAt(t, j + 1)
         /\ \A i \in DigitsAt(t) : DigitAt(t, j) < i => DigitAt(t, j + 1) <= i
<1> DEFINE D == DigitsAt(t)
           m == Cardinality(D)
<1>1. Len(t) \in Nat /\ D \in SUBSET (1 .. Len(t)) /\ m \in Nat /\ Len(HexDigits(t)) = m
  BY DigitsOfText
<1>2. j + 1 \in 1 .. m /\ j \in Nat /\ j + 1 # 0
  BY <1>1
<1> HIDE DEF D, m
<1>3. DigitAt(t, j + 1) = Nth(D, j + 1)
  BY <1>2 DEF DigitAt, D
<1>4. Nth(D, j + 1) \in D
  BY <1>1, <1>2, NthIsThere DEF m
<1>5. CASE j = 0
  <2>1. DigitAt(t, j) = 0 /\ j + 1 = 1
    BY <1>5 DEF DigitAt
  <2>2. \A i \in D : Nth(D, 1) <= i
    BY <1>1, NthHasFirst
  <2>3. Nth(D, j + 1) \in 1 .. Len(t)
    BY <1>1, <1>4
  <2> QED
    BY <1>1, <1>3, <1>4, <2>1, <2>2, <2>3 DEF D
<1>6. CASE j # 0
  <2>1. DigitAt(t, j) = Nth(D, j) /\ j \in 1 .. m /\ j < j + 1
    BY <1>1, <1>2, <1>6 DEF DigitAt, D
  <2>2. Nth(D, j) \in D /\ Nth(D, j) < Nth(D, j + 1)
    BY <1>1, <1>2, <2>1, NthIsThere, NthInOrder DEF m
  <2>3. \A i \in D : Nth(D, j) < i => Nth(D, j + 1) <= i
    BY <1>1, <2>1, NthHasNext DEF m
  <2>4. Nth(D, j) \in 0 .. Len(t)
    <3>1. Nth(D, j) \in 1 .. Len(t)
      BY <1>1, <2>2
    <3> QED
      BY <1>1, <3>1
  <2> QED
    BY <1>3, <1>4, <2>1, <2>2, <2>3, <2>4 DEF D
<1> QED
  BY <1>5, <1>6

LEMMA LastDigit ==
  ASSUME NEW C, NEW t \in Seq(C), NEW j, j = Len(HexDigits(t))
  PROVE  /\ DigitAt(t, j) \in 0 .. Len(t)
         /\ \A i \in DigitsAt(t) : ~(DigitAt(t, j) < i)
<1> DEFINE D == DigitsAt(t)
           m == Cardinality(D)
<1>1. Len(t) \in Nat /\ D \in SUBSET (1 .. Len(t)) /\ m \in Nat /\ j = m
  BY DigitsOfText
<1> HIDE DEF D, m
<1>2. CASE m = 0
  <2>1. DigitAt(t, j) = 0
    BY <1>1, <1>2 DEF DigitAt
  <2>2. ASSUME NEW i \in D PROVE FALSE
    <3>1. 1 \in 1 .. m
      BY <1>1, <2>2, NthHasFirst DEF m
    <3> QED
      BY <1>2, <3>1
  <2> QED
    BY <1>1, <2>1, <2>2 DEF D
<1>3. CASE m # 0
  <2>1. DigitAt(t, j) = Nth(D, m) /\ m \in 1 .. m
    BY <1>1, <1>3 DEF DigitAt, D
  <2>2. Nth(D, m) \in D
    BY <1>1, <2>1, NthIsThere DEF m
  <2>3. ASSUME NEW i \in D, Nth(D, m) < i PROVE FALSE
    <3>1. m + 1 \in 1 .. m
      BY <1>1, <2>1, <2>3, NthHasNext DEF m
    <3> QED
      BY <1>1, <3>1
  <2>4. Nth(D, m) \in 0 .. Len(t)
    <3>1. Nth(D, m) \in 1 .. Len(t)
      BY <1>1, <2>2
    <3> QED
      BY <1>1, <3>1
  <2> QED
    BY <2>1, <2>3, <2>4 DEF D
<1> QED
  BY <1>2, <1>3

LEMMA DecodeBitsTakesNext ==
  ASSUME NEW C, NEW t \in Seq(C), NEW j \in 0 .. Len(HexDigits(t)) - 1
  PROVE  LET next == DecodeBits(Behind(t, DigitAt(t, j)))
         IN  /\ next.ok /\ next.value = HexValue(HexDigits(t)[j + 1])
             /\ next.rest = Behind(t, DigitAt(t, j + 1))
<1>1. PICK p : p = DigitAt(t, j)
  OBVIOUS
<1>2. PICK q : q = DigitAt(t, j + 1)
  OBVIOUS
<1>3. /\ Len(t) \in Nat /\ DigitsAt(t) \in SUBSET (1 .. Len(t))
      /\ Len(HexDigits(t)) \in Nat /\ j + 1 \in 1 .. Len(HexDigits(t))
  BY DigitsOfText
<1>4. /\ p \in 0 .. Len(t) /\ q \in DigitsAt(t) /\ p < q
      /\ \A i \in DigitsAt(t) : p < i => q <= i
  BY <1>1, <1>2, NextDigit
<1>5. HexDigits(t)[j + 1] = t[q]
  BY <1>2, <1>3, DigitsOfText
<1>6. PICK s \in Seq(C) : s = Behind(t, p)
  BY <1>4, BehindIs
<1>7. Len(s) = Len(t) - p /\ \A i \in 1 .. Len(t) - p : s[i] = t[p + i]
  BY <1>4, <1>6, BehindIs
<1>8. /\ q \in 1 .. Len(t) /\ q - p \in 1 .. Len(t) - p /\ p + (q - p) = q
      /\ p \in Nat /\ q - p \in 0 .. Len(t) - p
  BY <1>3, <1>4
<1>9. q - p \in DigitsAt(s)
  <2>1. s[q - p] = t[q]
    BY <1>7, <1>8
  <2>2. IsHex(t[q])
    BY <1>4 DEF DigitsAt
  <2> QED
    BY <1>7, <1>8, <2>1, <2>2 DEF DigitsAt
<1>10. ASSUME NEW i \in DigitsAt(s) PROVE q - p <= i
  <2>1. i \in 1 .. Len(t) - p /\ IsHex(s[i])
    BY <1>7 DEF DigitsAt
  <2>2. p + i \in 1 .. Len(t) /\ p < p + i
    BY <1>3, <1>4, <2>1
  <2>3. p + i \in DigitsAt(t)
    BY <1>7, <2>1, <2>2 DEF DigitsAt
  <2>4. q <= p + i
    BY <1>4, <2>2, <2>3
  <2> QED
    BY <1>4, <1>8, <2>1, <2>4
<1>11. Min(DigitsAt(s)) = q - p
  <2>1. DigitsAt(s) \in SUBSET Nat
    BY DEF DigitsAt
  <2> QED
    BY <1>9, <1>10, <2>1, LeastIs
<1>12. /\ DecodeBits(s).ok /\ DecodeBits(s).value = HexValue(s[q - p])
       /\ DecodeBits(s).rest = SubSeq(s, (q - p) + 1, Len(s))
  BY <1>9, <1>11 DEF DecodeBits
<1>13. s[q - p] = t[q]
  BY <1>7, <1>8
<1>14. Behind(s, q - p) = Behind(t, q)
  BY <1>4, <1>6, <1>8, BehindBehind
<1> QED
  BY <1>1, <1>2, <1>5, <1>6, <1>12, <1>13, <1>14 DEF Behind

LEMMA DecodeBitsFindsNone ==
  ASSUME NEW C, NEW t \in Seq(C), NEW j, j = Len(HexDigits(t))
  PROVE  ~DecodeBits(Behind(t, DigitAt(t, j))).ok
<1>1. PICK p : p = DigitAt(t, j)
  OBVIOUS
<1>2. Len(t) \in Nat /\ p \in 0 .. Len(t) /\ \A i \in DigitsAt(t) : ~(p < i)
  BY <1>1, LastDigit, DigitsOfText
<1>3. PICK s \in Seq(C) : s = Behind(t, p)
  BY <1>2, BehindIs
<1>4. Len(s) = Len(t) - p /\ \A i \in 1 .. Len(t) - p : s[i] = t[p + i]
  BY <1>2, <1>3, BehindIs
<1>5. ASSUME NEW i \in DigitsAt(s) PROVE FALSE
  <2>1. i \in 1 .. Len(t) - p /\ IsHex(s[i])
    BY <1>4 DEF DigitsAt
  <2>2. p + i \in 1 .. Len(t) /\ p < p + i
    BY <1>2, <2>1
  <2>3. p + i \in DigitsAt(t)
    BY <1>4, <2>1, <2>2 DEF DigitsAt
  <2> QED
    BY <1>2, <2>2, <2>3
<1> QED
  BY <1>1, <1>3, <1>5 DEF DecodeBits

(* Decoding byte by byte: types, and that the recursion is well defined.   *)
Decoding(C) == [ok : BOOLEAN, rest : Seq(C), bytes : Seq(ByteValue)]

LEMMA DecodeBitsType ==
  ASSUME NEW C, NEW t \in Seq(C)
  PROVE  DecodeBits(t) \in [ok : BOOLEAN, value : 0 .. 15, rest : Seq(C)]
<1>1. CASE DigitsAt(t) = {}
  BY <1>1 DEF DecodeBits
<1>2. CASE DigitsAt(t) # {}
  <2>1. DigitsAt(t) \in SUBSET Nat
    BY DEF DigitsAt
  <2>2. PICK q : q = Min(DigitsAt(t))
    OBVIOUS
  <2>3. q \in DigitsAt(t)
    BY <1>2, <2>1, <2>2, LeastIsThere
  <2>4. q \in 0 .. Len(t) /\ IsHex(t[q])
    BY <2>3 DEF DigitsAt
  <2>5. SubSeq(t, q + 1, Len(t)) \in Seq(C)
    BY <2>4, BehindIs DEF Behind
  <2>6. HexValue(t[q]) \in 0 .. 15
    BY <2>4, ValueOfDigit
  <2> QED
    BY <1>2, <2>2, <2>5, <2>6 DEF DecodeBits
<1> QED
  BY <1>1, <1>2

LEMMA DecodeByteType ==
  ASSUME NEW C, NEW d \in Decoding(C)
  PROVE  DecodeByte(d) \in Decoding(C)
<1>1. DecodeBits(d.rest) \in [ok : BOOLEAN, value : 0 .. 15, rest : Seq(C)]
  BY DecodeBitsType DEF Decoding
<1>2. PICK b1 \in [ok : BOOLEAN, value : 0 .. 15, rest : Seq(C)] : b1 = DecodeBits(d.rest)
  BY <1>1
<1>3. DecodeBits(b1.rest) \in [ok : BOOLEAN, value : 0 .. 15, rest : Seq(C)]
  BY DecodeBitsType
<1>4. PICK b2 \in [ok : BOOLEAN, value : 0 .. 15, rest : Seq(C)] : b2 = DecodeBits(b1.rest)
  BY <1>3
<1>5. b1.value * 16 + b2.value \in ByteValue
  <2>1. b1.value \in 0 .. 15 /\ b2.value \in 0 .. 15
    OBVIOUS
  <2> QED
    BY <2>1, DigitsMakeByte
<1>6. Append(d.bytes, b1.value * 16 + b2.value) \in Seq(ByteValue)
  BY <1>5 DEF Decoding
<1>7. [ok |-> TRUE, rest |-> b2.rest, bytes |-> Append(d.bytes, b1.value * 16 + b2.value)]
        \in Decoding(C)
  BY <1>6 DEF Decoding
<1>8. [d EXCEPT !.ok = FALSE] \in Decoding(C)
  BY DEF Decoding
<1> QED
  BY <1>2, <1>4, <1>7, <1>8 DEF DecodeByte

LEMMA DecodeBytesUnfolds ==
  ASSUME NEW C, NEW t \in Seq(C), NEW n \in Nat
  PROVE  \E d \in [0 .. n -> Decoding(C)] :
           /\ d[0] = [ok |-> TRUE, rest |-> t, bytes |-> <<>>]
           /\ \A k \in 1 .. n : d[k] = DecodeByte(d[k - 1])
           /\ DecodeBytes(t, n) = d[n]
<1> DEFINE a == [ok |-> TRUE, rest |-> t, bytes |-> <<>>]
           S == Decoding(C)
           g == [k \in 1 .. n |-> [s \in S |-> DecodeByte(s)]]
<1>1. a \in S
  BY DEF Decoding
<1>2. \A k \in 1 .. n : g[k] \in [S -> S]
  BY DecodeByteType
<1>3. PICK d : Unfolds(d, n, S, a, g)
  <2> HIDE DEF a, S, g
  <2> QED
    BY <1>1, <1>2, Recursion
<1>4. d \in [0 .. n -> S] /\ d[0] = a /\ \A k \in 1 .. n : d[k] = g[k][d[k - 1]]
  BY <1>3 DEF Unfolds
<1>5. ASSUME NEW k \in 1 .. n PROVE d[k] = DecodeByte(d[k - 1])
  <2>1. k - 1 \in 0 .. n
    OBVIOUS
  <2>2. d[k - 1] \in S
    BY <1>4, <2>1
  <2>3. g[k][d[k - 1]] = DecodeByte(d[k - 1])
    BY <2>2
  <2> HIDE DEF g, S
  <2> QED
    BY <1>4, <2>3
<1> HIDE DEF g, S
<1> DEFINE Q(f) == f = [k \in 0 .. n |-> IF k = 0 THEN a ELSE DecodeByte(f[k - 1])]
           c == CHOOSE f : Q(f)
<1>6. DecodeBytes(t, n) = c[n]
  BY DEF DecodeBytes
<1>7. Q(d)
  <2>1. ASSUME NEW k \in 0 .. n PROVE d[k] = IF k = 0 THEN a ELSE DecodeByte(d[k - 1])
    <3> HIDE DEF a
    <3>1. CASE k = 0
      BY <1>4, <3>1
    <3>2. CASE k # 0
      <4>1. k \in 1 .. n
        BY <3>2
      <4> QED
        BY <1>5, <3>2, <4>1
    <3> QED
      BY <3>1, <3>2
  <2> QED
    BY <1>4, <2>1
<1>8. Q(c)
  <2> HIDE DEF Q
  <2> QED
    BY <1>7
<1> DEFINE P == {k \in 0 .. n : c[k] = d[k]}
<1>9. \A k \in 0 .. n : k \in P
  <2>1. 0 \in P
    <3>1. c[0] = a
      <4> HIDE DEF c, a
      <4> QED
        BY <1>8
    <3> QED
      BY <1>4, <3>1
  <2>2. ASSUME NEW k \in 0 .. n - 1, k \in P PROVE k + 1 \in P
    <3>1. k + 1 \in 1 .. n /\ k + 1 \in 0 .. n /\ (k + 1) - 1 = k /\ k + 1 # 0
      OBVIOUS
    <3>2. c[k + 1] = IF k + 1 = 0 THEN a ELSE DecodeByte(c[(k + 1) - 1])
      <4> HIDE DEF c, a
      <4> QED
        BY <1>8, <3>1
    <3>3. d[k + 1] = DecodeByte(d[(k + 1) - 1])
      BY <1>5, <3>1
    <3> HIDE DEF c
    <3> QED
      BY <2>2, <3>1, <3>2, <3>3
  <2> HIDE DEF P
  <2> QED
    BY <2>1, <2>2, InductionUpTo
<1>10. c[n] = d[n]
  <2> HIDE DEF c
  <2> QED
    BY <1>9
<1> QED
  BY <1>4, <1>5, <1>6, <1>10 DEF S

(* What is decoded after k bytes: the bytes of the first 2 k digits, and   *)
(* the decoder is behind the last of them, unless there are fewer.         *)
FirstBytes(digits, k) ==
  [i \in 1 .. k |-> 16 * HexValue(digits[2 * i - 1]) + HexValue(digits[2 * i])]

LEMMA FirstBytesType ==
  ASSUME NEW C, NEW t \in Seq(C), NEW k \in Nat, 2 * k <= Len(HexDigits(t))
  PROVE  FirstBytes(HexDigits(t), k) \in Seq(ByteValue)
<1>1. ASSUME NEW i \in 1 .. k
      PROVE  16 * HexValue(HexDigits(t)[2 * i - 1]) + HexValue(HexDigits(t)[2 * i])
               \in ByteValue
  <2>1. Len(HexDigits(t)) = Cardinality(DigitsAt(t)) /\ Len(HexDigits(t)) \in Nat
    BY DigitsOfText
  <2>2. 2 * i - 1 \in 1 .. Len(HexDigits(t)) /\ 2 * i \in 1 .. Len(HexDigits(t))
    BY <2>1
  <2>3. IsHex(HexDigits(t)[2 * i - 1]) /\ IsHex(HexDigits(t)[2 * i])
    BY <2>1, <2>2, DigitsOfText
  <2>4. /\ HexValue(HexDigits(t)[2 * i - 1]) \in 0 .. 15
        /\ HexValue(HexDigits(t)[2 * i]) \in 0 .. 15
    BY <2>3, ValueOfDigit
  <2> QED
    BY <2>4, DigitsMakeByte
<1> QED
  BY <1>1 DEF FirstBytes

LEMMA ByteIsDecoded ==
  ASSUME NEW C, NEW t \in Seq(C), NEW k \in Nat, NEW d \in Decoding(C)
  PROVE  /\ /\ d = [ok |-> TRUE, rest |-> Behind(t, DigitAt(t, 2 * k)),
                    bytes |-> FirstBytes(HexDigits(t), k)]
            /\ 2 * (k + 1) <= Len(HexDigits(t))
            => DecodeByte(d) =
                 [ok |-> TRUE, rest |-> Behind(t, DigitAt(t, 2 * (k + 1))),
                  bytes |-> FirstBytes(HexDigits(t), k + 1)]
         /\ /\ d = [ok |-> TRUE, rest |-> Behind(t, DigitAt(t, 2 * k)),
                    bytes |-> FirstBytes(HexDigits(t), k)]
            /\ 2 * k <= Len(HexDigits(t)) /\ Len(HexDigits(t)) < 2 * (k + 1)
            => ~DecodeByte(d).ok
         /\ ~d.ok => ~DecodeByte(d).ok
<1> DEFINE b1 == DecodeBits(d.rest)
           b2 == DecodeBits(b1.rest)
           m == Len(HexDigits(t))
<1>0. m \in Nat
  BY DigitsOfText
<1>1. DecodeByte(d) = IF d.ok /\ b1.ok /\ b2.ok
                        THEN [ok |-> TRUE, rest |-> b2.rest,
                              bytes |-> Append(d.bytes, b1.value * 16 + b2.value)]
                        ELSE [d EXCEPT !.ok = FALSE]
  BY DEF DecodeByte
<1>2. ~(d.ok /\ b1.ok /\ b2.ok) => ~DecodeByte(d).ok
  <2> HIDE DEF b1, b2
  <2> QED
    BY <1>1 DEF Decoding
<1>3. ASSUME d = [ok |-> TRUE, rest |-> Behind(t, DigitAt(t, 2 * k)),
                  bytes |-> FirstBytes(HexDigits(t), k)],
             2 * (k + 1) <= m
      PROVE  DecodeByte(d) = [ok |-> TRUE, rest |-> Behind(t, DigitAt(t, 2 * (k + 1))),
                              bytes |-> FirstBytes(HexDigits(t), k + 1)]
  <2>1. 2 * k \in 0 .. m - 1 /\ 2 * k + 1 \in 0 .. m - 1 /\ (2 * k + 1) + 1 = 2 * (k + 1)
    BY <1>0, <1>3
  <2>2. d.ok /\ d.rest = Behind(t, DigitAt(t, 2 * k)) /\ d.bytes = FirstBytes(HexDigits(t), k)
    BY <1>3
  <2>3. /\ b1.ok /\ b1.value = HexValue(HexDigits(t)[2 * k + 1])
        /\ b1.rest = Behind(t, DigitAt(t, 2 * k + 1))
    BY <2>1, <2>2, DecodeBitsTakesNext
  <2> HIDE DEF b1
  <2>4. /\ b2.ok /\ b2.value = HexValue(HexDigits(t)[(2 * k + 1) + 1])
        /\ b2.rest = Behind(t, DigitAt(t, (2 * k + 1) + 1))
    BY <2>1, <2>3, DecodeBitsTakesNext
  <2> HIDE DEF b2
  <2>5. Append(d.bytes, b1.value * 16 + b2.value) = FirstBytes(HexDigits(t), k + 1)
    <3> DEFINE s == FirstBytes(HexDigits(t), k)
               r == FirstBytes(HexDigits(t), k + 1)
               v == b1.value * 16 + b2.value
    <3>1. s \in Seq(ByteValue) /\ r \in Seq(ByteValue) /\ Len(s) = k /\ Len(r) = k + 1
      <4>1. 2 * k <= m /\ k + 1 \in Nat
        BY <1>0, <2>1
      <4>2. s \in Seq(ByteValue) /\ r \in Seq(ByteValue)
        BY <1>3, <4>1, FirstBytesType
      <4> QED
        BY <4>1, <4>2 DEF FirstBytes
    <3>2. \A i \in 1 .. k : s[i] = r[i]
      BY DEF FirstBytes
    <3>3. r[k + 1] = 16 * HexValue(HexDigits(t)[2 * (k + 1) - 1])
                       + HexValue(HexDigits(t)[2 * (k + 1)])
      BY DEF FirstBytes
    <3>4. 2 * (k + 1) - 1 = 2 * k + 1
      OBVIOUS
    <3>5. b1.value \in Int
      <4>1. 2 * k + 1 \in 1 .. Cardinality(DigitsAt(t))
        BY <1>0, <2>1, DigitsOfText
      <4>2. IsHex(HexDigits(t)[2 * k + 1])
        BY <4>1, DigitsOfText
      <4> QED
        BY <2>3, <4>2, ValueOfDigit
    <3>6. r[k + 1] = v
      BY <2>1, <2>3, <2>4, <3>3, <3>4, <3>5
    <3>7. v \in ByteValue
      BY <3>1, <3>6
    <3> HIDE DEF s, r, v
    <3>8. Append(s, v) \in Seq(ByteValue) /\ Len(Append(s, v)) = k + 1
      BY <3>1, <3>7
    <3>9. \A i \in 1 .. k + 1 : Append(s, v)[i] = r[i]
      BY <3>1, <3>2, <3>6, <3>7
    <3>10. Append(s, v) = r
      BY <3>1, <3>8, <3>9, SeqEqual
    <3> QED
      BY <2>2, <3>10 DEF s, r, v
  <2> QED
    BY <1>1, <2>1, <2>2, <2>3, <2>4, <2>5
<1>4. ASSUME d = [ok |-> TRUE, rest |-> Behind(t, DigitAt(t, 2 * k)),
                  bytes |-> FirstBytes(HexDigits(t), k)],
             2 * k <= m, m < 2 * (k + 1)
      PROVE  ~DecodeByte(d).ok
  <2>1. d.rest = Behind(t, DigitAt(t, 2 * k))
    BY <1>4
  <2>2. CASE m = 2 * k
    <3>1. ~b1.ok
      BY <2>1, <2>2, DecodeBitsFindsNone
    <3> HIDE DEF b1, b2
    <3> QED
      BY <1>2, <3>1
  <2>3. CASE m = 2 * k + 1
    <3>1. 2 * k \in 0 .. m - 1
      BY <1>0, <2>3
    <3>2. b1.rest = Behind(t, DigitAt(t, 2 * k + 1))
      BY <2>1, <3>1, DecodeBitsTakesNext
    <3> HIDE DEF b1
    <3>3. ~b2.ok
      BY <2>3, <3>2, DecodeBitsFindsNone
    <3> HIDE DEF b2
    <3> QED
      BY <1>2, <3>3
  <2> QED
    BY <1>0, <1>4, <2>2, <2>3
<1>5. ~d.ok => ~DecodeByte(d).ok
  <2> HIDE DEF b1, b2
  <2> QED
    BY <1>2
<1> QED
  BY <1>3, <1>4, <1>5

LEMMA DecodedBytes ==
  ASSUME NEW C, NEW t \in Seq(C), NEW n \in Nat
  PROVE  /\ 2 * n <= Len(HexDigits(t))
            => DecodeBytes(t, n) = [ok |-> TRUE, rest |-> Behind(t, DigitAt(t, 2 * n)),
                                    bytes |-> FirstBytes(HexDigits(t), n)]
         /\ ~(2 * n <= Len(HexDigits(t))) => ~DecodeBytes(t, n).ok
<1> DEFINE m == Len(HexDigits(t))
           R(k) == [ok |-> TRUE, rest |-> Behind(t, DigitAt(t, 2 * k)),
                    bytes |-> FirstBytes(HexDigits(t), k)]
<1>1. m \in Nat
  BY DigitsOfText
<1>2. PICK d \in [0 .. n -> Decoding(C)] :
        /\ d[0] = [ok |-> TRUE, rest |-> t, bytes |-> <<>>]
        /\ \A k \in 1 .. n : d[k] = DecodeByte(d[k - 1])
        /\ DecodeBytes(t, n) = d[n]
  BY DecodeBytesUnfolds, ZenonT(40)
<1> DEFINE P == {k \in 0 .. n : /\ 2 * k <= m => d[k] = R(k)
                                /\ ~(2 * k <= m) => ~d[k].ok}
<1>3. 0 \in P
  <2>1. DigitAt(t, 2 * 0) = 0
    BY DEF DigitAt
  <2>2. Behind(t, DigitAt(t, 2 * 0)) = t
    BY <2>1, BehindNothing
  <2>3. FirstBytes(HexDigits(t), 0) = <<>>
    BY DEF FirstBytes
  <2>4. d[0] = R(0)
    BY <1>2, <2>2, <2>3
  <2> HIDE DEF R, m
  <2> QED
    BY <1>1, <2>4
<1>4. ASSUME NEW k \in 0 .. n - 1, k \in P PROVE k + 1 \in P
  <2>1. k + 1 \in 1 .. n /\ k + 1 \in 0 .. n /\ (k + 1) - 1 = k /\ k \in Nat /\ k \in 0 .. n
    OBVIOUS
  <2>2. d[k + 1] = DecodeByte(d[(k + 1) - 1])
    BY <1>2, <2>1
  <2>3. d[k] \in Decoding(C) /\ d[k + 1] = DecodeByte(d[k])
    BY <2>1, <2>2
  <2>4. /\ d[k] = R(k) /\ 2 * (k + 1) <= m => DecodeByte(d[k]) = R(k + 1)
        /\ d[k] = R(k) /\ 2 * k <= m /\ m < 2 * (k + 1) => ~DecodeByte(d[k]).ok
        /\ ~d[k].ok => ~DecodeByte(d[k]).ok
    BY <2>1, <2>3, ByteIsDecoded
  <2>5. (2 * k <= m => d[k] = R(k)) /\ (~(2 * k <= m) => ~d[k].ok)
    BY <1>4
  <2> HIDE DEF R, m
  <2>6. 2 * (k + 1) <= m => d[k + 1] = R(k + 1)
    BY <1>1, <2>1, <2>3, <2>4, <2>5
  <2>7. ~(2 * (k + 1) <= m) => ~d[k + 1].ok
    BY <1>1, <2>1, <2>3, <2>4, <2>5
  <2> QED
    BY <2>1, <2>6, <2>7
<1>5. n \in P
  <2> HIDE DEF P
  <2>1. \A k \in 0 .. n : k \in P
    BY <1>3, <1>4, InductionUpTo
  <2> QED
    BY <2>1
<1> QED
  BY <1>2, <1>5

(* The decoder accepts exactly the texts with two digits for each byte.    *)
LEMMA DecodeIs ==
  ASSUME NEW C, NEW t \in Seq(C), NEW n \in Nat
  PROVE  /\ Decode(t, n).ok <=> Len(HexDigits(t)) = 2 * n
         /\ Decode(t, n).ok => Decode(t, n) = [ok |-> TRUE, bytes |-> BytesOf(HexDigits(t))]
         /\ Decode(t, n).ok => /\ BytesOf(HexDigits(t)) \in Seq(ByteValue)
                               /\ Len(BytesOf(HexDigits(t))) = n
<1> DEFINE m == Len(HexDigits(t))
           d == DecodeBytes(t, n)
<1>1. m \in Nat
  BY DigitsOfText
<1>2. Decode(t, n) = [ok |-> d.ok /\ ~DecodeBits(d.rest).ok, bytes |-> d.bytes]
  BY DEF Decode
<1>3. /\ 2 * n <= m => /\ d.ok /\ d.rest = Behind(t, DigitAt(t, 2 * n))
                       /\ d.bytes = FirstBytes(HexDigits(t), n)
      /\ ~(2 * n <= m) => ~d.ok
  BY DecodedBytes
<1> HIDE DEF d, m
<1>4. /\ Decode(t, n).ok <=> d.ok /\ ~DecodeBits(d.rest).ok
      /\ Decode(t, n).ok => Decode(t, n) = [ok |-> TRUE, bytes |-> d.bytes]
  <2>1. Decode(t, n).ok = (d.ok /\ ~DecodeBits(d.rest).ok)
    BY <1>2
  <2>2. Decode(t, n).ok => (d.ok /\ ~DecodeBits(d.rest).ok) = TRUE
    BY <2>1
  <2> QED
    BY <1>2, <2>1, <2>2
<1>5. CASE m < 2 * n
  BY <1>1, <1>3, <1>4, <1>5 DEF m
<1>6. CASE 2 * n < m
  <2>1. 2 * n \in 0 .. m - 1
    BY <1>1, <1>6
  <2>2. DecodeBits(Behind(t, DigitAt(t, 2 * n))).ok
    BY <2>1, DecodeBitsTakesNext DEF m
  <2> QED
    BY <1>1, <1>3, <1>4, <1>6, <2>2 DEF m
<1>7. CASE m = 2 * n
  <2>1. ~DecodeBits(Behind(t, DigitAt(t, 2 * n))).ok
    BY <1>7, DecodeBitsFindsNone DEF m
  <2>2. d.ok /\ d.rest = Behind(t, DigitAt(t, 2 * n)) /\ d.bytes = FirstBytes(HexDigits(t), n)
    BY <1>1, <1>3, <1>7
  <2>3. m \div 2 = n
    BY <1>7
  <2>4. BytesOf(HexDigits(t)) = FirstBytes(HexDigits(t), n)
    BY <2>3 DEF BytesOf, FirstBytes, m
  <2>5. FirstBytes(HexDigits(t), n) \in Seq(ByteValue)
    BY <1>1, <1>7, FirstBytesType DEF m
  <2>6. Len(FirstBytes(HexDigits(t), n)) = n
    BY DEF FirstBytes
  <2>7. Decode(t, n).ok /\ Decode(t, n) = [ok |-> TRUE, bytes |-> BytesOf(HexDigits(t))]
    BY <1>4, <2>1, <2>2, <2>4
  <2> QED
    BY <1>7, <2>4, <2>5, <2>6, <2>7 DEF m
<1> QED
  BY <1>1, <1>5, <1>6, <1>7

-----------------------------------------------------------------------------
(* A text without other characters is its digits, and only such a text has *)
(* as many digits as characters.                                           *)
LEMMA OnlyDigits ==
  ASSUME NEW C, NEW t \in Seq(C), \A i \in 1 .. Len(t) : IsHex(t[i])
  PROVE  HexDigits(t) = t
<1> DEFINE L == Len(t)
           h == [k \in 1 .. L |-> k]
<1>1. L \in Nat /\ DigitsAt(t) = 1 .. L
  BY DEF DigitsAt
<1> HIDE DEF L
<1>2. h \in [1 .. L -> DigitsAt(t)]
  BY <1>1
<1>3. \A j, k \in 1 .. L : j < k => h[j] < h[k]
  OBVIOUS
<1>4. \A i \in DigitsAt(t) : \E k \in 1 .. L : h[k] = i
  BY <1>1
<1>5. Cardinality(DigitsAt(t)) = L /\ \A k \in 1 .. L : Nth(DigitsAt(t), k) = h[k]
  <2> HIDE DEF h
  <2>1. DigitsAt(t) \in SUBSET (1 .. L)
    BY <1>1
  <2> QED
    BY <1>1, <1>2, <1>3, <1>4, <2>1, NthEnumerates
<1>6. /\ HexDigits(t) \in Seq(C) /\ Len(HexDigits(t)) = L
      /\ \A k \in 1 .. L : HexDigits(t)[k] = t[Nth(DigitsAt(t), k)]
  <2>1. DigitsAt(t) \in SUBSET (1 .. Len(t))
    BY DEF DigitsAt
  <2> QED
    BY <1>5, <2>1, SelectedIsText DEF HexDigits
<1>7. \A k \in 1 .. L : HexDigits(t)[k] = t[k]
  BY <1>5, <1>6
<1> QED
  BY <1>6, <1>7, SeqEqual DEF L

LEMMA AllAreDigits ==
  ASSUME NEW C, NEW t \in Seq(C), Len(HexDigits(t)) = Len(t)
  PROVE  \A i \in 1 .. Len(t) : IsHex(t[i])
<1>1. Len(t) \in Nat /\ DigitsAt(t) \in SUBSET (1 .. Len(t)) /\ Cardinality(DigitsAt(t)) = Len(t)
  BY DigitsOfText
<1>2. PICK n \in Nat : n = Len(t)
  BY <1>1
<1>3. IsFiniteSet(1 .. n) /\ Cardinality(1 .. n) = n
  BY FS_Interval
<1>4. DigitsAt(t) = 1 .. n
  BY <1>1, <1>2, <1>3, FS_Subset
<1> QED
  BY <1>2, <1>4 DEF DigitsAt

(* Encoded bytes decode to themselves.                                     *)
LEMMA RoundTrip ==
  ASSUME NEW b \in Seq(ByteValue)
  PROVE  Decode(Encode(b), Len(b)) = [ok |-> TRUE, bytes |-> b]
<1> DEFINE L == Len(b)
           R == DigitsOf(b)
<1>1. L \in Nat /\ R \in Seq(Digit) /\ Len(R) = 2 * L /\ Encode(b) = R
  BY DigitsOfBytes, EncodeIs
<1>2. \A i \in 1 .. Len(R) : IsHex(R[i])
  <2>1. \A x \in Digit : IsHex(x)
    BY DigitOfValue DEF Digit
  <2> HIDE DEF R
  <2> QED
    BY <1>1, <2>1
<1>3. HexDigits(R) = R
  <2> HIDE DEF R
  <2> QED
    BY <1>1, <1>2, OnlyDigits
<1>4. Decode(R, L) = [ok |-> TRUE, bytes |-> BytesOf(R)] /\ BytesOf(R) \in Seq(ByteValue)
      /\ Len(BytesOf(R)) = L
  <2> HIDE DEF R, L
  <2> QED
    BY <1>1, <1>3, DecodeIs
<1>5. ASSUME NEW i \in 1 .. L PROVE BytesOf(R)[i] = b[i]
  <2>1. PICK v \in ByteValue : v = b[i]
    OBVIOUS
  <2>2. R[2 * i - 1] = Hex[(v \div 16) + 1] /\ R[2 * i] = Hex[(v % 16) + 1]
    BY <2>1, DigitsOfBytes
  <2> HIDE DEF R
  <2>3. HexValue(R[2 * i - 1]) = v \div 16 /\ HexValue(R[2 * i]) = v % 16
    <3>1. (v \div 16) + 1 \in 1 .. 16 /\ (v % 16) + 1 \in 1 .. 16
      BY HalvesOfByte
    <3>2. ((v \div 16) + 1) - 1 = v \div 16 /\ ((v % 16) + 1) - 1 = v % 16
      BY DEF ByteValue
    <3> QED
      BY <2>2, <3>1, <3>2, DigitOfValue
  <2>4. i \in 1 .. Len(R) \div 2
    BY <1>1
  <2>5. BytesOf(R)[i] = 16 * HexValue(R[2 * i - 1]) + HexValue(R[2 * i])
    BY <2>4 DEF BytesOf
  <2> QED
    BY <2>1, <2>3, <2>5, HalvesOfByte
<1>6. BytesOf(R) = b
  BY <1>4, <1>5, SeqEqual
<1> QED
  BY <1>1, <1>4, <1>6

(* Pieces: where they are cut, and that their digits are in their place    *)
(* among the digits of the whole.                                          *)
Cut(L, p, k) == IF k * p <= L THEN k * p ELSE L

LEMMA Quotient ==
  ASSUME NEW a \in Nat, NEW p \in Nat \ {0}
  PROVE  a \div p \in Nat /\ (a \div p) * p <= a /\ a < (a \div p) * p + p
  OBVIOUS

LEMMA Times ==
  ASSUME NEW j \in Nat, NEW k \in Nat, NEW p \in Nat, j <= k
  PROVE  j * p \in Nat /\ k * p \in Nat /\ j * p <= k * p
  OBVIOUS

LEMMA TimesNext ==
  ASSUME NEW k \in Nat, NEW p \in Nat
  PROVE  (k + 1) * p = k * p + p
  OBVIOUS

LEMMA CutInOrder ==
  ASSUME NEW L \in Nat, NEW p \in Nat \ {0}
  PROVE  LET c == (L + p - 1) \div p
         IN  /\ c \in Nat /\ Cut(L, p, 0) = 0 /\ Cut(L, p, c) = L /\ (L > 0 => c > 0)
             /\ \A k \in 0 .. c : Cut(L, p, k) \in 0 .. L
             /\ \A k \in 1 .. c :
                  /\ (k - 1) * p = Cut(L, p, k - 1) /\ Cut(L, p, k - 1) < Cut(L, p, k)
                  /\ Cut(L, p, k) - Cut(L, p, k - 1) <= p
                  /\ Min({k * p, L}) = Cut(L, p, k)
<1>1. PICK c : c = (L + p - 1) \div p
  OBVIOUS
<1>2. L + p - 1 \in Nat
  OBVIOUS
<1>3. c \in Nat /\ c * p <= L + p - 1 /\ L + p - 1 < c * p + p
  BY <1>1, <1>2, Quotient
<1>4. c * p \in Nat
  BY <1>3, Times
<1>5. L <= c * p /\ c * p < L + p
  BY <1>3, <1>4
<1>6. Cut(L, p, 0) = 0 /\ Cut(L, p, c) = L
  <2>1. 0 * p = 0
    OBVIOUS
  <2>2. c * p <= L => c * p = L
    BY <1>4, <1>5
  <2> QED
    BY <2>1, <2>2 DEF Cut
<1>7. L > 0 => c > 0
  <2>1. c = 0 => c * p = 0
    OBVIOUS
  <2> QED
    BY <1>3, <1>5, <2>1
<1>8. ASSUME NEW k \in 0 .. c PROVE Cut(L, p, k) \in 0 .. L
  <2>1. k * p \in Nat
    BY Times
  <2> QED
    BY <2>1 DEF Cut
<1>9. ASSUME NEW k \in 1 .. c
      PROVE  /\ (k - 1) * p = Cut(L, p, k - 1) /\ Cut(L, p, k - 1) < Cut(L, p, k)
             /\ Cut(L, p, k) - Cut(L, p, k - 1) <= p
             /\ Min({k * p, L}) = Cut(L, p, k)
  <2>1. PICK j \in Nat : j = k - 1
    OBVIOUS
  <2>2. PICK d \in Nat : d = c - 1
    BY <1>3
  <2>3. d + 1 = c /\ j + 1 = k /\ j <= d
    BY <1>3, <2>1, <2>2
  <2>4. PICK x \in Nat : x = j * p
    BY Times
  <2>5. k * p = x + p
    BY <2>3, <2>4, TimesNext
  <2>6. c * p = d * p + p /\ x <= d * p /\ d * p \in Nat
    BY <2>3, <2>4, Times, TimesNext
  <2>7. x < L
    BY <1>5, <2>6
  <2>8. Cut(L, p, j) = x /\ Cut(L, p, k) = IF x + p <= L THEN x + p ELSE L
    BY <2>4, <2>5, <2>7 DEF Cut
  <2>9. Min({k * p, L}) = Cut(L, p, k)
    <3>1. {x + p, L} \in SUBSET Nat
      OBVIOUS
    <3>2. CASE x + p <= L
      <4>1. \A i \in {x + p, L} : x + p <= i
        BY <3>2
      <4> QED
        BY <2>5, <2>8, <3>1, <3>2, <4>1, LeastIs
    <3>3. CASE ~(x + p <= L)
      <4>1. \A i \in {x + p, L} : L <= i
        BY <3>3
      <4> QED
        BY <2>5, <2>8, <3>1, <3>3, <4>1, LeastIs
    <3> QED
      BY <3>2, <3>3
  <2> QED
    BY <2>1, <2>4, <2>7, <2>8, <2>9
<1> QED
  BY <1>1, <1>3, <1>6, <1>7, <1>8, <1>9

LEMMA DigitsOfPart ==
  ASSUME NEW b \in Seq(ByteValue), NEW p \in 0 .. Len(b), NEW q \in p .. Len(b)
  PROVE  LET part == SubSeq(b, p + 1, q)
         IN  /\ part \in Seq(ByteValue) /\ Len(part) = q - p
             /\ Encode(part) \in Seq(Digit) /\ Len(Encode(part)) = 2 * (q - p)
             /\ \A k \in 1 .. 2 * (q - p) : Encode(part)[k] = DigitsOf(b)[2 * p + k]
<1> DEFINE part == SubSeq(b, p + 1, q)
<1>1. p + 1 \in 1 .. Len(b) + 1 /\ q \in (p + 1) - 1 .. Len(b) /\ Len(b) \in Nat
  OBVIOUS
<1>2. q - (p + 1) + 1 = q - p /\ \A i \in 1 .. q - p : (p + 1) + i - 1 = p + i
  BY <1>1
<1>3. /\ part \in Seq(ByteValue) /\ Len(part) = q - (p + 1) + 1
      /\ \A i \in 1 .. q - (p + 1) + 1 : part[i] = b[(p + 1) + i - 1]
  BY <1>1, PartOfText
<1>4. Len(part) = q - p /\ \A i \in 1 .. q - p : part[i] = b[p + i]
  BY <1>2, <1>3
<1> HIDE DEF part
<1>5. /\ Encode(part) = DigitsOf(part) /\ DigitsOf(part) \in Seq(Digit)
      /\ Len(DigitsOf(part)) = 2 * (q - p)
  BY <1>3, <1>4, EncodeIs, DigitsOfBytes
<1>6. ASSUME NEW k \in 1 .. 2 * (q - p) PROVE DigitsOf(part)[k] = DigitsOf(b)[2 * p + k]
  <2>1. 2 * p + k \in 1 .. 2 * Len(b) /\ k \in 1 .. 2 * Len(part)
    BY <1>1, <1>4, SMTT(30)
  <2>2. CASE k % 2 = 1
    <3>1. (k + 1) \div 2 \in 1 .. q - p
      BY <1>1, <2>2
    <3>2. (2 * p + k) % 2 = 1 /\ ((2 * p + k) + 1) \div 2 = p + ((k + 1) \div 2)
      BY <1>1, <2>2
    <3>3. DigitsOf(part)[k] = Hex[(part[(k + 1) \div 2] \div 16) + 1]
      BY <2>1, <2>2 DEF DigitsOf
    <3>4. DigitsOf(b)[2 * p + k] = Hex[(b[((2 * p + k) + 1) \div 2] \div 16) + 1]
      BY <2>1, <3>2 DEF DigitsOf
    <3>5. part[(k + 1) \div 2] = b[p + ((k + 1) \div 2)]
      BY <1>4, <3>1
    <3> QED
      BY <3>2, <3>3, <3>4, <3>5
  <2>3. CASE k % 2 # 1
    <3>1. k \div 2 \in 1 .. q - p
      BY <1>1, <2>3
    <3>2. (2 * p + k) % 2 # 1 /\ (2 * p + k) \div 2 = p + (k \div 2)
      BY <1>1, <2>3
    <3>3. DigitsOf(part)[k] = Hex[(part[k \div 2] % 16) + 1]
      BY <2>1, <2>3 DEF DigitsOf
    <3>4. DigitsOf(b)[2 * p + k] = Hex[(b[(2 * p + k) \div 2] % 16) + 1]
      BY <2>1, <3>2 DEF DigitsOf
    <3>5. part[k \div 2] = b[p + (k \div 2)]
      BY <1>4, <3>1
    <3> QED
      BY <3>2, <3>3, <3>4, <3>5
  <2> QED
    BY <2>2, <2>3
<1> QED
  BY <1>3, <1>4, <1>5, <1>6 DEF part

LEMMA PieceIs ==
  ASSUME NEW b \in Seq(ByteValue), NEW p \in Nat \ {0}
  PROVE  LET c == (Len(b) + p - 1) \div p
             e(k) == Cut(Len(b), p, k)
         IN  /\ Pieces(b, p) \in Seq(Seq(Digit)) /\ Len(Pieces(b, p)) = c
             /\ \A k \in 1 .. c :
                  /\ Len(Pieces(b, p)[k]) = 2 * (e(k) - e(k - 1))
                  /\ \A i \in 1 .. 2 * (e(k) - e(k - 1)) :
                       Pieces(b, p)[k][i] = DigitsOf(b)[2 * e(k - 1) + i]
<1> DEFINE e(k) == Cut(Len(b), p, k)
           c == (Len(b) + p - 1) \div p
<1>1. Len(b) \in Nat
  OBVIOUS
<1>2. /\ c \in Nat /\ \A k \in 0 .. c : e(k) \in 0 .. Len(b)
      /\ \A k \in 1 .. c : /\ (k - 1) * p = e(k - 1) /\ e(k - 1) < e(k)
                           /\ Min({k * p, Len(b)}) = e(k)
  BY <1>1, CutInOrder
<1>3. Pieces(b, p) =
        [k \in 1 .. c |-> Encode(SubSeq(b, (k - 1) * p + 1, Min({k * p, Len(b)})))]
  BY DEF Pieces
<1> HIDE DEF c, e
<1>4. ASSUME NEW k \in 1 .. c
      PROVE  /\ Pieces(b, p)[k] \in Seq(Digit)
             /\ Len(Pieces(b, p)[k]) = 2 * (e(k) - e(k - 1))
             /\ \A i \in 1 .. 2 * (e(k) - e(k - 1)) :
                  Pieces(b, p)[k][i] = DigitsOf(b)[2 * e(k - 1) + i]
  <2>1. k - 1 \in 0 .. c /\ k \in 0 .. c
    BY <1>2
  <2>2. PICK x \in 0 .. Len(b) : x = e(k - 1)
    BY <1>2, <2>1
  <2>3. PICK y \in 0 .. Len(b) : y = e(k)
    BY <1>2, <2>1
  <2>4. y \in x .. Len(b)
    <3>1. x < y
      BY <1>2, <2>2, <2>3
    <3> QED
      BY <1>1, <3>1
  <2>5. (k - 1) * p = x /\ Min({k * p, Len(b)}) = y
    BY <1>2, <2>2, <2>3
  <2>6. Pieces(b, p)[k] = Encode(SubSeq(b, x + 1, y))
    BY <1>3, <2>5
  <2>7. /\ Encode(SubSeq(b, x + 1, y)) \in Seq(Digit)
        /\ Len(Encode(SubSeq(b, x + 1, y))) = 2 * (y - x)
        /\ \A i \in 1 .. 2 * (y - x) :
             Encode(SubSeq(b, x + 1, y))[i] = DigitsOf(b)[2 * x + i]
    BY <2>4, DigitsOfPart
  <2> QED
    BY <2>2, <2>3, <2>6, <2>7
<1>5. Pieces(b, p) \in Seq(Seq(Digit)) /\ Len(Pieces(b, p)) = c
  <2>1. Pieces(b, p) = [k \in 1 .. c |-> Pieces(b, p)[k]]
    BY <1>3
  <2> QED
    BY <1>2, <1>4, <2>1, SMTT(30)
<1> QED
  BY <1>4, <1>5 DEF c, e

LEMMA PiecesTogether ==
  ASSUME NEW b \in Seq(ByteValue), NEW p \in Nat \ {0}
  PROVE  FlattenSeq(Pieces(b, p)) = Encode(b)
<1> DEFINE L == Len(b)
           c == (L + p - 1) \div p
           R == DigitsOf(b)
           e == [k \in 0 .. c |-> 2 * Cut(L, p, k)]
<1>1. L \in Nat /\ R \in Seq(Digit) /\ Len(R) = 2 * L /\ Encode(b) = R
  BY DigitsOfBytes, EncodeIs
<1>2. /\ c \in Nat /\ Cut(L, p, 0) = 0 /\ Cut(L, p, c) = L
      /\ \A k \in 0 .. c : Cut(L, p, k) \in 0 .. L
  BY <1>1, CutInOrder
<1>3. /\ Pieces(b, p) \in Seq(Seq(Digit)) /\ Len(Pieces(b, p)) = c
      /\ \A k \in 1 .. c :
           /\ Len(Pieces(b, p)[k]) = 2 * (Cut(L, p, k) - Cut(L, p, k - 1))
           /\ \A i \in 1 .. 2 * (Cut(L, p, k) - Cut(L, p, k - 1)) :
                Pieces(b, p)[k][i] = R[2 * Cut(L, p, k - 1) + i]
  BY PieceIs
<1> HIDE DEF c, R, L
<1>4. e \in [0 .. c -> 0 .. Len(R)] /\ e[0] = 0 /\ e[c] = Len(R)
  BY <1>1, <1>2
<1>5. ASSUME NEW k \in 1 .. c
      PROVE  /\ e[k] = e[k - 1] + Len(Pieces(b, p)[k])
             /\ \A i \in 1 .. Len(Pieces(b, p)[k]) : R[e[k - 1] + i] = Pieces(b, p)[k][i]
  <2>1. k - 1 \in 0 .. c /\ k \in 0 .. c
    BY <1>2
  <2>2. e[k] = 2 * Cut(L, p, k) /\ e[k - 1] = 2 * Cut(L, p, k - 1)
    BY <2>1
  <2>3. Cut(L, p, k) \in Int /\ Cut(L, p, k - 1) \in Int
    BY <1>1, <1>2, <2>1
  <2> HIDE DEF e
  <2> QED
    BY <1>3, <2>2, <2>3, SMTT(30)
<1> HIDE DEF e
<1>6. Cuts(e, Pieces(b, p), R)
  BY <1>3, <1>4, <1>5 DEF Cuts
<1> QED
  BY <1>1, <1>3, <1>6, FlattenIs

LEMMA PiecesFit ==
  ASSUME NEW b \in Seq(ByteValue), NEW p \in Nat \ {0}
  PROVE  /\ \A s \in ToSet(Pieces(b, p)) :
              Len(s) \in Nat /\ Len(s) <= 2 * p /\ Len(s) <= 2 * Len(b)
         /\ p <= Len(b) => \E s \in ToSet(Pieces(b, p)) : Len(s) = 2 * p
<1> DEFINE L == Len(b)
           c == (L + p - 1) \div p
           e(k) == Cut(L, p, k)
<1>1. L \in Nat
  OBVIOUS
<1>2. /\ c \in Nat /\ e(0) = 0 /\ (L > 0 => c > 0)
      /\ \A k \in 0 .. c : e(k) \in 0 .. L
      /\ \A k \in 1 .. c : e(k - 1) < e(k) /\ e(k) - e(k - 1) <= p
  BY <1>1, CutInOrder
<1>3. /\ Pieces(b, p) \in Seq(Seq(Digit)) /\ Len(Pieces(b, p)) = c
      /\ \A k \in 1 .. c : Len(Pieces(b, p)[k]) = 2 * (e(k) - e(k - 1))
  BY PieceIs
<1>4. ToSet(Pieces(b, p)) = {Pieces(b, p)[k] : k \in 1 .. c}
  BY <1>3 DEF ToSet
<1>5. p <= L => e(1) = p
  <2>1. 1 * p = p
    OBVIOUS
  <2> QED
    BY <2>1 DEF Cut
<1> HIDE DEF c, e, L
<1>6. ASSUME NEW k \in 1 .. c
      PROVE  /\ Len(Pieces(b, p)[k]) \in Nat /\ Len(Pieces(b, p)[k]) <= 2 * p
             /\ Len(Pieces(b, p)[k]) <= 2 * L
  <2>1. k - 1 \in 0 .. c /\ k \in 0 .. c
    BY <1>2
  <2>2. e(k) \in 0 .. L /\ e(k - 1) \in 0 .. L /\ e(k - 1) < e(k) /\ e(k) - e(k - 1) <= p
    BY <1>2, <2>1
  <2>3. Len(Pieces(b, p)[k]) = 2 * (e(k) - e(k - 1))
    BY <1>3
  <2> QED
    BY <1>1, <2>2, <2>3
<1>7. ASSUME p <= L PROVE \E k \in 1 .. c : Len(Pieces(b, p)[k]) = 2 * p
  <2>1. 1 \in 1 .. c /\ 1 - 1 = 0
    BY <1>1, <1>2, <1>7
  <2>2. Len(Pieces(b, p)[1]) = 2 * (e(1) - e(1 - 1))
    BY <1>3, <2>1
  <2>3. Len(Pieces(b, p)[1]) = 2 * (p - 0)
    BY <1>2, <1>5, <1>7, <2>1, <2>2
  <2>4. 2 * (p - 0) = 2 * p
    OBVIOUS
  <2> QED
    BY <2>1, <2>3, <2>4
<1> QED
  BY <1>4, <1>6, <1>7 DEF L

(* Hexadecimal text stands for its bytes both ways.                        *)
LEMMA DecodeCounts ==
  ASSUME NEW C, text \in Seq(C), \A a \in Alphabet : a.length \in Nat, alphabet \in Alphabet
  PROVE  DecodeCountsDigits
<1> SUFFICES ASSUME NEW n \in Nat
             PROVE  /\ Decode(text, n).ok <=> Len(HexDigits(text)) = 2 * n
                    /\ Decode(text, n).ok =>
                         /\ Decode(text, n).bytes = BytesOf(HexDigits(text))
                         /\ Decode(Encode(Decode(text, n).bytes), n) = Decode(text, n)
  <2>1. \A n \in 0 .. alphabet.length \div 2 : n \in Nat
    OBVIOUS
  <2> QED
    BY <2>1 DEF DecodeCountsDigits
<1>1. Decode(text, n).ok <=> Len(HexDigits(text)) = 2 * n
  BY DecodeIs
<1>2. ASSUME Decode(text, n).ok
      PROVE  /\ Decode(text, n).bytes = BytesOf(HexDigits(text))
             /\ Decode(Encode(Decode(text, n).bytes), n) = Decode(text, n)
  <2>1. /\ Decode(text, n) = [ok |-> TRUE, bytes |-> BytesOf(HexDigits(text))]
        /\ BytesOf(HexDigits(text)) \in Seq(ByteValue) /\ Len(BytesOf(HexDigits(text))) = n
    BY <1>2, DecodeIs
  <2>2. Decode(text, n).bytes = BytesOf(HexDigits(text))
    BY <2>1
  <2>3. Decode(Encode(BytesOf(HexDigits(text))), n)
          = [ok |-> TRUE, bytes |-> BytesOf(HexDigits(text))]
    BY <2>1, RoundTrip
  <2> QED
    BY <2>1, <2>2, <2>3
<1> QED
  BY <1>1, <1>2

LEMMA DataAreBytes ==
  ASSUME NEW C, text \in Seq(C)
  PROVE  Data \in Seq(ByteValue) /\ Len(Data) = Len(text)
<1>1. ASSUME NEW i \in 1 .. Len(text)
      PROVE  (IF IsHex(text[i]) THEN HexValue(text[i]) ELSE (255 - i) % 256) \in ByteValue
  <2>1. IsHex(text[i]) => HexValue(text[i]) \in 0 .. 15
    BY ValueOfDigit
  <2>2. (255 - i) % 256 \in ByteValue
    BY DEF ByteValue
  <2>3. \A v \in 0 .. 15 : v \in ByteValue
    BY DEF ByteValue
  <2> QED
    BY <2>1, <2>2, <2>3
<1>2. Len(text) \in Nat
  OBVIOUS
<1> QED
  BY <1>1, <1>2 DEF Data

LEMMA PiecesAreData ==
  ASSUME NEW C, text \in Seq(C), LinePiece \in Nat \ {0}, BlockPiece \in 1 .. LinePiece - 1
  PROVE  PiecesAreTheData
<1>1. Data \in Seq(ByteValue) /\ Len(Data) \in Nat
  BY DataAreBytes
<1>2. BlockPiece \in Nat \ {0}
  OBVIOUS
<1>3. /\ FlattenSeq(Pieces(Data, LinePiece)) = Encode(Data)
      /\ FlattenSeq(Pieces(Data, BlockPiece)) = Encode(Data)
  BY <1>1, <1>2, PiecesTogether
<1>4. \A s \in ToSet(Pieces(Data, BlockPiece)) : Len(s) + 1 <= 2 * LinePiece
  <2>1. \A s \in ToSet(Pieces(Data, BlockPiece)) : Len(s) \in Nat /\ Len(s) <= 2 * BlockPiece
    BY <1>1, <1>2, PiecesFit
  <2> QED
    BY <1>2, <2>1
<1>5. (\A s \in ToSet(Pieces(Data, LinePiece)) : Len(s) + 1 <= 2 * LinePiece)
        <=> Len(Data) < LinePiece
  <2>1. /\ \A s \in ToSet(Pieces(Data, LinePiece)) : Len(s) \in Nat /\ Len(s) <= 2 * Len(Data)
        /\ LinePiece <= Len(Data) =>
             \E s \in ToSet(Pieces(Data, LinePiece)) : Len(s) = 2 * LinePiece
    BY <1>1, PiecesFit
  <2>2. CASE Len(Data) < LinePiece
    BY <1>1, <2>1, <2>2
  <2>3. CASE LinePiece <= Len(Data)
    <3>1. PICK s \in ToSet(Pieces(Data, LinePiece)) : Len(s) = 2 * LinePiece
      BY <2>1, <2>3
    <3> QED
      BY <1>1, <2>3, <3>1
  <2> QED
    BY <1>1, <2>2, <2>3
<1> QED
  BY <1>3, <1>4, <1>5 DEF PiecesAreTheData

-----------------------------------------------------------------------------
(* Passwords.  Both printed forms put the i-th character at Place(i), with *)
(* a dash at each fourth position.                                         *)
Place(i) == IF i = 0 THEN 0 ELSE i + ((i - 1) \div 3)

Grouped(otp) ==
  [k \in 1 .. Place(Len(otp)) |-> IF k % 4 = 0 THEN "dash" ELSE otp[k - (k \div 4)]]

LEMMA PlaceIs ==
  ASSUME NEW i \in Nat \ {0}
  PROVE  /\ Place(i) = i + ((i - 1) \div 3) /\ Place(i) \in Nat \ {0} /\ Place(i - 1) \in Nat
         /\ Place(i) % 4 # 0 /\ Place(i) - (Place(i) \div 4) = i
         /\ (i > 1 /\ i % 3 = 1 => Place(i) = Place(i - 1) + 2 /\ (Place(i - 1) + 1) % 4 = 0)
         /\ (~(i > 1 /\ i % 3 = 1) => Place(i) = Place(i - 1) + 1)
<1>1. Place(i) = i + ((i - 1) \div 3)
  BY DEF Place
<1>2. Place(i - 1) = IF i = 1 THEN 0 ELSE (i - 1) + ((i - 2) \div 3)
  <2>1. i - 1 = 0 <=> i = 1
    OBVIOUS
  <2>2. (i - 1) - 1 = i - 2
    OBVIOUS
  <2> QED
    BY <2>1, <2>2 DEF Place
<1>3. PICK x \in Int : x = Place(i)
  BY <1>1
<1>4. PICK y \in Int : y = Place(i - 1)
  BY <1>2
<1>5. x \in Nat \ {0} /\ y \in Nat
  BY <1>1, <1>2, <1>3, <1>4
<1>6. x % 4 # 0 /\ x - (x \div 4) = i
  BY <1>1, <1>3
<1>7. /\ (i > 1 /\ i % 3 = 1 => x = y + 2 /\ (y + 1) % 4 = 0)
      /\ (~(i > 1 /\ i % 3 = 1) => x = y + 1)
  BY <1>1, <1>2, <1>3, <1>4
<1> QED
  BY <1>1, <1>3, <1>4, <1>5, <1>6, <1>7

LEMMA PlaceGrows ==
  ASSUME NEW i \in Nat, NEW j \in Nat, i < j
  PROVE  Place(i) \in Nat /\ Place(j) \in Nat /\ Place(i) < Place(j)
  BY DEF Place

LEMMA PlaceOfPosition ==
  ASSUME NEW n \in Nat, NEW k \in 1 .. Place(n), k % 4 # 0
  PROVE  k - (k \div 4) \in 1 .. n /\ Place(k - (k \div 4)) = k
<1>1. Place(n) = IF n = 0 THEN 0 ELSE n + ((n - 1) \div 3)
  BY DEF Place
<1>2. n # 0 /\ k \in Nat /\ k <= n + ((n - 1) \div 3)
  BY <1>1
<1>3. PICK j \in Int : j = k - (k \div 4)
  BY <1>2
<1>4. j \in 1 .. n /\ j + ((j - 1) \div 3) = k
  BY <1>2, <1>3
<1> QED
  BY <1>3, <1>4 DEF Place

LEMMA GroupedText ==
  ASSUME NEW C, NEW otp \in Seq(C)
  PROVE  /\ Grouped(otp) \in Seq(C \union {"dash"}) /\ Len(Grouped(otp)) = Place(Len(otp))
         /\ Place(Len(otp)) \in Nat
         /\ \A i \in 1 .. Len(otp) : Grouped(otp)[Place(i)] = otp[i]
         /\ \A k \in 1 .. Place(Len(otp)) : k % 4 = 0 => Grouped(otp)[k] = "dash"
<1> DEFINE n == Len(otp)
           T == C \union {"dash"}
<1>1. n \in Nat /\ \A i \in 1 .. n : otp[i] \in T
  OBVIOUS
<1>2. Place(n) \in Nat
  BY <1>1 DEF Place
<1>3. ASSUME NEW k \in 1 .. Place(n)
      PROVE  (IF k % 4 = 0 THEN "dash" ELSE otp[k - (k \div 4)]) \in T
  <2>1. k % 4 # 0 => k - (k \div 4) \in 1 .. n
    BY <1>1, PlaceOfPosition
  <2> QED
    BY <1>1, <2>1
<1>4. Grouped(otp) = [k \in 1 .. Place(n) |->
                       IF k % 4 = 0 THEN "dash" ELSE otp[k - (k \div 4)]]
  BY DEF Grouped
<1> HIDE DEF n, T
<1>5. Grouped(otp) \in Seq(T) /\ Len(Grouped(otp)) = Place(n)
  BY <1>2, <1>3, <1>4
<1>6. ASSUME NEW i \in 1 .. n PROVE Grouped(otp)[Place(i)] = otp[i]
  <2>1. Place(i) \in 1 .. Place(n)
    <3>1. i \in Nat \ {0} /\ (i < n \/ i = n)
      BY <1>1
    <3>2. Place(i) \in Nat \ {0}
      BY <3>1, PlaceIs
    <3>3. i < n => Place(i) < Place(n)
      BY <1>1, <3>1, PlaceGrows
    <3> QED
      BY <1>2, <3>1, <3>2, <3>3
  <2>2. Place(i) % 4 # 0 /\ Place(i) - (Place(i) \div 4) = i
    <3>1. i \in Nat \ {0}
      BY <1>1
    <3> QED
      BY <3>1, PlaceIs
  <2> QED
    BY <1>4, <2>1, <2>2
<1>7. \A k \in 1 .. Place(n) : k % 4 = 0 => Grouped(otp)[k] = "dash"
  BY <1>4
<1> QED
  BY <1>2, <1>5, <1>6, <1>7 DEF n, T

LEMMA OneOrTwo ==
  ASSUME NEW T, NEW x \in T, NEW y \in T
  PROVE  /\ <<x>> \in Seq(T) /\ Len(<<x>>) = 1 /\ <<x>>[1] = x
         /\ <<x, y>> \in Seq(T) /\ Len(<<x, y>>) = 2 /\ <<x, y>>[1] = x /\ <<x, y>>[2] = y
  OBVIOUS

LEMMA PrettyIsGrouped ==
  ASSUME NEW C, NEW otp \in Seq(C)
  PROVE  PrettyPrintOtp(otp) = Grouped(otp)
<1> DEFINE n == Len(otp)
           T == C \union {"dash"}
           group(i) == IF i > 1 /\ i % 3 = 1 THEN <<"dash", otp[i]>> ELSE <<otp[i]>>
           seqs == [i \in 1 .. n |-> group(i)]
           e == [i \in 0 .. n |-> Place(i)]
           R == Grouped(otp)
<1>1. n \in Nat /\ "dash" \in T /\ \A i \in 1 .. n : otp[i] \in T
  OBVIOUS
<1>2. /\ R \in Seq(T) /\ Len(R) = Place(n) /\ Place(n) \in Nat
      /\ \A i \in 1 .. n : R[Place(i)] = otp[i]
      /\ \A k \in 1 .. Place(n) : k % 4 = 0 => R[k] = "dash"
  BY GroupedText
<1>3. PrettyPrintOtp(otp) = FlattenSeq(seqs)
  BY DEF PrettyPrintOtp
<1> HIDE DEF n, T, R
<1>4. ASSUME NEW i \in 0 .. n PROVE Place(i) \in 0 .. Place(n)
  <2>1. i < n => Place(i) \in Nat /\ Place(i) < Place(n)
    BY <1>1, PlaceGrows
  <2> QED
    BY <1>1, <1>2, <2>1
<1>5. ASSUME NEW i \in 1 .. n
      PROVE  /\ group(i) \in Seq(T) /\ Place(i) = Place(i - 1) + Len(group(i))
             /\ \A k \in 1 .. Len(group(i)) : R[Place(i - 1) + k] = group(i)[k]
  <2>1. /\ Place(i) \in Nat \ {0} /\ Place(i - 1) \in Nat
        /\ (i > 1 /\ i % 3 = 1 => Place(i) = Place(i - 1) + 2 /\ (Place(i - 1) + 1) % 4 = 0)
        /\ (~(i > 1 /\ i % 3 = 1) => Place(i) = Place(i - 1) + 1)
    <3>1. i \in Nat \ {0}
      BY <1>1
    <3> QED
      BY <3>1, PlaceIs
  <2>2. R[Place(i)] = otp[i] /\ otp[i] \in T /\ Place(i) \in 0 .. Place(n)
    BY <1>1, <1>2, <1>4
  <2>3. CASE i > 1 /\ i % 3 = 1
    <3>1. group(i) = <<"dash", otp[i]>>
      BY <2>3
    <3> HIDE DEF group
    <3>2. /\ group(i) \in Seq(T) /\ Len(group(i)) = 2
          /\ group(i)[1] = "dash" /\ group(i)[2] = otp[i]
      BY <1>1, <2>2, <3>1, OneOrTwo
    <3>3. R[Place(i - 1) + 1] = "dash"
      <4>1. Place(i - 1) + 1 \in 1 .. Place(n)
        BY <1>2, <2>1, <2>2, <2>3
      <4> QED
        BY <1>2, <2>1, <2>3, <4>1
    <3>4. R[Place(i - 1) + 2] = otp[i] /\ Place(i) = Place(i - 1) + 2
      BY <2>1, <2>2, <2>3
    <3>5. \A k \in 1 .. 2 : k = 1 \/ k = 2
      OBVIOUS
    <3> QED
      BY <3>2, <3>3, <3>4, <3>5
  <2>4. CASE ~(i > 1 /\ i % 3 = 1)
    <3>1. group(i) = <<otp[i]>>
      BY <2>4
    <3> HIDE DEF group
    <3>2. group(i) \in Seq(T) /\ Len(group(i)) = 1 /\ group(i)[1] = otp[i]
      BY <1>1, <2>2, <3>1, OneOrTwo
    <3>3. R[Place(i - 1) + 1] = otp[i] /\ Place(i) = Place(i - 1) + 1
      BY <2>1, <2>2, <2>4
    <3>4. \A k \in 1 .. 1 : k = 1
      OBVIOUS
    <3> QED
      BY <3>2, <3>3, <3>4
  <2> QED
    BY <2>3, <2>4
<1> HIDE DEF group
<1>6. seqs \in Seq(Seq(T)) /\ Len(seqs) = n
  BY <1>1, <1>5
<1>7. e \in [0 .. n -> 0 .. Len(R)] /\ e[0] = 0 /\ e[n] = Len(R)
  <2>1. Place(0) = 0
    BY DEF Place
  <2> QED
    BY <1>1, <1>2, <1>4, <2>1
<1>8. ASSUME NEW i \in 1 .. n
      PROVE  /\ e[i] = e[i - 1] + Len(seqs[i])
             /\ \A k \in 1 .. Len(seqs[i]) : R[e[i - 1] + k] = seqs[i][k]
  <2>1. i \in 0 .. n /\ i - 1 \in 0 .. n
    BY <1>1
  <2>2. e[i] = Place(i) /\ e[i - 1] = Place(i - 1) /\ seqs[i] = group(i)
    BY <2>1
  <2> HIDE DEF e, seqs
  <2> QED
    BY <1>5, <2>2
<1> HIDE DEF e, seqs
<1>9. Cuts(e, seqs, R)
  BY <1>6, <1>7, <1>8 DEF Cuts
<1>10. FlattenSeq(seqs) = R
  BY <1>2, <1>6, <1>9, FlattenIs
<1> QED
  BY <1>3, <1>10 DEF R

(* Where formatting has got to after i characters.                         *)
FormatPlace(n, i) == IF i > 0 /\ i % 3 = 0 /\ i < n THEN Place(i) + 1 ELSE Place(i)

LEMMA FormatPlaceIs ==
  ASSUME NEW n \in Nat, NEW i \in 1 .. n
  PROVE  /\ FormatPlace(n, i - 1) + 1 = Place(i)
         /\ Place(i) \in Nat /\ FormatPlace(n, i - 1) \in Nat
         /\ (i % 3 = 0 /\ i < n => FormatPlace(n, i) = Place(i) + 1 /\ (Place(i) + 1) % 4 = 0
                                    /\ Place(i) + 1 <= Place(n))
         /\ (~(i % 3 = 0 /\ i < n) => FormatPlace(n, i) = Place(i))
         /\ Place(i) <= Place(n) /\ Place(n) \in Nat
<1>1. i \in Nat \ {0} /\ i - 1 \in Nat
  OBVIOUS
<1>2. PICK x \in Int : x = Place(i) /\ x = i + ((i - 1) \div 3)
  BY <1>1 DEF Place
<1>3. PICK y \in Int : y = Place(i - 1) /\ y = IF i = 1 THEN 0 ELSE (i - 1) + ((i - 2) \div 3)
  <2>1. (i - 1 = 0 <=> i = 1) /\ (i - 1) - 1 = i - 2
    OBVIOUS
  <2> QED
    BY <2>1 DEF Place
<1>4. PICK z \in Int : z = Place(n) /\ z = n + ((n - 1) \div 3)
  BY DEF Place
<1>5. FormatPlace(n, i - 1) = IF i > 1 /\ (i - 1) % 3 = 0 THEN y + 1 ELSE y
  BY <1>3 DEF FormatPlace
<1>6. FormatPlace(n, i) = IF i % 3 = 0 /\ i < n THEN x + 1 ELSE x
  BY <1>2 DEF FormatPlace
<1>7. FormatPlace(n, i - 1) + 1 = x /\ x \in Nat /\ FormatPlace(n, i - 1) \in Nat
  BY <1>2, <1>3, <1>5
<1>8. i % 3 = 0 /\ i < n => (x + 1) % 4 = 0 /\ x + 1 <= z
  BY <1>2, <1>4
<1>9. x <= z /\ z \in Nat
  BY <1>2, <1>4
<1> QED
  BY <1>2, <1>4, <1>6, <1>7, <1>8, <1>9

LEMMA FormatIsGrouped ==
  ASSUME NEW C, NEW t, NEW otp \in Seq(C), otp = Kept(t)
  PROVE  Format(t) = Grouped(otp)
<1> DEFINE n == Len(otp)
           T == C \union {"dash"}
           group(i) == IF i % 3 = 0 /\ i < n THEN <<otp[i], "dash">> ELSE <<otp[i]>>
           seqs == [i \in 1 .. n |-> group(i)]
           e == [i \in 0 .. n |-> FormatPlace(n, i)]
           R == Grouped(otp)
<1>1. n \in Nat /\ "dash" \in T /\ \A i \in 1 .. n : otp[i] \in T
  OBVIOUS
<1>2. /\ R \in Seq(T) /\ Len(R) = Place(n) /\ Place(n) \in Nat
      /\ \A i \in 1 .. n : R[Place(i)] = otp[i]
      /\ \A k \in 1 .. Place(n) : k % 4 = 0 => R[k] = "dash"
  BY GroupedText
<1>3. Format(t) = FlattenSeq(seqs)
  BY DEF Format
<1> HIDE DEF n, T, R
<1>4. ASSUME NEW i \in 0 .. n PROVE FormatPlace(n, i) \in 0 .. Place(n)
  <2>1. CASE i = 0
    BY <1>2, <2>1 DEF FormatPlace, Place
  <2>2. CASE i # 0
    <3>1. i \in 1 .. n
      BY <2>2
    <3>2. /\ Place(i) \in Nat /\ Place(i) <= Place(n)
          /\ (i % 3 = 0 /\ i < n => FormatPlace(n, i) = Place(i) + 1 /\ Place(i) + 1 <= Place(n))
          /\ (~(i % 3 = 0 /\ i < n) => FormatPlace(n, i) = Place(i))
      BY <1>1, <3>1, FormatPlaceIs
    <3> QED
      BY <1>2, <3>2
  <2> QED
    BY <2>1, <2>2
<1>5. ASSUME NEW i \in 1 .. n
      PROVE  /\ group(i) \in Seq(T) /\ FormatPlace(n, i) = FormatPlace(n, i - 1) + Len(group(i))
             /\ \A k \in 1 .. Len(group(i)) : R[FormatPlace(n, i - 1) + k] = group(i)[k]
  <2>1. /\ FormatPlace(n, i - 1) + 1 = Place(i) /\ Place(i) \in Nat
        /\ FormatPlace(n, i - 1) \in Nat
        /\ (i % 3 = 0 /\ i < n => FormatPlace(n, i) = Place(i) + 1 /\ (Place(i) + 1) % 4 = 0
                                   /\ Place(i) + 1 <= Place(n))
        /\ (~(i % 3 = 0 /\ i < n) => FormatPlace(n, i) = Place(i))
    BY <1>1, FormatPlaceIs
  <2>2. R[FormatPlace(n, i - 1) + 1] = otp[i] /\ otp[i] \in T
    BY <1>1, <1>2, <2>1
  <2>3. CASE i % 3 = 0 /\ i < n
    <3>1. group(i) = <<otp[i], "dash">>
      BY <2>3
    <3> HIDE DEF group
    <3>2. /\ group(i) \in Seq(T) /\ Len(group(i)) = 2
          /\ group(i)[1] = otp[i] /\ group(i)[2] = "dash"
      BY <1>1, <2>2, <3>1, OneOrTwo
    <3>3. FormatPlace(n, i - 1) + 2 = Place(i) + 1 /\ FormatPlace(n, i) = Place(i) + 1
      BY <2>1, <2>3
    <3>4. R[FormatPlace(n, i - 1) + 2] = "dash"
      <4>1. Place(i) + 1 \in 1 .. Place(n) /\ (Place(i) + 1) % 4 = 0
        BY <1>2, <2>1, <2>3
      <4> QED
        BY <1>2, <3>3, <4>1
    <3>5. \A k \in 1 .. 2 : k = 1 \/ k = 2
      OBVIOUS
    <3> QED
      BY <2>1, <2>2, <3>2, <3>3, <3>4, <3>5
  <2>4. CASE ~(i % 3 = 0 /\ i < n)
    <3>1. group(i) = <<otp[i]>>
      BY <2>4
    <3> HIDE DEF group
    <3>2. group(i) \in Seq(T) /\ Len(group(i)) = 1 /\ group(i)[1] = otp[i]
      BY <1>1, <2>2, <3>1, OneOrTwo
    <3>3. FormatPlace(n, i) = FormatPlace(n, i - 1) + 1
      BY <2>1, <2>4
    <3>4. \A k \in 1 .. 1 : k = 1
      OBVIOUS
    <3> QED
      BY <2>2, <3>2, <3>3, <3>4
  <2> QED
    BY <2>3, <2>4
<1> HIDE DEF group
<1>6. seqs \in Seq(Seq(T)) /\ Len(seqs) = n
  BY <1>1, <1>5
<1>7. e \in [0 .. n -> 0 .. Len(R)] /\ e[0] = 0 /\ e[n] = Len(R)
  <2>1. FormatPlace(n, 0) = 0
    BY DEF FormatPlace, Place
  <2>2. FormatPlace(n, n) = Place(n)
    BY <1>1 DEF FormatPlace
  <2> QED
    BY <1>1, <1>2, <1>4, <2>1, <2>2
<1>8. ASSUME NEW i \in 1 .. n
      PROVE  /\ e[i] = e[i - 1] + Len(seqs[i])
             /\ \A k \in 1 .. Len(seqs[i]) : R[e[i - 1] + k] = seqs[i][k]
  <2>1. i \in 0 .. n /\ i - 1 \in 0 .. n
    BY <1>1
  <2>2. e[i] = FormatPlace(n, i) /\ e[i - 1] = FormatPlace(n, i - 1) /\ seqs[i] = group(i)
    BY <2>1
  <2> HIDE DEF e, seqs
  <2> QED
    BY <1>5, <2>2
<1> HIDE DEF e, seqs
<1>9. Cuts(e, seqs, R)
  BY <1>6, <1>7, <1>8 DEF Cuts
<1>10. FlattenSeq(seqs) = R
  BY <1>2, <1>6, <1>9, FlattenIs
<1> QED
  BY <1>3, <1>10 DEF R

(* What is kept of a text; of a password's printed form it is the password.*)
DecimalAt(t) == {i \in 1 .. Len(t) : t[i] \in Decimal}

LEMMA KeptIs ==
  ASSUME NEW C, NEW t \in Seq(C), OtpLength \in Nat
  PROVE  Kept(t) \in Seq(Decimal) /\ Len(Kept(t)) <= OtpLength
<1> DEFINE D == DecimalAt(t)
           digits == Selected(t, D)
<1>1. Len(t) \in Nat /\ D \in SUBSET (1 .. Len(t))
  BY DEF DecimalAt
<1>2. Cardinality(D) \in Nat
  BY <1>1, PartFinite
<1>3. /\ digits \in Seq(C) /\ Len(digits) = Cardinality(D)
      /\ \A k \in 1 .. Cardinality(D) : digits[k] = t[Nth(D, k)] /\ Nth(D, k) \in D
  BY <1>1, SelectedIsText, NthIsThere
<1>4. Kept(t) = IF Len(digits) > OtpLength THEN SubSeq(digits, 1, OtpLength) ELSE digits
  BY DEF Kept, DecimalAt
<1>5. \A k \in 1 .. Cardinality(D) : digits[k] \in Decimal
  BY <1>3 DEF DecimalAt
<1> HIDE DEF digits, D
<1>6. digits \in Seq(Decimal)
  BY <1>2, <1>3, <1>5
<1>7. CASE Len(digits) > OtpLength
  <2>1. 1 \in 1 .. Len(digits) + 1 /\ OtpLength \in 1 - 1 .. Len(digits)
    BY <1>2, <1>3, <1>7
  <2>2. /\ SubSeq(digits, 1, OtpLength) \in Seq(Decimal)
        /\ Len(SubSeq(digits, 1, OtpLength)) = OtpLength - 1 + 1
    BY <1>6, <2>1, PartOfText
  <2> QED
    BY <1>4, <1>7, <2>2
<1>8. CASE ~(Len(digits) > OtpLength)
  BY <1>2, <1>3, <1>4, <1>6, <1>8
<1> QED
  BY <1>7, <1>8

LEMMA KeptOfGrouped ==
  ASSUME NEW C, NEW otp \in Seq(C)
  PROVE  Kept(Grouped(otp)) = Kept(otp)
<1> DEFINE n == Len(otp)
           R == Grouped(otp)
           D == DecimalAt(R)
           I == DecimalAt(otp)
           m == Cardinality(I)
           h == [k \in 1 .. m |-> Place(Nth(I, k))]
<1>1. n \in Nat /\ I \in SUBSET (1 .. n) /\ \A i \in I : otp[i] \in Decimal
  BY DEF DecimalAt
<1>2. /\ R \in Seq(C \union {"dash"}) /\ Len(R) = Place(n) /\ Place(n) \in Nat
      /\ \A i \in 1 .. n : R[Place(i)] = otp[i]
      /\ \A k \in 1 .. Place(n) : k % 4 = 0 => R[k] = "dash"
  BY GroupedText
<1>3. "dash" \notin Decimal
  BY DEF Decimal
<1> HIDE DEF n, R
<1>4. D \in SUBSET (1 .. Place(n))
  BY <1>2 DEF DecimalAt
<1>5. ASSUME NEW i \in I PROVE Place(i) \in D
  <2>1. Place(i) \in 1 .. Place(n)
    <3>1. i \in Nat \ {0} /\ (i < n \/ i = n)
      BY <1>1
    <3>2. Place(i) \in Nat \ {0}
      BY <3>1, PlaceIs
    <3>3. i < n => Place(i) < Place(n)
      BY <1>1, <3>1, PlaceGrows
    <3> QED
      BY <1>2, <3>1, <3>2, <3>3
  <2>2. i \in 1 .. n
    BY <1>1
  <2> QED
    BY <1>1, <1>2, <2>1, <2>2 DEF DecimalAt
<1>6. ASSUME NEW k \in D PROVE \E i \in I : Place(i) = k
  <2>1. k \in 1 .. Place(n) /\ R[k] \in Decimal
    BY <1>2 DEF DecimalAt
  <2>2. k % 4 # 0
    BY <1>2, <1>3, <2>1
  <2>3. PICK i \in 1 .. n : Place(i) = k
    BY <1>1, <2>1, <2>2, PlaceOfPosition
  <2>4. otp[i] \in Decimal
    BY <1>2, <2>1, <2>3
  <2> QED
    BY <2>3, <2>4 DEF DecimalAt, n
<1> HIDE DEF D, I
<1>7. m \in Nat /\ \A k \in 1 .. m : Nth(I, k) \in I
  BY <1>1, PartFinite, NthIsThere
<1>14. \A i \in I : i \in 1 .. n /\ i \in Nat
  BY <1>1
<1> HIDE DEF m
<1>8. h \in [1 .. m -> D]
  BY <1>5, <1>7
<1>9. \A j, k \in 1 .. m : j < k => h[j] < h[k]
  <2> SUFFICES ASSUME NEW j \in 1 .. m, NEW k \in 1 .. m, j < k PROVE h[j] < h[k]
    OBVIOUS
  <2>1. Nth(I, j) < Nth(I, k)
    BY <1>1, NthInOrder DEF m
  <2>2. Nth(I, j) \in Nat /\ Nth(I, k) \in Nat
    BY <1>7, <1>14
  <2> QED
    BY <2>1, <2>2, PlaceGrows
<1>10. \A k \in D : \E j \in 1 .. m : h[j] = k
  <2> SUFFICES ASSUME NEW k \in D PROVE \E j \in 1 .. m : h[j] = k
    OBVIOUS
  <2>1. PICK i \in I : Place(i) = k
    BY <1>6
  <2>2. Rank(I, i) \in 1 .. m
    BY <1>1, RankInRange DEF m
  <2>3. Nth(I, Rank(I, i)) = i
    BY <1>1, NthOfRank
  <2> QED
    BY <2>1, <2>2, <2>3
<1>11. Cardinality(D) = m /\ \A k \in 1 .. m : Nth(D, k) = h[k]
  <2> HIDE DEF h
  <2> QED
    BY <1>2, <1>4, <1>7, <1>8, <1>9, <1>10, NthEnumerates, ZenonT(40)
<1>12. Selected(R, D) = Selected(otp, I)
  <2>1. \A k \in 1 .. m : R[Nth(D, k)] = otp[Nth(I, k)]
    BY <1>2, <1>7, <1>11, <1>14
  <2> QED
    BY <1>11, <2>1 DEF Selected, m
<1> QED
  BY <1>12 DEF Kept, D, I, R, DecimalAt

(* Only a short text of digits is kept as it is.                           *)
LEMMA KeptAsItIs ==
  ASSUME NEW C, NEW t \in Seq(C), OtpLength \in Nat
  PROVE  Kept(t) = t <=> Len(t) <= OtpLength /\ \A i \in 1 .. Len(t) : t[i] \in Decimal
<1>1. ASSUME Kept(t) = t
      PROVE  Len(t) <= OtpLength /\ \A i \in 1 .. Len(t) : t[i] \in Decimal
  <2>1. t \in Seq(Decimal) /\ Len(t) <= OtpLength
    BY <1>1, KeptIs
  <2> QED
    BY <2>1
<1>2. ASSUME Len(t) <= OtpLength, \A i \in 1 .. Len(t) : t[i] \in Decimal
      PROVE  Kept(t) = t
  <2> DEFINE L == Len(t)
             h == [k \in 1 .. L |-> k]
  <2>1. L \in Nat /\ DecimalAt(t) = 1 .. L
    BY <1>2 DEF DecimalAt
  <2> HIDE DEF L
  <2>2. h \in [1 .. L -> DecimalAt(t)]
    BY <2>1
  <2>3. /\ \A j, k \in 1 .. L : j < k => h[j] < h[k]
        /\ \A i \in DecimalAt(t) : \E k \in 1 .. L : h[k] = i
        /\ DecimalAt(t) \in SUBSET (1 .. L)
    BY <2>1
  <2>4. Cardinality(DecimalAt(t)) = L /\ \A k \in 1 .. L : Nth(DecimalAt(t), k) = h[k]
    <3> HIDE DEF h
    <3> QED
      BY <2>1, <2>2, <2>3, NthEnumerates
  <2>5. /\ Selected(t, DecimalAt(t)) \in Seq(C) /\ Len(Selected(t, DecimalAt(t))) = L
        /\ \A k \in 1 .. L : Selected(t, DecimalAt(t))[k] = t[k]
    BY <2>3, <2>4, SelectedIsText DEF L
  <2>6. Selected(t, DecimalAt(t)) = t
    BY <2>5, SameText DEF L
  <2>7. Len(t) \in Nat /\ ~(Len(t) > OtpLength)
    BY <1>2
  <2> QED
    BY <2>6, <2>7 DEF Kept, DecimalAt
<1> QED
  BY <1>1, <1>2

(* Different texts have different printed forms.                           *)
LEMMA GroupedOnce ==
  ASSUME NEW C, NEW s \in Seq(C), NEW t \in Seq(C), Grouped(s) = Grouped(t)
  PROVE  s = t
<1>1. Len(s) \in Nat /\ Len(t) \in Nat
  OBVIOUS
<1>2. /\ Place(Len(s)) = Place(Len(t)) /\ Place(Len(s)) \in Nat
      /\ \A i \in 1 .. Len(s) : Grouped(s)[Place(i)] = s[i]
      /\ \A i \in 1 .. Len(t) : Grouped(t)[Place(i)] = t[i]
  BY GroupedText
<1>3. Len(s) = Len(t)
  <2>1. ~(Len(s) < Len(t)) /\ ~(Len(t) < Len(s))
    BY <1>1, <1>2, PlaceGrows
  <2> QED
    BY <1>1, <2>1
<1>4. \A i \in 1 .. Len(s) : s[i] = t[i]
  BY <1>2, <1>3
<1> QED
  BY <1>3, <1>4, SameText

(* A password has one printed form in the application.                     *)
LEMMA PrintedOnce ==
  ASSUME NEW C, text \in Seq(C), OtpLength \in Nat
  PROVE  PasswordsLookTheSame /\ FormatIsStable
<1>1. PICK otp \in Seq(Decimal) : otp = Kept(text) /\ Len(otp) <= OtpLength
  BY KeptIs
<1>2. PrettyPrintOtp(otp) = Grouped(otp) /\ Format(text) = Grouped(otp)
  BY <1>1, PrettyIsGrouped, FormatIsGrouped
<1>3. Kept(otp) = otp
  BY <1>1, KeptAsItIs
<1>4. Kept(Grouped(otp)) = otp
  BY <1>3, KeptOfGrouped
<1>5. Format(Grouped(otp)) = Grouped(otp)
  BY <1>4, FormatIsGrouped
<1>6. PrettyPrintOtp(text) = Grouped(text) /\ Kept(Grouped(text)) = otp
  BY <1>1, PrettyIsGrouped, KeptOfGrouped
<1>7. Format(PrettyPrintOtp(text)) = Grouped(otp)
  BY <1>6, FormatIsGrouped
<1>8. Grouped(otp) = Grouped(text) <=> otp = text
  <2>1. text \in Seq(C \union Decimal) /\ otp \in Seq(C \union Decimal)
    OBVIOUS
  <2> QED
    BY <2>1, GroupedOnce
<1>9. otp = text <=> Len(text) <= OtpLength /\ \A i \in 1 .. Len(text) : text[i] \in Decimal
  BY <1>1, KeptAsItIs
<1>10. PasswordsLookTheSame
  BY <1>1, <1>2, <1>6, <1>7, <1>8, <1>9 DEF PasswordsLookTheSame
<1> QED
  BY <1>1, <1>2, <1>4, <1>5, <1>10 DEF FormatIsStable

-----------------------------------------------------------------------------
(* Line ends.  The conversion follows the text character by character.     *)
Converting(C) == [out : Seq(C \union {"cr", "lf"}), skip : BOOLEAN]

LEMMA ConvertNextType ==
  ASSUME NEW C, NEW d \in Converting(C), NEW c \in C
  PROVE  ConvertNext(d, c) \in Converting(C)
<1> DEFINE T == C \union {"cr", "lf"}
<1>1. "cr" \in T /\ "lf" \in T /\ c \in T
  OBVIOUS
<1>2. d \in [out : Seq(T), skip : BOOLEAN]
  BY DEF Converting
<1> HIDE DEF T
<1>3. d.out \in Seq(T) /\ d.out \o <<"cr", "lf">> \in Seq(T) /\ Append(d.out, c) \in Seq(T)
  BY <1>1, <1>2
<1>4. /\ [d EXCEPT !.skip = FALSE] \in [out : Seq(T), skip : BOOLEAN]
      /\ [d EXCEPT !.out = Append(@, c)] \in [out : Seq(T), skip : BOOLEAN]
      /\ [out |-> d.out \o <<"cr", "lf">>, skip |-> TRUE] \in [out : Seq(T), skip : BOOLEAN]
  BY <1>2, <1>3
<1> QED
  BY <1>4 DEF ConvertNext, Converting, T

LEMMA ConvertedUnfolds ==
  ASSUME NEW C, NEW t \in Seq(C)
  PROVE  \E d \in [0 .. Len(t) -> Converting(C)] :
           /\ d[0] = [out |-> <<>>, skip |-> FALSE]
           /\ \A k \in 1 .. Len(t) : d[k] = ConvertNext(d[k - 1], t[k])
           /\ Converted(t) = d[Len(t)].out
<1> DEFINE a == [out |-> <<>>, skip |-> FALSE]
           S == Converting(C)
           n == Len(t)
           g == [k \in 1 .. n |-> [s \in S |-> ConvertNext(s, t[k])]]
<1>1. a \in S /\ n \in Nat
  BY DEF Converting
<1>2. \A k \in 1 .. n : g[k] \in [S -> S]
  <2>1. \A k \in 1 .. n : t[k] \in C
    OBVIOUS
  <2> QED
    BY <2>1, ConvertNextType
<1>3. PICK d : Unfolds(d, n, S, a, g)
  <2> HIDE DEF a, S, g, n
  <2> QED
    BY <1>1, <1>2, Recursion
<1>4. d \in [0 .. n -> S] /\ d[0] = a /\ \A k \in 1 .. n : d[k] = g[k][d[k - 1]]
  BY <1>3 DEF Unfolds
<1>5. ASSUME NEW k \in 1 .. n PROVE d[k] = ConvertNext(d[k - 1], t[k])
  <2>1. k - 1 \in 0 .. n
    BY <1>1
  <2>2. d[k - 1] \in S
    BY <1>4, <2>1
  <2>3. g[k][d[k - 1]] = ConvertNext(d[k - 1], t[k])
    BY <2>2
  <2> HIDE DEF g, S, n
  <2> QED
    BY <1>4, <2>3
<1> HIDE DEF g, S
<1> DEFINE Q(f) == f = [k \in 0 .. n |-> IF k = 0 THEN a ELSE ConvertNext(f[k - 1], t[k])]
           c == CHOOSE f : Q(f)
<1>6. Converted(t) = c[n].out
  BY DEF Converted
<1> HIDE DEF n
<1>7. Q(d)
  <2>1. ASSUME NEW k \in 0 .. n PROVE d[k] = IF k = 0 THEN a ELSE ConvertNext(d[k - 1], t[k])
    <3> HIDE DEF a
    <3>1. CASE k = 0
      BY <1>4, <3>1
    <3>2. CASE k # 0
      <4>1. k \in 1 .. n
        BY <1>1, <3>2
      <4> QED
        BY <1>5, <3>2, <4>1
    <3> QED
      BY <3>1, <3>2
  <2> QED
    BY <1>4, <2>1
<1>8. Q(c)
  <2> HIDE DEF Q
  <2> QED
    BY <1>7
<1> DEFINE P == {k \in 0 .. n : c[k] = d[k]}
<1>9. \A k \in 0 .. n : k \in P
  <2>1. 0 \in P
    <3>1. c[0] = a
      <4> HIDE DEF c, a
      <4> QED
        BY <1>1, <1>8
    <3> HIDE DEF c, a
    <3> QED
      BY <1>1, <1>4, <3>1
  <2>2. ASSUME NEW k \in 0 .. n - 1, k \in P PROVE k + 1 \in P
    <3>1. k + 1 \in 1 .. n /\ k + 1 \in 0 .. n /\ (k + 1) - 1 = k /\ k + 1 # 0
      BY <1>1
    <3>2. c[k + 1] = IF k + 1 = 0 THEN a ELSE ConvertNext(c[(k + 1) - 1], t[k + 1])
      <4> HIDE DEF c, a
      <4> QED
        BY <1>8, <3>1
    <3>3. d[k + 1] = ConvertNext(d[(k + 1) - 1], t[k + 1])
      BY <1>5, <3>1
    <3> HIDE DEF c
    <3> QED
      BY <2>2, <3>1, <3>2, <3>3
  <2> HIDE DEF P
  <2> QED
    BY <1>1, <2>1, <2>2, InductionUpTo
<1>10. c[n] = d[n]
  <2>1. n \in 0 .. n
    BY <1>1
  <2> HIDE DEF c
  <2> QED
    BY <1>9, <2>1
<1>11. Converted(t) = d[n].out
  <2> HIDE DEF c
  <2> QED
    BY <1>6, <1>10
<1> QED
  BY <1>4, <1>5, <1>11 DEF S, n

(* The right text, and the same text as long as no line feed is passed;    *)
(* from then on what the conversion has made is shorter than it should be. *)
RightEnd(c) == IF c = "lf" THEN <<"cr", "lf">> ELSE <<c>>

LEMMA RightEndIs ==
  ASSUME NEW C, NEW c \in C
  PROVE  /\ RightEnd(c) \in Seq(C \union {"cr", "lf"}) /\ Len(RightEnd(c)) >= 1
         /\ Len(RightEnd(c)) = IF c = "lf" THEN 2 ELSE 1
<1> DEFINE T == C \union {"cr", "lf"}
<1>1. "cr" \in T /\ "lf" \in T /\ c \in T
  OBVIOUS
<1> HIDE DEF T
<1>2. <<"cr", "lf">> \in Seq(T) /\ Len(<<"cr", "lf">>) = 2 /\ <<c>> \in Seq(T) /\ Len(<<c>>) = 1
  BY <1>1, OneOrTwo
<1>3. CASE c = "lf"
  <2>1. PICK s \in Seq(T) : s = <<"cr", "lf">> /\ Len(s) = 2
    BY <1>2
  <2>2. RightEnd(c) = s
    BY <1>3, <2>1 DEF RightEnd
  <2>3. 2 >= 1
    OBVIOUS
  <2> QED
    BY <1>3, <2>1, <2>2, <2>3 DEF T
<1>4. CASE c # "lf"
  <2>1. RightEnd(c) = <<c>>
    BY <1>4 DEF RightEnd
  <2> QED
    BY <1>2, <1>4, <2>1 DEF T
<1> QED
  BY <1>3, <1>4

LEMMA ConvertNextIs ==
  ASSUME NEW C, NEW d \in Converting(C), NEW c \in C
  PROVE  /\ d.skip => ConvertNext(d, c).out = d.out /\ ~ConvertNext(d, c).skip
         /\ ~d.skip => /\ ConvertNext(d, c).out = d.out \o RightEnd(c)
                       /\ ConvertNext(d, c).skip <=> c = "lf"
<1> DEFINE T == C \union {"cr", "lf"}
<1>1. d \in [out : Seq(T), skip : BOOLEAN] /\ c \in T
  BY DEF Converting
<1> HIDE DEF T
<1>2. Append(d.out, c) = d.out \o <<c>>
  BY <1>1, AppendIsConcat
<1>3. CASE d.skip
  BY <1>1, <1>3 DEF ConvertNext
<1>4. CASE ~d.skip /\ c = "lf"
  BY <1>1, <1>4 DEF ConvertNext, RightEnd
<1>5. CASE ~d.skip /\ c # "lf"
  <2>1. ConvertNext(d, c) = [d EXCEPT !.out = Append(d.out, c)]
    BY <1>5 DEF ConvertNext
  <2>2. ConvertNext(d, c).out = Append(d.out, c) /\ ConvertNext(d, c).skip = d.skip
    BY <1>1, <2>1
  <2>3. d.skip = FALSE
    BY <1>1, <1>5
  <2> QED
    BY <1>2, <1>5, <2>2, <2>3 DEF RightEnd
<1> QED
  BY <1>1, <1>3, <1>4, <1>5

LEMMA ConversionGoesOn ==
  ASSUME NEW C, NEW c \in C, NEW d \in Converting(C), NEW f \in Seq(C \union {"cr", "lf"}),
         NEW early, early \in BOOLEAN,
         early => Len(d.out) < Len(f),
         ~early => d.out = f
  PROVE  LET d1 == ConvertNext(d, c)
             f1 == f \o RightEnd(c)
         IN  /\ early \/ d.skip => Len(d1.out) < Len(f1)
             /\ ~(early \/ d.skip) => d1.out = f1 /\ (d1.skip <=> c = "lf")
<1> DEFINE T == C \union {"cr", "lf"}
           d1 == ConvertNext(d, c)
           f1 == f \o RightEnd(c)
<1>1. /\ RightEnd(c) \in Seq(T) /\ Len(RightEnd(c)) \in Nat /\ Len(RightEnd(c)) >= 1
      /\ d.out \in Seq(T) /\ Len(d.out) \in Nat /\ Len(f) \in Nat /\ d.skip \in BOOLEAN
  BY RightEndIs DEF Converting
<1>2. /\ d.skip => d1.out = d.out
      /\ ~d.skip => d1.out = d.out \o RightEnd(c) /\ (d1.skip <=> c = "lf")
  BY ConvertNextIs
<1>3. Len(f1) = Len(f) + Len(RightEnd(c))
  BY <1>1
<1>4. Len(d.out \o RightEnd(c)) = Len(d.out) + Len(RightEnd(c))
  BY <1>1
<1> HIDE DEF T, d1
<1>5. early \/ d.skip => Len(d1.out) < Len(f1)
  <2> HIDE DEF f1
  <2>1. CASE d.skip
    BY <1>1, <1>2, <1>3, <2>1
  <2>2. CASE ~d.skip /\ early
    BY <1>1, <1>2, <1>3, <1>4, <2>2
  <2> QED
    BY <2>1, <2>2
<1>6. ~(early \/ d.skip) => d1.out = f1 /\ (d1.skip <=> c = "lf")
  BY <1>2
<1> QED
  BY <1>5, <1>6 DEF d1

LEMMA LineFeedsConverted ==
  ASSUME NEW C, NEW t \in Seq(C)
  PROVE  Converted(t) = FlattenSeq([i \in 1 .. Len(t) |->
                          IF t[i] = "lf" THEN <<"cr", "lf">> ELSE <<t[i]>>])
           <=> \A i \in 1 .. Len(t) - 1 : t[i] # "lf"
<1> DEFINE n == Len(t)
           T == C \union {"cr", "lf"}
           seqs == [i \in 1 .. n |-> RightEnd(t[i])]
           Early(k) == \E i \in 1 .. k - 1 : t[i] = "lf"
<1>1. n \in Nat /\ \A i \in 1 .. n : t[i] \in C
  OBVIOUS
<1>2. seqs = [i \in 1 .. n |-> IF t[i] = "lf" THEN <<"cr", "lf">> ELSE <<t[i]>>]
  BY DEF RightEnd
<1>3. seqs \in Seq(Seq(T)) /\ Len(seqs) = n /\ \A i \in 1 .. n : seqs[i] = RightEnd(t[i])
  BY <1>1, RightEndIs
<1> HIDE DEF n, T, seqs
<1>4. PICK F \in [0 .. n -> Seq(T)] :
        /\ F[0] = <<>> /\ \A i \in 1 .. n : F[i] = F[i - 1] \o seqs[i]
        /\ FlattenSeq(seqs) = F[n]
  BY <1>3, FlattenStepByStep
<1>5. PICK d \in [0 .. n -> Converting(C)] :
        /\ d[0] = [out |-> <<>>, skip |-> FALSE]
        /\ \A k \in 1 .. n : d[k] = ConvertNext(d[k - 1], t[k])
        /\ Converted(t) = d[n].out
  BY ConvertedUnfolds DEF n
<1> DEFINE P == {k \in 0 .. n :
                   /\ Early(k) => Len(d[k].out) < Len(F[k])
                   /\ ~Early(k) => d[k].out = F[k] /\ (d[k].skip <=> k > 0 /\ t[k] = "lf")}
<1>6. 0 \in P
  BY <1>1, <1>4, <1>5
<1>7. ASSUME NEW k \in 0 .. n - 1, k \in P PROVE k + 1 \in P
  <2>1. k + 1 \in 1 .. n /\ k + 1 \in 0 .. n /\ (k + 1) - 1 = k /\ k \in 0 .. n /\ k \in Nat
    BY <1>1
  <2>2. PICK c \in C : c = t[k + 1]
    BY <1>1, <2>1
  <2>3. d[k + 1] = ConvertNext(d[(k + 1) - 1], t[k + 1])
    BY <1>5, <2>1
  <2>4. F[k + 1] = F[(k + 1) - 1] \o seqs[k + 1]
    BY <1>4, <2>1
  <2>5. d[k + 1] = ConvertNext(d[k], c) /\ F[k + 1] = F[k] \o RightEnd(c)
    BY <1>3, <2>1, <2>2, <2>3, <2>4
  <2>6. d[k] \in Converting(C) /\ F[k] \in Seq(T)
    BY <1>4, <1>5, <2>1
  <2>7. /\ Early(k) => Len(d[k].out) < Len(F[k])
        /\ ~Early(k) => d[k].out = F[k] /\ (d[k].skip <=> k > 0 /\ t[k] = "lf")
    BY <1>7
  <2>8. Early(k + 1) <=> Early(k) \/ (k > 0 /\ t[k] = "lf")
    BY <2>1
  <2> HIDE DEF Early
  <2>9. /\ Early(k) \/ d[k].skip => Len(d[k + 1].out) < Len(F[k + 1])
        /\ ~(Early(k) \/ d[k].skip) => d[k + 1].out = F[k + 1] /\ (d[k + 1].skip <=> c = "lf")
    <3>1. PICK early \in BOOLEAN : early <=> Early(k)
      OBVIOUS
    <3>2. (early => Len(d[k].out) < Len(F[k])) /\ (~early => d[k].out = F[k])
      BY <2>7, <3>1
    <3>3. /\ early \/ d[k].skip => Len(ConvertNext(d[k], c).out) < Len(F[k] \o RightEnd(c))
          /\ ~(early \/ d[k].skip) =>
               /\ ConvertNext(d[k], c).out = F[k] \o RightEnd(c)
               /\ ConvertNext(d[k], c).skip <=> c = "lf"
      BY <2>6, <3>2, ConversionGoesOn DEF T
    <3> QED
      BY <2>5, <3>1, <3>3
  <2>10. ~Early(k) => (d[k].skip <=> Early(k + 1))
    BY <2>7, <2>8
  <2>11. Early(k + 1) => Len(d[k + 1].out) < Len(F[k + 1])
    BY <2>8, <2>9, <2>10
  <2>12. ~Early(k + 1) =>
           d[k + 1].out = F[k + 1] /\ (d[k + 1].skip <=> k + 1 > 0 /\ t[k + 1] = "lf")
    BY <2>1, <2>2, <2>8, <2>9, <2>10
  <2> QED
    BY <2>1, <2>11, <2>12
<1>8. n \in P
  <2> HIDE DEF P
  <2>1. \A k \in 0 .. n : k \in P
    BY <1>1, <1>6, <1>7, InductionUpTo
  <2> QED
    BY <1>1, <2>1
<1>9. Converted(t) = F[n] <=> ~Early(n)
  <2>1. F[n] \in Seq(T) /\ Len(F[n]) \in Nat
    <3>1. F[n] \in Seq(T)
      BY <1>1, <1>4
    <3> QED
      BY <3>1
  <2>2. CASE Early(n)
    <3>1. Len(Converted(t)) < Len(F[n])
      BY <1>5, <1>8, <2>2
    <3> HIDE DEF Early
    <3> QED
      BY <2>1, <2>2, <3>1
  <2>3. CASE ~Early(n)
    BY <1>5, <1>8, <2>3
  <2> QED
    BY <2>2, <2>3
<1> QED
  BY <1>2, <1>4, <1>9 DEF n

-----------------------------------------------------------------------------
(* Words.  What the parser has in front of it at a word: where the word    *)
(* ends, and where the next one starts.                                    *)
LEMMA PartOfPart ==
  ASSUME NEW C, NEW t \in Seq(C), NEW p \in 1 .. Len(t) + 1,
         NEW j \in 1 .. Len(t) - p + 2, NEW k \in j - 1 .. Len(t) - p + 1
  PROVE  SubSeq(SubSeq(t, p, Len(t)), j, k) = SubSeq(t, p + j - 1, p + k - 1)
<1> DEFINE L == Len(t)
<1>1. L \in Nat /\ p \in Nat /\ j \in Nat /\ k \in Nat
  OBVIOUS
<1>2. PICK a : a = SubSeq(t, p, L)
  OBVIOUS
<1>3. a \in Seq(C) /\ Len(a) = L - p + 1 /\ \A i \in 1 .. L - p + 1 : a[i] = t[p + i - 1]
  <2>1. p \in 1 .. L + 1 /\ L \in p - 1 .. L
    BY <1>1
  <2> QED
    BY <1>2, <2>1, PartOfText
<1> HIDE DEF L
<1>4. /\ SubSeq(a, j, k) \in Seq(C) /\ Len(SubSeq(a, j, k)) = k - j + 1
      /\ \A i \in 1 .. k - j + 1 : SubSeq(a, j, k)[i] = a[j + i - 1]
  <2>1. j \in 1 .. Len(a) + 1 /\ k \in j - 1 .. Len(a)
    BY <1>1, <1>3 DEF L
  <2> QED
    BY <1>3, <2>1, PartOfText
<1>5. PICK x \in Nat : x = p + j - 1
  BY <1>1
<1>6. PICK y \in Nat : y = p + k - 1
  BY <1>1
<1>7. /\ SubSeq(t, x, y) \in Seq(C) /\ Len(SubSeq(t, x, y)) = y - x + 1
      /\ \A i \in 1 .. y - x + 1 : SubSeq(t, x, y)[i] = t[x + i - 1]
  <2>1. x \in 1 .. Len(t) + 1 /\ y \in x - 1 .. Len(t)
    BY <1>1, <1>5, <1>6 DEF L
  <2> QED
    BY <2>1, PartOfText
<1>8. y - x + 1 = k - j + 1
  BY <1>1, <1>5, <1>6
<1>9. ASSUME NEW i \in 1 .. k - j + 1 PROVE SubSeq(a, j, k)[i] = SubSeq(t, x, y)[i]
  <2>1. j + i - 1 \in 1 .. L - p + 1 /\ p + (j + i - 1) - 1 = x + i - 1
    BY <1>1, <1>5 DEF L
  <2>2. a[j + i - 1] = t[p + (j + i - 1) - 1]
    BY <1>3, <2>1
  <2> QED
    BY <1>4, <1>7, <1>8, <2>1, <2>2
<1>10. SubSeq(a, j, k) = SubSeq(t, x, y)
  BY <1>4, <1>7, <1>8, <1>9, SeqEqual
<1> QED
  BY <1>2, <1>5, <1>6, <1>10 DEF L

LEMMA EndIsThere ==
  ASSUME NEW C, NEW t \in Seq(C), NEW p \in Starts(t)
  PROVE  /\ EndOfWord(t, p) \in p .. Len(t)
         /\ \A i \in p .. EndOfWord(t, p) : t[i] # "sp"
         /\ EndOfWord(t, p) = Len(t) \/ t[EndOfWord(t, p) + 1] = "sp"
<1> DEFINE L == Len(t)
           S == {i \in p .. L : t[i] = "sp"} \union {L + 1}
<1>1. L \in Nat /\ p \in 1 .. L /\ t[p] # "sp"
  BY DEF Starts
<1> HIDE DEF L
<1>2. S \in SUBSET Nat /\ S # {}
  BY <1>1
<1>3. PICK m : m = Min(S)
  OBVIOUS
<1>4. m \in S /\ \A i \in S : m <= i
  <2> HIDE DEF S
  <2> QED
    BY <1>2, <1>3, LeastIsThere
<1>5. m \in p + 1 .. L + 1 /\ (m = L + 1 \/ t[m] = "sp")
  BY <1>1, <1>4
<1>6. \A i \in p .. m - 1 : t[i] # "sp"
  <2> SUFFICES ASSUME NEW i \in p .. m - 1, t[i] = "sp" PROVE FALSE
    OBVIOUS
  <2>1. i \in S
    BY <1>1, <1>5
  <2> QED
    BY <1>1, <1>4, <1>5, <2>1
<1>7. /\ m - 1 \in p .. L /\ \A i \in p .. m - 1 : t[i] # "sp"
      /\ m - 1 = L \/ t[(m - 1) + 1] = "sp"
  <2>1. m - 1 \in p .. L /\ (m - 1) + 1 = m /\ (m = L + 1 => m - 1 = L)
    BY <1>1, <1>5
  <2> QED
    BY <1>5, <1>6, <2>1
<1>8. \E e \in p .. L : /\ \A i \in p .. e : t[i] # "sp"
                        /\ e = L \/ t[e + 1] = "sp"
  BY <1>7
<1> QED
  BY <1>8 DEF EndOfWord, L

(* The parser at the word that starts at p.                                *)
LEMMA WordAt ==
  ASSUME NEW C, NEW t \in Seq(C), NEW p \in Starts(t)
  PROVE  LET rest == SubSeq(t, p, Len(t))
         IN  /\ WordEnd(rest) = EndOfWord(t, p) - p + 2
             /\ Word(rest) = SubSeq(t, p, EndOfWord(t, p))
<1> DEFINE L == Len(t)
           rest == SubSeq(t, p, L)
           S == {i \in 1 .. Len(rest) : rest[i] = "sp"} \union {Len(rest) + 1}
<1>1. L \in Nat /\ p \in 1 .. L
  BY DEF Starts
<1>2. PICK e \in p .. L : e = EndOfWord(t, p)
  BY EndIsThere
<1>3. (\A i \in p .. e : t[i] # "sp") /\ (e = L \/ t[e + 1] = "sp")
  BY <1>2, EndIsThere
<1>4. rest \in Seq(C) /\ Len(rest) = L - p + 1 /\ \A i \in 1 .. L - p + 1 : rest[i] = t[p + i - 1]
  <2>1. p \in 1 .. L + 1 /\ L \in p - 1 .. L
    BY <1>1
  <2> QED
    BY <2>1, PartOfText
<1> HIDE DEF L, rest
<1>5. e - p + 2 \in S
  <2>1. e = L => e - p + 2 = Len(rest) + 1
    BY <1>1, <1>4
  <2>2. ASSUME e # L PROVE e - p + 2 \in 1 .. L - p + 1 /\ p + (e - p + 2) - 1 = e + 1
    BY <1>1, <2>2
  <2>3. e # L => e - p + 2 \in 1 .. Len(rest) /\ rest[e - p + 2] = "sp"
    BY <1>3, <1>4, <2>2
  <2> QED
    BY <2>1, <2>3
<1>6. ASSUME NEW i \in S PROVE e - p + 2 <= i
  <2>1. CASE i = Len(rest) + 1
    BY <1>1, <1>4, <2>1
  <2>2. CASE i \in 1 .. Len(rest) /\ rest[i] = "sp"
    <3>1. t[p + i - 1] = "sp" /\ i \in 1 .. L - p + 1
      BY <1>4, <2>2
    <3>2. p + i - 1 \notin p .. e
      BY <1>3, <3>1
    <3> QED
      BY <1>1, <3>1, <3>2
  <2> QED
    BY <2>1, <2>2
<1>7. WordEnd(rest) = e - p + 2
  <2>1. S \in SUBSET Nat
    BY <1>1, <1>4
  <2>2. Min(S) = e - p + 2
    <3> HIDE DEF S
    <3> QED
      BY <1>5, <1>6, <2>1, LeastIs
  <2> QED
    BY <2>2 DEF WordEnd
<1>8. Word(rest) = SubSeq(t, p, e)
  <2>1. (e - p + 2) - 1 = e - p + 1 /\ p + 1 - 1 = p /\ p + (e - p + 1) - 1 = e
    BY <1>1
  <2>2. /\ p \in 1 .. Len(t) + 1 /\ 1 \in 1 .. Len(t) - p + 2
        /\ e - p + 1 \in 1 - 1 .. Len(t) - p + 1
    BY <1>1 DEF L
  <2>3. SubSeq(rest, 1, e - p + 1) = SubSeq(t, p + 1 - 1, p + (e - p + 1) - 1)
    BY <2>2, PartOfPart DEF rest, L
  <2> QED
    BY <1>7, <2>1, <2>3 DEF Word
<1> QED
  BY <1>2, <1>7, <1>8 DEF rest, L

AfterWord(t, p) ==
  Min({i \in EndOfWord(t, p) + 1 .. Len(t) : t[i] # "sp"} \union {Len(t) + 1})

LEMMA AfterWordIs ==
  ASSUME NEW C, NEW t \in Seq(C), NEW p \in Starts(t)
  PROVE  /\ AfterWord(t, p) \in EndOfWord(t, p) + 1 .. Len(t) + 1
         /\ AfterWord(t, p) = Len(t) + 1 \/ t[AfterWord(t, p)] # "sp"
         /\ \A i \in EndOfWord(t, p) + 1 .. Len(t) : t[i] # "sp" => AfterWord(t, p) <= i
<1> DEFINE L == Len(t)
           e == EndOfWord(t, p)
           S == {i \in e + 1 .. L : t[i] # "sp"} \union {L + 1}
<1>1. L \in Nat /\ p \in 1 .. L /\ e \in p .. L
  BY EndIsThere DEF Starts
<1> HIDE DEF L, e
<1>2. S \in SUBSET Nat /\ S # {}
  BY <1>1
<1>3. PICK q : q = Min(S)
  OBVIOUS
<1>4. q \in S /\ \A i \in S : q <= i
  <2> HIDE DEF S
  <2> QED
    BY <1>2, <1>3, LeastIsThere
<1>5. AfterWord(t, p) = q
  BY <1>3 DEF AfterWord, e, L
<1>6. q \in e + 1 .. L + 1 /\ (q = L + 1 \/ t[q] # "sp")
  BY <1>1, <1>4
<1>7. \A i \in e + 1 .. L : t[i] # "sp" => q <= i
  BY <1>4
<1> QED
  BY <1>5, <1>6, <1>7 DEF e, L

LEMMA GoToNextAt ==
  ASSUME NEW C, NEW t \in Seq(C), NEW p \in Starts(t)
  PROVE  GoToNext(SubSeq(t, p, Len(t))) = SubSeq(t, AfterWord(t, p), Len(t))
<1> DEFINE L == Len(t)
           rest == SubSeq(t, p, L)
           S == {i \in WordEnd(rest) .. Len(rest) : rest[i] # "sp"} \union {Len(rest) + 1}
<1>1. L \in Nat /\ p \in 1 .. L
  BY DEF Starts
<1>2. PICK e \in p .. L : e = EndOfWord(t, p)
  BY EndIsThere
<1>3. PICK q : q = AfterWord(t, p)
  OBVIOUS
<1>4. /\ q \in e + 1 .. L + 1 /\ (q = L + 1 \/ t[q] # "sp")
      /\ \A i \in e + 1 .. L : t[i] # "sp" => q <= i
  BY <1>2, <1>3, AfterWordIs
<1>5. rest \in Seq(C) /\ Len(rest) = L - p + 1 /\ \A i \in 1 .. L - p + 1 : rest[i] = t[p + i - 1]
  <2>1. p \in 1 .. L + 1 /\ L \in p - 1 .. L
    BY <1>1
  <2> QED
    BY <2>1, PartOfText
<1>6. WordEnd(rest) = e - p + 2
  BY <1>2, WordAt
<1> HIDE DEF L, rest
<1>7. q - p + 1 \in S
  <2>1. q = L + 1 => q - p + 1 = Len(rest) + 1
    BY <1>1, <1>5
  <2>2. ASSUME q # L + 1
        PROVE  /\ q - p + 1 \in 1 .. L - p + 1 /\ p + (q - p + 1) - 1 = q
               /\ q - p + 1 \in e - p + 2 .. L - p + 1
    BY <1>1, <1>4, <2>2
  <2>3. q # L + 1 => q - p + 1 \in WordEnd(rest) .. Len(rest) /\ rest[q - p + 1] # "sp"
    BY <1>4, <1>5, <1>6, <2>2
  <2> QED
    BY <2>1, <2>3
<1>8. ASSUME NEW i \in S PROVE q - p + 1 <= i
  <2>1. CASE i = Len(rest) + 1
    BY <1>1, <1>4, <1>5, <2>1
  <2>2. CASE i \in WordEnd(rest) .. Len(rest) /\ rest[i] # "sp"
    <3>1. i \in 1 .. L - p + 1 /\ p + i - 1 \in e + 1 .. L
      BY <1>1, <1>5, <1>6, <2>2
    <3>2. q <= p + i - 1
      BY <1>4, <1>5, <2>2, <3>1
    <3> QED
      BY <1>1, <1>4, <3>1, <3>2
  <2> QED
    BY <2>1, <2>2
<1>9. S \in SUBSET Nat
  BY <1>1, <1>5, <1>6
<1>10. GoToNext(rest) = SubSeq(rest, q - p + 1, Len(rest))
  <2>1. Min(S) = q - p + 1
    <3> HIDE DEF S
    <3> QED
      BY <1>7, <1>8, <1>9, LeastIs
  <2> QED
    BY <2>1 DEF GoToNext
<1>11. SubSeq(rest, q - p + 1, L - p + 1) = SubSeq(t, p + (q - p + 1) - 1, p + (L - p + 1) - 1)
  <2>1. /\ p \in 1 .. Len(t) + 1 /\ q - p + 1 \in 1 .. Len(t) - p + 2
        /\ L - p + 1 \in (q - p + 1) - 1 .. Len(t) - p + 1
    BY <1>1, <1>4 DEF L
  <2> QED
    BY <2>1, PartOfPart DEF rest, L
<1>12. p + (q - p + 1) - 1 = q /\ p + (L - p + 1) - 1 = L
  BY <1>1, <1>4
<1> QED
  BY <1>3, <1>5, <1>10, <1>11, <1>12 DEF rest, L

(* Where the parser goes is the next start of a word, or the end.          *)
LEMMA AfterWordIsNextStart ==
  ASSUME NEW C, NEW t \in Seq(C), NEW p \in Starts(t)
  PROVE  /\ AfterWord(t, p) = Len(t) + 1 \/ AfterWord(t, p) \in Starts(t)
         /\ p < AfterWord(t, p) /\ AfterWord(t, p) \in 1 .. Len(t) + 1
         /\ \A i \in Starts(t) : p < i => AfterWord(t, p) <= i
<1> DEFINE L == Len(t)
<1>1. L \in Nat /\ p \in 1 .. L
  BY DEF Starts
<1>2. PICK e \in p .. L : e = EndOfWord(t, p)
  BY EndIsThere
<1>3. (\A i \in p .. e : t[i] # "sp") /\ (e = L \/ t[e + 1] = "sp")
  BY <1>2, EndIsThere
<1>4. PICK q : q = AfterWord(t, p)
  OBVIOUS
<1>5. /\ q \in e + 1 .. L + 1 /\ (q = L + 1 \/ t[q] # "sp")
      /\ \A i \in e + 1 .. L : t[i] # "sp" => q <= i
  BY <1>2, <1>4, AfterWordIs
<1> HIDE DEF L
<1>6. ASSUME q # L + 1 PROVE q \in Starts(t)
  <2>1. q \in 1 .. L /\ t[q] # "sp"
    BY <1>1, <1>5, <1>6
  <2>2. q # e + 1
    BY <1>1, <1>3, <2>1
  <2>3. q - 1 \in e + 1 .. L /\ ~(q <= q - 1)
    BY <1>1, <1>5, <1>6, <2>2
  <2>4. t[q - 1] = "sp"
    BY <1>5, <2>3
  <2> QED
    BY <2>1, <2>4 DEF Starts, L
<1>7. ASSUME NEW i \in Starts(t), p < i PROVE q <= i
  <2>1. i \in 1 .. L /\ t[i] # "sp" /\ (i = 1 \/ t[i - 1] = "sp")
    BY DEF Starts, L
  <2>2. i # 1 /\ t[i - 1] = "sp"
    BY <1>1, <1>7, <2>1
  <2>3. i - 1 \notin p .. e
    BY <1>3, <2>2
  <2>4. i \in e + 1 .. L
    BY <1>1, <1>7, <2>1, <2>3
  <2> QED
    BY <1>5, <2>1, <2>4
<1> QED
  BY <1>1, <1>4, <1>5, <1>6, <1>7 DEF L

LEMMA StartsOfText ==
  ASSUME NEW C, NEW t \in Seq(C)
  PROVE  /\ Len(t) \in Nat /\ Starts(t) \in SUBSET (1 .. Len(t))
         /\ Cardinality(Starts(t)) \in Nat
         /\ Len(Words(t)) = Cardinality(Starts(t))
         /\ \A n \in 1 .. Cardinality(Starts(t)) :
              Nth(Starts(t), n) \in Starts(t) /\ Nth(Starts(t), n) \in 1 .. Len(t)
<1>1. Len(t) \in Nat /\ Starts(t) \in SUBSET (1 .. Len(t))
  BY DEF Starts
<1>2. Cardinality(Starts(t)) \in Nat
  BY <1>1, PartFinite
<1>3. Len(Words(t)) = Cardinality(Starts(t))
  BY <1>2 DEF Words
<1>4. \A n \in 1 .. Cardinality(Starts(t)) : Nth(Starts(t), n) \in Starts(t)
  BY <1>1, NthIsThere
<1> QED
  BY <1>1, <1>2, <1>3, <1>4

LEMMA EmptyText ==
  WordEnd(<<>>) = 1 /\ Word(<<>>) = <<>> /\ GoToNext(<<>>) = <<>>
<1>1. Len(<<>>) = 0 /\ {i \in 1 .. 0 : <<>>[i] = "sp"} \union {0 + 1} = {1}
  OBVIOUS
<1>2. Min({1}) = 1
  BY LeastIs
<1>3. WordEnd(<<>>) = 1
  BY <1>1, <1>2 DEF WordEnd
<1>4. {i \in 1 .. 0 : <<>>[i] # "sp"} \union {0 + 1} = {1}
  OBVIOUS
<1>5. GoToNext(<<>>) = SubSeq(<<>>, 1, 0)
  BY <1>1, <1>2, <1>3, <1>4 DEF GoToNext
<1>6. Word(<<>>) = SubSeq(<<>>, 1, 0)
  BY <1>3 DEF Word
<1> QED
  BY <1>3, <1>5, <1>6, SubSeqEmpty

LEMMA FromWordIsText ==
  ASSUME NEW C, NEW t \in Seq(C), NEW n \in Nat \ {0}
  PROVE  /\ FromWord(t, n) \in Seq(C)
         /\ n <= Len(Words(t)) => FromWord(t, n) # <<>>
         /\ ~(n <= Len(Words(t))) => FromWord(t, n) = <<>>
<1>1. /\ Len(t) \in Nat /\ Cardinality(Starts(t)) \in Nat
      /\ Len(Words(t)) = Cardinality(Starts(t))
      /\ \A k \in 1 .. Cardinality(Starts(t)) : Nth(Starts(t), k) \in 1 .. Len(t)
  BY StartsOfText
<1>2. CASE n > Cardinality(Starts(t))
  BY <1>1, <1>2 DEF FromWord
<1>3. CASE ~(n > Cardinality(Starts(t)))
  <2>1. PICK p \in 1 .. Len(t) : p = Nth(Starts(t), n)
    BY <1>1, <1>3
  <2>2. p \in 1 .. Len(t) + 1 /\ Len(t) \in p - 1 .. Len(t) /\ Len(t) - p + 1 > 0
    BY <1>1
  <2>3. SubSeq(t, p, Len(t)) \in Seq(C) /\ Len(SubSeq(t, p, Len(t))) = Len(t) - p + 1
    BY <2>2, PartOfText
  <2>4. FromWord(t, n) = SubSeq(t, p, Len(t))
    BY <1>3, <2>1 DEF FromWord
  <2>5. PICK s \in Seq(C) : s = SubSeq(t, p, Len(t))
    BY <2>3
  <2>6. Len(s) > 0
    BY <2>2, <2>3, <2>5
  <2>7. s # <<>>
    BY <2>6
  <2>8. n <= Len(Words(t))
    BY <1>1, <1>3
  <2> QED
    BY <2>4, <2>5, <2>7, <2>8
<1> QED
  BY <1>2, <1>3

LEMMA EmptyRest ==
  ASSUME NEW C, NEW t \in Seq(C)
  PROVE  SubSeq(t, Len(t) + 1, Len(t)) = <<>>
<1>1. Len(t) \in Int /\ Len(t) + 1 \in Int /\ Len(t) < Len(t) + 1
  OBVIOUS
<1> QED
  BY <1>1, SubSeqEmpty

(* The parser goes from each word to the next.                             *)
LEMMA NextWord ==
  ASSUME NEW C, NEW t \in Seq(C), NEW n \in Nat \ {0}
  PROVE  GoToNext(FromWord(t, n)) = FromWord(t, n + 1)
<1> DEFINE W == Starts(t)
           N == Cardinality(W)
<1>1. Len(t) \in Nat /\ W \in SUBSET (1 .. Len(t)) /\ N \in Nat
  BY StartsOfText
<1> HIDE DEF W, N
<1>2. CASE n > N
  <2>1. n + 1 > N
    BY <1>1, <1>2
  <2> QED
    BY <1>2, <2>1, EmptyText DEF FromWord, N, W
<1>3. CASE ~(n > N)
  <2>1. n \in 1 .. N
    BY <1>1, <1>3
  <2>2. PICK p \in W : p = Nth(W, n)
    BY <1>1, <2>1, NthIsThere DEF N
  <2>3. PICK q : q = AfterWord(t, p)
    OBVIOUS
  <2>4. GoToNext(FromWord(t, n)) = SubSeq(t, q, Len(t))
    BY <1>3, <2>2, <2>3, GoToNextAt DEF FromWord, N, W
  <2>5. /\ q = Len(t) + 1 \/ q \in W
        /\ p < q /\ q \in 1 .. Len(t) + 1 /\ \A i \in W : p < i => q <= i
    BY <2>2, <2>3, AfterWordIsNextStart DEF W
  <2>6. p \in 1 .. Len(t)
    BY <1>1
  <2>7. ASSUME n + 1 \in 1 .. N
        PROVE  Nth(W, n + 1) \in W /\ Nth(W, n + 1) \in 1 .. Len(t) /\ q <= Nth(W, n + 1)
    <3>1. n < n + 1
      BY <1>1, <2>1
    <3>2. Nth(W, n + 1) \in W /\ Nth(W, n) < Nth(W, n + 1)
      BY <1>1, <2>1, <2>7, <3>1, NthIsThere, NthInOrder DEF N
    <3> QED
      BY <1>1, <2>2, <2>5, <3>2
  <2>8. CASE q = Len(t) + 1
    <3>1. n + 1 \notin 1 .. N
      BY <1>1, <2>7, <2>8
    <3>2. n + 1 > N
      BY <1>1, <2>1, <3>1
    <3>3. FromWord(t, n + 1) = <<>>
      BY <3>2 DEF FromWord, N, W
    <3> QED
      BY <2>4, <2>8, <3>3, EmptyRest
  <2>9. CASE q \in W
    <3>1. n + 1 \in 1 .. N /\ Nth(W, n + 1) <= q
      BY <1>1, <2>1, <2>2, <2>5, <2>9, NthHasNext DEF N
    <3>2. q \in 1 .. Len(t)
      BY <1>1, <2>9
    <3>3. Nth(W, n + 1) = q
      BY <1>1, <2>7, <3>1, <3>2
    <3>4. ~(n + 1 > N)
      BY <1>1, <3>1
    <3> QED
      BY <2>4, <3>3, <3>4 DEF FromWord, N, W
  <2> QED
    BY <2>5, <2>8, <2>9
<1> QED
  BY <1>2, <1>3

LEMMA WordAtNth ==
  ASSUME NEW C, NEW t \in Seq(C), NEW n \in 1 .. Len(Words(t))
  PROVE  /\ Word(FromWord(t, n)) = Words(t)[n] /\ Words(t)[n] \in Seq(C)
         /\ Len(Words(t)[n]) \in 1 .. Len(FromWord(t, n))
<1>1. /\ Len(t) \in Nat /\ Cardinality(Starts(t)) \in Nat
      /\ Len(Words(t)) = Cardinality(Starts(t))
  BY StartsOfText
<1>2. PICK p \in Starts(t) : p = Nth(Starts(t), n)
  BY <1>1, StartsOfText
<1>3. p \in 1 .. Len(t)
  BY DEF Starts
<1>4. PICK e \in p .. Len(t) : e = EndOfWord(t, p)
  BY EndIsThere
<1>5. Words(t)[n] = SubSeq(t, p, e)
  BY <1>1, <1>2, <1>4 DEF Words
<1>6. FromWord(t, n) = SubSeq(t, p, Len(t))
  <2>1. ~(n > Cardinality(Starts(t)))
    BY <1>1
  <2> QED
    BY <1>2, <2>1 DEF FromWord
<1>7. Word(FromWord(t, n)) = SubSeq(t, p, e)
  BY <1>4, <1>6, WordAt
<1>8. /\ SubSeq(t, p, e) \in Seq(C) /\ Len(SubSeq(t, p, e)) = e - p + 1
      /\ Len(SubSeq(t, p, Len(t))) = Len(t) - p + 1
  <2>1. p \in 1 .. Len(t) + 1 /\ e \in p - 1 .. Len(t) /\ Len(t) \in p - 1 .. Len(t)
    BY <1>1, <1>3
  <2> QED
    BY <2>1, PartOfText
<1>9. e - p + 1 \in 1 .. Len(t) - p + 1
  BY <1>1, <1>3
<1> QED
  BY <1>5, <1>6, <1>7, <1>8, <1>9

LEMMA ArgumentsAreFromFirstWord ==
  ASSUME NEW C, NEW t \in Seq(C)
  PROVE  Arguments(t) = FromWord(t, 1)
<1> DEFINE L == Len(t)
           W == Starts(t)
           S == {i \in 1 .. L : t[i] # "sp"} \union {L + 1}
<1>1. /\ L \in Nat /\ W \in SUBSET (1 .. L) /\ Cardinality(W) \in Nat
      /\ \A n \in 1 .. Cardinality(W) : Nth(W, n) \in W /\ Nth(W, n) \in 1 .. L
  BY StartsOfText
<1>2. \A i \in W : t[i] # "sp"
  BY DEF Starts
<1>3. PICK q : q = Min(S)
  OBVIOUS
<1>4. Arguments(t) = SubSeq(t, q, L)
  BY <1>3 DEF Arguments
<1> HIDE DEF L, W
<1>5. S \in SUBSET Nat /\ S # {}
  BY <1>1
<1>6. q \in S /\ \A i \in S : q <= i
  <2> HIDE DEF S
  <2> QED
    BY <1>3, <1>5, LeastIsThere
<1>7. \A i \in W : i \in S
  BY <1>1, <1>2
<1>8. CASE q = L + 1
  <2>1. 1 \notin 1 .. Cardinality(W)
    <3> SUFFICES ASSUME 1 \in 1 .. Cardinality(W) PROVE FALSE
      OBVIOUS
    <3>1. Nth(W, 1) \in W /\ Nth(W, 1) \in 1 .. L
      BY <1>1
    <3>2. q <= Nth(W, 1)
      BY <1>6, <1>7, <3>1
    <3> QED
      BY <1>1, <1>8, <3>1, <3>2
  <2>2. 1 > Cardinality(W)
    BY <1>1, <2>1
  <2> QED
    BY <1>4, <1>8, <2>2, EmptyRest DEF FromWord, W, L
<1>9. CASE q # L + 1
  <2>1. q \in 1 .. L /\ t[q] # "sp"
    BY <1>6, <1>9
  <2>2. q = 1 \/ t[q - 1] = "sp"
    <3> SUFFICES ASSUME q # 1, t[q - 1] # "sp" PROVE FALSE
      OBVIOUS
    <3>1. q - 1 \in S /\ ~(q <= q - 1)
      BY <1>1, <2>1
    <3> QED
      BY <1>6, <3>1
  <2>3. q \in W
    BY <2>1, <2>2 DEF W, Starts, L
  <2>4. 1 \in 1 .. Cardinality(W) /\ Nth(W, 1) <= q
    BY <1>1, <2>3, NthHasFirst
  <2>5. Nth(W, 1) = q
    <3>1. Nth(W, 1) \in W /\ Nth(W, 1) \in 1 .. L
      BY <1>1, <2>4
    <3>2. q <= Nth(W, 1)
      BY <1>6, <1>7, <3>1
    <3> QED
      BY <2>1, <2>4, <3>1, <3>2
  <2>6. ~(1 > Cardinality(W))
    BY <1>1, <2>4
  <2> QED
    BY <1>4, <2>5, <2>6 DEF FromWord, W, L
<1> QED
  BY <1>8, <1>9

-----------------------------------------------------------------------------
(* What the parser has in front of it after n words.                       *)
LEMMA PassedIs ==
  ASSUME NEW C, NEW t \in Seq(C), NEW n \in Nat
  PROVE  Passed(Arguments(t), n) = FromWord(t, n + 1)
<1> DEFINE a == Arguments(t)
           Q(f) == f = [k \in 0 .. n |-> IF k = 0 THEN a ELSE GoToNext(f[k - 1])]
           c == CHOOSE f : Q(f)
           d == [k \in 0 .. n |-> FromWord(t, k + 1)]
<1>1. Passed(a, n) = c[n]
  BY DEF Passed
<1>2. Q(d)
  <2>1. ASSUME NEW k \in 0 .. n
        PROVE  FromWord(t, k + 1) = IF k = 0 THEN a ELSE GoToNext(d[k - 1])
    <3>1. CASE k = 0
      <4>1. k + 1 = 1
        BY <3>1
      <4> QED
        BY <3>1, <4>1, ArgumentsAreFromFirstWord
    <3>2. CASE k # 0
      <4>1. k \in Nat \ {0} /\ k - 1 \in 0 .. n /\ (k - 1) + 1 = k
        BY <3>2
      <4>2. d[k - 1] = FromWord(t, k)
        BY <4>1
      <4>3. GoToNext(FromWord(t, k)) = FromWord(t, k + 1)
        BY <4>1, NextWord
      <4> HIDE DEF d, a
      <4> QED
        BY <3>2, <4>2, <4>3
    <3> QED
      BY <3>1, <3>2
  <2> HIDE DEF a
  <2> QED
    BY <2>1
<1>3. Q(c)
  <2> HIDE DEF Q
  <2> QED
    BY <1>2
<1> HIDE DEF c, a
<1> DEFINE P == {k \in 0 .. n : c[k] = FromWord(t, k + 1)}
<1>4. \A k \in 0 .. n : k \in P
  <2>1. 0 \in P
    <3>1. c[0] = a
      BY <1>3
    <3>2. a = FromWord(t, 0 + 1)
      BY ArgumentsAreFromFirstWord DEF a
    <3> QED
      BY <3>1, <3>2
  <2>2. ASSUME NEW k \in 0 .. n - 1, k \in P PROVE k + 1 \in P
    <3>1. k + 1 \in 0 .. n /\ (k + 1) - 1 = k /\ k + 1 # 0 /\ k + 1 \in Nat \ {0}
      OBVIOUS
    <3>2. c[k + 1] = GoToNext(c[k])
      BY <1>3, <3>1
    <3>3. c[k] = FromWord(t, k + 1)
      BY <2>2
    <3>4. GoToNext(FromWord(t, k + 1)) = FromWord(t, (k + 1) + 1)
      BY <3>1, NextWord
    <3> QED
      BY <3>1, <3>2, <3>3, <3>4
  <2> HIDE DEF P
  <2> QED
    BY <2>1, <2>2, InductionUpTo
<1>5. c[n] = FromWord(t, n + 1)
  BY <1>4
<1> QED
  BY <1>1, <1>5 DEF a

LEMMA WordsAreSplit ==
  ASSUME NEW C, text \in Seq(C)
  PROVE  WordsAreSplitAtBlanks
<1>1. ASSUME NEW n \in 0 .. Len(Words(text))
      PROVE  Passed(args, n) = FromWord(text, n + 1)
  <2>1. n \in Nat
    BY StartsOfText
  <2> QED
    BY <2>1, PassedIs DEF args
<1>2. ASSUME NEW n \in 1 .. Len(Words(text))
      PROVE  Word(Passed(args, n - 1)) = Words(text)[n]
  <2>1. Len(Words(text)) \in Nat
    BY StartsOfText
  <2>2. n - 1 \in Nat /\ (n - 1) + 1 = n
    BY <2>1
  <2>3. Passed(args, n - 1) = FromWord(text, n)
    BY <2>2, PassedIs DEF args
  <2> QED
    BY <2>3, WordAtNth
<1> QED
  BY <1>1, <1>2 DEF WordsAreSplitAtBlanks

-----------------------------------------------------------------------------
(* Numbers.  Strtol returns a number whatever the word.                    *)
LEMMA DecimalIsHex ==
  ASSUME NEW c \in ToSet(SubSeq(Hex, 1, 10))
  PROVE  IsHex(c)
<1> DEFINE S == {Hex[i] : i \in 1 .. 16}
<1>1. Hex = [i \in 1 .. 16 |-> Hex[i]] /\ Len(Hex) = 16
  BY DEF Hex
<1>2. Hex \in Seq(S)
  BY <1>1, SeqDef
<1> HIDE DEF S
<1>3. /\ SubSeq(Hex, 1, 10) \in Seq(S) /\ Len(SubSeq(Hex, 1, 10)) = 10 - 1 + 1
      /\ \A v \in 1 .. 10 - 1 + 1 : SubSeq(Hex, 1, 10)[v] = Hex[1 + v - 1]
  <2>1. 1 \in 1 .. Len(Hex) + 1 /\ 10 \in 1 - 1 .. Len(Hex)
    BY <1>1
  <2> QED
    BY <1>2, <2>1, PartOfText
<1>4. PICK v \in 1 .. 10 : c = SubSeq(Hex, 1, 10)[v]
  BY <1>3 DEF ToSet
<1>5. v \in 1 .. 10 - 1 + 1 /\ 1 + v - 1 = v /\ v \in 1 .. 16
  OBVIOUS
<1>6. c = Hex[v]
  BY <1>3, <1>4, <1>5
<1> QED
  BY <1>5, <1>6, DigitOfValue

LEMMA StrtolType ==
  ASSUME NEW C, NEW w \in Seq(C)
  PROVE  Strtol(w) \in Int
<1> DEFINE sign == IF w # <<>> /\ w[1] = "dash" THEN 1 ELSE 0
           IsDigit(x) == x \in ToSet(SubSeq(Hex, 1, 10))
           E == {i \in sign + 1 .. Len(w) : ~IsDigit(w[i])} \union {Len(w) + 1}
           digits == SubSeq(w, sign + 1, Min(E) - 1)
           L == Len(digits)
           Q(f) == f = [k \in 0 .. L |-> IF k = 0 THEN 0
                                         ELSE 10 * f[k - 1] + HexValue(digits[k])]
           c == CHOOSE f : Q(f)
<1>1. Strtol(w) = IF sign = 1 THEN 0 - c[L] ELSE c[L]
  BY DEF Strtol
<1>2. PICK s \in {0, 1} : s = sign /\ s <= Len(w)
  <2>1. w # <<>> => Len(w) >= 1
    OBVIOUS
  <2> QED
    BY <2>1
<1> HIDE DEF sign, IsDigit
<1>3. E \in SUBSET Nat /\ E # {}
  BY <1>2
<1>4. PICK end : end = Min(E)
  OBVIOUS
<1>5. end \in E /\ \A i \in E : end <= i
  <2> HIDE DEF E
  <2> QED
    BY <1>3, <1>4, LeastIsThere
<1>6. Len(w) \in Nat /\ end \in s + 1 .. Len(w) + 1
  BY <1>2, <1>5
<1>7. ASSUME NEW i \in s + 1 .. end - 1 PROVE IsDigit(w[i])
  <2>1. i \in s + 1 .. Len(w) /\ ~(end <= i)
    BY <1>6
  <2> QED
    BY <1>2, <1>5, <2>1
<1>8. /\ digits \in Seq(C) /\ L = (end - 1) - (s + 1) + 1
      /\ \A k \in 1 .. (end - 1) - (s + 1) + 1 : digits[k] = w[s + 1 + k - 1]
  <2>1. s + 1 \in 1 .. Len(w) + 1 /\ end - 1 \in (s + 1) - 1 .. Len(w)
    BY <1>6
  <2>2. digits = SubSeq(w, s + 1, end - 1)
    BY <1>2, <1>4
  <2> QED
    BY <2>1, <2>2, PartOfText
<1> HIDE DEF digits, E
<1>9. L \in Nat
  BY <1>6, <1>8
<1>10. ASSUME NEW k \in 1 .. L PROVE HexValue(digits[k]) \in 0 .. 15
  <2>1. k \in 1 .. (end - 1) - (s + 1) + 1 /\ s + 1 + k - 1 \in s + 1 .. end - 1
    BY <1>6, <1>8
  <2>2. IsDigit(digits[k])
    BY <1>7, <1>8, <2>1
  <2> QED
    BY <2>2, DecimalIsHex, ValueOfDigit DEF IsDigit
<1> HIDE DEF L
<1> DEFINE g == [k \in 1 .. L |-> [x \in Int |-> 10 * x + HexValue(digits[k])]]
<1>11. \A k \in 1 .. L : g[k] \in [Int -> Int]
  BY <1>10
<1>12. \E d : Unfolds(d, L, Int, 0, g)
  <2>1. PICK N : N = Int
    OBVIOUS
  <2> HIDE DEF g
  <2>2. 0 \in N /\ \A k \in 1 .. L : g[k] \in [N -> N]
    BY <1>11, <2>1
  <2>3. \E d : Unfolds(d, L, N, 0, g)
    BY <1>9, <2>2, Recursion
  <2> QED
    BY <2>1, <2>3
<1>13. PICK d : /\ d \in [0 .. L -> Int] /\ d[0] = 0
                /\ \A k \in 1 .. L : d[k] = g[k][d[k - 1]]
  <2> HIDE DEF g
  <2> QED
    BY <1>12 DEF Unfolds
<1>14. Q(d)
  <2>1. ASSUME NEW k \in 0 .. L
        PROVE  d[k] = IF k = 0 THEN 0 ELSE 10 * d[k - 1] + HexValue(digits[k])
    <3>1. CASE k = 0
      BY <1>13, <3>1
    <3>2. CASE k # 0
      <4>1. k \in 1 .. L /\ k - 1 \in 0 .. L
        BY <1>9, <3>2
      <4>2. d[k - 1] \in Int
        BY <1>13, <4>1
      <4>3. g[k][d[k - 1]] = 10 * d[k - 1] + HexValue(digits[k])
        BY <4>1, <4>2
      <4> HIDE DEF g
      <4> QED
        BY <1>13, <3>2, <4>1, <4>3
    <3> QED
      BY <3>1, <3>2
  <2> QED
    BY <1>13, <2>1
<1>15. Q(c)
  <2> HIDE DEF Q
  <2> QED
    BY <1>14
<1> HIDE DEF c
<1> DEFINE P == {k \in 0 .. L : c[k] \in Int}
<1>16. \A k \in 0 .. L : k \in P
  <2>1. 0 \in P
    BY <1>9, <1>15
  <2>2. ASSUME NEW k \in 0 .. L - 1, k \in P PROVE k + 1 \in P
    <3>1. k + 1 \in 0 .. L /\ (k + 1) - 1 = k /\ k + 1 # 0 /\ k + 1 \in 1 .. L
      BY <1>9
    <3>2. c[k + 1] = 10 * c[k] + HexValue(digits[k + 1])
      BY <1>15, <3>1
    <3>3. c[k] \in Int /\ HexValue(digits[k + 1]) \in 0 .. 15
      BY <1>10, <2>2, <3>1
    <3> QED
      BY <3>1, <3>2, <3>3
  <2> HIDE DEF P
  <2> QED
    BY <1>9, <2>1, <2>2, InductionUpTo
<1>17. c[L] \in Int
  BY <1>9, <1>16
<1> QED
  BY <1>1, <1>17

-----------------------------------------------------------------------------
(* What the handlers' helpers return on the words of a text.               *)
LEMMA WordsOfText ==
  ASSUME NEW C, NEW t \in Seq(C)
  PROVE  Words(t) \in Seq(Seq(C)) /\ (Words(t) # <<>> <=> 1 \in 1 .. Len(Words(t)))
<1>1. PICK N \in Nat : N = Cardinality(Starts(t)) /\ N = Len(Words(t))
  BY StartsOfText
<1>2. PICK w : w = Words(t)
  OBVIOUS
<1>3. w = [n \in 1 .. N |-> w[n]]
  BY <1>1, <1>2 DEF Words
<1>4. \A n \in 1 .. N : w[n] \in Seq(C)
  BY <1>1, <1>2, WordAtNth
<1>5. PICK T : T = Seq(C)
  OBVIOUS
<1>6. w \in [1 .. N -> T]
  BY <1>3, <1>4, <1>5
<1>7. w \in Seq(T)
  BY <1>6, SeqDef
<1>8. w # <<>> <=> Len(w) # 0
  BY <1>7
<1> QED
  BY <1>1, <1>2, <1>5, <1>7, <1>8

LEMMA TakenWord ==
  ASSUME NEW C, NEW t \in Seq(C), NEW n \in Nat \ {0}
  PROVE  /\ FromWord(t, n) # <<>> <=> n <= Len(Words(t))
         /\ FromWord(t, n) # <<>> => /\ Word(FromWord(t, n)) = Words(t)[n]
                                     /\ Word(FromWord(t, n)) # <<>>
         /\ Word(FromWord(t, n)) \in Seq(C)
<1>1. FromWord(t, n) # <<>> <=> n <= Len(Words(t))
  BY FromWordIsText
<1>2. ASSUME FromWord(t, n) # <<>>
      PROVE  /\ Word(FromWord(t, n)) = Words(t)[n] /\ Word(FromWord(t, n)) # <<>>
             /\ Word(FromWord(t, n)) \in Seq(C)
  <2>1. n \in 1 .. Len(Words(t))
    BY <1>1, <1>2, StartsOfText
  <2>2. /\ Word(FromWord(t, n)) = Words(t)[n] /\ Words(t)[n] \in Seq(C)
        /\ Len(Words(t)[n]) \in 1 .. Len(FromWord(t, n))
    BY <2>1, WordAtNth
  <2>3. PICK w \in Seq(C) : w = Words(t)[n]
    BY <2>2
  <2>4. w # <<>>
    <3>1. Len(w) # 0
      BY <2>2, <2>3
    <3> QED
      BY <3>1
  <2> QED
    BY <2>2, <2>3, <2>4
<1>3. ASSUME FromWord(t, n) = <<>> PROVE Word(FromWord(t, n)) \in Seq(C)
  <2>1. Word(FromWord(t, n)) = <<>>
    BY <1>3, EmptyText
  <2>2. <<>> \in Seq(C)
    OBVIOUS
  <2> QED
    BY <2>1, <2>2
<1>4. Word(FromWord(t, n)) \in Seq(C)
  BY <1>2, <1>3
<1> QED
  BY <1>1, <1>2, <1>4

LEMMA IntArgOfText ==
  ASSUME NEW C, NEW t \in Seq(C), NEW n \in Nat \ {0}, NEW min \in Int, NEW max \in Int
  PROVE  /\ IntArg(FromWord(t, n), min, max).rest = FromWord(t, n + 1)
         /\ IntArg(FromWord(t, n), min, max).ok =>
              /\ n <= Len(Words(t)) /\ IntArg(FromWord(t, n), min, max).value \in Int
              /\ min <= IntArg(FromWord(t, n), min, max).value
              /\ IntArg(FromWord(t, n), min, max).value <= max
<1>1. PICK a : a = FromWord(t, n)
  OBVIOUS
<1>2. GoToNext(a) = FromWord(t, n + 1)
  BY <1>1, NextWord
<1>3. Strtol(Word(a)) \in Int
  BY <1>1, TakenWord, StrtolType
<1>4. a # <<>> => n <= Len(Words(t))
  BY <1>1, TakenWord
<1>5. PICK v \in Int : v = Strtol(Word(a))
  BY <1>3
<1>6. PICK ok \in BOOLEAN : ok <=> a # <<>> /\ min <= v /\ v <= max
  OBVIOUS
<1>7. ok => n <= Len(Words(t)) /\ v \in Int /\ min <= v /\ v <= max
  BY <1>4, <1>6
<1>8. IntArg(a, min, max) = [ok |-> ok, value |-> v, rest |-> FromWord(t, n + 1)]
  BY <1>2, <1>5, <1>6 DEF IntArg
<1> QED
  BY <1>1, <1>7, <1>8

(* The number that a text has for its n-th word.                           *)
LEMMA TypedNumber ==
  ASSUME NEW C, NEW t \in Seq(C), NEW n \in Nat \ {0}
  PROVE  /\ FromWord(t, n) = <<>> <=> ~(n <= Len(Words(t)))
         /\ Strtol(Word(FromWord(t, n))) \in Int
         /\ n <= Len(Words(t)) => Strtol(Word(FromWord(t, n))) = Strtol(Words(t)[n])
  BY TakenWord, StrtolType

(* A number is read exactly if it is within the range, and as it is typed. *)
LEMMA IntArgTaken ==
  ASSUME NEW C, NEW t \in Seq(C), NEW n \in Nat \ {0}, NEW min \in Int, NEW max \in Int
  PROVE  /\ IntArg(FromWord(t, n), min, max).ok <=>
              n <= Len(Words(t)) /\ Strtol(Words(t)[n]) \in min .. max
         /\ n <= Len(Words(t)) =>
              IntArg(FromWord(t, n), min, max).value = Strtol(Words(t)[n])
<1>1. PICK a : a = FromWord(t, n)
  OBVIOUS
<1>2. PICK v \in Int : v = Strtol(Word(a))
  BY <1>1, TypedNumber
<1>3. /\ IntArg(a, min, max).value = v
      /\ IntArg(a, min, max).ok <=> a # <<>> /\ min <= v /\ v <= max
  BY <1>1, <1>2 DEF IntArg
<1>4. v \in min .. max <=> min <= v /\ v <= max
  OBVIOUS
<1>5. /\ a # <<>> <=> n <= Len(Words(t))
      /\ n <= Len(Words(t)) => v = Strtol(Words(t)[n])
  BY <1>1, <1>2, TypedNumber
<1> QED
  BY <1>1, <1>3, <1>4, <1>5

LEMMA ConnArgOfText ==
  ASSUME NEW C, NEW t \in Seq(C), MaxConnectionCount \in Nat
  PROVE  /\ ConnArg(FromWord(t, 1)).rest = FromWord(t, 2)
         /\ ConnArg(FromWord(t, 1)).ok =>
              /\ 1 <= Len(Words(t))
              /\ ConnArg(FromWord(t, 1)).value \in -1 .. MaxConnectionCount + 1
<1>1. 1 \in Nat \ {0} /\ -1 \in Int /\ MaxConnectionCount + 1 \in Int /\ 1 + 1 = 2
  OBVIOUS
<1>2. PICK r : r = IntArg(FromWord(t, 1), -1, MaxConnectionCount + 1)
  OBVIOUS
<1>3. /\ r.rest = FromWord(t, 1 + 1)
      /\ r.ok => /\ 1 <= Len(Words(t)) /\ r.value \in Int
                 /\ -1 <= r.value /\ r.value <= MaxConnectionCount + 1
  BY <1>1, <1>2, IntArgOfText
<1> QED
  BY <1>1, <1>2, <1>3 DEF ConnArg

(* A word is decoded as a key exactly if it is one.                        *)
LEMMA KeyIsDecoded ==
  ASSUME NEW C, NEW w \in Seq(C), KeyBytes \in Nat
  PROVE  /\ Len(w) = 2 * KeyBytes /\ Decode(w, KeyBytes).ok <=> IsKey(w)
         /\ IsKey(w) => Decode(w, KeyBytes).bytes = BytesOf(w)
<1>1. ASSUME IsKey(w)
      PROVE  /\ Len(w) = 2 * KeyBytes /\ Decode(w, KeyBytes).ok
             /\ Decode(w, KeyBytes).bytes = BytesOf(w)
  <2>1. Len(w) = 2 * KeyBytes /\ HexDigits(w) = w
    BY <1>1, OnlyDigits DEF IsKey
  <2>2. Decode(w, KeyBytes).ok
    BY <2>1, DecodeIs
  <2>3. Decode(w, KeyBytes) = [ok |-> TRUE, bytes |-> BytesOf(w)]
    BY <2>1, <2>2, DecodeIs
  <2> QED
    BY <2>1, <2>2, <2>3
<1>2. ASSUME Len(w) = 2 * KeyBytes, Decode(w, KeyBytes).ok PROVE IsKey(w)
  <2>1. Len(HexDigits(w)) = Len(w)
    BY <1>2, DecodeIs
  <2> QED
    BY <1>2, <2>1, AllAreDigits DEF IsKey
<1> QED
  BY <1>1, <1>2

LEMMA KeyOfText ==
  ASSUME NEW C, NEW t \in Seq(C), KeyBytes \in Nat \ {0}
  PROVE  LET key == KeyArg(FromWord(t, 1))
             typed == Words(t) # <<>> /\ IsKey(Words(t)[1])
         IN  /\ key.ok <=> typed
             /\ typed => key.key = BytesOf(Words(t)[1]) /\ key.rest = FromWord(t, 2)
             /\ key.rest = IF Len(FromWord(t, 1)) < 2 * KeyBytes
                             THEN FromWord(t, 1) ELSE FromWord(t, 2)
<1>1. PICK a \in Seq(C) : a = FromWord(t, 1)
  <2>1. 1 \in Nat \ {0}
    OBVIOUS
  <2> QED
    BY <2>1, FromWordIsText
<1>2. GoToNext(a) = FromWord(t, 2)
  <2>1. 1 \in Nat \ {0} /\ 1 + 1 = 2
    OBVIOUS
  <2>2. GoToNext(FromWord(t, 1)) = FromWord(t, 1 + 1)
    BY <2>1, NextWord
  <2> QED
    BY <1>1, <2>1, <2>2
<1>3. Words(t) # <<>> <=> 1 \in 1 .. Len(Words(t))
  BY WordsOfText
<1>4. CASE ~(1 \in 1 .. Len(Words(t)))
  <2>1. a = <<>>
    <3>1. ~(1 <= Len(Words(t))) /\ 1 \in Nat \ {0}
      BY <1>4, StartsOfText
    <3> QED
      BY <1>1, <3>1, FromWordIsText
  <2>2. Len(a) < 2 * KeyBytes
    BY <2>1
  <2> QED
    BY <1>1, <1>3, <1>4, <2>2 DEF KeyArg
<1>5. CASE 1 \in 1 .. Len(Words(t))
  <2>1. PICK w \in Seq(C) : w = Words(t)[1]
    BY <1>5, WordAtNth
  <2>2. Word(a) = w /\ Len(w) \in 1 .. Len(a)
    BY <1>1, <1>5, <2>1, WordAtNth
  <2>3. /\ Len(w) = 2 * KeyBytes /\ Decode(w, KeyBytes).ok <=> IsKey(w)
        /\ IsKey(w) => Decode(w, KeyBytes).bytes = BytesOf(w)
    BY KeyIsDecoded
  <2>4. Words(t) # <<>>
    BY <1>3, <1>5
  <2>5. CASE Len(a) < 2 * KeyBytes
    <3>1. ~IsKey(w)
      <4>1. Len(w) # 2 * KeyBytes
        BY <2>2, <2>5
      <4> QED
        BY <4>1 DEF IsKey
    <3>2. KeyArg(a) = [ok |-> FALSE, key |-> <<>>, rest |-> a]
      BY <2>5 DEF KeyArg
    <3> QED
      BY <1>1, <2>1, <2>5, <3>1, <3>2
  <2>6. CASE ~(Len(a) < 2 * KeyBytes)
    <3> DEFINE ok == Len(w) = 2 * KeyBytes /\ Decode(w, KeyBytes).ok
    <3>1. KeyArg(a) = [ok |-> ok, key |-> Decode(w, KeyBytes).bytes,
                       rest |-> FromWord(t, 2)]
      BY <1>2, <2>2, <2>6 DEF KeyArg
    <3>6. ok <=> IsKey(w)
      BY <2>3
    <3>2. PICK k : k = KeyArg(a)
      OBVIOUS
    <3> HIDE DEF ok
    <3>3. k.ok <=> IsKey(w)
      BY <3>1, <3>2, <3>6
    <3>4. k.rest = FromWord(t, 2) /\ (IsKey(w) => k.key = BytesOf(w))
      BY <2>3, <3>1, <3>2
    <3>5. Words(t) # <<>> /\ IsKey(Words(t)[1]) <=> IsKey(w)
      BY <2>1, <2>4
    <3> QED
      BY <1>1, <2>1, <2>6, <3>2, <3>3, <3>4, <3>5
  <2> QED
    BY <2>5, <2>6
<1> QED
  BY <1>4, <1>5

LEMMA HexDataOfText ==
  ASSUME NEW C, NEW s \in Seq(C), MaxDataBytes \in Nat, HexData(s).ok
  PROVE  LET bytes == HexData(s).bytes
         IN  /\ s # <<>> /\ HexDigits(s) = s /\ Len(s) = 2 * Len(bytes)
             /\ bytes = BytesOf(s) /\ Len(bytes) \in 1 .. MaxDataBytes
<1>1. PICK n : n = Len(s) \div 2
  OBVIOUS
<1>2. /\ Len(s) >= 2 /\ Len(s) % 2 = 0 /\ n <= MaxDataBytes /\ Decode(s, n).ok
      /\ HexData(s).bytes = Decode(s, n).bytes
  BY <1>1 DEF HexData
<1>3. n \in Nat /\ Len(s) = 2 * n /\ n >= 1
  BY <1>1, <1>2
<1>4. Len(HexDigits(s)) = Len(s)
  BY <1>2, <1>3, DecodeIs
<1>5. HexDigits(s) = s
  BY <1>4, AllAreDigits, OnlyDigits
<1>6. /\ Decode(s, n) = [ok |-> TRUE, bytes |-> BytesOf(s)]
      /\ Len(BytesOf(s)) = n
  BY <1>2, <1>3, <1>5, DecodeIs
<1>7. s # <<>>
  BY <1>2
<1> QED
  BY <1>2, <1>3, <1>5, <1>6, <1>7

LEMMA ProtocolOfText ==
  ASSUME NEW C, NEW t \in Seq(C), NEW n \in Nat \ {0}
  PROVE  /\ ProtocolArg(FromWord(t, n)) =
              IF n > Len(Words(t)) THEN <<"chat-client">> ELSE Words(t)[n]
         /\ ProtocolArg(FromWord(t, n)) # <<>>
<1>1. Len(Words(t)) \in Nat
  BY StartsOfText
<1>2. n > Len(Words(t)) <=> FromWord(t, n) = <<>>
  <2>1. FromWord(t, n) # <<>> <=> n <= Len(Words(t))
    BY TakenWord
  <2> QED
    BY <1>1, <2>1
<1>3. FromWord(t, n) # <<>> => /\ Word(FromWord(t, n)) = Words(t)[n]
                              /\ Word(FromWord(t, n)) # <<>>
  BY TakenWord
<1>4. <<"chat-client">> # <<>>
  OBVIOUS
<1> QED
  BY <1>2, <1>3, <1>4 DEF ProtocolArg

-----------------------------------------------------------------------------
(* The requests of a text: the words behind each of them, and what is handed on. *)
LEMMA SendOfText ==
  ASSUME NEW C, NEW t \in Seq(C), MaxConnectionCount \in Nat,
         NEW r, r = Send(FromWord(t, 1)), r # Refused
  PROVE  /\ r[3] = FromWord(t, 2) /\ r[2] \in -1 .. MaxConnectionCount + 1
         /\ 1 <= Len(Words(t))
<1>1. PICK conn : conn = ConnArg(FromWord(t, 1))
  OBVIOUS
<1>2. conn.ok /\ r = <<"send", conn.value, conn.rest>>
  BY <1>1 DEF Send
<1> QED
  BY <1>1, <1>2, ConnArgOfText

LEMMA SendAppendOfText ==
  ASSUME NEW C, NEW t \in Seq(C), MaxConnectionCount \in Nat,
         NEW r, r = SendAppend(FromWord(t, 1)), r # Refused
  PROVE  r[3] = FromWord(t, 3) /\ 2 <= Len(Words(t))
<1>1. PICK conn : conn = ConnArg(FromWord(t, 1))
  OBVIOUS
<1>2. PICK flush : flush = IntArg(conn.rest, 0, 1)
  OBVIOUS
<1>3. conn.ok /\ flush.ok /\ r = <<"append", conn.value, flush.rest, flush.value>>
  BY <1>1, <1>2 DEF SendAppend
<1>4. flush = IntArg(FromWord(t, 2), 0, 1)
  BY <1>1, <1>2, ConnArgOfText
<1>5. flush.rest = FromWord(t, 3) /\ 2 <= Len(Words(t))
  <2>1. 2 \in Nat \ {0} /\ 0 \in Int /\ 1 \in Int /\ 2 + 1 = 3
    OBVIOUS
  <2>2. flush.rest = FromWord(t, 2 + 1) /\ (flush.ok => 2 <= Len(Words(t)))
    BY <1>4, <2>1, IntArgOfText
  <2> QED
    BY <1>3, <2>1, <2>2
<1> QED
  BY <1>3, <1>5

LEMMA SendHexOfText ==
  ASSUME NEW C, NEW t \in Seq(C), MaxConnectionCount \in Nat, MaxDataBytes \in Nat,
         NEW r, r = SendHex(FromWord(t, 1)), r # Refused
  PROVE  /\ HexDigits(FromWord(t, 2)) = FromWord(t, 2)
         /\ Len(FromWord(t, 2)) = 2 * Len(r[3])
         /\ r[3] = BytesOf(FromWord(t, 2)) /\ Len(r[3]) \in 1 .. MaxDataBytes
         /\ 2 <= Len(Words(t))
<1>1. PICK conn : conn = ConnArg(FromWord(t, 1))
  OBVIOUS
<1>2. PICK data : data = HexData(conn.rest)
  OBVIOUS
<1>3. data.ok /\ r = <<"send", conn.value, data.bytes>>
  BY <1>1, <1>2 DEF SendHex
<1>4. PICK s \in Seq(C) : s = FromWord(t, 2)
  <2>1. 2 \in Nat \ {0}
    OBVIOUS
  <2> QED
    BY <2>1, FromWordIsText
<1>5. data = HexData(s)
  BY <1>1, <1>2, <1>4, ConnArgOfText
<1>6. /\ s # <<>> /\ HexDigits(s) = s /\ Len(s) = 2 * Len(data.bytes)
      /\ data.bytes = BytesOf(s) /\ Len(data.bytes) \in 1 .. MaxDataBytes
  BY <1>3, <1>5, HexDataOfText
<1>7. 2 <= Len(Words(t))
  <2>1. 2 \in Nat \ {0}
    OBVIOUS
  <2> QED
    BY <1>4, <1>6, <2>1, TakenWord
<1>8. r[3] = data.bytes
  BY <1>3
<1> QED
  BY <1>4, <1>6, <1>7, <1>8

LEMMA SendHexAppendOfText ==
  ASSUME NEW C, NEW t \in Seq(C), MaxConnectionCount \in Nat, MaxDataBytes \in Nat,
         NEW r, r = SendHexAppend(FromWord(t, 1)), r # Refused
  PROVE  /\ HexDigits(FromWord(t, 3)) = FromWord(t, 3)
         /\ Len(FromWord(t, 3)) = 2 * Len(r[3])
         /\ r[3] = BytesOf(FromWord(t, 3)) /\ Len(r[3]) \in 1 .. MaxDataBytes
         /\ 3 <= Len(Words(t))
<1>1. PICK conn : conn = ConnArg(FromWord(t, 1))
  OBVIOUS
<1>2. PICK flush : flush = IntArg(conn.rest, 0, 1)
  OBVIOUS
<1>3. PICK data : data = HexData(flush.rest)
  OBVIOUS
<1>4. data.ok /\ r = <<"append", conn.value, data.bytes, flush.value>>
  BY <1>1, <1>2, <1>3 DEF SendHexAppend
<1>5. flush = IntArg(FromWord(t, 2), 0, 1)
  BY <1>1, <1>2, ConnArgOfText
<1>6. flush.rest = FromWord(t, 3)
  <2>1. 2 \in Nat \ {0} /\ 0 \in Int /\ 1 \in Int /\ 2 + 1 = 3
    OBVIOUS
  <2>2. flush.rest = FromWord(t, 2 + 1)
    BY <1>5, <2>1, IntArgOfText
  <2> QED
    BY <2>1, <2>2
<1>7. PICK s \in Seq(C) : s = FromWord(t, 3)
  <2>1. 3 \in Nat \ {0}
    OBVIOUS
  <2> QED
    BY <2>1, FromWordIsText
<1>8. data = HexData(s)
  BY <1>3, <1>6, <1>7
<1>9. /\ s # <<>> /\ HexDigits(s) = s /\ Len(s) = 2 * Len(data.bytes)
      /\ data.bytes = BytesOf(s) /\ Len(data.bytes) \in 1 .. MaxDataBytes
  BY <1>4, <1>8, HexDataOfText
<1>10. 3 <= Len(Words(t))
  <2>1. 3 \in Nat \ {0}
    OBVIOUS
  <2> QED
    BY <1>7, <1>9, <2>1, TakenWord
<1>11. r[3] = data.bytes
  BY <1>4
<1> QED
  BY <1>7, <1>9, <1>10, <1>11

LEMMA Messages ==
  ASSUME NEW C, text \in Seq(C), MaxConnectionCount \in Nat, MaxDataBytes \in Nat
  PROVE  MessageIsTheRest
<1>1. PICK a : a = args
  OBVIOUS
<1>2. a = FromWord(text, 1)
  BY <1>1, ArgumentsAreFromFirstWord DEF args
<1>3. Send(a) # Refused => Send(a)[3] = FromWord(text, 2)
  BY <1>2, SendOfText
<1>4. SendAppend(a) # Refused => SendAppend(a)[3] = FromWord(text, 3)
  BY <1>2, SendAppendOfText
<1>5. ASSUME SendHex(a) # Refused
      PROVE  /\ HexDigits(FromWord(text, 2)) = FromWord(text, 2)
             /\ Len(FromWord(text, 2)) = 2 * Len(SendHex(a)[3])
             /\ SendHex(a)[3] = BytesOf(FromWord(text, 2))
             /\ Len(SendHex(a)[3]) \in 1 .. MaxDataBytes
  BY <1>2, <1>5, SendHexOfText
<1>6. ASSUME SendHexAppend(a) # Refused
      PROVE  /\ HexDigits(FromWord(text, 3)) = FromWord(text, 3)
             /\ Len(FromWord(text, 3)) = 2 * Len(SendHexAppend(a)[3])
             /\ SendHexAppend(a)[3] = BytesOf(FromWord(text, 3))
             /\ Len(SendHexAppend(a)[3]) \in 1 .. MaxDataBytes
  BY <1>2, <1>6, SendHexAppendOfText
<1>7. ASSUME NEW r \in {<<SendHex(a), FromWord(text, 2)>>,
                        <<SendHexAppend(a), FromWord(text, 3)>>},
             r[1] # Refused
      PROVE  /\ HexDigits(r[2]) = r[2] /\ Len(r[2]) = 2 * Len(r[1][3])
             /\ r[1][3] = BytesOf(r[2]) /\ Len(r[1][3]) \in 1 .. MaxDataBytes
  <2>1. CASE r = <<SendHex(a), FromWord(text, 2)>>
    <3>1. r[1] = SendHex(a) /\ r[2] = FromWord(text, 2)
      BY <2>1
    <3> QED
      BY <1>5, <1>7, <3>1
  <2>2. CASE r = <<SendHexAppend(a), FromWord(text, 3)>>
    <3>1. r[1] = SendHexAppend(a) /\ r[2] = FromWord(text, 3)
      BY <2>2
    <3> QED
      BY <1>6, <1>7, <3>1
  <2> QED
    BY <2>1, <2>2
<1> QED
  BY <1>1, <1>3, <1>4, <1>7 DEF MessageIsTheRest

LEMMA Keys ==
  ASSUME NEW C, text \in Seq(C), KeyBytes \in Nat \ {0}
  PROVE  KeyIsFirstWord
<1>1. args = FromWord(text, 1)
  BY ArgumentsAreFromFirstWord DEF args
<1>2. PICK key : key = KeyArg(args)
  OBVIOUS
<1> DEFINE typed == Words(text) # <<>> /\ IsKey(Words(text)[1])
<1>3. /\ key.ok <=> typed
      /\ typed => key.key = BytesOf(Words(text)[1]) /\ key.rest = FromWord(text, 2)
  BY <1>1, <1>2, KeyOfText
<1> QED
  BY <1>2, <1>3 DEF KeyIsFirstWord

LEMMA PlaceCallLocalIs ==
  ASSUME NEW a
  PROVE  LET key == KeyArg(a)
             host == key.rest
             port == IntArg(GoToNext(host), 1, 65535)
             r == PlaceCallLocal(a)
         IN  r # Refused =>
               /\ key.ok /\ host # <<>> /\ port.ok
               /\ r[2] = key.key /\ r[3] = ProtocolArg(port.rest) /\ r[4] = Word(host)
               /\ r[5] = port.value
<1> DEFINE key == KeyArg(a)
           host == key.rest
           port == IntArg(GoToNext(host), 1, 65535)
           request == <<"call local", key.key, ProtocolArg(port.rest), Word(host), port.value>>
<1>1. PlaceCallLocal(a) = IF key.ok /\ host # <<>> /\ port.ok THEN request ELSE Refused
  BY DEF PlaceCallLocal
<1> HIDE DEF key, host, port
<1>2. /\ request[2] = key.key /\ request[3] = ProtocolArg(port.rest)
      /\ request[4] = Word(host) /\ request[5] = port.value
  OBVIOUS
<1> HIDE DEF request
<1>3. PlaceCallLocal(a) # Refused =>
        key.ok /\ host # <<>> /\ port.ok /\ PlaceCallLocal(a) = request
  BY <1>1
<1> QED
  BY <1>2, <1>3 DEF key, host, port

(* A port that a device is called at is the third word.                    *)
LEMMA PortsAre ==
  ASSUME NEW v
  PROVE  v \in Ports <=> v \in Int /\ 0 <= v /\ v <= 65535
<1>1. PICK high \in Int : high = 65535
  OBVIOUS
<1>2. Ports = 0 .. high
  BY <1>1 DEF Ports
<1>3. v \in 0 .. high <=> v \in Int /\ 0 <= v /\ v <= high
  OBVIOUS
<1>4. v \in Ports <=> v \in Int /\ 0 <= v /\ v <= high
  BY <1>2, <1>3
<1> QED
  BY <1>1, <1>4

LEMMA ThirdIsPort ==
  ASSUME NEW C, NEW t \in Seq(C)
  PROVE  LET port == IntArg(FromWord(t, 3), 1, 65535)
         IN  /\ port.ok <=> 3 <= Len(Words(t)) /\ Strtol(Words(t)[3]) \in Ports \ {0}
             /\ port.ok => port.value = Strtol(Words(t)[3])
<1>1. PICK third \in Nat \ {0} : third = 3
  OBVIOUS
<1>2. PICK low \in Int : low = 1
  OBVIOUS
<1>3. PICK high \in Int : high = 65535
  OBVIOUS
<1>4. PICK typed : typed = Strtol(Words(t)[third])
  OBVIOUS
<1>5. /\ IntArg(FromWord(t, third), low, high).ok <=>
            third <= Len(Words(t)) /\ typed \in low .. high
      /\ third <= Len(Words(t)) => IntArg(FromWord(t, third), low, high).value = typed
  BY <1>4, IntArgTaken
<1>6. typed \in Ports \ {0} <=> typed \in low .. high
  <2>1. typed \in Ports <=> typed \in Int /\ 0 <= typed /\ typed <= high
    BY <1>3, PortsAre
  <2> QED
    BY <1>2, <2>1
<1>7. IntArg(FromWord(t, 3), 1, 65535) = IntArg(FromWord(t, third), low, high)
  BY <1>1, <1>2, <1>3
<1> QED
  BY <1>1, <1>4, <1>5, <1>6, <1>7

LEMMA PlaceCallLocalOfText ==
  ASSUME NEW C, NEW t \in Seq(C), KeyBytes \in Nat \ {0},
         NEW r, r = PlaceCallLocal(FromWord(t, 1)), r # Refused
  PROVE  /\ Words(t) # <<>> /\ IsKey(Words(t)[1]) /\ 3 <= Len(Words(t))
         /\ r[2] = BytesOf(Words(t)[1]) /\ r[3] = ProtocolArg(FromWord(t, 4))
         /\ r[4] # <<>> /\ r[5] = Strtol(Words(t)[3]) /\ r[5] \in Ports \ {0}
<1>1. PICK key : key = KeyArg(FromWord(t, 1))
  OBVIOUS
<1>2. PICK host : host = key.rest
  OBVIOUS
<1>3. PICK port : port = IntArg(GoToNext(host), 1, 65535)
  OBVIOUS
<1>4. /\ key.ok /\ host # <<>> /\ port.ok
      /\ r[2] = key.key /\ r[3] = ProtocolArg(port.rest) /\ r[4] = Word(host)
      /\ r[5] = port.value
  BY <1>1, <1>2, <1>3, PlaceCallLocalIs
<1>5. /\ Words(t) # <<>> /\ IsKey(Words(t)[1])
      /\ key.key = BytesOf(Words(t)[1]) /\ host = FromWord(t, 2)
  BY <1>1, <1>2, <1>4, KeyOfText
<1>6. 2 \in Nat \ {0} /\ 3 \in Nat \ {0} /\ 2 + 1 = 3 /\ 3 + 1 = 4 /\ 1 \in Int
  OBVIOUS
<1>7. GoToNext(host) = FromWord(t, 3)
  <2>1. GoToNext(FromWord(t, 2)) = FromWord(t, 2 + 1)
    BY <1>6, NextWord
  <2> QED
    BY <1>5, <1>6, <2>1
<1>8. port.rest = FromWord(t, 4) /\ 3 <= Len(Words(t))
  <2>1. PICK high \in Int : high = 65535
    OBVIOUS
  <2>2. port = IntArg(FromWord(t, 3), 1, high)
    BY <1>3, <1>7, <2>1
  <2>3. port.rest = FromWord(t, 3 + 1) /\ (port.ok => 3 <= Len(Words(t)))
    BY <1>6, <2>2, IntArgOfText
  <2> QED
    BY <1>4, <1>6, <2>3
<1>10. port.value = Strtol(Words(t)[3]) /\ port.value \in Ports \ {0}
  BY <1>3, <1>4, <1>7, ThirdIsPort
<1>9. Word(host) # <<>>
  <2>1. FromWord(t, 2) # <<>> => Word(FromWord(t, 2)) # <<>>
    BY <1>6, TakenWord
  <2> QED
    BY <1>4, <1>5, <2>1
<1> QED
  BY <1>4, <1>5, <1>8, <1>9, <1>10

LEMMA PlaceCallRemoteOfText ==
  ASSUME NEW C, NEW t \in Seq(C), KeyBytes \in Nat \ {0},
         NEW r, r = PlaceCallRemote(FromWord(t, 1))
  PROVE  /\ r[2] = IF Words(t) # <<>> /\ IsKey(Words(t)[1])
                     THEN BytesOf(Words(t)[1]) ELSE Uninitialized
         /\ r[3] = IF Len(FromWord(t, 1)) < 2 * KeyBytes
                     THEN ProtocolArg(FromWord(t, 1)) ELSE ProtocolArg(FromWord(t, 2))
<1> DEFINE typed == Words(t) # <<>> /\ IsKey(Words(t)[1])
<1>1. PICK key : key = KeyArg(FromWord(t, 1))
  OBVIOUS
<1>2. /\ key.ok <=> typed
      /\ typed => key.key = BytesOf(Words(t)[1])
      /\ key.rest = IF Len(FromWord(t, 1)) < 2 * KeyBytes
                      THEN FromWord(t, 1) ELSE FromWord(t, 2)
  BY <1>1, KeyOfText
<1> HIDE DEF typed
<1>3. /\ r[2] = IF key.ok THEN key.key ELSE Uninitialized
      /\ r[3] = ProtocolArg(key.rest)
  BY <1>1 DEF PlaceCallRemote
<1>4. r[2] = IF typed THEN BytesOf(Words(t)[1]) ELSE Uninitialized
  BY <1>2, <1>3
<1> QED
  BY <1>2, <1>3, <1>4 DEF typed

LEMMA CalledKeys ==
  ASSUME NEW C, text \in Seq(C), KeyBytes \in Nat \ {0}
  PROVE  CalledKeyWasTyped
<1> DEFINE words == Words(text)
           Typed(n) == IF n > Len(words) THEN <<"chat-client">> ELSE words[n]
           keyTyped == words # <<>> /\ IsKey(words[1])
<1>1. PICK a : a = args
  OBVIOUS
<1>2. a = FromWord(text, 1)
  BY <1>1, ArgumentsAreFromFirstWord DEF args
<1>3. \A n \in Nat \ {0} : ProtocolArg(FromWord(text, n)) = Typed(n)
  BY ProtocolOfText
<1>4. 1 \in Nat \ {0} /\ 2 \in Nat \ {0} /\ 4 \in Nat \ {0}
  OBVIOUS
<1>5. PICK local : local = PlaceCallLocal(a)
  OBVIOUS
<1>6. PICK remote : remote = PlaceCallRemote(a)
  OBVIOUS
<1>7. ASSUME local # Refused
      PROVE  keyTyped /\ local[2] = BytesOf(words[1]) /\ local[3] = Typed(4)
  <2>1. keyTyped /\ local[2] = BytesOf(words[1]) /\ local[3] = ProtocolArg(FromWord(text, 4))
    BY <1>2, <1>5, <1>7, PlaceCallLocalOfText
  <2>2. ProtocolArg(FromWord(text, 4)) = Typed(4)
    BY <1>3, <1>4
  <2> QED
    BY <2>1, <2>2
<1>8. remote[2] = IF keyTyped THEN BytesOf(words[1]) ELSE Uninitialized
  BY <1>2, <1>6, PlaceCallRemoteOfText
<1>9. remote[3] = Typed(IF Len(FromWord(text, 1)) < 2 * KeyBytes THEN 1 ELSE 2)
  <2>1. ProtocolArg(FromWord(text, 1)) = Typed(1) /\ ProtocolArg(FromWord(text, 2)) = Typed(2)
    BY <1>3, <1>4
  <2>2. remote[3] = IF Len(FromWord(text, 1)) < 2 * KeyBytes
                      THEN ProtocolArg(FromWord(text, 1)) ELSE ProtocolArg(FromWord(text, 2))
    BY <1>2, <1>6, PlaceCallRemoteOfText
  <2>3. CASE Len(FromWord(text, 1)) < 2 * KeyBytes
    BY <2>1, <2>2, <2>3
  <2>4. CASE ~(Len(FromWord(text, 1)) < 2 * KeyBytes)
    BY <2>1, <2>2, <2>4
  <2> QED
    BY <2>3, <2>4
<1> QED
  BY <1>1, <1>5, <1>6, <1>7, <1>8, <1>9 DEF CalledKeyWasTyped
LEMMA PairLocalIs ==
  ASSUME NEW a
  PROVE  LET host == GoToNext(a)
             port == IntArg(GoToNext(host), 1, 65535)
             r == PairLocal(a)
         IN  /\ r # Refused <=> a # <<>> /\ host # <<>> /\ port.ok
             /\ r # Refused =>
                  r[2] = Word(a) /\ r[3] = Word(host) /\ r[4] = port.value
<1> DEFINE host == GoToNext(a)
           port == IntArg(GoToNext(host), 1, 65535)
           request == <<"pair local", Word(a), Word(host), port.value>>
<1>1. PairLocal(a) = IF a # <<>> /\ host # <<>> /\ port.ok THEN request ELSE Refused
  BY DEF PairLocal
<1> HIDE DEF host, port
<1>2. request[2] = Word(a) /\ request[3] = Word(host) /\ request[4] = port.value
  OBVIOUS
<1>4. request # Refused
  BY DEF Refused
<1> HIDE DEF request
<1>3. /\ PairLocal(a) # Refused <=> a # <<>> /\ host # <<>> /\ port.ok
      /\ PairLocal(a) # Refused => PairLocal(a) = request
  BY <1>1, <1>4
<1> QED
  BY <1>2, <1>3 DEF host, port

LEMMA PairLocalOfText ==
  ASSUME NEW C, NEW t \in Seq(C), NEW r, r = PairLocal(FromWord(t, 1))
  PROVE  /\ r # Refused <=> 3 <= Len(Words(t)) /\ Strtol(Words(t)[3]) \in Ports \ {0}
         /\ r # Refused => /\ r[2] # <<>> /\ r[3] # <<>>
                           /\ r[4] = Strtol(Words(t)[3])
<1>1. PICK a : a = FromWord(t, 1)
  OBVIOUS
<1>2. PICK host : host = GoToNext(a)
  OBVIOUS
<1>3. PICK port : port = IntArg(GoToNext(host), 1, 65535)
  OBVIOUS
<1>4. /\ r # Refused <=> a # <<>> /\ host # <<>> /\ port.ok
      /\ r # Refused => r[2] = Word(a) /\ r[3] = Word(host) /\ r[4] = port.value
  BY <1>1, <1>2, <1>3, PairLocalIs
<1>5. /\ 1 \in Nat \ {0} /\ 2 \in Nat \ {0} /\ 3 \in Nat \ {0}
      /\ 1 + 1 = 2 /\ 2 + 1 = 3 /\ 1 \in Int
  OBVIOUS
<1>6. host = FromWord(t, 2)
  <2>1. GoToNext(FromWord(t, 1)) = FromWord(t, 1 + 1)
    BY <1>5, NextWord
  <2> QED
    BY <1>1, <1>2, <1>5, <2>1
<1>7. GoToNext(host) = FromWord(t, 3)
  <2>1. GoToNext(FromWord(t, 2)) = FromWord(t, 2 + 1)
    BY <1>5, NextWord
  <2> QED
    BY <1>5, <1>6, <2>1
<1>8. /\ port.ok <=> 3 <= Len(Words(t)) /\ Strtol(Words(t)[3]) \in Ports \ {0}
      /\ port.ok => port.value = Strtol(Words(t)[3])
  BY <1>3, <1>7, ThirdIsPort
<1>9. /\ a # <<>> => Word(a) # <<>>
      /\ host # <<>> => Word(host) # <<>>
  BY <1>1, <1>5, <1>6, TakenWord
<1>10. 3 <= Len(Words(t)) => a # <<>> /\ host # <<>>
  <2>1. Len(Words(t)) \in Nat
    BY StartsOfText
  <2>2. /\ FromWord(t, 1) # <<>> <=> 1 <= Len(Words(t))
        /\ FromWord(t, 2) # <<>> <=> 2 <= Len(Words(t))
    BY <1>5, TakenWord
  <2>3. 3 <= Len(Words(t)) => 1 <= Len(Words(t)) /\ 2 <= Len(Words(t))
    BY <2>1
  <2> QED
    BY <1>1, <1>6, <2>2, <2>3
<1> QED
  BY <1>4, <1>8, <1>9, <1>10

LEMMA RegisterPeerTokenIs ==
  ASSUME NEW a
  PROVE  LET key == KeyArg(a)
             locale == GoToNext(key.rest)
             r == RegisterPeerToken(a)
         IN  r # Refused =>
               /\ key.ok /\ key.rest # <<>> /\ locale # <<>>
               /\ r[3] = Word(key.rest) /\ r[4] = Word(locale)
<1> DEFINE key == KeyArg(a)
           locale == GoToNext(key.rest)
           request == <<"register", key.key, Word(key.rest), Word(locale)>>
<1>1. RegisterPeerToken(a) =
        IF key.ok /\ key.rest # <<>> /\ locale # <<>> THEN request ELSE Refused
  BY DEF RegisterPeerToken
<1> HIDE DEF key, locale
<1>2. request[3] = Word(key.rest) /\ request[4] = Word(locale)
  OBVIOUS
<1> HIDE DEF request
<1>3. RegisterPeerToken(a) # Refused =>
        key.ok /\ key.rest # <<>> /\ locale # <<>> /\ RegisterPeerToken(a) = request
  BY <1>1
<1> QED
  BY <1>2, <1>3 DEF key, locale

LEMMA RegisterPeerTokenOfText ==
  ASSUME NEW C, NEW t \in Seq(C), KeyBytes \in Nat \ {0},
         NEW r, r = RegisterPeerToken(FromWord(t, 1)), r # Refused
  PROVE  3 <= Len(Words(t)) /\ r[3] # <<>> /\ r[4] # <<>>
<1>1. PICK key : key = KeyArg(FromWord(t, 1))
  OBVIOUS
<1>2. PICK token : token = key.rest
  OBVIOUS
<1>3. PICK locale : locale = GoToNext(token)
  OBVIOUS
<1>4. /\ key.ok /\ token # <<>> /\ locale # <<>>
      /\ r[3] = Word(token) /\ r[4] = Word(locale)
  BY <1>1, <1>2, <1>3, RegisterPeerTokenIs
<1>5. token = FromWord(t, 2)
  BY <1>1, <1>2, <1>4, KeyOfText
<1>6. 2 \in Nat \ {0} /\ 3 \in Nat \ {0} /\ 2 + 1 = 3
  OBVIOUS
<1>7. locale = FromWord(t, 3)
  <2>1. GoToNext(FromWord(t, 2)) = FromWord(t, 2 + 1)
    BY <1>6, NextWord
  <2> QED
    BY <1>3, <1>5, <1>6, <2>1
<1>8. Word(token) # <<>>
  <2>1. FromWord(t, 2) # <<>> => Word(FromWord(t, 2)) # <<>>
    BY <1>6, TakenWord
  <2> QED
    BY <1>4, <1>5, <2>1
<1>9. 3 <= Len(Words(t)) /\ Word(locale) # <<>>
  <2>1. /\ FromWord(t, 3) # <<>> <=> 3 <= Len(Words(t))
        /\ FromWord(t, 3) # <<>> => Word(FromWord(t, 3)) # <<>>
    BY <1>6, TakenWord
  <2> QED
    BY <1>4, <1>7, <2>1
<1> QED
  BY <1>4, <1>8, <1>9

LEMMA ConnectionIdOfText ==
  ASSUME NEW C, NEW t \in Seq(C), NEW r, r = ConnectionId("close", FromWord(t, 1))
  PROVE  /\ r # Refused <=> 1 <= Len(Words(t)) /\ Strtol(Words(t)[1]) \in -1 .. 1000
         /\ r # Refused => r[2] = Strtol(Words(t)[1])
<1>1. PICK conn : conn = IntArg(FromWord(t, 1), -1, 1000)
  OBVIOUS
<1>2. r = IF conn.ok THEN <<"close", conn.value>> ELSE Refused
  BY <1>1 DEF ConnectionId
<1>3. /\ conn.ok <=> 1 <= Len(Words(t)) /\ Strtol(Words(t)[1]) \in -1 .. 1000
      /\ conn.ok => conn.value = Strtol(Words(t)[1])
  <2>1. PICK first \in Nat \ {0} : first = 1
    OBVIOUS
  <2>2. PICK low \in Int : low = -1
    OBVIOUS
  <2>3. PICK high \in Int : high = 1000
    OBVIOUS
  <2>4. conn = IntArg(FromWord(t, first), low, high)
    BY <1>1, <2>1, <2>2, <2>3
  <2>5. /\ conn.ok <=> first <= Len(Words(t)) /\ Strtol(Words(t)[first]) \in low .. high
        /\ first <= Len(Words(t)) => conn.value = Strtol(Words(t)[first])
    BY <2>4, IntArgTaken
  <2> QED
    BY <2>1, <2>2, <2>3, <2>5
<1>4. <<"close", conn.value>> # Refused /\ <<"close", conn.value>>[2] = conn.value
  BY DEF Refused
<1> QED
  BY <1>2, <1>3, <1>4

LEMMA WordOrKey ==
  ASSUME NEW C, NEW t \in Seq(C), KeyBytes \in Nat \ {0}
  PROVE  /\ OneWord("pair", FromWord(t, 1)) # Refused =>
              1 <= Len(Words(t)) /\ OneWord("pair", FromWord(t, 1))[2] # <<>>
         /\ OneKey("revoke", FromWord(t, 1)) # Refused => 1 <= Len(Words(t))
<1>1. 1 \in Nat \ {0}
  OBVIOUS
<1>2. PICK a : a = FromWord(t, 1)
  OBVIOUS
<1>3. a # <<>> => 1 <= Len(Words(t)) /\ Word(a) # <<>>
  BY <1>1, <1>2, TakenWord
<1>4. OneWord("pair", a) # Refused => a # <<>> /\ OneWord("pair", a) = <<"pair", Word(a)>>
  BY DEF OneWord
<1>5. OneWord("pair", a) # Refused => 1 <= Len(Words(t)) /\ OneWord("pair", a)[2] # <<>>
  BY <1>3, <1>4
<1>6. OneKey("revoke", a) # Refused => KeyArg(a).ok
  BY DEF OneKey
<1>7. KeyArg(a).ok => Words(t) # <<>>
  BY <1>2, KeyOfText
<1>8. Words(t) # <<>> => 1 <= Len(Words(t))
  BY WordsOfText
<1> QED
  BY <1>2, <1>5, <1>6, <1>7, <1>8

(* A request and the words it needs.                                       *)
Complete(asked, words, texts) ==
  asked # Refused => Len(Words(text)) >= words /\ \A i \in texts : asked[i] # <<>>

LEMMA Requests ==
  ASSUME NEW C, text \in Seq(C), KeyBytes \in Nat \ {0},
         MaxConnectionCount \in Nat, MaxDataBytes \in Nat
  PROVE  RequestsHaveTheirWords
<1>1. PICK a : a = args
  OBVIOUS
<1>2. a = FromWord(text, 1)
  BY <1>1, ArgumentsAreFromFirstWord DEF args
<1>3. PICK N \in Nat : N = Len(Words(text))
  BY StartsOfText
<1>4. Complete(OneWord("pair", a), 1, {2})
  BY <1>2, <1>3, WordOrKey DEF Complete
<1>5. Complete(OneKey("revoke", a), 1, {})
  BY <1>2, <1>3, WordOrKey DEF Complete
<1>6. Complete(Send(a), 1, {})
  BY <1>2, <1>3, SendOfText DEF Complete
<1>7. Complete(SendAppend(a), 2, {})
  BY <1>2, <1>3, SendAppendOfText DEF Complete
<1>8. Complete(SendHex(a), 2, {})
  BY <1>2, <1>3, SendHexOfText DEF Complete
<1>9. Complete(SendHexAppend(a), 3, {})
  BY <1>2, <1>3, SendHexAppendOfText DEF Complete
<1>10. Complete(PairLocal(a), 3, {2, 3})
  BY <1>2, <1>3, PairLocalOfText DEF Complete
<1>11. Complete(PlaceCallRemote(a), 0, {3})
  <2>1. 1 \in Nat \ {0} /\ 2 \in Nat \ {0}
    OBVIOUS
  <2>2. ProtocolArg(FromWord(text, 1)) # <<>> /\ ProtocolArg(FromWord(text, 2)) # <<>>
    BY <2>1, ProtocolOfText
  <2>3. PlaceCallRemote(a)[3] # <<>>
    BY <1>2, <2>2, PlaceCallRemoteOfText
  <2> QED
    BY <1>3, <2>3 DEF Complete
<1>12. Complete(PlaceCallLocal(a), 3, {3, 4})
  <2>1. 4 \in Nat \ {0}
    OBVIOUS
  <2>2. ProtocolArg(FromWord(text, 4)) # <<>>
    BY <2>1, ProtocolOfText
  <2>3. PlaceCallLocal(a) # Refused =>
          /\ 3 <= Len(Words(text)) /\ PlaceCallLocal(a)[4] # <<>>
          /\ PlaceCallLocal(a)[3] # <<>>
    BY <1>2, <2>2, PlaceCallLocalOfText
  <2> QED
    BY <1>3, <2>3 DEF Complete
<1>13. Complete(RegisterPeerToken(a), 3, {3, 4})
  BY <1>2, <1>3, RegisterPeerTokenOfText DEF Complete
<1>14. Complete(ConnectionId("close", a), 1, {})
  BY <1>2, <1>3, ConnectionIdOfText DEF Complete
<1> DEFINE needs(asked, words, texts) == [asked |-> asked, words |-> words, texts |-> texts]
           requests ==
             {needs(OneWord("pair", a), 1, {2}), needs(OneKey("revoke", a), 1, {}),
              needs(Send(a), 1, {}), needs(SendAppend(a), 2, {}), needs(SendHex(a), 2, {}),
              needs(SendHexAppend(a), 3, {}), needs(PairLocal(a), 3, {2, 3}),
              needs(PlaceCallRemote(a), 0, {3}), needs(PlaceCallLocal(a), 3, {3, 4}),
              needs(RegisterPeerToken(a), 3, {3, 4}), needs(ConnectionId("close", a), 1, {})}
<1>15. ASSUME NEW asked, NEW words, NEW texts, Complete(asked, words, texts),
              NEW r, r = needs(asked, words, texts)
       PROVE  Complete(r.asked, r.words, r.texts)
  BY <1>15
<1>16. ASSUME NEW r \in requests PROVE Complete(r.asked, r.words, r.texts)
  <2> HIDE DEF needs
  <2> QED
    BY <1>4, <1>5, <1>6, <1>7, <1>8, <1>9, <1>10, <1>11, <1>12, <1>13, <1>14, <1>15
<1> QED
  BY <1>1, <1>16 DEF RequestsHaveTheirWords, Complete

(* The number at the start of a text.                                     *)
LEMMA FirstNumber ==
  ASSUME NEW C, NEW t \in Seq(C)
  PROVE  /\ FromWord(t, 1) = <<>> <=> Words(t) = <<>>
         /\ Words(t) # <<>> => Strtol(Word(FromWord(t, 1))) = Strtol(Words(t)[1])
         /\ Strtol(Word(FromWord(t, 1))) \in Int
<1>1. 1 \in Nat \ {0}
  OBVIOUS
<1>2. /\ FromWord(t, 1) # <<>> <=> 1 <= Len(Words(t))
      /\ FromWord(t, 1) # <<>> => Word(FromWord(t, 1)) = Words(t)[1]
      /\ Word(FromWord(t, 1)) \in Seq(C)
  BY <1>1, TakenWord
<1>3. Words(t) # <<>> <=> 1 <= Len(Words(t))
  BY WordsOfText, StartsOfText
<1>4. Strtol(Word(FromWord(t, 1))) \in Int
  BY <1>2, StrtolType
<1> QED
  BY <1>2, <1>3, <1>4

(* What a parameter without a range keeps of a number.                     *)
LEMMA KeptOfNumber ==
  ASSUME NEW n \in Int, NEW size \in Nat \ {0}
  PROVE  /\ n % size \in 0 .. size - 1
         /\ n % size = n <=> n \in 0 .. size - 1
<1>1. n % size \in Int /\ 0 <= n % size /\ n % size < size
  OBVIOUS
<1>2. ASSUME n \in 0 .. size - 1 PROVE n % size = n
  BY <1>2
<1> QED
  BY <1>1, <1>2

LEMMA ListenedPort ==
  ASSUME NEW C, NEW t \in Seq(C), NEW typed,
         typed = IF Words(t) = <<>> THEN 0 ELSE Strtol(Words(t)[1])
  PROVE  /\ StartLocalListener(FromWord(t, 1))[2] \in Ports
         /\ StartLocalListener(FromWord(t, 1))[2] = typed <=> typed \in Ports
<1>1. PICK v \in Int : v = Strtol(Word(FromWord(t, 1)))
  BY FirstNumber
<1>2. PICK port : port = StartLocalListener(FromWord(t, 1))[2]
  OBVIOUS
<1>3. PICK size \in Nat \ {0} : size = 65536
  OBVIOUS
<1>4. ASSUME NEW p PROVE p \in Ports <=> p \in 0 .. size - 1
  <2>1. PICK high \in Int : high = 65535
    OBVIOUS
  <2>2. p \in Ports <=> p \in Int /\ 0 <= p /\ p <= high
    BY <2>1, PortsAre
  <2>3. high = size - 1
    BY <1>3, <2>1
  <2> QED
    BY <2>2, <2>3
<1>5. port = IF Words(t) = <<>> THEN 0 ELSE v % size
  BY <1>1, <1>2, <1>3, FirstNumber DEF StartLocalListener
<1>6. typed = IF Words(t) = <<>> THEN 0 ELSE v
  BY <1>1, FirstNumber
<1>7. v % size \in 0 .. size - 1 /\ (v % size = v <=> v \in 0 .. size - 1)
  BY KeptOfNumber
<1>8. 0 \in 0 .. size - 1
  OBVIOUS
<1> QED
  BY <1>2, <1>4, <1>5, <1>6, <1>7, <1>8

LEMMA GivenDuration ==
  ASSUME NEW C, NEW t \in Seq(C), DurationValues \in Nat, DurationValues > 120, NEW typed,
         typed = IF Words(t) = <<>> THEN 120 ELSE Strtol(Words(t)[1])
  PROVE  /\ ForDuration("ping", FromWord(t, 1))[2] \in 0 .. DurationValues - 1
         /\ ForDuration("ping", FromWord(t, 1))[2] = typed
              <=> typed \in 0 .. DurationValues - 1
<1>1. PICK v \in Int : v = Strtol(Word(FromWord(t, 1)))
  BY FirstNumber
<1>2. PICK duration : duration = ForDuration("ping", FromWord(t, 1))[2]
  OBVIOUS
<1>3. CASE Words(t) = <<>>
  <2>1. duration = 120 /\ typed = 120
    BY <1>2, <1>3, FirstNumber DEF ForDuration
  <2>2. 120 \in 0 .. DurationValues - 1
    OBVIOUS
  <2> QED
    BY <1>2, <2>1, <2>2
<1>4. CASE Words(t) # <<>>
  <2>1. duration = v % DurationValues /\ typed = v
    BY <1>1, <1>2, <1>4, FirstNumber DEF ForDuration
  <2>2. DurationValues \in Nat \ {0}
    OBVIOUS
  <2> QED
    BY <1>2, <2>1, <2>2, KeptOfNumber
<1> QED
  BY <1>3, <1>4

LEMMA Numbers ==
  ASSUME NEW C, text \in Seq(C), KeyBytes \in Nat \ {0}, MaxConnectionCount \in Nat,
         DurationValues \in Nat, DurationValues > 120
  PROVE  NumbersAreTyped
<1> DEFINE words == Words(text)
           Checked(request, n, i, range) ==
             /\ request # Refused <=> n <= Len(words) /\ Strtol(words[n]) \in range
             /\ request # Refused => request[i] = Strtol(words[n])
           Unchecked(request, default, range) ==
             LET typed == IF words = <<>> THEN default ELSE Strtol(words[1])
             IN  request[2] \in range /\ (request[2] = typed <=> typed \in range)
<1>1. PICK a : a = args
  OBVIOUS
<1>2. a = FromWord(text, 1)
  BY <1>1, ArgumentsAreFromFirstWord DEF args
<1>3. Checked(Send(a), 1, 2, -1 .. MaxConnectionCount + 1)
  <2>1. /\ ConnArg(a).ok <=> /\ 1 <= Len(words)
                             /\ Strtol(words[1]) \in -1 .. MaxConnectionCount + 1
        /\ 1 <= Len(words) => ConnArg(a).value = Strtol(words[1])
    <3>1. PICK first \in Nat \ {0} : first = 1
      OBVIOUS
    <3>2. PICK low \in Int : low = -1
      OBVIOUS
    <3>3. PICK high \in Int : high = MaxConnectionCount + 1
      OBVIOUS
    <3>4. ConnArg(a) = IntArg(FromWord(text, first), low, high)
      BY <1>2, <3>1, <3>2, <3>3 DEF ConnArg
    <3>5. /\ IntArg(FromWord(text, first), low, high).ok <=>
                first <= Len(words) /\ Strtol(words[first]) \in low .. high
          /\ first <= Len(words) =>
                IntArg(FromWord(text, first), low, high).value = Strtol(words[first])
      BY IntArgTaken
    <3> QED
      BY <3>1, <3>2, <3>3, <3>4, <3>5
  <2>2. Send(a) = IF ConnArg(a).ok THEN <<"send", ConnArg(a).value, ConnArg(a).rest>>
                  ELSE Refused
    BY DEF Send
  <2>3. /\ <<"send", ConnArg(a).value, ConnArg(a).rest>> # Refused
        /\ <<"send", ConnArg(a).value, ConnArg(a).rest>>[2] = ConnArg(a).value
    BY DEF Refused
  <2> QED
    BY <2>1, <2>2, <2>3
<1>4. Checked(ConnectionId("close", a), 1, 2, -1 .. 1000)
  BY <1>2, ConnectionIdOfText
<1>6. Checked(PairLocal(a), 3, 4, Ports \ {0})
  BY <1>2, PairLocalOfText
<1>7. ASSUME PlaceCallLocal(a) # Refused
      PROVE  PlaceCallLocal(a)[5] = Strtol(words[3]) /\ PlaceCallLocal(a)[5] \in Ports \ {0}
  BY <1>2, <1>7, PlaceCallLocalOfText
<1>8. Unchecked(StartLocalListener(a), 0, Ports)
  BY <1>2, ListenedPort
<1>9. Unchecked(ForDuration("ping", a), 120, 0 .. DurationValues - 1)
  BY <1>2, GivenDuration
<1> QED
  BY <1>1, <1>3, <1>4, <1>6, <1>7, <1>8, <1>9 DEF NumbersAreTyped

-----------------------------------------------------------------------------
(* The text has characters of its alphabet only, and no more than allowed. *)
TextsTyped ==
  alphabet \in Alphabet /\ text \in Seq(alphabet.chars) /\ Len(text) <= alphabet.length

(* The text is always a text: each property below is about any text, so    *)
(* this is the inductive invariant that all of them need.                  *)
THEOREM TypeCorrect == Spec => []TextsTyped
<1>1. Init => TextsTyped
  <2> SUFFICES ASSUME Init PROVE TextsTyped
    OBVIOUS
  <2>1. alphabet.length \in Nat
    BY TextAssumption DEF Init
  <2>2. text \in Seq(alphabet.chars) /\ Len(text) = 0
    BY DEF Init
  <2> QED
    BY <2>1, <2>2 DEF Init, TextsTyped
<1>2. TextsTyped /\ [Next]_<<text, alphabet>> => TextsTyped'
  <2> SUFFICES ASSUME TextsTyped, [Next]_<<text, alphabet>> PROVE TextsTyped'
    OBVIOUS
  <2>1. CASE UNCHANGED <<text, alphabet>>
    BY <2>1 DEF TextsTyped
  <2>2. ASSUME NEW c \in alphabet.chars, Type(c) PROVE TextsTyped'
    <3>1. alphabet.length \in Nat
      BY TextAssumption DEF TextsTyped
    <3>2. Len(text) \in Nat /\ Len(text) < alphabet.length
      BY <2>2 DEF TextsTyped, Type
    <3>3. /\ Append(text, c) \in Seq(alphabet.chars)
          /\ Len(Append(text, c)) = Len(text) + 1
      BY DEF TextsTyped
    <3>4. Len(text) + 1 <= alphabet.length
      BY <3>1, <3>2
    <3> QED
      BY <2>2, <3>3, <3>4 DEF TextsTyped, Type
  <2> QED
    BY <2>1, <2>2 DEF Next
<1> QED
  BY <1>1, <1>2, PTL DEF Spec

(* What mdg_chat_client_input hands on are the words of the line, split at *)
(* blanks only: arg_decode_gotonext stands at each word in turn, and the   *)
(* messages of the four send handlers are the rest of the line behind the  *)
(* numbers, a hex message exactly the bytes its digits stand for.          *)
THEOREM ArgumentsSplit == Spec => []ArgumentsAreWords
<1>1. TextsTyped => ArgumentsAreWords
  BY WordsAreSplit, Messages, CommandAssumption DEF TextsTyped, ArgumentsAreWords
<1> QED
  BY <1>1, TypeCorrect, PTL

(* arg_parse_device_public_key takes a key exactly if the first word is    *)
(* one, and a call goes to the key that was typed, with the protocol behind*)
(* it; what /pcr does without a key is the one exception.                  *)
THEOREM KeysTyped == Spec => []KeysAreTyped
<1>1. TextsTyped => KeysAreTyped
  BY Keys, CalledKeys, CommandAssumption DEF TextsTyped, KeysAreTyped
<1> QED
  BY <1>1, TypeCorrect, PTL

(* No handler asks the library for anything without the words its request  *)
(* needs, and none hands on an empty word.  What set_intparam_handler takes*)
(* is the typed number and within the range it is given; a port to listen  *)
(* at and a duration are the typed ones exactly if they fit 16 and 32 bits.*)
THEOREM RequestsComplete == Spec => []RequestsAreComplete
<1>1. TextsTyped => RequestsAreComplete
  BY Requests, Numbers, CommandAssumption DEF TextsTyped, RequestsAreComplete
<1> QED
  BY <1>1, TypeCorrect, PTL

(* hex_decode_bytes accepts exactly the texts with two digits for each byte*)
(* and hex_encode_bytes is its inverse; what chatclient_print_data_received*)
(* prints in pieces is the encoding of the whole, and each piece fits.     *)
THEOREM HexFaithful == Spec => []HexIsFaithful
<1>1. TextsTyped => HexIsFaithful
  <2> SUFFICES ASSUME TextsTyped PROVE HexIsFaithful
    OBVIOUS
  <2>1. DecodeCountsDigits
    BY DecodeCounts, TextAssumption DEF TextsTyped
  <2>2. PiecesAreTheData
    BY PiecesAreData, TextAssumption DEF TextsTyped
  <2> QED
    BY <2>1, <2>2 DEF HexIsFaithful
<1> QED
  BY <1>1, TypeCorrect, PTL

(* Whatever pretty_print_otp prints, typed into the iOS text field, becomes*)
(* the printed form of the digits kept there, and is left as it is exactly *)
(* if the password has only digits and no more than otpLength of them; the *)
(* formatting of the field is idempotent.                                  *)
THEOREM PasswordOneForm == Spec => []PasswordHasOneForm
<1>1. TextsTyped => PasswordHasOneForm
  BY PrintedOnce, OtpAssumption DEF TextsTyped, PasswordHasOneForm
<1> QED
  BY <1>1, TypeCorrect, PTL

(* The conversion of line feeds for the console loses the character behind *)
(* each of them: it is right exactly if there is none before the end.      *)
THEOREM LineFeedsAtEnd == Spec => []LineFeedsOnlyAtTheEnd
<1>1. TextsTyped => LineFeedsOnlyAtTheEnd
  BY LineFeedsConverted DEF TextsTyped, LineFeedsOnlyAtTheEnd
<1> QED
  BY <1>1, TypeCorrect, PTL
=============================================================================
