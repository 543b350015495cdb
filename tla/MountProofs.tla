---------------------------- MODULE MountProofs ----------------------------
(***************************************************************************)
(* Proofs about Mount: what a mount takes from the card is what the calls  *)
(* have left on it, for any sizes of words, sectors and regions.  The      *)
(* bitmap comes first: where its bits are and what its scans find.         *)
(***************************************************************************)
EXTENDS Mount, RecursionLemmas, FiniteSetTheorems

LEMMA Sizes ==
    /\ BitsPerElement \in Nat /\ BitsPerElement > 0
    /\ WordsPerSector \in Nat /\ WordsPerSector > 0
    /\ ContactSectors \in Nat /\ ContactSectors > 0
    /\ MessageSectors \in Nat /\ MessageSectors > 0
    /\ ContactCapacity \in Nat /\ ContactCapacity > 0
    /\ ElementsPerSector \in Nat /\ ElementsPerSector > WordsPerSector
    /\ BitsPerSector \in Nat /\ BitsPerSector > 0
<1>1. /\ BitsPerElement \in Nat /\ BitsPerElement > 0
      /\ WordsPerSector \in Nat /\ WordsPerSector > 0
  BY BitmapAssumption
<1>2. WordsPerSector * BitsPerElement \in Nat /\ WordsPerSector * BitsPerElement > 0
  BY <1>1
<1> QED
  BY <1>1, <1>2, BitmapAssumption DEF ElementsPerSector, BitsPerSector

-----------------------------------------------------------------------------
(* Where the bits are.  Bit i is in word number i \div BitsPerElement,     *)
(* counted without the checksum words.                                     *)
WordNumber(w) == (w \div ElementsPerSector) * WordsPerSector + (w % ElementsPerSector)
WordOf(n) == (n \div WordsPerSector) * ElementsPerSector + (n % WordsPerSector)

(* Numbers of two digits are ordered by the first one.                     *)
LEMMA FirstDigit ==
    ASSUME NEW k \in Nat, NEW l \in Nat, NEW c \in Nat, k < l,
           NEW q \in 0 .. c - 1, NEW p \in 0 .. c - 1
    PROVE  k * c + q < l * c + p /\ k * c + c <= l * c + p
<1>1. (k + 1) * c <= l * c /\ (k + 1) * c \in Nat /\ l * c \in Nat
  BY TimesGrows
<1>2. (k + 1) * c = k * c + c /\ k * c \in Nat
  BY TimesGrows
<1> DEFINE kc == k * c  lc == l * c
<1>3. kc + c <= lc /\ kc \in Nat /\ lc \in Nat
  BY <1>1, <1>2
<1> HIDE DEF kc, lc
<1>4. kc + q < lc + p /\ kc + c <= lc + p
  BY <1>3
<1> QED
  BY <1>4 DEF kc, lc

LEMMA WordDigits ==
    ASSUME NEW n \in Nat
    PROVE  /\ n \div WordsPerSector \in Nat /\ n % WordsPerSector \in 0 .. WordsPerSector - 1
           /\ WordOf(n) \in Nat
           /\ WordOf(n) \div ElementsPerSector = n \div WordsPerSector
           /\ WordOf(n) % ElementsPerSector = n % WordsPerSector
           /\ ~IsCrcWord(WordOf(n)) /\ WordNumber(WordOf(n)) = n
<1> DEFINE s == n \div WordsPerSector  w == n % WordsPerSector
<1>1. s \in Nat /\ w \in 0 .. WordsPerSector - 1 /\ n = s * WordsPerSector + w
  BY Sizes, DivisionOf
<1>2. w \in 0 .. ElementsPerSector - 1
  BY <1>1, Sizes
<1> HIDE DEF s, w
<1>3. /\ (s * ElementsPerSector + w) \div ElementsPerSector = s
      /\ (s * ElementsPerSector + w) % ElementsPerSector = w
  BY <1>1, <1>2, Sizes, DivisionIs
<1>4. s * ElementsPerSector + w \in Nat
  <2>1. s * ElementsPerSector \in Nat
    BY <1>1, Sizes, TimesGrows
  <2> QED
    BY <2>1, <1>1
<1>5. WordOf(n) = s * ElementsPerSector + w
  BY DEF WordOf, s, w
<1>6. ~ (w >= WordsPerSector)
  BY <1>1, Sizes
<1> QED
  BY <1>1, <1>3, <1>4, <1>5, <1>6 DEF IsCrcWord, WordNumber, s, w

LEMMA NumberedWord ==
    ASSUME NEW w \in Nat, ~IsCrcWord(w)
    PROVE  WordNumber(w) \in Nat /\ WordOf(WordNumber(w)) = w
<1> DEFINE s == w \div ElementsPerSector  r == w % ElementsPerSector
<1>1. s \in Nat /\ r \in 0 .. ElementsPerSector - 1 /\ w = s * ElementsPerSector + r
  BY Sizes, DivisionOf
<1>2. r \in 0 .. WordsPerSector - 1
  BY <1>1, Sizes DEF IsCrcWord
<1> HIDE DEF s, r
<1>3. /\ (s * WordsPerSector + r) \div WordsPerSector = s
      /\ (s * WordsPerSector + r) % WordsPerSector = r
  BY <1>1, <1>2, Sizes, DivisionIs
<1>4. s * WordsPerSector + r \in Nat
  <2>1. s * WordsPerSector \in Nat
    BY <1>1, Sizes, TimesGrows
  <2> QED
    BY <2>1, <1>2
<1>5. WordNumber(w) = s * WordsPerSector + r
  BY DEF WordNumber, s, r
<1> QED
  BY <1>1, <1>3, <1>4, <1>5 DEF WordOf

(* The macros of mem_layout.h in these terms.                              *)
LEMMA FindIndexIs ==
    ASSUME NEW i \in Nat
    PROVE  /\ i \div BitsPerElement \in Nat
           /\ FindIndex(i) = WordOf(i \div BitsPerElement)
           /\ i \div BitsPerSector = (i \div BitsPerElement) \div WordsPerSector
<1> DEFINE n == i \div BitsPerElement  b == i % BitsPerElement
           s == n \div WordsPerSector  w == n % WordsPerSector
<1>1. n \in Nat /\ b \in 0 .. BitsPerElement - 1 /\ i = n * BitsPerElement + b
  BY Sizes, DivisionOf
<1>2. s \in Nat /\ w \in 0 .. WordsPerSector - 1 /\ n = s * WordsPerSector + w
  <2> HIDE DEF n
  <2> QED BY <1>1, Sizes, DivisionOf
<1> HIDE DEF n, b, s, w
<1> DEFINE q == w * BitsPerElement + b
<1>3. q \in 0 .. BitsPerSector - 1
  <2>1. w * BitsPerElement \in Nat /\ 0 \in 0 .. BitsPerElement - 1
    BY <1>2, Sizes, TimesGrows
  <2>2. w * BitsPerElement + b < WordsPerSector * BitsPerElement + 0
    BY <1>1, <1>2, <2>1, Sizes, FirstDigit
  <2> QED
    BY <1>1, <2>1, <2>2, Sizes DEF BitsPerSector
<1>4. i = s * BitsPerSector + q
  <2>1. n * BitsPerElement = s * (WordsPerSector * BitsPerElement) + w * BitsPerElement
    BY <1>1, <1>2, Sizes
  <2>2. s * (WordsPerSector * BitsPerElement) \in Nat /\ w * BitsPerElement \in Nat
    BY <1>2, Sizes, TimesGrows DEF BitsPerSector
  <2> DEFINE x == s * (WordsPerSector * BitsPerElement)  y == w * BitsPerElement
             z == n * BitsPerElement
  <2>3. i = z + b /\ z = x + y /\ x \in Nat /\ y \in Nat
    BY <1>1, <2>1, <2>2
  <2>4. i = x + (y + b)
    <3> HIDE DEF x, y, z
    <3> QED BY <1>1, <2>3
  <2> QED
    BY <2>4 DEF BitsPerSector
<1>5. i \div BitsPerSector = s /\ i % BitsPerSector = q
  <2> HIDE DEF q
  <2> QED BY <1>2, <1>3, <1>4, Sizes, DivisionIs
<1>6. q \div BitsPerElement = w
  BY <1>1, <1>2, Sizes, DivisionIs
<1>7. FindIndex(i) = s * ElementsPerSector + w
  BY <1>5, <1>6 DEF FindIndex
<1> QED
  BY <1>1, <1>5, <1>7 DEF WordOf, n, s, w

LEMMA WordToIndexIs ==
    ASSUME NEW w \in Nat, ~IsCrcWord(w)
    PROVE  WordToIndex(w) = WordNumber(w) * BitsPerElement
<1> DEFINE s == w \div ElementsPerSector  r == w % ElementsPerSector
<1>1. s \in Nat /\ r \in Nat
  BY Sizes, DivisionOf
<1> HIDE DEF s, r
<1>2. (s * WordsPerSector + r) * BitsPerElement = s * (WordsPerSector * BitsPerElement) + r * BitsPerElement
  BY <1>1, Sizes
<1> QED
  BY <1>2 DEF WordToIndex, WordNumber, BitsPerSector, s, r

(* Bit i is in a word that has bits, and nowhere else.                     *)
LEMMA BitPlace ==
    ASSUME NEW i \in Nat
    PROVE  /\ FindIndex(i) \in Nat /\ ~IsCrcWord(FindIndex(i)) /\ FindBit(i) \in Bits
           /\ WordToIndex(FindIndex(i)) + FindBit(i) = i
<1> DEFINE n == i \div BitsPerElement
<1>1. n \in Nat /\ i % BitsPerElement \in 0 .. BitsPerElement - 1 /\ i = n * BitsPerElement + (i % BitsPerElement)
  BY Sizes, DivisionOf
<1>2. FindIndex(i) = WordOf(n)
  BY FindIndexIs
<1> HIDE DEF n
<1>3. WordOf(n) \in Nat /\ ~IsCrcWord(WordOf(n)) /\ WordNumber(WordOf(n)) = n
  BY <1>1, WordDigits
<1>4. WordToIndex(WordOf(n)) = n * BitsPerElement
  BY <1>3, WordToIndexIs
<1> QED
  BY <1>1, <1>2, <1>3, <1>4 DEF FindBit, Bits

LEMMA PlaceOfBit ==
    ASSUME NEW w \in Nat, ~IsCrcWord(w), NEW b \in Bits
    PROVE  /\ WordToIndex(w) \in Nat /\ WordToIndex(w) + b \in Nat
           /\ FindIndex(WordToIndex(w) + b) = w /\ FindBit(WordToIndex(w) + b) = b
<1> DEFINE n == WordNumber(w)  i == n * BitsPerElement + b
<1>1. n \in Nat /\ WordOf(n) = w
  BY NumberedWord
<1>2. b \in 0 .. BitsPerElement - 1
  BY DEF Bits
<1>3. WordToIndex(w) = n * BitsPerElement
  BY WordToIndexIs
<1> HIDE DEF n
<1>4. n * BitsPerElement \in Nat
  BY <1>1, Sizes, TimesGrows
<1>5. i \in Nat
  BY <1>2, <1>4
<1>6. i \div BitsPerElement = n /\ i % BitsPerElement = b
  BY <1>1, <1>2, Sizes, DivisionIs
<1>7. FindIndex(i) = WordOf(i \div BitsPerElement)
  <2> HIDE DEF i
  <2> QED BY <1>5, FindIndexIs
<1> QED
  BY <1>1, <1>3, <1>4, <1>5, <1>6, <1>7 DEF FindBit

(* The words are in the order of their bits.                               *)
LEMMA WordOrder ==
    ASSUME NEW v \in Nat, NEW w \in Nat, v < w, ~IsCrcWord(v), ~IsCrcWord(w)
    PROVE  WordToIndex(v) + BitsPerElement <= WordToIndex(w)
<1> DEFINE d == v \div ElementsPerSector  q == v % ElementsPerSector
           e == w \div ElementsPerSector  p == w % ElementsPerSector
           m == WordNumber(v)  n == WordNumber(w)
<1>1. /\ d \in Nat /\ q \in 0 .. ElementsPerSector - 1
      /\ e \in Nat /\ p \in 0 .. ElementsPerSector - 1
  BY Sizes, DivisionOf
<1>2. d < e \/ (d = e /\ q < p)
  BY Sizes, DivisionOrder
<1>3. q \in 0 .. WordsPerSector - 1 /\ p \in 0 .. WordsPerSector - 1
  BY <1>1, Sizes DEF IsCrcWord
<1>4. m \in Nat /\ n \in Nat /\ WordToIndex(v) = m * BitsPerElement /\ WordToIndex(w) = n * BitsPerElement
  BY NumberedWord, WordToIndexIs
<1>5. m = d * WordsPerSector + q /\ n = e * WordsPerSector + p
  BY DEF WordNumber
<1> HIDE DEF d, q, e, p, m, n
<1>6. m < n
  <2>1. CASE d < e
    BY <1>1, <1>3, <1>5, <2>1, Sizes, FirstDigit
  <2>2. CASE d = e /\ q < p
    <3>1. d * WordsPerSector \in Nat
      BY <1>1, Sizes, TimesGrows
    <3> DEFINE x == d * WordsPerSector
    <3>2. x \in Nat /\ m = x + q /\ n = x + p
      BY <1>5, <2>2, <3>1
    <3> HIDE DEF x
    <3> QED
      BY <1>3, <2>2, <3>2
  <2> QED
    BY <1>2, <2>1, <2>2
<1>7. 0 \in 0 .. BitsPerElement - 1
  BY Sizes
<1>8. m * BitsPerElement + BitsPerElement <= n * BitsPerElement + 0
  BY <1>4, <1>6, <1>7, Sizes, FirstDigit
<1>9. n * BitsPerElement \in Nat
  BY <1>4, Sizes, TimesGrows
<1> QED
  BY <1>4, <1>8, <1>9

LEMMA IndexOrder ==
    ASSUME NEW i \in Nat, NEW j \in Nat, i <= j
    PROVE  /\ FindIndex(i) <= FindIndex(j)
           /\ FindIndex(i) = FindIndex(j) => FindBit(i) <= FindBit(j)
<1> DEFINE v == FindIndex(i)  w == FindIndex(j)  x == WordToIndex(v)  y == WordToIndex(w)
<1>1. /\ v \in Nat /\ ~IsCrcWord(v) /\ FindBit(i) \in Bits /\ x + FindBit(i) = i
      /\ w \in Nat /\ ~IsCrcWord(w) /\ FindBit(j) \in Bits /\ y + FindBit(j) = j
  BY BitPlace
<1>2. x \in Nat /\ y \in Nat
  BY <1>1, PlaceOfBit
<1>3. ~ (w < v)
  <2> SUFFICES ASSUME w < v PROVE FALSE
    OBVIOUS
  <2>1. y + BitsPerElement <= x
    BY <1>1, WordOrder
  <2> HIDE DEF x, y
  <2> QED
    BY <1>1, <1>2, <2>1, Sizes DEF Bits
<1>4. v = w => FindBit(i) <= FindBit(j)
  <2>1. v = w => x = y
    OBVIOUS
  <2> HIDE DEF x, y
  <2> QED
    BY <1>1, <1>2, <2>1 DEF Bits
<1> QED
  BY <1>1, <1>3, <1>4

-----------------------------------------------------------------------------
(* The array of a card in which the sectors of S are in use.               *)

LEMMA DataInMap ==
    ASSUME NEW i \in DataSectors
    PROVE  /\ i \in Nat /\ FindIndex(i) \in MapWords
           /\ i \div BitsPerSector \in 0 .. BitmapSectors - 1
<1> DEFINE last == ContactSectors + MessageSectors - 1
           d == last \div BitsPerSector  q == last % BitsPerSector
           s == i \div BitsPerSector
<1>1. i \in Nat /\ last \in Nat /\ i <= last
  BY Sizes DEF DataSectors
<1>2. d \in Nat /\ q \in 0 .. BitsPerSector - 1 /\ last = d * BitsPerSector + q
  <2> HIDE DEF last
  <2> QED BY <1>1, Sizes, DivisionOf
<1>3. s \in Nat /\ i % BitsPerSector \in 0 .. BitsPerSector - 1 /\ i = s * BitsPerSector + (i % BitsPerSector)
  BY <1>1, Sizes, DivisionOf
<1>4. s <= d
  <2>1. CASE i = last
    BY <1>2, <2>1
  <2>2. CASE i < last
    <3> HIDE DEF last
    <3> QED BY <1>1, <1>2, <1>3, <2>2, Sizes, DivisionOrder
  <2> QED
    BY <1>1, <2>1, <2>2
<1>5. BitmapSectors = d + 1
  <2> DEFINE c == BitsPerSector  n == ContactSectors + MessageSectors + c - 1
  <2>1. n = (d + 1) * c + q
    <3>1. (d + 1) * c = d * c + c /\ d * c \in Nat
      BY <1>2, Sizes, TimesGrows
    <3> DEFINE x == d * c
    <3>2. last = x + q /\ (d + 1) * c = x + c /\ x \in Nat
      BY <1>2, <3>1
    <3> HIDE DEF x, d, q
    <3> QED
      BY <1>2, <3>2, Sizes
  <2>2. d + 1 \in Nat
    BY <1>2
  <2>3. ((d + 1) * c + q) \div c = d + 1
    <3> HIDE DEF d, q
    <3> QED BY <1>2, <2>2, Sizes, DivisionIs
  <2>4. BitmapSectors = n \div c
    BY DEF BitmapSectors, BitsPerSector
  <2> QED
    BY <2>1, <2>3, <2>4
<1>6. s \in 0 .. BitmapSectors - 1
  <2> HIDE DEF d, s
  <2> QED BY <1>2, <1>3, <1>4, <1>5
<1>7. FindIndex(i) \in 0 .. BitmapSectors * ElementsPerSector - 1
  <2> DEFINE n == i \div BitsPerElement  w == n % WordsPerSector
  <2>1. n \in Nat /\ FindIndex(i) = WordOf(n) /\ s = n \div WordsPerSector
    BY <1>1, FindIndexIs
  <2>2. w \in 0 .. ElementsPerSector - 1 /\ FindIndex(i) = s * ElementsPerSector + w /\ FindIndex(i) \in Nat
    <3> HIDE DEF n
    <3>1. w \in 0 .. WordsPerSector - 1 /\ WordOf(n) \in Nat
      BY <2>1, WordDigits
    <3>2. WordOf(n) = (n \div WordsPerSector) * ElementsPerSector + w
      BY DEF WordOf
    <3>3. w \in 0 .. ElementsPerSector - 1
      BY <3>1, Sizes
    <3> QED
      BY <2>1, <3>1, <3>2, <3>3
  <2>3. s * ElementsPerSector + w < BitmapSectors * ElementsPerSector + 0 /\ BitmapSectors * ElementsPerSector \in Nat
    <3>1. 0 \in 0 .. ElementsPerSector - 1 /\ s < BitmapSectors /\ BitmapSectors \in Nat
      <4> HIDE DEF s, d
      <4> QED BY Sizes, <1>2, <1>5, <1>6
    <3> HIDE DEF s, w
    <3> QED
      BY <1>3, <2>2, <3>1, Sizes, FirstDigit, TimesGrows
  <2> QED
    BY <2>2, <2>3
<1> QED
  BY <1>1, <1>6, <1>7 DEF MapWords

LEMMA MapOfBits ==
    ASSUME NEW S
    PROVE  /\ \A i \in DataSectors : CheckBit(MapOf(S), i) <=> i \in S
           /\ \A w \in MapWords : ~IsCrcWord(w) => MapOf(S)[w] = {b \in Bits : WordToIndex(w) + b \in S}
<1>1. \A w \in MapWords : ~IsCrcWord(w) => MapOf(S)[w] = {b \in Bits : WordToIndex(w) + b \in S}
  BY DEF MapOf
<1>2. ASSUME NEW i \in DataSectors PROVE CheckBit(MapOf(S), i) <=> i \in S
  <2>1. FindIndex(i) \in MapWords /\ i \in Nat
    BY DataInMap
  <2>2. ~IsCrcWord(FindIndex(i)) /\ FindBit(i) \in Bits /\ WordToIndex(FindIndex(i)) + FindBit(i) = i
    BY <2>1, BitPlace
  <2> QED
    BY <1>1, <2>1, <2>2 DEF CheckBit
<1> QED
  BY <1>1, <1>2

(* update_usage_bit changes one sector's bit and no other.                 *)
LEMMA MapUpdated ==
    ASSUME NEW S, NEW i \in DataSectors, NEW used \in BOOLEAN
    PROVE  Updated(MapOf(S), i, used) = MapOf(IF used THEN S \cup {i} ELSE S \ {i})
<1> DEFINE T == IF used THEN S \cup {i} ELSE S \ {i}
           f == FindIndex(i)  b == FindBit(i)
           M == MapOf(S)  N == Updated(M, i, used)  O == MapOf(T)
<1>1. i \in Nat /\ f \in MapWords /\ ~IsCrcWord(f) /\ b \in Bits /\ WordToIndex(f) + b = i
  BY DataInMap, BitPlace
<1>2. N = [w \in MapWords |-> IF w = f THEN IF used THEN M[w] \cup {b} ELSE M[w] \ {b} ELSE M[w]]
  BY <1>1 DEF Updated, MapOf
<1>3. ASSUME NEW w \in MapWords PROVE N[w] = O[w]
  <2>1. CASE IsCrcWord(w)
    <3>1. w # f
      BY <1>1, <2>1
    <3>2. N[w] = M[w]
      BY <1>2, <3>1
    <3> QED
      BY <2>1, <3>2 DEF MapOf
  <2>2. CASE ~IsCrcWord(w)
    <3>1. w \in Nat
      BY DEF MapWords
    <3>2. M[w] = {c \in Bits : WordToIndex(w) + c \in S} /\ O[w] = {c \in Bits : WordToIndex(w) + c \in T}
      BY <2>2, MapOfBits
    <3>3. ASSUME NEW c \in Bits PROVE WordToIndex(w) + c = i <=> w = f /\ c = b
      <4>1. FindIndex(WordToIndex(w) + c) = w /\ FindBit(WordToIndex(w) + c) = c
        BY <2>2, <3>1, PlaceOfBit
      <4> QED
        BY <1>1, <4>1
    <3>4. O[w] = {c \in Bits : IF w = f /\ c = b THEN used ELSE WordToIndex(w) + c \in S}
      BY <3>2, <3>3
    <3>5. CASE w = f
      <4>1. N[w] = IF used THEN M[w] \cup {b} ELSE M[w] \ {b}
        BY <1>2, <3>5
      <4> QED
        BY <1>1, <3>2, <3>4, <3>5, <4>1
    <3>6. CASE w # f
      BY <1>2, <3>2, <3>4, <3>6
    <3> QED
      BY <3>5, <3>6
  <2> QED
    BY <2>1, <2>2
<1>4. N = [w \in MapWords |-> N[w]] /\ O = [w \in MapWords |-> O[w]]
  BY <1>2 DEF MapOf
<1>5. N = O
  <2> HIDE DEF N, O
  <2> QED BY <1>3, <1>4
<1> QED
  BY <1>5

-----------------------------------------------------------------------------
(* The scans.                                                              *)

LEMMA WordsBelow ==
    ASSUME NEW v \in MapWords, NEW w \in 0 .. v
    PROVE  w \in MapWords /\ w \in Nat
<1> DEFINE x == ContactSectors + MessageSectors - 1  top == BitmapSectors * ElementsPerSector - 1
<1>1. x \in DataSectors /\ x \in Nat
  BY Sizes DEF DataSectors
<1>2. BitmapSectors \in Nat
  <2> DEFINE n == ContactSectors + MessageSectors + BitsPerSector - 1
  <2>1. n \in Nat
    BY Sizes
  <2>2. BitmapSectors = n \div BitsPerSector
    BY DEF BitmapSectors, BitsPerSector
  <2> HIDE DEF n
  <2> QED
    BY <2>1, <2>2, Sizes, DivisionOf
<1>3. top \in Int
  BY <1>2, Sizes, TimesGrows
<1>4. MapWords = 0 .. top
  BY DEF MapWords
<1> HIDE DEF top
<1> QED
  BY <1>3, <1>4

LEMMA LeastIs ==
    ASSUME NEW S \in SUBSET Nat, S # {}
    PROVE  Least(S) \in S /\ \A y \in S : Least(S) <= y
<1>1. \E x \in S : \A y \in S : x <= y
  BY LeastNatural
<1> QED
  BY <1>1 DEF Least

LEMMA GreatestIs ==
    ASSUME NEW n \in Nat, NEW S \in SUBSET (0 .. n), S # {}
    PROVE  Greatest(S) \in S /\ \A y \in S : Greatest(S) >= y
<1> DEFINE T == {n - x : x \in S}
<1>1. T \in SUBSET Nat /\ T # {}
  <2>1. \A x \in S : x \in 0 .. n /\ n - x \in Nat
    OBVIOUS
  <2> QED
    BY <2>1
<1>2. PICK t \in T : \A u \in T : t <= u
  <2> HIDE DEF T
  <2> QED BY <1>1, LeastNatural
<1>3. PICK x \in S : t = n - x
  OBVIOUS
<1>4. ASSUME NEW y \in S PROVE x >= y
  <2>1. n - x <= n - y
    BY <1>2, <1>3
  <2>2. x \in 0 .. n /\ y \in 0 .. n
    OBVIOUS
  <2> QED
    BY <2>1, <2>2
<1>5. \E z \in S : \A y \in S : z >= y
  BY <1>4
<1> QED
  BY <1>5 DEF Greatest

LEMMA Compared ==
    ASSUME NEW i \in Nat, NEW j \in Nat
    PROVE  i <= j <=> \/ FindIndex(i) < FindIndex(j)
                      \/ FindIndex(i) = FindIndex(j) /\ FindBit(i) <= FindBit(j)
<1>1. /\ FindIndex(i) \in Nat /\ FindBit(i) \in Bits /\ WordToIndex(FindIndex(i)) + FindBit(i) = i
      /\ FindIndex(j) \in Nat /\ FindBit(j) \in Bits /\ WordToIndex(FindIndex(j)) + FindBit(j) = j
  BY BitPlace
<1>2. FindBit(i) \in Int /\ FindBit(j) \in Int
  BY <1>1 DEF Bits
<1>3. CASE i <= j
  BY <1>1, <1>3, IndexOrder
<1>4. CASE ~ (i <= j)
  <2>1. j <= i
    BY <1>4
  <2>2. FindIndex(j) <= FindIndex(i) /\ (FindIndex(i) = FindIndex(j) => FindBit(j) <= FindBit(i))
    BY <2>1, IndexOrder
  <2>3. FindIndex(i) = FindIndex(j) => FindBit(i) # FindBit(j)
    BY <1>1, <1>4
  <2> QED
    BY <1>1, <1>2, <1>4, <2>2, <2>3
<1> QED
  BY <1>3, <1>4

(* The bits that a scan looks at in a word, as sectors in use.             *)
LEMMA BitsOfWord ==
    ASSUME NEW S \in SUBSET DataSectors, NEW w \in MapWords, ~IsCrcWord(w)
    PROVE  MapOf(S)[w] = {FindBit(x) : x \in {y \in S : FindIndex(y) = w}}
<1>1. w \in Nat
  BY DEF MapWords
<1>2. MapOf(S)[w] = {b \in Bits : WordToIndex(w) + b \in S}
  BY MapOfBits
<1>3. ASSUME NEW x \in S, FindIndex(x) = w PROVE FindBit(x) \in MapOf(S)[w]
  <2>1. x \in Nat
    BY DataInMap
  <2> QED
    BY <1>2, <1>3, <2>1, BitPlace
<1>4. ASSUME NEW b \in MapOf(S)[w] PROVE \E x \in S : FindIndex(x) = w /\ FindBit(x) = b
  <2>1. b \in Bits /\ WordToIndex(w) + b \in S
    BY <1>2
  <2> QED
    BY <1>1, <2>1, PlaceOfBit
<1> QED
  BY <1>3, <1>4

LEMMA NextBitIs ==
    ASSUME NEW S \in SUBSET DataSectors, NEW i \in DataSectors, NEW j \in DataSectors, i <= j
    PROVE  LET next == NextBit(MapOf(S), i, j)
           IN  \/ next = NoBit /\ \A x \in S : ~ (i <= x /\ x <= j)
               \/ next \in S /\ i <= next /\ \A x \in S : i <= x => next <= x
<1> DEFINE map == MapOf(S)
           bits(w) == IF w = FindIndex(i) THEN {b \in map[w] : b >= FindBit(i)} ELSE map[w]
           words == {w \in FindIndex(i) .. FindIndex(j) : ~IsCrcWord(w) /\ bits(w) # {}}
           place(x) == FindIndex(x)
<1>1. \A x \in S : x \in DataSectors
  OBVIOUS
<1>2. \A x \in DataSectors : /\ x \in Nat /\ FindIndex(x) \in MapWords /\ FindIndex(x) \in Nat
                             /\ ~IsCrcWord(FindIndex(x)) /\ FindBit(x) \in Nat
                             /\ WordToIndex(FindIndex(x)) + FindBit(x) = x
  BY DataInMap, BitPlace DEF Bits
<1>3. ASSUME NEW w \in FindIndex(i) .. FindIndex(j), ~IsCrcWord(w)
      PROVE  bits(w) = {FindBit(x) : x \in {y \in S : FindIndex(y) = w /\ i <= y}}
  <2>1. w \in MapWords /\ w \in Nat
    <3>1. FindIndex(j) \in MapWords /\ w \in 0 .. FindIndex(j)
      BY <1>2
    <3> QED
      BY <3>1, WordsBelow
  <2>2. map[w] = {FindBit(x) : x \in {y \in S : FindIndex(y) = w}}
    BY <1>3, <2>1, BitsOfWord
  <2>3. \A y \in S : FindIndex(y) = w => (i <= y <=> (w = FindIndex(i) => FindBit(y) >= FindBit(i)))
    <3> TAKE y \in S
    <3>1. i <= y <=> \/ FindIndex(i) < FindIndex(y)
                     \/ FindIndex(i) = FindIndex(y) /\ FindBit(i) <= FindBit(y)
      BY <1>1, <1>2, Compared
    <3> QED
      BY <1>1, <1>2, <1>3, <3>1
  <2> HIDE DEF map
  <2> QED
    BY <2>2, <2>3
<1>4. words \in SUBSET Nat
  BY <1>2
<1>5. NextBit(map, i, j) = IF words = {} THEN NoBit ELSE WordToIndex(Least(words)) + Least(bits(Least(words)))
  BY DEF NextBit
<1> HIDE DEF map, bits
<1>6. CASE words = {}
  <2>1. ASSUME NEW x \in S, i <= x, x <= j PROVE FALSE
    <3>1. FindIndex(x) \in FindIndex(i) .. FindIndex(j)
      BY <1>1, <1>2, <2>1, IndexOrder
    <3>2. FindBit(x) \in bits(FindIndex(x))
      BY <1>1, <1>2, <1>3, <2>1, <3>1
    <3> QED
      BY <1>1, <1>2, <1>6, <3>1, <3>2
  <2> QED
    BY <1>5, <1>6, <2>1 DEF map
<1>7. CASE words # {}
  <2> DEFINE u == Least(words)  b == Least(bits(u))  next == WordToIndex(u) + b
  <2>1. u \in words /\ \A y \in words : u <= y
    <3> HIDE DEF words
    <3> QED BY <1>4, <1>7, LeastIs
  <2>2. u \in FindIndex(i) .. FindIndex(j) /\ ~IsCrcWord(u) /\ bits(u) # {} /\ u \in Nat
    BY <1>4, <2>1
  <2> HIDE DEF words, u
  <2>3. bits(u) = {FindBit(x) : x \in {y \in S : FindIndex(y) = u /\ i <= y}}
    BY <1>3, <2>2
  <2>4. bits(u) \in SUBSET Nat
    BY <1>1, <1>2, <2>3
  <2>5. b \in bits(u) /\ \A c \in bits(u) : b <= c
    <3> DEFINE B == bits(u)
    <3>1. B \in SUBSET Nat /\ B # {}
      BY <2>2, <2>4
    <3> HIDE DEF B
    <3>2. Least(B) \in B /\ \A c \in B : Least(B) <= c
      BY <3>1, LeastIs
    <3> QED
      BY <3>2 DEF B
  <2> HIDE DEF b
  <2>6. PICK x \in S : FindIndex(x) = u /\ i <= x /\ FindBit(x) = b
    BY <2>3, <2>5
  <2>7. next = x
    BY <1>1, <1>2, <2>6
  <2>8. ASSUME NEW y \in S, i <= y PROVE x <= y
    <3>1. \/ FindIndex(x) < FindIndex(y)
          \/ FindIndex(x) = FindIndex(y) /\ FindBit(x) <= FindBit(y)
      <4>1. FindIndex(i) <= FindIndex(y)
        BY <1>1, <1>2, <2>8, IndexOrder
      <4>2. CASE FindIndex(y) <= FindIndex(j)
        <5>1. FindIndex(y) \in FindIndex(i) .. FindIndex(j)
          BY <1>1, <1>2, <4>1, <4>2
        <5>2. FindBit(y) \in bits(FindIndex(y))
          BY <1>1, <1>2, <1>3, <2>8, <5>1
        <5>3. FindIndex(y) \in words
          BY <1>1, <1>2, <5>1, <5>2 DEF words
        <5>4. u <= FindIndex(y)
          BY <2>1, <5>3
        <5>5. u = FindIndex(y) => b <= FindBit(y)
          BY <2>5, <5>2
        <5> QED
          BY <1>1, <1>2, <2>6, <5>4, <5>5
      <4>3. CASE ~ (FindIndex(y) <= FindIndex(j))
        BY <1>1, <1>2, <2>2, <2>6, <4>3
      <4> QED
        BY <4>2, <4>3
    <3> QED
      BY <1>1, <1>2, <3>1, Compared
  <2> QED
    BY <1>5, <1>7, <2>6, <2>7, <2>8 DEF map, u, b
<1> QED
  BY <1>6, <1>7

LEMMA PrevBitIs ==
    ASSUME NEW S \in SUBSET DataSectors, NEW i \in DataSectors, NEW j \in DataSectors, i <= j
    PROVE  LET prev == PrevBit(MapOf(S), i, j)
           IN  \/ prev = NoBit /\ \A x \in S : ~ (i <= x /\ x <= j)
               \/ prev \in S /\ i <= prev /\ prev <= j /\ \A x \in S : i <= x /\ x <= j => x <= prev
<1> DEFINE map == MapOf(S)
           bits(w) == {b \in map[w] : /\ w = FindIndex(j) => b <= FindBit(j)
                                      /\ w = FindIndex(i) => b >= FindBit(i)}
           words == {w \in FindIndex(i) .. FindIndex(j) : ~IsCrcWord(w) /\ bits(w) # {}}
<1>1. \A x \in S : x \in DataSectors
  OBVIOUS
<1>2. \A x \in DataSectors : /\ x \in Nat /\ FindIndex(x) \in MapWords /\ FindIndex(x) \in Nat
                             /\ ~IsCrcWord(FindIndex(x)) /\ FindBit(x) \in 0 .. BitsPerElement - 1
                             /\ FindBit(x) \in Nat
                             /\ WordToIndex(FindIndex(x)) + FindBit(x) = x
  BY DataInMap, BitPlace DEF Bits
<1>3. ASSUME NEW w \in FindIndex(i) .. FindIndex(j), ~IsCrcWord(w)
      PROVE  bits(w) = {FindBit(x) : x \in {y \in S : FindIndex(y) = w /\ i <= y /\ y <= j}}
  <2>1. w \in MapWords /\ w \in Nat
    <3>1. FindIndex(j) \in MapWords /\ w \in 0 .. FindIndex(j)
      BY <1>2
    <3> QED
      BY <3>1, WordsBelow
  <2>2. map[w] = {FindBit(x) : x \in {y \in S : FindIndex(y) = w}}
    BY <1>3, <2>1, BitsOfWord
  <2>3. \A y \in S : FindIndex(y) = w => (i <= y <=> (w = FindIndex(i) => FindBit(y) >= FindBit(i)))
    <3> TAKE y \in S
    <3>1. i <= y <=> \/ FindIndex(i) < FindIndex(y)
                     \/ FindIndex(i) = FindIndex(y) /\ FindBit(i) <= FindBit(y)
      BY <1>1, <1>2, Compared
    <3> QED
      BY <1>1, <1>2, <1>3, <3>1
  <2>4. \A y \in S : FindIndex(y) = w => (y <= j <=> (w = FindIndex(j) => FindBit(y) <= FindBit(j)))
    <3> TAKE y \in S
    <3>1. y <= j <=> \/ FindIndex(y) < FindIndex(j)
                     \/ FindIndex(y) = FindIndex(j) /\ FindBit(y) <= FindBit(j)
      BY <1>1, <1>2, Compared
    <3> QED
      BY <1>1, <1>2, <1>3, <3>1
  <2> HIDE DEF map
  <2> QED
    BY <2>2, <2>3, <2>4
<1>4. words \in SUBSET (0 .. FindIndex(j)) /\ FindIndex(j) \in Nat
  BY <1>2
<1>5. PrevBit(map, i, j) = IF words = {} THEN NoBit
                           ELSE WordToIndex(Greatest(words)) + Greatest(bits(Greatest(words)))
  BY DEF PrevBit
<1>6. ASSUME NEW x \in S, i <= x, x <= j
      PROVE  FindIndex(x) \in words /\ FindBit(x) \in bits(FindIndex(x))
  <2>1. FindIndex(x) \in FindIndex(i) .. FindIndex(j)
    BY <1>1, <1>2, <1>6, IndexOrder
  <2>2. FindBit(x) \in bits(FindIndex(x))
    <3> HIDE DEF bits
    <3> QED BY <1>1, <1>2, <1>3, <1>6, <2>1
  <2> HIDE DEF bits
  <2> QED
    BY <1>1, <1>2, <2>1, <2>2
<1> HIDE DEF map, bits
<1>7. CASE words = {}
  BY <1>5, <1>6, <1>7 DEF map
<1>8. CASE words # {}
  <2> DEFINE u == Greatest(words)  b == Greatest(bits(u))  prev == WordToIndex(u) + b
  <2>1. u \in words /\ \A y \in words : u >= y
    <3> HIDE DEF words
    <3> QED BY <1>4, <1>8, GreatestIs
  <2>2. u \in FindIndex(i) .. FindIndex(j) /\ ~IsCrcWord(u) /\ bits(u) # {} /\ u \in Nat
    BY <1>4, <2>1
  <2> HIDE DEF words, u
  <2>3. bits(u) = {FindBit(x) : x \in {y \in S : FindIndex(y) = u /\ i <= y /\ y <= j}}
    BY <1>3, <2>2
  <2>4. bits(u) \in SUBSET (0 .. BitsPerElement - 1) /\ BitsPerElement - 1 \in Nat
    BY <1>1, <1>2, <2>3, Sizes
  <2>5. b \in bits(u) /\ \A c \in bits(u) : b >= c
    <3> DEFINE B == bits(u)  n == BitsPerElement - 1
    <3>1. n \in Nat /\ B \in SUBSET (0 .. n) /\ B # {}
      BY <2>2, <2>4
    <3> HIDE DEF B, n
    <3>2. Greatest(B) \in B /\ \A c \in B : Greatest(B) >= c
      BY <3>1, GreatestIs
    <3> QED
      BY <3>2 DEF B
  <2> HIDE DEF b
  <2>6. PICK x \in S : FindIndex(x) = u /\ i <= x /\ x <= j /\ FindBit(x) = b
    BY <2>3, <2>5
  <2>7. prev = x
    BY <1>1, <1>2, <2>6
  <2>8. ASSUME NEW y \in S, i <= y, y <= j PROVE y <= x
    <3>1. FindIndex(y) \in words /\ FindBit(y) \in bits(FindIndex(y))
      BY <1>6, <2>8
    <3>2. u >= FindIndex(y) /\ (u = FindIndex(y) => b >= FindBit(y))
      BY <2>1, <2>5, <3>1
    <3>3. FindIndex(y) < FindIndex(x) \/ (FindIndex(y) = FindIndex(x) /\ FindBit(y) <= FindBit(x))
      BY <1>1, <1>2, <2>6, <3>2
    <3> QED
      BY <1>1, <1>2, <3>3, Compared
  <2> QED
    BY <1>5, <1>8, <2>6, <2>7, <2>8 DEF map, u, b
<1> QED
  BY <1>7, <1>8

-----------------------------------------------------------------------------
(* get_nth_set_bit finds the numbers of a set, in order.                   *)
LEMMA AscendingNth ==
    ASSUME NEW n \in Nat, NEW S \in SUBSET (0 .. n)
    PROVE  Ascending(S) = [p \in 1 .. Cardinality(S) |-> NthSetBit(S, p - 1)]
<1>1. \A k \in 0 .. Cardinality(S) - 1 :
          NthSetBit(S, k) = CHOOSE b \in S : Cardinality({a \in S : a < b}) = k
  BY EveryRank DEF NthSetBit
<1>2. \A p \in 1 .. Cardinality(S) : p - 1 \in 0 .. Cardinality(S) - 1
  <2>1. Cardinality(S) \in Nat
    BY NumberRanks
  <2> QED
    BY <2>1
<1>3. \A p \in 1 .. Cardinality(S) :
          NthSetBit(S, p - 1) = CHOOSE b \in S : Cardinality({a \in S : a < b}) = p - 1
  BY <1>1, <1>2
<1> QED
  BY <1>3 DEF Ascending

-----------------------------------------------------------------------------
(* What a mount frees.  s has each member of T once.                       *)
Exactly(s, T) ==
    /\ s \in Seq(T)
    /\ \A p, q \in 1 .. Len(s) : s[p] = s[q] => p = q
    /\ \A x \in T : \E p \in 1 .. Len(s) : s[p] = x

LEMMA ExactlyIs ==
    ASSUME NEW s, NEW T, Exactly(s, T)
    PROVE  IsInjective(s) /\ Range(s) = T /\ s \in Seq(T)
<1>1. DOMAIN s = 1 .. Len(s) /\ \A p \in 1 .. Len(s) : s[p] \in T
  BY LenProperties, ElementOfSeq DEF Exactly
<1> QED
  BY <1>1 DEF Exactly, IsInjective, Range

LEMMA ExactlyNone == Exactly(<< >>, {})
<1>1. << >> \in Seq({}) /\ Len(<< >>) = 0
  OBVIOUS
<1> QED
  BY <1>1 DEF Exactly

LEMMA ExactlyJoined ==
    ASSUME NEW T, NEW U, T \cap U = {}, NEW s, NEW t, Exactly(s, T), Exactly(t, U)
    PROVE  Exactly(s \o t, T \cup U)
<1> DEFINE X == T \cup U  m == Len(s)  n == Len(t)  st == s \o t
<1>1. s \in Seq(X) /\ t \in Seq(X) /\ m \in Nat /\ n \in Nat
  BY LenProperties DEF Exactly
<1>2. /\ st \in Seq(X) /\ Len(st) = m + n
      /\ \A p \in 1 .. m : st[p] = s[p]
      /\ \A q \in 1 .. n : st[m + q] = t[q]
  <2> HIDE DEF X
  <2> QED BY <1>1, Joined
<1>3. /\ \A p \in 1 .. m : s[p] \in T
      /\ \A q \in 1 .. n : t[q] \in U
  BY ElementOfSeq DEF Exactly
<1>4. /\ \A p, q \in 1 .. m : s[p] = s[q] => p = q
      /\ \A p, q \in 1 .. n : t[p] = t[q] => p = q
      /\ \A x \in T : \E p \in 1 .. m : s[p] = x
      /\ \A x \in U : \E p \in 1 .. n : t[p] = x
  BY DEF Exactly
<1> HIDE DEF m, n, st
<1>5. \A p \in 1 .. m + n : p \in 1 .. m \/ \E q \in 1 .. n : p = m + q
  <2> TAKE p \in 1 .. m + n
  <2>1. p \in 1 .. m \/ (p - m \in 1 .. n /\ p = m + (p - m))
    BY <1>1
  <2> QED
    BY <2>1
<1>6. ASSUME NEW p \in 1 .. m + n, NEW q \in 1 .. m + n, st[p] = st[q] PROVE p = q
  <2>1. CASE p \in 1 .. m /\ q \in 1 .. m
    BY <1>2, <1>4, <1>6, <2>1
  <2>2. CASE p \in 1 .. m /\ \E b \in 1 .. n : q = m + b
    BY <1>2, <1>3, <1>6, <2>2
  <2>3. CASE q \in 1 .. m /\ \E a \in 1 .. n : p = m + a
    BY <1>2, <1>3, <1>6, <2>3
  <2>4. ASSUME NEW a \in 1 .. n, NEW b \in 1 .. n, p = m + a, q = m + b PROVE p = q
    BY <1>2, <1>4, <1>6, <2>4
  <2> QED
    BY <1>5, <2>1, <2>2, <2>3, <2>4
<1>7. ASSUME NEW x \in T \cup U PROVE \E p \in 1 .. m + n : st[p] = x
  <2>1. CASE x \in T
    <3>1. PICK p \in 1 .. m : s[p] = x
      BY <1>4, <2>1
    <3>2. p \in 1 .. m + n
      BY <1>1
    <3> QED
      BY <1>2, <3>1, <3>2
  <2>2. CASE x \in U
    <3>1. PICK q \in 1 .. n : t[q] = x
      BY <1>4, <2>2
    <3>2. m + q \in 1 .. m + n
      BY <1>1
    <3> QED
      BY <1>2, <3>1, <3>2
  <2> QED
    BY <2>1, <2>2
<1>8. st \in Seq(T \cup U) /\ Len(st) = m + n
  BY <1>2
<1>9. Exactly(st, T \cup U)
  BY <1>6, <1>7, <1>8 DEF Exactly
<1> QED
  BY <1>9 DEF st

LEMMA AscendingExactly ==
    ASSUME NEW n \in Nat, NEW S \in SUBSET (0 .. n)
    PROVE  Exactly(Ascending(S), S)
<1> DEFINE s == Ascending(S)  c == Cardinality(S)
<1>1. /\ s \in Seq(S) /\ Len(s) = c /\ c \in Nat
      /\ \A p, q \in 1 .. c : p < q => s[p] < s[q]
      /\ \A x \in S : \E p \in 1 .. c : s[p] = x
  BY AscendingIs
<1> HIDE DEF s, c
<1>2. ASSUME NEW p \in 1 .. c, NEW q \in 1 .. c, s[p] = s[q] PROVE p = q
  <2>1. s[p] \in S
    BY <1>1, ElementOfSeq
  <2>2. s[p] \in Int
    <3>1. \A x \in S : x \in Int
      OBVIOUS
    <3> QED
      BY <2>1, <3>1
  <2>3. ~ (s[p] < s[q]) /\ ~ (s[q] < s[p])
    BY <1>2, <2>2
  <2>4. ~ (p < q) /\ ~ (q < p)
    BY <1>1, <2>3
  <2> QED
    BY <1>1, <2>4
<1>3. Exactly(s, S)
  BY <1>1, <1>2 DEF Exactly
<1> QED
  BY <1>3 DEF s

LEMMA FreeRangeIs ==
    ASSUME NEW from \in Nat, NEW to \in Nat, NEW capacity \in Nat
    PROVE  Exactly(FreeRange(from, to, capacity), {x \in 0 .. capacity - 1 : from <= x /\ x < to})
<1> DEFINE top == IF to < capacity THEN to ELSE capacity
           n == IF top > from THEN top - from ELSE 0
           T == {x \in 0 .. capacity - 1 : from <= x /\ x < to}
           s == FreeRange(from, to, capacity)
<1>1. top \in Nat /\ n \in Nat /\ 1 .. top - from = 1 .. n
  OBVIOUS
<1>2. s = [k \in 1 .. n |-> from + k - 1]
  BY <1>1 DEF FreeRange
<1>3. \A k \in 1 .. n : from + k - 1 \in T
  OBVIOUS
<1>4. \A x \in T : (x - from) + 1 \in 1 .. n /\ from + ((x - from) + 1) - 1 = x
  OBVIOUS
<1> HIDE DEF n, T, s
<1>5. s \in Seq(T) /\ Len(s) = n
  <2>1. s \in [1 .. n -> T]
    BY <1>2, <1>3
  <2> QED
    BY <1>1, <2>1, FunctionIsSeq
<1>6. \A p, q \in 1 .. n : s[p] = s[q] => p = q
  <2> TAKE p, q \in 1 .. n
  <2>1. s[p] = from + p - 1 /\ s[q] = from + q - 1
    BY <1>2
  <2>2. p \in Int /\ q \in Int
    BY <1>1
  <2> QED
    BY <2>1, <2>2
<1>7. \A x \in T : \E p \in 1 .. n : s[p] = x
  BY <1>2, <1>4
<1>8. Exactly(s, T)
  BY <1>5, <1>6, <1>7 DEF Exactly
<1> QED
  BY <1>8 DEF s, T

(* The slots that the sectors of a card leave free, S being in use.        *)
SlotFree(S, used, s) ==
    LET k == s \div ContactCapacity
    IN  k \in S => used[k] # Lost /\ s % ContactCapacity \notin used[k]

SlotIndices == 0 .. ContactSlots - 1
UsedSlots   == [0 .. ContactSectors - 1 -> (SUBSET (0 .. ContactCapacity - 1)) \cup {Lost}]

LEMMA SlotSizes ==
    /\ ContactSlots \in Nat /\ ContactSlots > 0
    /\ \A s \in SlotIndices : s \in Nat /\ s \div ContactCapacity \in 0 .. ContactSectors - 1
                              /\ s % ContactCapacity \in 0 .. ContactCapacity - 1
<1> DEFINE x == (ContactSectors - 1) * ContactCapacity  y == ContactSectors * ContactCapacity
<1>1. ContactSectors - 1 \in Nat /\ ContactSectors \in Nat /\ ContactCapacity \in Nat
  BY Sizes
<1>2. x \in Nat /\ y \in Nat
  BY <1>1, TimesGrows
<1>3. ContactSlots \in x + 1 .. y
  BY BitmapAssumption
<1>4. ContactSlots \in Nat /\ ContactSlots > 0 /\ ContactSlots <= y
  <2> HIDE DEF x, y
  <2> QED BY <1>2, <1>3
<1>5. ASSUME NEW s \in SlotIndices
      PROVE  s \in Nat /\ s \div ContactCapacity \in 0 .. ContactSectors - 1
             /\ s % ContactCapacity \in 0 .. ContactCapacity - 1
  <2> DEFINE d == s \div ContactCapacity  q == s % ContactCapacity
  <2>1. s \in Nat /\ s < y
    <3> HIDE DEF y
    <3> QED BY <1>2, <1>4 DEF SlotIndices
  <2>2. d \in Nat /\ q \in 0 .. ContactCapacity - 1 /\ s = d * ContactCapacity + q
    BY <2>1, Sizes, DivisionOf
  <2> HIDE DEF d, q
  <2>3. ~ (ContactSectors < d)
    <3> SUFFICES ASSUME ContactSectors < d PROVE FALSE
      OBVIOUS
    <3>1. ContactSectors * ContactCapacity <= d * ContactCapacity /\ d * ContactCapacity \in Nat
      BY <1>1, <2>2, TimesGrows
    <3> DEFINE dc == d * ContactCapacity
    <3>2. y <= dc /\ s = dc + q /\ dc \in Nat
      BY <2>2, <3>1
    <3> HIDE DEF dc, y
    <3> QED
      BY <1>2, <2>1, <2>2, <3>2
  <2>4. d # ContactSectors
    <3> SUFFICES ASSUME d = ContactSectors PROVE FALSE
      OBVIOUS
    <3>1. s = y + q
      BY <2>2
    <3> HIDE DEF y
    <3> QED
      BY <1>2, <2>1, <2>2, <3>1
  <2>5. d \in 0 .. ContactSectors - 1
    BY <1>1, <2>2, <2>3, <2>4
  <2> QED
    BY <2>1, <2>2, <2>5 DEF d, q
<1> QED
  BY <1>4, <1>5

(* Slots are in the order of their sectors.                                *)
LEMMA SectorBefore ==
    ASSUME NEW s \in Nat, NEW k \in Nat
    PROVE  k * ContactCapacity \in Nat /\ (s < k * ContactCapacity <=> s \div ContactCapacity < k)
<1> DEFINE d == s \div ContactCapacity  q == s % ContactCapacity
           kc == k * ContactCapacity  dc == d * ContactCapacity
<1>1. d \in Nat /\ q \in 0 .. ContactCapacity - 1 /\ s = dc + q
  BY Sizes, DivisionOf
<1>2. kc \in Nat
  BY Sizes, TimesGrows
<1> HIDE DEF d, q
<1>3. d < k => dc + q < kc + 0
  <2>1. 0 \in 0 .. ContactCapacity - 1
    BY Sizes
  <2> QED
    BY <1>1, <2>1, Sizes, FirstDigit
<1>4. k <= d => kc <= dc /\ dc \in Nat
  BY <1>1, Sizes, TimesGrows
<1> HIDE DEF kc, dc
<1>5. s < kc <=> d < k
  BY <1>1, <1>2, <1>3, <1>4
<1> QED
  BY <1>2, <1>5 DEF d, kc

LEMMA ContactScanIs ==
    ASSUME NEW S \in SUBSET DataSectors
    PROVE  ContactScan(MapOf(S)) = Ascending({k \in S : k < ContactSectors})
<1> DEFINE map == MapOf(S)
           words == {w \in FindIndex(0) .. FindIndex(ContactSectors) : ~IsCrcWord(w)}
           found == {i \in UNION {{WordToIndex(w) + b : b \in map[w]} : w \in words} : i < ContactSectors}
<1>1. 0 \in DataSectors /\ ContactSectors \in DataSectors /\ 0 \in Nat /\ ContactSectors \in Nat
  BY Sizes DEF DataSectors
<1>2. \A x \in DataSectors : /\ x \in Nat /\ FindIndex(x) \in MapWords /\ FindIndex(x) \in Nat
                             /\ ~IsCrcWord(FindIndex(x))
                             /\ WordToIndex(FindIndex(x)) + FindBit(x) = x
  BY DataInMap, BitPlace
<1>3. ASSUME NEW w \in words PROVE map[w] = {FindBit(x) : x \in {y \in S : FindIndex(y) = w}}
  <2>1. w \in 0 .. FindIndex(ContactSectors) /\ FindIndex(ContactSectors) \in MapWords /\ ~IsCrcWord(w)
    BY <1>1, <1>2
  <2>2. w \in MapWords
    BY <2>1, WordsBelow
  <2> QED
    BY <2>1, <2>2, BitsOfWord
<1> HIDE DEF map
<1>4. ASSUME NEW i \in found PROVE i \in S /\ i < ContactSectors
  <2>1. PICK w \in words : i \in {WordToIndex(w) + b : b \in map[w]}
    OBVIOUS
  <2>2. PICK x \in S : FindIndex(x) = w /\ i = WordToIndex(w) + FindBit(x)
    <3> HIDE DEF words
    <3> QED BY <1>3, <2>1
  <2>3. i = x
    BY <1>2, <2>2
  <2> QED
    BY <2>2, <2>3
<1>5. ASSUME NEW i \in S, i < ContactSectors PROVE i \in found
  <2>1. i \in DataSectors /\ i \in Nat
    BY <1>2
  <2>2. FindIndex(i) \in FindIndex(0) .. FindIndex(ContactSectors)
    <3>1. FindIndex(0) <= FindIndex(i) /\ FindIndex(i) <= FindIndex(ContactSectors)
      BY <1>1, <1>5, <2>1, IndexOrder
    <3> QED
      BY <1>1, <1>2, <2>1, <3>1
  <2>3. FindIndex(i) \in words
    BY <1>2, <2>1, <2>2
  <2>4. FindBit(i) \in map[FindIndex(i)]
    <3> HIDE DEF words
    <3> QED BY <1>3, <2>3
  <2>5. i = WordToIndex(FindIndex(i)) + FindBit(i)
    BY <1>2, <2>1
  <2>6. \E w \in words : \E b \in map[w] : i = WordToIndex(w) + b
    <3> HIDE DEF words
    <3> QED BY <2>3, <2>4, <2>5
  <2> QED
    BY <1>5, <2>6
<1>6. found = {k \in S : k < ContactSectors}
  <2> HIDE DEF found
  <2> QED BY <1>4, <1>5
<1>7. ContactScan(map) = Ascending(found)
  BY DEF ContactScan
<1> QED
  BY <1>6, <1>7 DEF map

LEMMA ExactlyNumbers ==
    ASSUME NEW s, NEW T \in SUBSET Nat, Exactly(s, T)
    PROVE  s \in Seq(Nat)
<1> DEFINE n == Len(s)
<1>1. n \in Nat /\ s \in [1 .. n -> T]
  BY LenProperties DEF Exactly
<1> HIDE DEF n
<1>2. s \in [1 .. n -> Nat]
  BY <1>1
<1> QED
  BY <1>1, <1>2, FunctionIsSeq

LEMMA SlotsOfSector ==
    ASSUME NEW k \in Nat, NEW l \in Nat
    PROVE  /\ k * ContactCapacity \in Nat /\ l * ContactCapacity \in Nat
           /\ Exactly(FreeRange(k * ContactCapacity, l * ContactCapacity, ContactSlots),
                      {s \in SlotIndices : k <= s \div ContactCapacity /\ s \div ContactCapacity < l})
<1> DEFINE kc == k * ContactCapacity  lc == l * ContactCapacity
           T == {x \in 0 .. ContactSlots - 1 : kc <= x /\ x < lc}
<1>1. kc \in Nat /\ lc \in Nat
  BY Sizes, TimesGrows
<1>2. Exactly(FreeRange(kc, lc, ContactSlots), T)
  <2> HIDE DEF kc, lc
  <2> QED BY <1>1, SlotSizes, FreeRangeIs
<1>3. ASSUME NEW s \in SlotIndices
      PROVE  (kc <= s /\ s < lc) <=> (k <= s \div ContactCapacity /\ s \div ContactCapacity < l)
  <2>1. s \in Nat /\ s \div ContactCapacity \in Nat
    BY SlotSizes
  <2>2. (s < kc <=> s \div ContactCapacity < k) /\ (s < lc <=> s \div ContactCapacity < l)
    BY <2>1, SectorBefore
  <2> HIDE DEF kc, lc
  <2> QED
    BY <1>1, <2>1, <2>2
<1>4. T = {s \in SlotIndices : k <= s \div ContactCapacity /\ s \div ContactCapacity < l}
  <2> HIDE DEF kc, lc
  <2> QED BY <1>3 DEF SlotIndices
<1> QED
  BY <1>1, <1>2, <1>4

LEMMA FreedInSectorIs ==
    ASSUME NEW S, NEW used \in UsedSlots, NEW k \in 0 .. ContactSectors - 1, k \in S
    PROVE  Exactly(FreedInSector(k, used[k], Lost),
                   {s \in SlotIndices : s \div ContactCapacity = k /\ SlotFree(S, used, s)})
<1> DEFINE T == {s \in SlotIndices : s \div ContactCapacity = k /\ SlotFree(S, used, s)}
<1>1. CASE used[k] = Lost
  <2>1. T = {}
    BY <1>1 DEF SlotFree
  <2>2. FreedInSector(k, used[k], Lost) = << >>
    BY <1>1 DEF FreedInSector
  <2> QED
    BY <2>1, <2>2, ExactlyNone
<1>2. CASE used[k] # Lost
  <2> DEFINE R == FreeRange(k * ContactCapacity, (k + 1) * ContactCapacity, ContactSlots)
             all == {s \in SlotIndices : k <= s \div ContactCapacity /\ s \div ContactCapacity < k + 1}
  <2>1. k \in Nat /\ k + 1 \in Nat
    OBVIOUS
  <2>2. Exactly(R, all)
    BY <2>1, SlotsOfSector
  <2>3. Range(R) = all
    <3> HIDE DEF R, all
    <3> QED BY <2>2, ExactlyIs
  <2>4. \A s \in SlotIndices : k <= s \div ContactCapacity /\ s \div ContactCapacity < k + 1
                                   <=> s \div ContactCapacity = k
    BY SlotSizes
  <2>5. {s \in Range(R) : s % ContactCapacity \notin used[k]} = T
    <3> HIDE DEF R
    <3> QED BY <1>2, <2>3, <2>4 DEF SlotFree
  <2>6. FreedInSector(k, used[k], Lost) = Ascending(T)
    BY <1>2, <2>5 DEF FreedInSector
  <2> DEFINE top == ContactSlots - 1
  <2>7. top \in Nat /\ T \in SUBSET (0 .. top)
    BY SlotSizes DEF SlotIndices
  <2>8. Exactly(Ascending(T), T)
    <3> HIDE DEF T, top
    <3> QED BY <2>7, AscendingExactly
  <2> QED
    BY <2>6, <2>8
<1> QED
  BY <1>1, <1>2

(* hash_reconstruct_contact frees exactly the free slots.                  *)
LEMMA ContactsFreedIs ==
    ASSUME NEW S \in SUBSET DataSectors, NEW used \in UsedSlots
    PROVE  Exactly(ContactsFreed(MapOf(S), used, Lost), {s \in SlotIndices : SlotFree(S, used, s)})
<1> DEFINE found == {k \in S : k < ContactSectors}
           scan == Ascending(found)
           N == Len(scan)
           gap(n, last) == FreeRange(last, scan[n] * ContactCapacity, ContactSlots)
           own(n) == FreedInSector(scan[n], used[scan[n]], Lost)
           Body(g) == [n \in 0 .. Len(scan) |->
                          IF n = 0 THEN [freed |-> << >>, last |-> 0]
                          ELSE [freed |-> g[n - 1].freed \o gap(n, g[n - 1].last) \o own(n),
                                last  |-> (scan[n] + 1) * ContactCapacity]]
           at == CHOOSE g : g = Body(g)
           sector(s) == s \div ContactCapacity
           Below(l) == {s \in SlotIndices : sector(s) < l /\ SlotFree(S, used, s)}
           next(n) == IF n = 0 THEN 0 ELSE scan[n] + 1
<1>1. /\ found \in SUBSET (0 .. ContactSectors - 1) /\ ContactSectors - 1 \in Nat /\ ContactSectors \in Nat
  <2>1. \A k \in S : k \in Nat
    BY DEF DataSectors
  <2> QED
    BY <2>1, Sizes
<1>2. /\ scan \in Seq(found) /\ N \in Nat
      /\ \A p, q \in 1 .. N : p < q => scan[p] < scan[q]
      /\ \A x \in found : \E p \in 1 .. N : scan[p] = x
  <2> HIDE DEF found
  <2> QED BY <1>1, AscendingIs
<1>3. \A n \in 1 .. N : scan[n] \in found /\ scan[n] \in 0 .. ContactSectors - 1 /\ scan[n] \in S
  <2>1. \A n \in 1 .. N : scan[n] \in found
    <3> HIDE DEF found, scan
    <3> QED BY <1>2, ElementOfSeq
  <2> QED
    BY <1>1, <2>1
<1> HIDE DEF scan, N
<1>4. ASSUME NEW n \in 1 .. N
      PROVE  /\ next(n) = scan[n] + 1 /\ next(n) \in Nat /\ scan[n] \in Nat
             /\ Exactly(own(n), {s \in SlotIndices : sector(s) = scan[n] /\ SlotFree(S, used, s)})
  <2> DEFINE k == scan[n]
  <2>1. k \in 0 .. ContactSectors - 1 /\ k \in S
    BY <1>3
  <2>2. n # 0
    BY <1>2
  <2>3. next(n) = k + 1
    BY <2>2
  <2>4. k \in Nat /\ k + 1 \in Nat
    BY <1>1, <2>1
  <2>5. Exactly(FreedInSector(k, used[k], Lost),
                {s \in SlotIndices : s \div ContactCapacity = k /\ SlotFree(S, used, s)})
    <3> HIDE DEF k
    <3> QED BY <2>1, FreedInSectorIs
  <2> QED
    BY <2>3, <2>4, <2>5
<1>5. ASSUME NEW n \in 1 .. N, NEW l \in Nat
      PROVE  Exactly(gap(n, l * ContactCapacity), {s \in SlotIndices : l <= sector(s) /\ sector(s) < scan[n]})
  BY <1>4, SlotsOfSector
<1>6. PICK h : h = Body(h)
  <2> DEFINE V == [freed : Seq(Nat), last : {l * ContactCapacity : l \in Nat}]
             step == [n \in 0 .. N |-> [r \in V |->
                        IF n = 0 THEN r
                        ELSE [freed |-> r.freed \o gap(n, r.last) \o own(n),
                              last  |-> (scan[n] + 1) * ContactCapacity]]]
             v == [freed |-> << >>, last |-> 0]
  <2>1. v \in V
    <3>1. 0 = 0 * ContactCapacity
      BY Sizes
    <3> QED
      BY <3>1
  <2>2. step \in [0 .. N -> [V -> V]]
    <3>1. ASSUME NEW n \in 0 .. N, n # 0, NEW r \in V
          PROVE  /\ r.freed \o gap(n, r.last) \o own(n) \in Seq(Nat)
                 /\ (scan[n] + 1) * ContactCapacity \in {l * ContactCapacity : l \in Nat}
      <4>1. n \in 1 .. N
        BY <1>2, <3>1
      <4>2. PICK l \in Nat : r.last = l * ContactCapacity
        OBVIOUS
      <4>3. SlotIndices \in SUBSET Nat
        BY SlotSizes
      <4>4. gap(n, r.last) \in Seq(Nat)
        <5> DEFINE T == {s \in SlotIndices : l <= sector(s) /\ sector(s) < scan[n]}
                   g == gap(n, l * ContactCapacity)
        <5>1. Exactly(g, T) /\ T \in SUBSET Nat
          BY <1>5, <4>1, <4>3
        <5>2. g \in Seq(Nat)
          <6> HIDE DEF g, T
          <6> QED BY <5>1, ExactlyNumbers
        <5> QED
          BY <4>2, <5>2
      <4>5. own(n) \in Seq(Nat)
        <5> DEFINE T == {s \in SlotIndices : sector(s) = scan[n] /\ SlotFree(S, used, s)}
        <5>1. Exactly(own(n), T) /\ T \in SUBSET Nat
          BY <1>4, <4>1, <4>3
        <5> HIDE DEF own, T
        <5> QED BY <5>1, ExactlyNumbers
      <4>6. r.freed \in Seq(Nat)
        OBVIOUS
      <4>7. scan[n] + 1 \in Nat
        <5>1. scan[n] \in Nat
          BY <1>4, <4>1
        <5> QED
          BY <5>1
      <4> HIDE DEF gap, own
      <4> QED
        BY <4>4, <4>5, <4>6, <4>7
    <3> HIDE DEF gap, own
    <3> QED
      BY <3>1
  <2>3. \E h : Iterates(h, 0, N, V, v, step)
    <3> HIDE DEF V, v, step
    <3>1. 0 \in Nat /\ N \in Nat /\ 0 <= N
      BY <1>2
    <3> QED
      BY <2>1, <2>2, <3>1, RecursionExists
  <2>4. PICK h : Iterates(h, 0, N, V, v, step)
    BY <2>3
  <2>5. /\ h \in [0 .. N -> V] /\ h[0] = v
        /\ \A n \in 0 + 1 .. N : h[n] = step[n][h[n - 1]]
    <3> HIDE DEF V, v, step
    <3> QED BY <2>4 DEF Iterates
  <2>6. ASSUME NEW n \in 0 .. N
        PROVE  h[n] = IF n = 0 THEN [freed |-> << >>, last |-> 0]
                      ELSE [freed |-> h[n - 1].freed \o gap(n, h[n - 1].last) \o own(n),
                            last  |-> (scan[n] + 1) * ContactCapacity]
    <3>1. CASE n = 0
      BY <2>5, <3>1
    <3>2. CASE n # 0
      <4>1. n \in 0 + 1 .. N /\ n - 1 \in 0 .. N
        BY <1>2, <3>2
      <4>2. h[n - 1] \in V
        BY <2>5, <4>1
      <4>3. h[n] = step[n][h[n - 1]]
        BY <2>5, <4>1
      <4> HIDE DEF gap, own, V
      <4> QED
        BY <3>2, <4>2, <4>3
    <3> QED
      BY <3>1, <3>2
  <2>7. h = [n \in 0 .. N |-> h[n]]
    BY <2>5
  <2>8. h = Body(h)
    <3> HIDE DEF gap, own
    <3> QED BY <2>6, <2>7 DEF N
  <2> QED
    BY <2>8
<1>7. at = Body(at)
  <2> HIDE DEF gap, own
  <2> QED BY <1>6
<1>8. ContactsFreed(MapOf(S), used, Lost) =
          at[N].freed \o FreeRange(at[N].last, ContactSlots, ContactSlots)
  <2>1. ContactScan(MapOf(S)) = scan
    BY ContactScanIs DEF scan
  <2> QED
    BY <2>1 DEF ContactsFreed, N
<1> HIDE DEF at, gap, own
<1>9. \A n \in 0 .. N : at[n] = IF n = 0 THEN [freed |-> << >>, last |-> 0]
                                ELSE [freed |-> at[n - 1].freed \o gap(n, at[n - 1].last) \o own(n),
                                      last  |-> (scan[n] + 1) * ContactCapacity]
  BY <1>7 DEF N
<1>zero. at[0] = [freed |-> << >>, last |-> 0]
  <2>1. 0 \in 0 .. N
    BY <1>2
  <2> QED
    BY <1>9, <2>1
<1>next. next(0) = 0
  OBVIOUS
<1> HIDE DEF next
<1> DEFINE Right(n) == at[n].last = next(n) * ContactCapacity /\ Exactly(at[n].freed, Below(next(n)))
           R == {n \in 0 .. N : Right(n)}
<1>10. ASSUME NEW n \in 1 .. N, NEW d \in Nat, d < scan[n], n = 1 \/ scan[n - 1] < d
       PROVE  d \notin S
  <2> SUFFICES ASSUME d \in S PROVE FALSE
    OBVIOUS
  <2>1. scan[n] \in 0 .. ContactSectors - 1
    BY <1>3
  <2>2. d \in found
    BY <1>1, <1>10, <2>1
  <2>3. PICK p \in 1 .. N : scan[p] = d
    BY <1>2, <2>2
  <2>4. p < n
    <3>1. \A q \in 1 .. N : scan[q] \in Int
      BY <1>3
    <3>2. p # n /\ ~ (n < p)
      BY <1>2, <1>10, <2>3, <3>1
    <3> QED
      BY <1>2, <3>2
  <2>5. n - 1 \in 1 .. N /\ p <= n - 1
    BY <1>2, <2>4
  <2>6. scan[n - 1] < d
    BY <1>2, <1>10, <2>4
  <2>7. p < n - 1 \/ p = n - 1
    BY <1>2, <2>5
  <2>8. scan[n - 1] \in Int /\ scan[p] \in Int
    BY <1>3, <2>5
  <2> QED
    BY <1>2, <2>3, <2>5, <2>6, <2>7, <2>8
<1>11. 0 \in R
  <2>1. at[0].freed = << >> /\ at[0].last = 0
    BY <1>zero
  <2>2. Below(0) = {}
    BY SlotSizes
  <2>3. 0 * ContactCapacity = 0 /\ 0 \in 0 .. N
    BY <1>2, Sizes
  <2> HIDE DEF Below
  <2>4. Right(0)
    BY <1>next, <2>1, <2>2, <2>3, ExactlyNone
  <2> QED
    BY <2>3, <2>4
<1>12. ASSUME NEW n \in 0 .. N - 1, n \in R PROVE n + 1 \in R
  <2> DEFINE m == n + 1  l == next(n)  k == scan[m]
             T == {s \in SlotIndices : l <= sector(s) /\ sector(s) < k}
             U == {s \in SlotIndices : sector(s) = k /\ SlotFree(S, used, s)}
  <2>1. n \in 0 .. N /\ m \in 1 .. N /\ m \in 0 .. N /\ m # 0 /\ m - 1 = n
    BY <1>2, <1>12
  <2>2. at[n].last = l * ContactCapacity /\ Exactly(at[n].freed, Below(l))
    BY <1>12
  <2>3. l \in Nat /\ k \in Nat /\ next(m) = k + 1
    <3>1. k \in Nat /\ next(m) = k + 1
      <4> HIDE DEF m
      <4> QED BY <1>4, <2>1
    <3>2. l \in Nat
      <4>1. CASE n = 0
        BY <1>next, <4>1
      <4>2. CASE n # 0
        <5>1. n \in 1 .. N
          BY <2>1, <4>2
        <5> QED
          BY <1>4, <5>1
      <4> QED
        BY <4>1, <4>2
    <3> QED
      BY <3>1, <3>2
  <2>4. l <= k
    <3>1. CASE n = 0
      BY <1>next, <2>3, <3>1
    <3>2. CASE n # 0
      <4>1. n \in 1 .. N /\ n < m
        BY <2>1, <3>2
      <4>2. scan[n] < k /\ scan[n] \in Nat
        BY <1>2, <1>4, <2>1, <4>1
      <4>3. l = scan[n] + 1
        BY <1>4, <4>1
      <4> QED
        BY <2>3, <4>2, <4>3
    <3> QED
      BY <3>1, <3>2
  <2>5. Exactly(gap(m, at[n].last), T) /\ Exactly(own(m), U)
    BY <1>4, <1>5, <2>1, <2>2, <2>3
  <2>6. at[m] = [freed |-> at[n].freed \o gap(m, at[n].last) \o own(m),
                 last  |-> (k + 1) * ContactCapacity]
    BY <1>9, <2>1
  <2>7. \A s \in SlotIndices : sector(s) \in Nat
    BY SlotSizes
  <2>8. ASSUME NEW s \in T PROVE SlotFree(S, used, s)
    <3> DEFINE d == sector(s)
    <3>1. d \in Nat /\ l <= d /\ d < k
      BY <2>7
    <3>2. m = 1 \/ scan[m - 1] < d
      <4>1. CASE n = 0
        BY <4>1
      <4>2. CASE n # 0
        <5>1. l = scan[n] + 1 /\ scan[n] \in Nat
          <6>1. n \in 1 .. N
            BY <2>1, <4>2
          <6> QED
            BY <1>4, <6>1
        <5> HIDE DEF l, d
        <5> QED BY <2>1, <3>1, <5>1
      <4> QED
        BY <4>1, <4>2
    <3>3. d \notin S
      <4> HIDE DEF d, m
      <4> QED BY <1>10, <2>1, <3>1, <3>2 DEF k
    <3> QED
      BY <3>3 DEF SlotFree
  <2> HIDE DEF sector
  <2>9. Below(l) \cup T \cup U = Below(k + 1)
    <3> HIDE DEF l, k
    <3> QED BY <2>3, <2>4, <2>7, <2>8
  <2>10. Below(l) \cap T = {} /\ (Below(l) \cup T) \cap U = {}
    <3> HIDE DEF l, k
    <3> QED BY <2>3, <2>4, <2>7
  <2> HIDE DEF T, U, Below, l, k
  <2>11. Exactly(at[n].freed \o gap(m, at[n].last), Below(l) \cup T)
    <3> HIDE DEF m
    <3> QED BY <2>2, <2>5, <2>10, ExactlyJoined
  <2>12. Exactly(at[n].freed \o gap(m, at[n].last) \o own(m), Below(l) \cup T \cup U)
    <3> HIDE DEF m
    <3> QED BY <2>5, <2>10, <2>11, ExactlyJoined
  <2>13. Right(m)
    <3>1. next(m) = k + 1
      BY <2>3
    <3>2. /\ at[m].last = (k + 1) * ContactCapacity
          /\ at[m].freed = at[n].freed \o gap(m, at[n].last) \o own(m)
      <4> DEFINE f == at[n].freed \o gap(m, at[n].last) \o own(m)
                 t == (k + 1) * ContactCapacity
      <4>1. at[m] = [freed |-> f, last |-> t]
        BY <2>6
      <4> HIDE DEF f, t
      <4>2. at[m].last = t /\ at[m].freed = f
        BY <4>1
      <4> QED
        BY <4>2 DEF f, t
    <3> HIDE DEF m
    <3> QED
      BY <2>9, <2>12, <3>1, <3>2
  <2> QED
    BY <2>1, <2>13
<1>13. Right(N)
  <2>1. 0 .. N \subseteq R
    <3> HIDE DEF R
    <3> QED BY <1>2, <1>11, <1>12, IntervalInduction
  <2>2. N \in R
    <3> HIDE DEF R
    <3> QED BY <1>2, <2>1
  <2> HIDE DEF Right
  <2> QED
    BY <2>2
<1> DEFINE l == next(N)
           T == {s \in SlotIndices : l <= sector(s) /\ s < ContactSlots}
<1>14. l \in Nat
  <2>1. N = 0 \/ N \in 1 .. N
    BY <1>2
  <2> QED
    <3>1. CASE N = 0
      BY <1>next, <3>1
    <3>2. CASE N \in 1 .. N
      BY <1>4, <3>2
    <3> QED
      BY <2>1, <3>1, <3>2
<1>15. Exactly(FreeRange(at[N].last, ContactSlots, ContactSlots), T)
  <2> DEFINE lc == l * ContactCapacity  F == {x \in 0 .. ContactSlots - 1 : lc <= x /\ x < ContactSlots}
  <2>1. lc \in Nat /\ at[N].last = lc
    BY <1>13, <1>14, Sizes, TimesGrows
  <2>2. Exactly(FreeRange(lc, ContactSlots, ContactSlots), F)
    <3> HIDE DEF lc
    <3> QED BY <2>1, SlotSizes, FreeRangeIs
  <2>3. ASSUME NEW s \in SlotIndices PROVE lc <= s <=> l <= sector(s)
    <3>1. s \in Nat /\ sector(s) \in Nat
      BY SlotSizes
    <3>2. s < lc <=> sector(s) < l
      <4> HIDE DEF l
      <4> QED BY <1>14, <3>1, SectorBefore
    <3> HIDE DEF lc, l, sector
    <3> QED
      BY <1>14, <2>1, <3>1, <3>2
  <2>4. F = T
    <3> HIDE DEF lc, l, sector
    <3> QED BY <2>3 DEF SlotIndices
  <2> QED
    BY <2>1, <2>2, <2>4
<1>16. ASSUME NEW s \in T PROVE SlotFree(S, used, s)
  <2> DEFINE d == sector(s)
  <2>1. d \in 0 .. ContactSectors - 1 /\ l <= d
    BY SlotSizes
  <2>2. d \notin S
    <3> SUFFICES ASSUME d \in S PROVE FALSE
      OBVIOUS
    <3>1. d \in found
      BY <1>1, <2>1
    <3>2. PICK p \in 1 .. N : scan[p] = d
      BY <1>2, <3>1
    <3>3. N \in 1 .. N /\ N # 0 /\ (p < N \/ p = N)
      BY <1>2
    <3>4. scan[N] \in Nat /\ scan[p] \in Nat /\ l = scan[N] + 1
      BY <1>4, <3>3
    <3>5. scan[p] <= scan[N]
      BY <1>2, <3>3, <3>4
    <3> HIDE DEF d
    <3> QED
      BY <2>1, <3>2, <3>4, <3>5
  <2> QED
    BY <2>2 DEF SlotFree
<1>17. \A s \in SlotIndices : sector(s) \in Nat /\ s < ContactSlots
  BY SlotSizes DEF SlotIndices
<1> HIDE DEF sector, l
<1>18. Below(l) \cap T = {} /\ Below(l) \cup T = {s \in SlotIndices : SlotFree(S, used, s)}
  BY <1>14, <1>16, <1>17
<1>19. Exactly(at[N].freed, Below(l))
  BY <1>13 DEF l
<1> HIDE DEF Below, T
<1> QED
  BY <1>8, <1>15, <1>18, <1>19, ExactlyJoined

(* hash_reconstruct_message frees exactly the message sectors that are not *)
(* in use.                                                                 *)
LEMMA MessagesFreedIs ==
    ASSUME NEW S \in SUBSET DataSectors
    PROVE  Exactly(MessagesFreed(MapOf(S)), {m \in 0 .. MessageSectors - 1 : ContactSectors + m \notin S})
<1> DEFINE first == ContactSectors
           last == ContactSectors + MessageSectors - 1
           M == MessageSectors
           from(i) == NextBit(MapOf(S), i, last)
           gap(r) == FreeRange(r.next, r.bit - first, M)
           Step(r) == IF r.bit = NoBit \/ r.bit > last THEN r
                      ELSE [freed |-> r.freed \o gap(r),
                            next  |-> (r.bit - first) + 1,
                            bit   |-> IF r.bit = last THEN NoBit ELSE from(r.bit + 1)]
           v == [freed |-> << >>, next |-> 0, bit |-> from(first)]
           Body(g) == [n \in 0 .. M |-> IF n = 0 THEN v ELSE Step(g[n - 1])]
           at == CHOOSE g : g = Body(g)
           V == [freed : Seq(Nat), next : Nat, bit : {NoBit} \cup (first .. last)]
           Unused(n) == {m \in 0 .. M - 1 : m < n /\ first + m \notin S}
<1>1. /\ first \in Nat /\ last \in Nat /\ M \in Nat /\ M > 0 /\ first <= last /\ last = (first + M) - 1
      /\ \A i \in first .. last : i \in DataSectors
      /\ \A x \in S : x \in Nat /\ x <= last
  BY Sizes DEF DataSectors
<1>2. ASSUME NEW i \in first .. last
      PROVE  \/ from(i) = NoBit /\ \A x \in S : x < i
             \/ from(i) \in S /\ from(i) \in first .. last /\ i <= from(i) /\ \A x \in S : i <= x => from(i) <= x
  <2>1. i \in DataSectors /\ last \in DataSectors /\ i <= last /\ i \in Nat /\ first <= i
    BY <1>1
  <2>2. \/ from(i) = NoBit /\ \A x \in S : ~ (i <= x /\ x <= last)
        \/ from(i) \in S /\ i <= from(i) /\ \A x \in S : i <= x => from(i) <= x
    <3> HIDE DEF last
    <3> QED BY <2>1, NextBitIs
  <2> DEFINE f == from(i)
  <2>3. CASE f = NoBit /\ \A x \in S : ~ (i <= x /\ x <= last)
    <3>1. \A x \in S : x < i
      <4> HIDE DEF last, f
      <4> QED BY <1>1, <2>1, <2>3
    <3> QED
      BY <2>3, <3>1
  <2>4. CASE f \in S /\ i <= f /\ \A x \in S : i <= x => f <= x
    <3>1. f \in first .. last
      <4> HIDE DEF last, first, f
      <4> QED BY <1>1, <2>1, <2>4
    <3> QED
      BY <2>4, <3>1
  <2> QED
    BY <2>2, <2>3, <2>4
<1> HIDE DEF from
<1>3. NoBit \notin Nat
  BY DEF NoBit
<1>4. ASSUME NEW r \in V, r.bit # NoBit, NEW n \in Nat, n <= r.bit - first
      PROVE  /\ r.bit \in first .. last /\ ~ (r.bit > last)
             /\ r.bit - first \in 0 .. M - 1
             /\ Exactly(FreeRange(n, r.bit - first, M), {m \in 0 .. M - 1 : n <= m /\ m < r.bit - first})
             /\ r.bit # last => r.bit + 1 \in first .. last
  <2> DEFINE bit == r.bit  m == bit - first
  <2>1. bit \in first .. last
    BY <1>4
  <2> HIDE DEF bit, first, last, M
  <2>2. /\ ~ (bit > last) /\ m \in 0 .. M - 1 /\ m \in Nat
        /\ bit # last => bit + 1 \in first .. last
    BY <1>1, <2>1
  <2>3. Exactly(FreeRange(n, m, M), {x \in 0 .. M - 1 : n <= x /\ x < m})
    <3> HIDE DEF m
    <3> QED BY <1>1, <2>2, FreeRangeIs
  <2> QED
    BY <2>1, <2>2, <2>3 DEF bit
<1>5. PICK h : h = Body(h)
  <2> DEFINE W == {r \in V : r.bit # NoBit => r.next <= r.bit - first}
             step == [n \in 0 .. M |-> [r \in W |-> Step(r)]]
  <2>1. v \in W
    <3>1. << >> \in Seq(Nat) /\ 0 \in Nat
      OBVIOUS
    <3>2. first \in first .. last
      BY <1>1
    <3>3. from(first) \in {NoBit} \cup (first .. last)
      BY <1>2, <3>2
    <3>4. from(first) # NoBit => 0 <= from(first) - first
      <4> HIDE DEF first, last
      <4> QED BY <1>1, <3>3
    <3>5. v \in V /\ v.bit = from(first) /\ v.next = 0
      <4> HIDE DEF first, last
      <4> QED BY <3>1, <3>3
    <3> HIDE DEF V, v
    <3> QED
      BY <3>4, <3>5
  <2>2. ASSUME NEW r \in W PROVE Step(r) \in W
    <3>1. CASE r.bit = NoBit
      BY <3>1
    <3>2. CASE r.bit # NoBit
      <4>1. r \in V /\ r.next \in Nat /\ r.freed \in Seq(Nat) /\ r.next <= r.bit - first
        BY <3>2
      <4> DEFINE bit == r.bit  m == bit - first
                 T == {x \in 0 .. M - 1 : r.next <= x /\ x < m}
                 bit2 == IF bit = last THEN NoBit ELSE from(bit + 1)
      <4>2. /\ bit \in first .. last /\ ~ (bit > last) /\ m \in 0 .. M - 1
            /\ Exactly(gap(r), T)
            /\ bit # last => bit + 1 \in first .. last
        <5> HIDE DEF V, first, last, M
        <5> QED BY <1>4, <3>2, <4>1
      <4>3. gap(r) \in Seq(Nat)
        <5>1. T \in SUBSET Nat
          <6> HIDE DEF m, first, last
          <6> QED OBVIOUS
        <5> HIDE DEF T, gap
        <5> QED
          BY <4>2, <5>1, ExactlyNumbers
      <4>4. r.freed \o gap(r) \in Seq(Nat)
        <5> HIDE DEF gap
        <5> QED BY <4>1, <4>3
      <4>5. bit2 \in {NoBit} \cup (first .. last) /\ (bit2 # NoBit => m + 1 <= bit2 - first)
        <5>1. CASE bit = last
          BY <5>1
        <5>2. CASE bit # last
          <6>1. \/ bit2 = NoBit
                \/ bit2 \in first .. last /\ bit + 1 <= bit2
            BY <1>2, <4>2, <5>2
          <6> HIDE DEF bit, bit2, first, last
          <6> QED
            BY <1>1, <4>2, <6>1
        <5> QED
          BY <5>1, <5>2
      <4>6. m + 1 \in Nat
        <5> HIDE DEF m
        <5> QED BY <1>1, <4>2
      <4>7. Step(r) = [freed |-> r.freed \o gap(r), next |-> m + 1, bit |-> bit2]
        <5> HIDE DEF gap
        <5> QED BY <3>2, <4>2
      <4> HIDE DEF gap, bit2, m, Step, first, last
      <4> QED
        BY <4>4, <4>5, <4>6, <4>7
    <3> QED
      BY <3>1, <3>2
  <2>3. step \in [0 .. M -> [W -> W]]
    <3> HIDE DEF W, Step
    <3> QED BY <2>2
  <2>4. \E g : Iterates(g, 0, M, W, v, step)
    <3>1. M \in Nat /\ 0 \in Nat /\ 0 <= M
      BY <1>1
    <3> HIDE DEF W, v, step, M
    <3> QED BY <2>1, <2>3, <3>1, RecursionExists
  <2>5. PICK g : Iterates(g, 0, M, W, v, step)
    BY <2>4
  <2>6. /\ g \in [0 .. M -> W] /\ g[0] = v
        /\ \A n \in 0 + 1 .. M : g[n] = step[n][g[n - 1]]
    <3> HIDE DEF W, v, step, M
    <3> QED BY <2>5 DEF Iterates
  <2>7. ASSUME NEW n \in 0 .. M PROVE g[n] = IF n = 0 THEN v ELSE Step(g[n - 1])
    <3>1. CASE n = 0
      BY <2>6, <3>1
    <3>2. CASE n # 0
      <4>1. n \in 0 + 1 .. M /\ n - 1 \in 0 .. M
        BY <1>1, <3>2
      <4>2. g[n - 1] \in W
        BY <2>6, <4>1
      <4> HIDE DEF Step, W, v
      <4> QED
        BY <2>6, <3>2, <4>1, <4>2
    <3> QED
      BY <3>1, <3>2
  <2>8. g = [n \in 0 .. M |-> g[n]]
    BY <2>6
  <2>9. g = Body(g)
    <3> HIDE DEF Step, v
    <3> QED BY <2>7, <2>8
  <2> QED
    BY <2>9
<1>6. at = Body(at)
  <2> HIDE DEF Step, v
  <2> QED BY <1>5
<1>7. MessagesFreed(MapOf(S)) = at[M].freed \o FreeRange(at[M].next, M, M)
  BY DEF MessagesFreed, from
<1> HIDE DEF at, v, Step
<1>8. at[0] = v /\ \A n \in 1 .. M : at[n] = Step(at[n - 1])
  <2>1. 0 \in 0 .. M /\ \A n \in 1 .. M : n \in 0 .. M /\ n # 0
    BY <1>1
  <2> QED
    BY <1>6, <2>1
<1> DEFINE Right(n) ==
              /\ at[n].next \in 0 .. M /\ Exactly(at[n].freed, Unused(at[n].next))
              /\ \/ at[n].bit = NoBit /\ \A x \in S : x < first + at[n].next
                 \/ /\ at[n].bit \in S /\ at[n].bit \in first .. last /\ n <= at[n].next
                    /\ first + at[n].next <= at[n].bit
                    /\ \A x \in S : first + at[n].next <= x => at[n].bit <= x
           R == {n \in 0 .. M : Right(n)}
<1>9. 0 \in R
  <2>1. at[0].freed = << >> /\ at[0].next = 0 /\ at[0].bit = from(first)
    BY <1>8 DEF v
  <2>2. first \in first .. last /\ 0 \in 0 .. M /\ first + 0 = first
    BY <1>1
  <2>3. Unused(0) = {}
    OBVIOUS
  <2>4. Right(0)
    <3> DEFINE f == from(first)
    <3>1. \/ f = NoBit /\ \A x \in S : x < first
          \/ f \in S /\ f \in first .. last /\ first <= f /\ \A x \in S : first <= x => f <= x
      <4> HIDE DEF first, last
      <4> QED BY <1>2, <2>2
    <3>2. at[0].next \in 0 .. M /\ Exactly(at[0].freed, Unused(at[0].next)) /\ 0 <= at[0].next
      <4>1. at[0].next \in 0 .. M /\ 0 <= at[0].next
        BY <2>1, <2>2
      <4>2. Unused(at[0].next) = {} /\ at[0].freed = << >>
        <5> HIDE DEF Unused
        <5> QED BY <2>1, <2>3
      <4> HIDE DEF Unused
      <4> QED
        BY <4>1, <4>2, ExactlyNone
    <3>3. at[0].bit = f /\ first + at[0].next = first
      BY <2>1, <2>2
    <3> HIDE DEF Unused, first, last, M, f
    <3> QED
      BY <3>1, <3>2, <3>3
  <2> QED
    BY <2>2, <2>4
<1>10. ASSUME NEW n \in 0 .. M - 1, n \in R PROVE n + 1 \in R
  <2> DEFINE r == at[n]  k == n + 1
  <2>1. k \in 1 .. M /\ k \in 0 .. M /\ k - 1 = n
    BY <1>1
  <2>2. at[k] = Step(r)
    <3> HIDE DEF k
    <3> QED BY <1>8, <2>1
  <2>3. Right(n)
    BY <1>10
  <2>4. CASE r.bit = NoBit
    <3>1. at[k] = r
      BY <2>2, <2>4 DEF Step
    <3>2. NoBit \notin first .. last
      BY <1>1, <1>3
    <3>3. Right(k)
      <4> HIDE DEF k, first, last, M, Unused
      <4> QED BY <2>3, <2>4, <3>1, <3>2
    <3> QED
      BY <2>1, <3>3
  <2>5. CASE r.bit # NoBit
    <3> DEFINE bit == r.bit  l == r.next  m == bit - first
               T == {x \in 0 .. M - 1 : l <= x /\ x < m}
               bit2 == IF bit = last THEN NoBit ELSE from(bit + 1)
    <3>1. /\ l \in 0 .. M /\ Exactly(r.freed, Unused(l))
          /\ bit \in S /\ bit \in first .. last /\ n <= l /\ first + l <= bit
          /\ \A x \in S : first + l <= x => bit <= x
      BY <2>3, <2>5
    <3>2. /\ ~ (bit > last) /\ m \in 0 .. M - 1 /\ l <= m /\ m \in Nat /\ l \in Nat
          /\ bit # last => bit + 1 \in first .. last
      <4> HIDE DEF bit, l, first, last, M
      <4> QED BY <1>1, <3>1
    <3>3. Exactly(gap(r), T)
      <4> HIDE DEF m, l, M
      <4> QED BY <1>1, <3>2, FreeRangeIs DEF m, l
    <3>4. Step(r) = [freed |-> r.freed \o gap(r), next |-> m + 1, bit |-> bit2]
      <4> HIDE DEF gap
      <4> QED BY <2>5, <3>2 DEF Step
    <3>5. at[k].freed = r.freed \o gap(r) /\ at[k].next = m + 1 /\ at[k].bit = bit2
      <4> DEFINE f == r.freed \o gap(r)  n1 == m + 1
      <4>1. at[k] = [freed |-> f, next |-> n1, bit |-> bit2]
        BY <2>2, <3>4
      <4> HIDE DEF f, n1, bit2
      <4>2. at[k].freed = f /\ at[k].next = n1 /\ at[k].bit = bit2
        BY <4>1
      <4> QED
        BY <4>2 DEF f, n1
    <3> HIDE DEF bit, l, r, k
    <3>6. first + m = bit
      <4> HIDE DEF first
      <4> QED BY <1>1, <3>1
    <3>7. /\ Unused(l) \cap T = {}
          /\ Unused(l) \cup T = Unused(m + 1)
      <4>1. ASSUME NEW x \in T PROVE first + x \notin S /\ x < m + 1
        <5>1. first + l <= first + x /\ first + x < bit /\ first + x \in Int /\ x < m + 1
          <6> HIDE DEF first, M
          <6> QED BY <1>1, <3>1, <3>2, <3>6
        <5>2. bit \in Int
          <6> HIDE DEF first, last
          <6> QED BY <1>1, <3>1
        <5> HIDE DEF m, first, last, M, T
        <5> QED
          BY <3>1, <5>1, <5>2
      <4>2. ASSUME NEW x \in 0 .. M - 1, x < m + 1, first + x \notin S, ~ (x < l) PROVE x \in T
        <5>1. x # m
          BY <3>1, <3>6, <4>2
        <5>2. x \in Int /\ m \in Int /\ l \in Int
          <6> HIDE DEF m, M
          <6> QED BY <1>1, <3>2
        <5>3. l <= x /\ x < m
          <6> HIDE DEF m, M
          <6> QED BY <4>2, <5>1, <5>2
        <5> QED
          BY <5>3
      <4>3. \A x \in 0 .. M - 1 : x < l => x < m + 1
        <5> HIDE DEF m, M
        <5> QED BY <1>1, <3>2
      <4>4. \A x \in T : ~ (x < l) /\ x \in 0 .. M - 1
        <5> HIDE DEF m, M
        <5> QED BY <1>1, <3>2
      <4> HIDE DEF T, m, first, M
      <4> QED
        BY <4>1, <4>2, <4>3, <4>4
    <3>8. Exactly(r.freed \o gap(r), Unused(m + 1))
      <4> HIDE DEF T, m, gap, Unused
      <4> QED BY <3>1, <3>3, <3>7, ExactlyJoined
    <3>9. m + 1 \in 0 .. M /\ k <= m + 1
      <4> HIDE DEF m, M
      <4> QED BY <1>1, <3>1, <3>2 DEF k
    <3>10. \/ bit2 = NoBit /\ \A x \in S : x < first + (m + 1)
           \/ /\ bit2 \in S /\ bit2 \in first .. last /\ first + (m + 1) <= bit2
              /\ \A x \in S : first + (m + 1) <= x => bit2 <= x
      <4>1. first + (m + 1) = bit + 1
        <5>1. bit \in Int /\ first \in Int
          <6> HIDE DEF first, last
          <6> QED BY <1>1, <3>1
        <5> HIDE DEF first
        <5> QED
          BY <5>1
      <4>2. CASE bit = last
        <5>1. \A x \in S : x < last + 1
          <6> HIDE DEF last
          <6> QED BY <1>1
        <5> QED
          BY <4>1, <4>2, <5>1
      <4>3. CASE bit # last
        <5>1. bit + 1 \in first .. last /\ bit2 = from(bit + 1)
          BY <3>2, <4>3
        <5> HIDE DEF first, last, m, bit2
        <5> QED
          BY <1>2, <4>1, <5>1
      <4> QED
        BY <4>2, <4>3
    <3>11. Right(k)
      <4> HIDE DEF bit2, m, gap, Unused, first, last, M
      <4> QED BY <3>5, <3>8, <3>9, <3>10
    <3> QED
      BY <2>1, <3>11 DEF k
  <2> QED
    BY <2>4, <2>5
<1>11. Right(M)
  <2>1. 0 .. M \subseteq R
    <3> HIDE DEF R, M
    <3> QED BY <1>1, <1>9, <1>10, IntervalInduction
  <2>2. M \in R
    <3> HIDE DEF R, M
    <3> QED BY <1>1, <2>1
  <2> HIDE DEF Right
  <2> QED
    BY <2>2
<1> DEFINE l == at[M].next
           T == {x \in 0 .. M - 1 : l <= x /\ x < M}
<1>12. l \in 0 .. M /\ Exactly(at[M].freed, Unused(l)) /\ \A x \in S : x < first + l
  <2>1. ASSUME at[M].bit \in first .. last, first + l <= at[M].bit, M <= l PROVE FALSE
    <3> DEFINE bit == at[M].bit
    <3>1. l \in 0 .. M /\ bit \in first .. last
      BY <1>11, <2>1
    <3> HIDE DEF bit, first, last, M, l
    <3> QED
      BY <1>1, <2>1, <3>1 DEF bit
  <2> HIDE DEF Unused, first, last, M
  <2> QED
    BY <1>11, <2>1
<1>13. Exactly(FreeRange(l, M, M), T)
  <2> HIDE DEF M, l
  <2> QED BY <1>1, <1>12, FreeRangeIs
<1>14. Unused(l) \cap T = {} /\ Unused(l) \cup T = {m \in 0 .. M - 1 : first + m \notin S}
  <2>1. ASSUME NEW x \in 0 .. M - 1, ~ (x < l) PROVE first + x \notin S /\ l <= x /\ x < M
    <3>1. x \in Int /\ l \in Int /\ first \in Int /\ M \in Int
      <4> HIDE DEF M, l, first
      <4> QED BY <1>1, <1>12
    <3>2. l <= x /\ x < M /\ ~ (first + x < first + l)
      <4> HIDE DEF M, l, first
      <4> QED BY <2>1, <3>1
    <3> HIDE DEF M, l, first
    <3> QED
      BY <1>12, <3>2
  <2>2. \A x \in T : ~ (x < l)
    <3> HIDE DEF M, l
    <3> QED BY <1>1, <1>12
  <2> HIDE DEF M, l, first
  <2> QED
    BY <2>1, <2>2
<1> HIDE DEF Unused, T, l
<1>15. Exactly(at[M].freed \o FreeRange(l, M, M), Unused(l) \cup T)
  BY <1>12, <1>13, <1>14, ExactlyJoined
<1> QED
  BY <1>7, <1>14, <1>15 DEF l

-----------------------------------------------------------------------------
(* The inductive invariant.                                                *)

CardSectors == Range(FormatOrder)
MapSectors  == 0 .. BitmapSectors - 1
RingNumbers == 0 .. RingSectors - 1

TypeInv ==
    /\ card = [s \in CardSectors |-> card[s]]
    /\ \A s \in MapSectors : card[BitmapSector(s)] \in (SUBSET InSector(s)) \cup {Torn}
    /\ slots \in UsedSlots
    /\ kept \in SUBSET DataSectors
    /\ halfWiped \in BOOLEAN
    /\ calls \in 0 .. MaxCalls
    /\ op \in {Off, Refused, On} \cup {FormattingAt(n) : n \in 1 .. Len(FormatOrder)}

(* A format leaves what it has written.                                    *)
FormatInv ==
    Formatting => \A k \in 1 .. op.at - 1 : card[FormatOrder[k]] = Formatted(FormatOrder[k])

(* A card that the next boot mounts has what was kept, if no format of     *)
(* a mountable card has ended before its end.                              *)
HasKept ==
    /\ card[JournalHeader] = "valid"
    /\ \A s \in MapSectors : card[BitmapSector(s)] = kept \cap InSector(s)
    /\ \A r \in RingNumbers : card[RingSector(r)] \in {"empty", "entries"}

KeptInv == ~halfWiped /\ ~Formatting /\ card[Superheader] = "good" => HasKept

(* RAM has the card's bitmap, read from sectors that were intact.          *)
Found(c) == UNION {c[BitmapSector(s)] : s \in MapSectors}
FoundInUse == Found(card)

RamInv ==
    op = On =>
        /\ card[Superheader] = "good" /\ card[JournalHeader] = "valid"
        /\ \A s \in MapSectors : card[BitmapSector(s)] # Torn
        /\ usageBitmap = MapOf(FoundInUse)
        /\ Exactly(contactFree, {s \in SlotIndices : SlotFree(FoundInUse, slots, s)})
        /\ Exactly(messageFree, {m \in 0 .. MessageSectors - 1 : ContactSectors + m \notin FoundInUse})

MountInv == TypeInv /\ FormatInv /\ KeptInv /\ RamInv

LEMMA ExactlyFront ==
    ASSUME NEW s, NEW T, Exactly(s, T), s # << >>
    PROVE  Last(s) \in T /\ Exactly(Front(s), T \ {Last(s)})
<1> DEFINE n == Len(s)  t == Front(s)  x == Last(s)  U == T \ {x}
<1>1. /\ s \in Seq(T) /\ n \in Nat /\ n > 0 /\ x = s[n]
      /\ \A p \in 1 .. n : s[p] \in T
  <2>1. s \in Seq(T) /\ n \in Nat
    BY LenProperties DEF Exactly
  <2>2. n # 0
    BY <2>1, EmptySeq
  <2> QED
    BY <2>1, <2>2, ElementOfSeq DEF Last
<1>2. n \in 1 .. n /\ x \in T
  BY <1>1
<1>3. t \in Seq(T) /\ Len(t) = n - 1 /\ \A p \in 1 .. n - 1 : t[p] = s[p]
  <2> DEFINE k == n - 1
  <2>1. 1 \in 1 .. n + 1 /\ k \in 1 - 1 .. n /\ k - 1 + 1 = k
    BY <1>1
  <2>2. /\ SubSeq(s, 1, k) \in Seq(T) /\ Len(SubSeq(s, 1, k)) = k - 1 + 1
        /\ \A i \in 1 .. k - 1 + 1 : SubSeq(s, 1, k)[i] = s[1 + (i - 1)]
    <3> HIDE DEF k
    <3> QED BY <1>1, <2>1, SubSeqIs
  <2>3. \A i \in 1 .. k : 1 + (i - 1) = i
    BY <1>1
  <2>4. t = SubSeq(s, 1, k)
    BY DEF Front
  <2>5. k - 1 + 1 = k
    BY <2>1
  <2> HIDE DEF k, t
  <2>6. t \in Seq(T) /\ Len(t) = k /\ \A i \in 1 .. k : t[i] = s[i]
    BY <2>2, <2>3, <2>4, <2>5
  <2> QED
    BY <2>6 DEF k
<1>4. /\ \A p, q \in 1 .. n : s[p] = s[q] => p = q
      /\ \A y \in T : \E p \in 1 .. n : s[p] = y
  BY DEF Exactly
<1>5. \A p \in 1 .. n - 1 : p \in 1 .. n /\ p # n
  BY <1>1
<1>6. \A p \in 1 .. n : p = n \/ p \in 1 .. n - 1
  BY <1>1
<1> HIDE DEF t, x, n
<1>7. t \in Seq(U)
  <2>1. \A p \in 1 .. n - 1 : t[p] \in U
    BY <1>1, <1>2, <1>3, <1>4, <1>5
  <2>2. n - 1 \in Nat /\ t \in [1 .. n - 1 -> U]
    <3>1. DOMAIN t = 1 .. n - 1 /\ t = [p \in DOMAIN t |-> t[p]]
      <4>1. DOMAIN t = 1 .. Len(t)
        BY <1>3, LenProperties
      <4>2. \E m \in Nat : t \in [1 .. m -> T]
        BY <1>3, SeqDef
      <4> QED
        BY <1>3, <4>1, <4>2
    <3> QED
      BY <1>1, <2>1, <3>1
  <2> DEFINE k == n - 1
  <2> HIDE DEF k
  <2> QED
    BY <2>2, FunctionIsSeq DEF k
<1>8. \A p, q \in 1 .. n - 1 : t[p] = t[q] => p = q
  BY <1>3, <1>4, <1>5
<1>9. \A y \in U : \E p \in 1 .. n - 1 : t[p] = y
  <2> TAKE y \in U
  <2>1. PICK p \in 1 .. n : s[p] = y
    BY <1>4
  <2>2. p # n
    BY <1>1, <2>1
  <2> QED
    BY <1>3, <1>6, <2>1, <2>2
<1>10. Exactly(t, U)
  BY <1>3, <1>7, <1>8, <1>9 DEF Exactly
<1> QED
  BY <1>2, <1>10 DEF t, x

LEMMA ExactlyAppend ==
    ASSUME NEW s, NEW T, Exactly(s, T), NEW x, x \notin T
    PROVE  Exactly(Append(s, x), T \cup {x})
<1> DEFINE t == << x >>
<1>1. t \in Seq({x}) /\ Len(t) = 1 /\ t[1] = x
  OBVIOUS
<1>2. Exactly(t, {x})
  <2> HIDE DEF t
  <2> QED BY <1>1 DEF Exactly
<1>3. Exactly(s \o t, T \cup {x})
  <2> HIDE DEF t
  <2> QED BY <1>2, ExactlyJoined
<1>4. Append(s, x) = s \o t
  <2>1. s \in Seq(T \cup {x})
    BY LenProperties DEF Exactly
  <2> QED
    BY <2>1
<1> QED
  BY <1>3, <1>4

-----------------------------------------------------------------------------
(* The sectors of a format.                                                *)

LEMMA FormatOrderIs ==
    LET n == BitmapSectors + RingSectors + 2
    IN  /\ BitmapSectors \in Nat /\ RingSectors \in Nat
        /\ FormatOrder \in Seq(CardSectors) /\ Len(FormatOrder) = n
        /\ FormatOrder[1] = JournalHeader /\ FormatOrder[n] = Superheader
        /\ \A s \in MapSectors : 2 + s \in 2 .. n - 1 /\ FormatOrder[2 + s] = BitmapSector(s)
        /\ \A r \in RingNumbers : /\ 2 + BitmapSectors + r \in 2 .. n - 1
                                  /\ FormatOrder[2 + BitmapSectors + r] = RingSector(r)
        /\ \A k \in 2 .. n - 1 : (\E s \in MapSectors : FormatOrder[k] = BitmapSector(s))
                                 \/ (\E r \in RingNumbers : FormatOrder[k] = RingSector(r))
<1> DEFINE X == {"superheader", "journal", "bitmap", "ring"} \X Nat
           B == BitmapSectors  R == RingSectors
           a == <<JournalHeader>>
           b == [k \in 1 .. B |-> BitmapSector(k - 1)]
           c == [k \in 1 .. R |-> RingSector(k - 1)]
           d == <<Superheader>>
           f == FormatOrder
<1>1. B \in Nat /\ R \in Nat
  <2> DEFINE m == ContactSectors + MessageSectors + BitsPerSector - 1
  <2>1. m \in Nat
    BY Sizes
  <2>2. BitmapSectors = m \div BitsPerSector
    BY DEF BitmapSectors, BitsPerSector
  <2> HIDE DEF m
  <2> QED
    BY <2>1, <2>2, Sizes, DivisionOf, MountAssumption
<1> HIDE DEF B, R
<1>2. /\ JournalHeader \in X /\ Superheader \in X
      /\ \A k \in 1 .. B : BitmapSector(k - 1) \in X
      /\ \A k \in 1 .. R : RingSector(k - 1) \in X
  BY <1>1 DEF JournalHeader, Superheader, BitmapSector, RingSector
<1> HIDE DEF X
<1>3. a \in Seq(X) /\ Len(a) = 1 /\ a[1] = JournalHeader /\ d \in Seq(X) /\ Len(d) = 1 /\ d[1] = Superheader
  BY <1>2
<1>4. b \in Seq(X) /\ Len(b) = B /\ \A k \in 1 .. B : b[k] = BitmapSector(k - 1)
  <2>1. b \in [1 .. B -> X]
    BY <1>2
  <2> QED
    BY <1>1, <2>1, FunctionIsSeq
<1>5. c \in Seq(X) /\ Len(c) = R /\ \A k \in 1 .. R : c[k] = RingSector(k - 1)
  <2>1. c \in [1 .. R -> X]
    BY <1>2
  <2> QED
    BY <1>1, <2>1, FunctionIsSeq
<1>6. f = a \o b \o c \o d
  BY DEF FormatOrder, B, R
<1> HIDE DEF a, b, c, d, f
<1> DEFINE g == a \o b  h == g \o c
<1>7. /\ g \in Seq(X) /\ Len(g) = 1 + B
      /\ \A p \in 1 .. 1 : g[p] = a[p]
      /\ \A q \in 1 .. B : g[1 + q] = b[q]
  <2>1. /\ g \in Seq(X) /\ Len(g) = Len(a) + Len(b)
        /\ \A p \in 1 .. Len(a) : g[p] = a[p]
        /\ \A q \in 1 .. Len(b) : g[Len(a) + q] = b[q]
    <3>1. a \in Seq(X) /\ b \in Seq(X)
      BY <1>3, <1>4
    <3> QED
      BY <3>1, Joined
  <2> HIDE DEF g
  <2> QED
    BY <1>3, <1>4, <2>1
<1> HIDE DEF g
<1>8. /\ h \in Seq(X) /\ Len(h) = (1 + B) + R
      /\ \A p \in 1 .. 1 + B : h[p] = g[p]
      /\ \A q \in 1 .. R : h[(1 + B) + q] = c[q]
  <2>1. /\ h \in Seq(X) /\ Len(h) = Len(g) + Len(c)
        /\ \A p \in 1 .. Len(g) : h[p] = g[p]
        /\ \A q \in 1 .. Len(c) : h[Len(g) + q] = c[q]
    <3>1. g \in Seq(X) /\ c \in Seq(X)
      BY <1>5, <1>7
    <3> QED
      BY <3>1, Joined
  <2> HIDE DEF h
  <2> QED
    BY <1>5, <1>7, <2>1
<1> HIDE DEF h
<1> DEFINE m == (1 + B) + R
<1>9. /\ f \in Seq(X) /\ Len(f) = m + 1
      /\ \A p \in 1 .. m : f[p] = h[p]
      /\ f[m + 1] = Superheader
  <2>1. f = h \o d
    <3>1. f = ((a \o b) \o c) \o d
      BY <1>3, <1>4, <1>5, <1>6
    <3> QED
      BY <3>1 DEF g, h
  <2> HIDE DEF m
  <2>2. /\ h \o d \in Seq(X) /\ Len(h \o d) = Len(h) + Len(d)
        /\ \A p \in 1 .. Len(h) : (h \o d)[p] = h[p]
        /\ \A q \in 1 .. Len(d) : (h \o d)[Len(h) + q] = d[q]
    <3>1. h \in Seq(X) /\ d \in Seq(X)
      BY <1>3, <1>8
    <3> QED
      BY <3>1, Joined
  <2>3. Len(h) = m /\ 1 \in 1 .. 1
    BY <1>8 DEF m
  <2> DEFINE e == h \o d
  <2> HIDE DEF e
  <2>4. /\ e \in Seq(X) /\ Len(e) = m + 1
        /\ \A p \in 1 .. m : e[p] = h[p]
        /\ e[m + 1] = d[1]
    BY <1>3, <2>2, <2>3 DEF e
  <2> QED
    BY <1>3, <2>1, <2>4 DEF e
<1>10. m \in Nat /\ m + 1 = B + R + 2 /\ m >= 1
  BY <1>1
<1>11. f[1] = JournalHeader
  <2>1. 1 \in 1 .. 1 /\ 1 \in 1 .. 1 + B /\ 1 \in 1 .. m
    BY <1>1
  <2> QED
    BY <1>3, <1>7, <1>8, <1>9, <2>1
<1>12. \A s \in 0 .. B - 1 : 2 + s \in 2 .. m /\ f[2 + s] = BitmapSector(s)
  <2> TAKE s \in 0 .. B - 1
  <2>1. /\ s + 1 \in 1 .. B /\ 2 + s = 1 + (s + 1) /\ (s + 1) - 1 = s
        /\ 2 + s \in 1 .. 1 + B /\ 2 + s \in 1 .. m /\ 2 + s \in 2 .. m
    BY <1>1
  <2> HIDE DEF m
  <2>2. f[2 + s] = h[2 + s] /\ h[2 + s] = g[2 + s]
    BY <1>8, <1>9, <2>1
  <2>3. g[1 + (s + 1)] = b[s + 1] /\ b[s + 1] = BitmapSector(s)
    BY <1>4, <1>7, <2>1
  <2> QED
    BY <2>1, <2>2, <2>3
<1>13. \A r \in 0 .. R - 1 : 2 + B + r \in 2 .. m /\ f[2 + B + r] = RingSector(r)
  <2> TAKE r \in 0 .. R - 1
  <2>1. /\ r + 1 \in 1 .. R /\ 2 + B + r = (1 + B) + (r + 1) /\ (r + 1) - 1 = r
        /\ 2 + B + r \in 1 .. m /\ 2 + B + r \in 2 .. m
    BY <1>1
  <2> HIDE DEF m
  <2>2. f[2 + B + r] = h[2 + B + r]
    BY <1>9, <2>1
  <2>3. h[(1 + B) + (r + 1)] = c[r + 1] /\ c[r + 1] = RingSector(r)
    BY <1>5, <1>8, <2>1
  <2> QED
    BY <2>1, <2>2, <2>3
<1>14. \A k \in 2 .. m : (\E s \in 0 .. B - 1 : f[k] = BitmapSector(s)) \/ (\E r \in 0 .. R - 1 : f[k] = RingSector(r))
  <2> TAKE k \in 2 .. m
  <2>1. (k - 2 \in 0 .. B - 1 /\ k = 2 + (k - 2)) \/ ((k - 2) - B \in 0 .. R - 1 /\ k = 2 + B + ((k - 2) - B))
    BY <1>1
  <2> HIDE DEF m
  <2> QED
    BY <1>12, <1>13, <2>1
<1>15. f \in Seq(CardSectors)
  <2>1. DOMAIN f = 1 .. m + 1 /\ f \in [1 .. m + 1 -> Range(f)]
    <3>1. DOMAIN f = 1 .. m + 1
      BY <1>9, LenProperties
    <3>2. \E i \in Nat : f \in [1 .. i -> X]
      BY <1>9, SeqDef
    <3> HIDE DEF m
    <3> QED
      BY <3>1, <3>2 DEF Range
  <2>2. m + 1 \in Nat
    BY <1>10
  <2> DEFINE i == m + 1
  <2> HIDE DEF i
  <2>3. f \in Seq(Range(f))
    BY <2>1, <2>2, FunctionIsSeq DEF i
  <2> QED
    BY <2>3 DEF CardSectors, f
<1>16. /\ m + 1 = (BitmapSectors + RingSectors) + 2 /\ m = ((BitmapSectors + RingSectors) + 2) - 1
       /\ BitmapSectors + RingSectors + 2 = (BitmapSectors + RingSectors) + 2
       /\ MapSectors = 0 .. B - 1 /\ RingNumbers = 0 .. R - 1
  BY <1>1 DEF B, R, MapSectors, RingNumbers
<1> DEFINE n == BitmapSectors + RingSectors + 2
<1>17. n = m + 1 /\ n - 1 = m
  BY <1>1, <1>10 DEF B, R
<1> HIDE DEF m, n
<1>18. /\ BitmapSectors \in Nat /\ RingSectors \in Nat
       /\ FormatOrder \in Seq(CardSectors) /\ Len(FormatOrder) = n
       /\ FormatOrder[1] = JournalHeader /\ FormatOrder[n] = Superheader
  BY <1>1, <1>9, <1>11, <1>15, <1>17 DEF B, R, f
<1>19. /\ \A s \in MapSectors : 2 + s \in 2 .. n - 1 /\ FormatOrder[2 + s] = BitmapSector(s)
       /\ \A r \in RingNumbers : /\ 2 + BitmapSectors + r \in 2 .. n - 1
                                 /\ FormatOrder[2 + BitmapSectors + r] = RingSector(r)
       /\ \A k \in 2 .. n - 1 : (\E s \in MapSectors : FormatOrder[k] = BitmapSector(s))
                                \/ (\E r \in RingNumbers : FormatOrder[k] = RingSector(r))
  BY <1>12, <1>13, <1>14, <1>16, <1>17 DEF B, f
<1> QED
  BY <1>18, <1>19 DEF n

LEMMA SectorsOfCard ==
    /\ Superheader \in CardSectors /\ JournalHeader \in CardSectors /\ Superheader # JournalHeader
    /\ \A s \in MapSectors : /\ BitmapSector(s) \in CardSectors
                             /\ BitmapSector(s) # Superheader /\ BitmapSector(s) # JournalHeader
                             /\ \A r : BitmapSector(s) # RingSector(r)
                             /\ \A t : BitmapSector(s) = BitmapSector(t) => s = t
    /\ \A r \in RingNumbers : /\ RingSector(r) \in CardSectors
                              /\ RingSector(r) # Superheader /\ RingSector(r) # JournalHeader
    /\ Len(FormatOrder) \in Nat /\ Len(FormatOrder) > 1
    /\ \A k \in 1 .. Len(FormatOrder) : /\ FormatOrder[k] \in CardSectors
                                        /\ FormatOrder[k] = Superheader <=> k = Len(FormatOrder)
    /\ \A s \in CardSectors : \E k \in 1 .. Len(FormatOrder) : s = FormatOrder[k]
<1> DEFINE n == BitmapSectors + RingSectors + 2
           f == FormatOrder
<1>1. n \in Nat /\ n >= 2
  BY FormatOrderIs
<1>2. /\ f \in Seq(CardSectors) /\ Len(f) = n
      /\ f[1] = JournalHeader /\ f[n] = Superheader
      /\ \A s \in MapSectors : 2 + s \in 2 .. n - 1 /\ f[2 + s] = BitmapSector(s)
      /\ \A r \in RingNumbers : 2 + BitmapSectors + r \in 2 .. n - 1 /\ f[2 + BitmapSectors + r] = RingSector(r)
      /\ \A k \in 2 .. n - 1 : (\E s \in MapSectors : f[k] = BitmapSector(s))
                               \/ (\E r \in RingNumbers : f[k] = RingSector(r))
  BY FormatOrderIs
<1> HIDE DEF n, f
<1>3. \A k \in 1 .. n : f[k] \in CardSectors
  BY <1>2, ElementOfSeq
<1>4. DOMAIN f = 1 .. n
  BY <1>2, LenProperties
<1>5. \A s \in CardSectors : \E k \in 1 .. n : s = f[k]
  BY <1>4 DEF CardSectors, Range, f
<1>6. /\ 1 \in 1 .. n /\ n \in 1 .. n
      /\ \A k \in 2 .. n - 1 : k \in 1 .. n
      /\ \A k \in 1 .. n : k = 1 \/ k = n \/ k \in 2 .. n - 1
      /\ 1 # n /\ \A k \in 2 .. n - 1 : k # n
  BY <1>1
<1>7. /\ Superheader # JournalHeader
      /\ \A s : /\ BitmapSector(s) # Superheader /\ BitmapSector(s) # JournalHeader
                /\ RingSector(s) # Superheader /\ RingSector(s) # JournalHeader
      /\ \A s, t : BitmapSector(s) # RingSector(t)
      /\ \A s, t : BitmapSector(s) = BitmapSector(t) => s = t
  BY DEF Superheader, JournalHeader, BitmapSector, RingSector
<1>8. /\ Superheader \in CardSectors /\ JournalHeader \in CardSectors
      /\ \A s \in MapSectors : BitmapSector(s) \in CardSectors
      /\ \A r \in RingNumbers : RingSector(r) \in CardSectors
  <2>1. /\ \A s \in MapSectors : f[2 + s] \in CardSectors
        /\ \A r \in RingNumbers : f[2 + BitmapSectors + r] \in CardSectors
    BY <1>2, <1>3, <1>6
  <2> QED
    BY <1>2, <1>3, <1>6, <2>1
<1>9. \A k \in 1 .. n : f[k] = Superheader <=> k = n
  BY <1>2, <1>6, <1>7
<1>10. Len(FormatOrder) \in Nat /\ Len(FormatOrder) > 1
  BY <1>1, <1>2 DEF f
<1> QED
  BY <1>2, <1>3, <1>5, <1>7, <1>8, <1>9, <1>10 DEF f

(* What a format writes.                                                   *)
LEMMA FormattedIs ==
    /\ Formatted(Superheader) = "good" /\ Formatted(JournalHeader) = "valid"
    /\ \A s : Formatted(BitmapSector(s)) = {} /\ Formatted(RingSector(s)) = "empty"
BY DEF Formatted, Superheader, JournalHeader, BitmapSector, RingSector

(* One sector of a card changes.                                           *)
LEMMA Written ==
    ASSUME NEW c, c = [s \in CardSectors |-> c[s]], NEW t \in CardSectors, NEW v
    PROVE  LET d == [c EXCEPT ![t] = v]
           IN  /\ d = [s \in CardSectors |-> d[s]]
               /\ d[t] = v
               /\ \A s \in CardSectors : s # t => d[s] = c[s]
<1>1. DOMAIN c = CardSectors
  OBVIOUS
<1> QED
  BY <1>1

LEMMA OpIs ==
    /\ Off.kind # "format" /\ Refused.kind # "format" /\ On.kind # "format"
    /\ On # Off /\ On # Refused
    /\ \A n : /\ FormattingAt(n).kind = "format" /\ FormattingAt(n).at = n
              /\ FormattingAt(n) # On /\ FormattingAt(n) # Off
BY DEF Off, Refused, On, FormattingAt

(* The sectors in use and their parts in the bitmap's sectors.             *)
LEMMA FoundParts ==
    ASSUME NEW c, \A s \in MapSectors : c[BitmapSector(s)] \in SUBSET InSector(s)
    PROVE  /\ Found(c) \in SUBSET DataSectors
           /\ \A s \in MapSectors : c[BitmapSector(s)] = Found(c) \cap InSector(s)
BY DEF Found, InSector

LEMMA PartsFound ==
    ASSUME NEW c, NEW S \in SUBSET DataSectors,
           \A s \in MapSectors : c[BitmapSector(s)] = S \cap InSector(s)
    PROVE  Found(c) = S
<1>1. \A i \in DataSectors : i \div BitsPerSector \in MapSectors /\ i \in InSector(i \div BitsPerSector)
  BY DataInMap DEF MapSectors, InSector
<1>2. \A s \in MapSectors : c[BitmapSector(s)] \subseteq S
  OBVIOUS
<1>3. \A i \in S : i \in c[BitmapSector(i \div BitsPerSector)]
  BY <1>1
<1> QED
  BY <1>1, <1>2, <1>3 DEF Found

LEMMA TornIs ==
    /\ \A S \in SUBSET DataSectors : S # Torn
    /\ \A s : InSector(s) \subseteq DataSectors
    /\ Status("good") = "good"
    /\ \A h : Status(h) = "good" => h = "good"
<1>1. \A S \in SUBSET DataSectors : S # Torn
  BY MountAssumption DEF DataSectors
<1>2. \A s : InSector(s) \subseteq DataSectors
  BY DEF InSector
<1>3. "good" # Torn
  BY MountAssumption
<1>4. Status("good") = "good"
  BY <1>3 DEF Status
<1>5. \A h : Status(h) = "good" => h = "good"
  BY DEF Status
<1> QED
  BY <1>1, <1>2, <1>4, <1>5

-----------------------------------------------------------------------------
(* The initial states, and one lemma per group of actions.                 *)

LEMMA InitMount == Init => MountInv
<1> SUFFICES ASSUME Init PROVE MountInv
  OBVIOUS
<1>1. PICK messages \in SUBSET (0 .. MessageSectors - 1), header \in {"good", "outdated", "blank", "other", Torn} :
          LET inUse == {k \in DOMAIN slots : slots[k] # {}} \cup {ContactSectors + m : m \in messages}
          IN  /\ kept = IF header \in {"blank", "other"} THEN {} ELSE inUse
              /\ card = [s \in Range(FormatOrder) |->
                            CASE s = Superheader   -> header
                              [] s[1] = "bitmap"   -> inUse \cap InSector(s[2])
                              [] s = JournalHeader -> IF header = "blank" THEN "blank" ELSE "valid"
                              [] OTHER -> IF header \in {"blank", "other"} THEN "stale" ELSE "entries"]
  BY DEF Init
<1> DEFINE inUse == {k \in DOMAIN slots : slots[k] # {}} \cup {ContactSectors + m : m \in messages}
           at(s) == CASE s = Superheader   -> header
                      [] s[1] = "bitmap"   -> inUse \cap InSector(s[2])
                      [] s = JournalHeader -> IF header = "blank" THEN "blank" ELSE "valid"
                      [] OTHER -> IF header \in {"blank", "other"} THEN "stale" ELSE "entries"
<1>2. /\ kept = IF header \in {"blank", "other"} THEN {} ELSE inUse
      /\ card = [s \in CardSectors |-> at(s)]
  BY <1>1 DEF CardSectors
<1>3. slots \in UsedSlots
  BY DEF Init, UsedSlots
<1>4. inUse \in SUBSET DataSectors
  <2>1. DOMAIN slots = 0 .. ContactSectors - 1
    BY <1>3 DEF UsedSlots
  <2>2. 0 .. ContactSectors - 1 \subseteq DataSectors
    BY Sizes DEF DataSectors
  <2>3. \A m \in messages : ContactSectors + m \in DataSectors
    BY Sizes DEF DataSectors
  <2> QED
    BY <2>1, <2>2, <2>3
<1> HIDE DEF inUse
<1>5. /\ at(Superheader) = header
      /\ at(JournalHeader) = IF header = "blank" THEN "blank" ELSE "valid"
      /\ \A s : at(BitmapSector(s)) = inUse \cap InSector(s)
      /\ \A s : at(RingSector(s)) = IF header \in {"blank", "other"} THEN "stale" ELSE "entries"
  BY DEF Superheader, JournalHeader, BitmapSector, RingSector
<1> HIDE DEF at
<1>6. /\ card[Superheader] = header
      /\ card[JournalHeader] = IF header = "blank" THEN "blank" ELSE "valid"
      /\ \A s \in MapSectors : card[BitmapSector(s)] = inUse \cap InSector(s)
      /\ \A r \in RingNumbers : card[RingSector(r)] = IF header \in {"blank", "other"} THEN "stale" ELSE "entries"
  BY <1>2, <1>5, SectorsOfCard
<1>7. TypeInv
  <2>1. card = [s \in CardSectors |-> card[s]]
    BY <1>2
  <2>2. \A s \in MapSectors : card[BitmapSector(s)] \in (SUBSET InSector(s)) \cup {Torn}
    BY <1>6
  <2>3. kept \in SUBSET DataSectors
    BY <1>2, <1>4
  <2>4. 0 \in 0 .. MaxCalls
    BY MountAssumption
  <2> QED
    BY <1>3, <2>1, <2>2, <2>3, <2>4 DEF TypeInv, Init
<1>8. FormatInv /\ RamInv
  BY OpIs DEF Init, FormatInv, RamInv, Formatting
<1>9. KeptInv
  <2> SUFFICES ASSUME card[Superheader] = "good" PROVE HasKept
    BY DEF KeptInv
  <2>1. header = "good"
    BY <1>6
  <2> QED
    BY <1>2, <1>6, <2>1 DEF HasKept
<1> QED
  BY <1>7, <1>8, <1>9 DEF MountInv

LEMMA RefusalsKeep ==
    ASSUME MountInv, BootFormats \/ BootRefuses \/ MountFails \/ AskFormat
    PROVE  MountInv'
<1>1. /\ UNCHANGED <<card, slots, kept, halfWiped>>
      /\ op' = FormattingAt(1) \/ op' = Refused
      /\ calls' = calls \/ calls' = 0
  BY DEF BootFormats, BootRefuses, MountFails, AskFormat
<1>2. TypeInv'
  <2>1. FormattingAt(1) \in {FormattingAt(n) : n \in 1 .. Len(FormatOrder)}
    BY SectorsOfCard
  <2>2. 0 \in 0 .. MaxCalls
    BY MountAssumption
  <2> QED
    BY <1>1, <2>1, <2>2 DEF TypeInv, MountInv
<1>3. FormatInv'
  <2>1. CASE op' = FormattingAt(1)
    <3>1. op'.at = 1 /\ 1 .. 1 - 1 = {}
      BY <2>1, OpIs
    <3> QED
      BY <3>1 DEF FormatInv
  <2>2. CASE op' = Refused
    BY <2>2, OpIs DEF FormatInv, Formatting
  <2> QED
    BY <1>1, <2>1, <2>2
<1>4. KeptInv'
  <2>1. CASE op' = FormattingAt(1)
    BY <2>1, OpIs DEF KeptInv, Formatting
  <2>2. CASE op' = Refused /\ ~Formatting
    BY <1>1, <2>2 DEF MountInv, KeptInv, HasKept
  <2>3. ASSUME Formatting PROVE FALSE
    BY <2>3, OpIs DEF Formatting, BootFormats, BootRefuses, MountFails, AskFormat
  <2> QED
    BY <1>1, <2>1, <2>2, <2>3
<1>5. RamInv'
  <2>1. op' # On
    BY <1>1, OpIs
  <2> QED
    BY <2>1 DEF RamInv
<1> QED
  BY <1>2, <1>3, <1>4, <1>5 DEF MountInv

(* A mount reads the card's bitmap; it writes the journal's header.        *)
LEMMA BootMountsKeeps ==
    ASSUME MountInv, BootMounts
    PROVE  MountInv'
<1> DEFINE S == FoundInUse
<1>1. /\ op = Off /\ Status(card[Superheader]) = "good" /\ Readable
      /\ card' = [card EXCEPT ![JournalHeader] = "valid"]
      /\ usageBitmap' = MapOf(UNION {card[BitmapSector(s)] : s \in 0 .. BitmapSectors - 1})
      /\ contactFree' = ContactsFreed(usageBitmap', slots, Lost)
      /\ messageFree' = MessagesFreed(usageBitmap')
      /\ op' = On
      /\ UNCHANGED <<slots, calls, kept, halfWiped>>
  BY DEF BootMounts
<1>2. /\ card = [s \in CardSectors |-> card[s]]
      /\ \A s \in MapSectors : card[BitmapSector(s)] \in (SUBSET InSector(s)) \cup {Torn}
      /\ slots \in UsedSlots
  BY DEF MountInv, TypeInv
<1>3. /\ card' = [s \in CardSectors |-> card'[s]]
      /\ card'[JournalHeader] = "valid"
      /\ \A s \in CardSectors : s # JournalHeader => card'[s] = card[s]
  <2>1. JournalHeader \in CardSectors
    BY SectorsOfCard
  <2> QED
    BY <1>1, <1>2, <2>1, Written
<1>4. /\ card'[Superheader] = card[Superheader]
      /\ \A s \in MapSectors : card'[BitmapSector(s)] = card[BitmapSector(s)]
      /\ \A r \in RingNumbers : card'[RingSector(r)] = card[RingSector(r)]
  BY <1>3, SectorsOfCard
<1>5. card[Superheader] = "good"
  BY <1>1, TornIs
<1>6. /\ \A s \in MapSectors : card[BitmapSector(s)] # Torn
      /\ usageBitmap' = MapOf(S)
  BY <1>1 DEF Readable, FoundInUse, Found, MapSectors
<1>7. \A s \in MapSectors : card[BitmapSector(s)] \in SUBSET InSector(s)
  BY <1>2, <1>6
<1>8. S \in SUBSET DataSectors
  BY <1>7, FoundParts DEF FoundInUse
<1>9. FoundInUse' = S
  BY <1>4 DEF FoundInUse, Found
<1> HIDE DEF S
<1>10. TypeInv'
  <2>1. \A s \in MapSectors : card'[BitmapSector(s)] \in (SUBSET InSector(s)) \cup {Torn}
    BY <1>2, <1>4
  <2> QED
    BY <1>1, <1>3, <2>1 DEF MountInv, TypeInv
<1>11. FormatInv'
  BY <1>1, OpIs DEF FormatInv, Formatting
<1>12. KeptInv'
  <2> SUFFICES ASSUME ~halfWiped PROVE HasKept'
    BY <1>1 DEF KeptInv
  <2>1. HasKept
    BY <1>1, <1>5, OpIs DEF MountInv, KeptInv, Formatting
  <2> QED
    BY <1>1, <1>3, <1>4, <2>1 DEF HasKept
<1>13. RamInv'
  <2>1. Exactly(contactFree', {s \in SlotIndices : SlotFree(S, slots, s)})
    BY <1>1, <1>2, <1>6, <1>8, ContactsFreedIs
  <2>2. Exactly(messageFree', {m \in 0 .. MessageSectors - 1 : ContactSectors + m \notin S})
    BY <1>1, <1>6, <1>8, MessagesFreedIs
  <2>3. /\ \A s \in MapSectors : card'[BitmapSector(s)] # Torn
        /\ card'[Superheader] = "good" /\ card'[JournalHeader] = "valid"
    BY <1>3, <1>4, <1>5, <1>6
  <2>4. slots' = slots /\ usageBitmap' = MapOf(S)
    BY <1>1, <1>6
  <2> QED
    BY <1>9, <2>1, <2>2, <2>3, <2>4 DEF RamInv
<1> QED
  BY <1>10, <1>11, <1>12, <1>13 DEF MountInv

(* A step of a format, cut short or not, writes one sector.                *)
LEMMA SectorWritten ==
    ASSUME TypeInv, NEW k \in 1 .. Len(FormatOrder), NEW v,
           v = Formatted(FormatOrder[k]) \/ v \in AfterCut(FormatOrder[k]),
           card' = [card EXCEPT ![FormatOrder[k]] = v]
    PROVE  /\ card' = [s \in CardSectors |-> card'[s]]
           /\ card'[FormatOrder[k]] = v
           /\ \A s \in CardSectors : s # FormatOrder[k] => card'[s] = card[s]
           /\ \A s \in MapSectors : card'[BitmapSector(s)] \in (SUBSET InSector(s)) \cup {Torn}
<1> DEFINE t == FormatOrder[k]
<1>1. t \in CardSectors
  BY SectorsOfCard
<1>2. card = [s \in CardSectors |-> card[s]]
  BY DEF TypeInv
<1> HIDE DEF t
<1>3. /\ card' = [s \in CardSectors |-> card'[s]] /\ card'[t] = v
      /\ \A s \in CardSectors : s # t => card'[s] = card[s]
  BY <1>1, <1>2, Written DEF t
<1>4. ASSUME NEW s \in MapSectors PROVE card'[BitmapSector(s)] \in (SUBSET InSector(s)) \cup {Torn}
  <2>1. /\ BitmapSector(s) \in CardSectors
        /\ card[BitmapSector(s)] \in (SUBSET InSector(s)) \cup {Torn}
    BY SectorsOfCard DEF TypeInv
  <2>2. CASE BitmapSector(s) = t
    <3>1. v \in {card[t], Formatted(t), Torn}
      BY DEF AfterCut, t
    <3>2. Formatted(t) = {}
      BY <2>2, FormattedIs
    <3> QED
      BY <1>3, <2>1, <2>2, <3>1, <3>2
  <2> QED
    BY <1>3, <2>1, <2>2
<1> QED
  BY <1>3, <1>4 DEF t

LEMMA FormattingIs ==
    ASSUME TypeInv, Formatting
    PROVE  op.at \in 1 .. Len(FormatOrder) /\ op = FormattingAt(op.at)
<1>1. op \notin {Off, Refused, On}
  BY OpIs DEF Formatting
<1>2. PICK n \in 1 .. Len(FormatOrder) : op = FormattingAt(n)
  BY <1>1 DEF TypeInv
<1> QED
  BY <1>2, OpIs

LEMMA FormatWritesKeeps ==
    ASSUME MountInv, FormatWrites
    PROVE  MountInv'
<1> DEFINE n == Len(FormatOrder)  k == op.at
<1>0. /\ Formatting /\ k < n
      /\ card' = [card EXCEPT ![FormatOrder[k]] = Formatted(FormatOrder[k])]
      /\ op' = FormattingAt(k + 1)
      /\ UNCHANGED <<slots, calls, kept, halfWiped>>
  BY DEF FormatWrites
<1>1. TypeInv /\ FormatInv
  BY DEF MountInv
<1>2. n \in Nat /\ k \in 1 .. n /\ k + 1 \in 1 .. n /\ \A i \in 1 .. (k + 1) - 1 : i = k \/ i \in 1 .. k - 1
  <2>1. n \in Nat /\ k \in 1 .. n
    BY <1>0, <1>1, FormattingIs, SectorsOfCard
  <2> HIDE DEF n, k
  <2> QED
    BY <1>0, <2>1
<1>3. /\ card' = [s \in CardSectors |-> card'[s]]
      /\ card'[FormatOrder[k]] = Formatted(FormatOrder[k])
      /\ \A s \in CardSectors : s # FormatOrder[k] => card'[s] = card[s]
      /\ \A s \in MapSectors : card'[BitmapSector(s)] \in (SUBSET InSector(s)) \cup {Torn}
  BY <1>0, <1>1, <1>2, SectorWritten
<1>4. TypeInv'
  BY <1>0, <1>1, <1>2, <1>3 DEF TypeInv
<1>5. \A i \in 1 .. (k + 1) - 1 : card'[FormatOrder[i]] = Formatted(FormatOrder[i])
  <2>1. \A i \in 1 .. k - 1 : card[FormatOrder[i]] = Formatted(FormatOrder[i])
    BY <1>0, <1>1 DEF FormatInv
  <2>2. \A i \in 1 .. k - 1 : i \in 1 .. n
    <3> HIDE DEF n, k
    <3> QED BY <1>2
  <2>3. \A i \in 1 .. n : FormatOrder[i] \in CardSectors
    BY SectorsOfCard
  <2> HIDE DEF k
  <2> QED
    BY <1>2, <1>3, <2>1, <2>2, <2>3
<1>6. FormatInv'
  <2>1. op'.at = k + 1
    BY <1>0, OpIs
  <2> HIDE DEF k
  <2> QED
    BY <1>5, <2>1 DEF FormatInv
<1>7. KeptInv' /\ RamInv'
  BY <1>0, OpIs DEF KeptInv, RamInv, Formatting
<1> QED
  BY <1>4, <1>6, <1>7 DEF MountInv

(* After the last sector everything is as a new database has it.           *)
LEMMA AllFormatted ==
    ASSUME TypeInv, FormatInv, Formatting, op.at = Len(FormatOrder),
           \A s \in CardSectors : s # FormatOrder[op.at] => card'[s] = card[s]
    PROVE  /\ card'[JournalHeader] = "valid"
           /\ \A s \in MapSectors : card'[BitmapSector(s)] = {}
           /\ \A r \in RingNumbers : card'[RingSector(r)] = "empty"
<1> DEFINE n == Len(FormatOrder)
<1>1. \A k \in 1 .. n - 1 : card[FormatOrder[k]] = Formatted(FormatOrder[k])
  BY DEF FormatInv
<1>2. n \in Nat /\ \A k \in 1 .. n : k = n \/ k \in 1 .. n - 1
  <2>1. n \in Nat
    BY SectorsOfCard
  <2> HIDE DEF n
  <2> QED BY <2>1
<1>3. FormatOrder[op.at] = Superheader
  BY <1>2, SectorsOfCard
<1>4. ASSUME NEW s \in CardSectors, s # Superheader PROVE card'[s] = Formatted(s)
  <2>1. PICK k \in 1 .. n : s = FormatOrder[k]
    BY SectorsOfCard
  <2>2. k # n
    BY <1>3, <1>4, <2>1
  <2> QED
    BY <1>1, <1>2, <1>3, <1>4, <2>1, <2>2
<1> QED
  BY <1>4, SectorsOfCard, FormattedIs

LEMMA FormatEndsKeeps ==
    ASSUME MountInv, FormatEnds
    PROVE  MountInv'
<1> DEFINE n == Len(FormatOrder)
<1>0. /\ Formatting /\ op.at = n
      /\ card' = [card EXCEPT ![FormatOrder[n]] = Formatted(FormatOrder[n])]
      /\ usageBitmap' = MapOf({})
      /\ contactFree' = FreeRange(0, ContactSlots, ContactSlots)
      /\ messageFree' = FreeRange(0, MessageSectors, MessageSectors)
      /\ op' = On /\ kept' = {} /\ halfWiped' = FALSE
      /\ UNCHANGED <<slots, calls>>
  BY DEF FormatEnds
<1>1. TypeInv /\ FormatInv
  BY DEF MountInv
<1>2. n \in Nat /\ n \in 1 .. n
  <2>1. n \in Nat /\ n > 1
    BY SectorsOfCard
  <2> HIDE DEF n
  <2> QED BY <2>1
<1>3. /\ card' = [s \in CardSectors |-> card'[s]]
      /\ card'[FormatOrder[n]] = Formatted(FormatOrder[n])
      /\ \A s \in CardSectors : s # FormatOrder[n] => card'[s] = card[s]
      /\ \A s \in MapSectors : card'[BitmapSector(s)] \in (SUBSET InSector(s)) \cup {Torn}
  BY <1>0, <1>1, <1>2, SectorWritten
<1>4. /\ card'[Superheader] = "good" /\ card'[JournalHeader] = "valid"
      /\ \A s \in MapSectors : card'[BitmapSector(s)] = {}
      /\ \A r \in RingNumbers : card'[RingSector(r)] = "empty"
  <2>1. FormatOrder[n] = Superheader
    BY <1>2, SectorsOfCard
  <2> QED
    BY <1>0, <1>1, <1>3, <2>1, AllFormatted, FormattedIs
<1>5. TypeInv'
  BY <1>0, <1>1, <1>3 DEF TypeInv
<1>6. FormatInv'
  BY <1>0, OpIs DEF FormatInv, Formatting
<1>7. KeptInv'
  BY <1>0, <1>4 DEF KeptInv, HasKept
<1>8. FoundInUse' = {}
  BY <1>4 DEF FoundInUse, Found
<1>9. Exactly(contactFree', {s \in SlotIndices : SlotFree({}, slots, s)})
  <2>1. Exactly(FreeRange(0, ContactSlots, ContactSlots), {x \in 0 .. ContactSlots - 1 : 0 <= x /\ x < ContactSlots})
    BY SlotSizes, FreeRangeIs
  <2>2. {x \in 0 .. ContactSlots - 1 : 0 <= x /\ x < ContactSlots} = {s \in SlotIndices : SlotFree({}, slots, s)}
    BY SlotSizes DEF SlotIndices, SlotFree
  <2> QED
    BY <1>0, <2>1, <2>2
<1>10. Exactly(messageFree', {m \in 0 .. MessageSectors - 1 : ContactSectors + m \notin {}})
  <2>1. Exactly(FreeRange(0, MessageSectors, MessageSectors), {x \in 0 .. MessageSectors - 1 : 0 <= x /\ x < MessageSectors})
    BY Sizes, FreeRangeIs
  <2>2. {x \in 0 .. MessageSectors - 1 : 0 <= x /\ x < MessageSectors} = {m \in 0 .. MessageSectors - 1 : ContactSectors + m \notin {}}
    BY Sizes
  <2> QED
    BY <1>0, <2>1, <2>2
<1>11. RamInv'
  <2>1. \A s \in MapSectors : card'[BitmapSector(s)] # Torn
    BY <1>4, TornIs
  <2>2. slots' = slots
    BY <1>0
  <2> QED
    BY <1>0, <1>4, <1>8, <1>9, <1>10, <2>1, <2>2 DEF RamInv
<1> QED
  BY <1>5, <1>6, <1>7, <1>11 DEF MountInv

LEMMA FormatFailsKeeps ==
    ASSUME MountInv, FormatFails
    PROVE  MountInv'
<1>1. /\ op' = Refused /\ Formatting
      /\ halfWiped' = (halfWiped \/ Status(card[Superheader]) = "good")
      /\ UNCHANGED <<card, slots, ram, calls, kept>>
  BY DEF FormatFails
<1>2. TypeInv'
  BY <1>1 DEF MountInv, TypeInv
<1>3. FormatInv' /\ RamInv'
  BY <1>1, OpIs DEF FormatInv, RamInv, Formatting
<1>4. KeptInv'
  BY <1>1, TornIs DEF KeptInv
<1> QED
  BY <1>2, <1>3, <1>4 DEF MountInv

LEMMA PowerCutKeeps ==
    ASSUME MountInv, PowerCut
    PROVE  MountInv'
<1>0. op' = Off /\ calls' = 0 /\ UNCHANGED slots
  BY DEF PowerCut
<1>1. FormatInv' /\ RamInv'
  BY <1>0, OpIs DEF FormatInv, RamInv, Formatting
<1>2. 0 \in 0 .. MaxCalls
  BY MountAssumption
<1>3. CASE ~Formatting
  <2>1. UNCHANGED <<card, kept, halfWiped>>
    BY <1>3 DEF PowerCut
  <2>2. TypeInv'
    BY <1>0, <1>2, <2>1 DEF MountInv, TypeInv
  <2>3. KeptInv'
    BY <1>3, <2>1 DEF MountInv, KeptInv, HasKept
  <2> QED
    BY <1>1, <2>2, <2>3 DEF MountInv
<1>4. CASE Formatting
  <2> DEFINE n == Len(FormatOrder)  k == op.at
  <2>1. PICK content \in AfterCut(FormatOrder[k]) : card' = [card EXCEPT ![FormatOrder[k]] = content]
    BY <1>4 DEF PowerCut
  <2>2. IF k = n /\ card'[Superheader] = "good"
        THEN kept' = {} /\ halfWiped' = FALSE
        ELSE /\ halfWiped' = (halfWiped \/ Status(card[Superheader]) = "good")
             /\ UNCHANGED kept
    BY <1>4 DEF PowerCut
  <2>3. TypeInv /\ FormatInv
    BY DEF MountInv
  <2>4. k \in 1 .. n
    BY <1>4, <2>3, FormattingIs
  <2>5. /\ card' = [s \in CardSectors |-> card'[s]]
        /\ \A s \in CardSectors : s # FormatOrder[k] => card'[s] = card[s]
        /\ \A s \in MapSectors : card'[BitmapSector(s)] \in (SUBSET InSector(s)) \cup {Torn}
    BY <2>1, <2>3, <2>4, SectorWritten
  <2>6. TypeInv'
    <3>1. kept' \in SUBSET DataSectors /\ halfWiped' \in BOOLEAN
      BY <2>2, <2>3 DEF TypeInv
    <3> QED
      BY <1>0, <1>2, <2>3, <2>5, <3>1 DEF TypeInv
  <2>7. KeptInv'
    <3> SUFFICES ASSUME ~halfWiped', card'[Superheader] = "good" PROVE HasKept'
      BY DEF KeptInv
    <3>1. CASE k = n
      <4>1. kept' = {}
        BY <2>2, <3>1
      <4>2. /\ card'[JournalHeader] = "valid"
            /\ \A s \in MapSectors : card'[BitmapSector(s)] = {}
            /\ \A r \in RingNumbers : card'[RingSector(r)] = "empty"
        BY <1>4, <2>3, <2>5, <3>1, AllFormatted
      <4> QED
        BY <4>1, <4>2 DEF HasKept
    <3>2. CASE k # n
      <4>1. card'[Superheader] = card[Superheader]
        BY <2>4, <2>5, <3>2, SectorsOfCard
      <4> QED
        BY <2>2, <3>2, <4>1, TornIs
    <3> QED
      BY <3>1, <3>2
  <2> QED
    BY <1>1, <2>6, <2>7 DEF MountInv
<1> QED
  BY <1>3, <1>4

-----------------------------------------------------------------------------
(* The calls.                                                              *)

(* update_usage_bit keeps RAM and card together.                           *)
LEMMA SetUsageIs ==
    ASSUME MountInv, op = On, op' = op, halfWiped' = halfWiped,
           NEW i \in DataSectors, NEW used \in BOOLEAN, SetUsage(i, used)
    PROVE  LET S == IF used THEN FoundInUse \cup {i} ELSE FoundInUse \ {i}
           IN  /\ FoundInUse \in SUBSET DataSectors
               /\ FoundInUse' = S /\ usageBitmap' = MapOf(S)
               /\ card' = [s \in CardSectors |-> card'[s]]
               /\ \A s \in MapSectors : card'[BitmapSector(s)] \in SUBSET InSector(s)
               /\ card'[Superheader] = "good" /\ card'[JournalHeader] = "valid"
               /\ kept' \in SUBSET DataSectors
               /\ KeptInv'
<1> DEFINE F == FoundInUse
           S == IF used THEN F \cup {i} ELSE F \ {i}
           t == i \div BitsPerSector
<1>1. /\ card = [s \in CardSectors |-> card[s]] /\ kept \in SUBSET DataSectors
      /\ \A s \in MapSectors : card[BitmapSector(s)] \in (SUBSET InSector(s)) \cup {Torn}
      /\ card[Superheader] = "good" /\ card[JournalHeader] = "valid"
      /\ \A s \in MapSectors : card[BitmapSector(s)] # Torn
      /\ usageBitmap = MapOf(F)
  BY DEF MountInv, TypeInv, RamInv
<1>2. /\ F \in SUBSET DataSectors
      /\ \A s \in MapSectors : card[BitmapSector(s)] = F \cap InSector(s)
  <2>1. \A s \in MapSectors : card[BitmapSector(s)] \in SUBSET InSector(s)
    BY <1>1
  <2> QED
    BY <2>1, FoundParts DEF FoundInUse
<1> HIDE DEF F
<1>3. t \in MapSectors /\ S \in SUBSET DataSectors
  BY <1>2, DataInMap DEF MapSectors
<1>4. usageBitmap' = MapOf(S)
  <2>1. usageBitmap' = Updated(usageBitmap, i, used)
    BY DEF SetUsage
  <2>2. Updated(MapOf(F), i, used) = MapOf(IF used THEN F \cup {i} ELSE F \ {i})
    BY MapUpdated
  <2> HIDE DEF S
  <2>3. Updated(MapOf(F), i, used) = MapOf(S)
    BY <2>2 DEF S
  <2> QED
    BY <1>1, <2>1, <2>3
<1>5. card' = [card EXCEPT ![BitmapSector(t)] = S \cap InSector(t)]
  <2>1. card' = [card EXCEPT ![BitmapSector(t)] = {j \in InSector(t) : CheckBit(usageBitmap', j)}]
    <3>1. BitmapSector(t)[2] = t
      BY DEF BitmapSector
    <3> QED
      BY <3>1 DEF SetUsage
  <2>2. \A j \in InSector(t) : CheckBit(MapOf(S), j) <=> j \in S
    <3> HIDE DEF S
    <3> QED BY TornIs, MapOfBits
  <2>3. {j \in InSector(t) : CheckBit(usageBitmap', j)} = S \cap InSector(t)
    <3> HIDE DEF S
    <3> QED BY <1>4, <2>2
  <2> QED
    BY <2>1, <2>3
<1>6. /\ card' = [s \in CardSectors |-> card'[s]]
      /\ card'[BitmapSector(t)] = S \cap InSector(t)
      /\ \A s \in CardSectors : s # BitmapSector(t) => card'[s] = card[s]
  <2>1. BitmapSector(t) \in CardSectors
    BY <1>3, SectorsOfCard
  <2> HIDE DEF S, t
  <2> QED
    BY <1>1, <1>5, <2>1, Written
<1>7. \A s \in MapSectors : s # t => S \cap InSector(s) = F \cap InSector(s)
  BY DEF InSector
<1> HIDE DEF S, t
<1>8. \A s \in MapSectors : card'[BitmapSector(s)] = S \cap InSector(s)
  <2> TAKE s \in MapSectors
  <2>1. CASE s = t
    BY <1>6, <2>1
  <2>2. CASE s # t
    <3>1. BitmapSector(s) \in CardSectors /\ BitmapSector(s) # BitmapSector(t)
      BY <2>2, SectorsOfCard
    <3> QED
      BY <1>2, <1>6, <1>7, <2>2, <3>1
  <2> QED
    BY <2>1, <2>2
<1>9. /\ card'[Superheader] = card[Superheader] /\ card'[JournalHeader] = card[JournalHeader]
      /\ \A r \in RingNumbers : card'[RingSector(r)] = card[RingSector(r)]
  <2>1. /\ BitmapSector(t) # Superheader /\ BitmapSector(t) # JournalHeader
        /\ \A r : BitmapSector(t) # RingSector(r)
    BY <1>3, SectorsOfCard
  <2> QED
    BY <1>6, <2>1, SectorsOfCard
<1>10. FoundInUse' = S
  <2> DEFINE c == card'
  <2>1. \A s \in MapSectors : c[BitmapSector(s)] = S \cap InSector(s)
    BY <1>8
  <2> HIDE DEF c
  <2>2. Found(c) = S
    BY <1>3, <2>1, PartsFound
  <2> QED
    BY <2>2 DEF FoundInUse, c
<1>11. kept' = IF used THEN kept \cup {i} ELSE kept \ {i}
  BY DEF SetUsage
<1>12. KeptInv'
  <2> SUFFICES ASSUME ~halfWiped PROVE HasKept'
    BY DEF KeptInv
  <2>1. HasKept
    BY <1>1, OpIs DEF MountInv, KeptInv, Formatting
  <2>2. F = kept
    <3>1. \A s \in MapSectors : card[BitmapSector(s)] = kept \cap InSector(s)
      BY <2>1 DEF HasKept
    <3> QED
      BY <1>1, <3>1, PartsFound DEF F, FoundInUse
  <2>3. kept' = S
    BY <1>11, <2>2 DEF S
  <2> QED
    BY <1>1, <1>8, <1>9, <2>1, <2>3 DEF HasKept
<1>13. kept' \in SUBSET DataSectors
  BY <1>1, <1>11
<1> QED
  BY <1>1, <1>2, <1>4, <1>6, <1>8, <1>9, <1>10, <1>12, <1>13 DEF S, F

(* What remains to show of a call: that it keeps the allocators exact.     *)
LEMMA CallKeeps ==
    ASSUME MountInv, Call, slots' \in UsedSlots,
           \/ UNCHANGED <<card, usageBitmap, kept>>
           \/ \E i \in DataSectors, used \in BOOLEAN : SetUsage(i, used),
           Exactly(contactFree', {s \in SlotIndices : SlotFree(FoundInUse', slots', s)}),
           Exactly(messageFree', {m \in 0 .. MessageSectors - 1 : ContactSectors + m \notin FoundInUse'})
    PROVE  MountInv'
<1>1. op = On /\ op' = op /\ halfWiped' = halfWiped /\ calls < MaxCalls /\ calls' = calls + 1
  BY DEF Call
<1>2. calls' \in 0 .. MaxCalls
  BY <1>1, MountAssumption DEF MountInv, TypeInv
<1>3. /\ card' = [s \in CardSectors |-> card'[s]] /\ kept' \in SUBSET DataSectors
      /\ \A s \in MapSectors : card'[BitmapSector(s)] \in (SUBSET InSector(s)) \cup {Torn}
      /\ \A s \in MapSectors : card'[BitmapSector(s)] # Torn
      /\ card'[Superheader] = "good" /\ card'[JournalHeader] = "valid"
      /\ usageBitmap' = MapOf(FoundInUse')
      /\ KeptInv'
  <2>1. CASE UNCHANGED <<card, usageBitmap, kept>>
    <3>1. FoundInUse' = FoundInUse
      BY <2>1 DEF FoundInUse
    <3> QED
      BY <1>1, <2>1, <3>1 DEF MountInv, TypeInv, RamInv, KeptInv, HasKept, Formatting
  <2>2. CASE \E i \in DataSectors, used \in BOOLEAN : SetUsage(i, used)
    <3>1. PICK i \in DataSectors, used \in BOOLEAN : SetUsage(i, used)
      BY <2>2
    <3>2. /\ usageBitmap' = MapOf(FoundInUse')
          /\ card' = [s \in CardSectors |-> card'[s]]
          /\ \A s \in MapSectors : card'[BitmapSector(s)] \in SUBSET InSector(s)
          /\ card'[Superheader] = "good" /\ card'[JournalHeader] = "valid"
          /\ kept' \in SUBSET DataSectors
          /\ KeptInv'
      BY <1>1, <3>1, SetUsageIs
    <3>3. \A s \in MapSectors : card'[BitmapSector(s)] # Torn
      BY <3>2, TornIs
    <3> QED
      BY <3>2, <3>3
  <2> QED
    BY <2>1, <2>2
<1>4. TypeInv'
  BY <1>1, <1>2, <1>3 DEF MountInv, TypeInv
<1>5. FormatInv'
  BY <1>1, OpIs DEF FormatInv, Formatting
<1>6. RamInv'
  BY <1>3 DEF RamInv
<1> QED
  BY <1>3, <1>4, <1>5, <1>6 DEF MountInv

(* Allocating a slot and freeing one.                                      *)
LEMMA AddContactKeeps ==
    ASSUME MountInv, AddContact
    PROVE  MountInv'
<1> DEFINE F == FoundInUse
           s == Last(contactFree)
           k == s \div ContactCapacity
           p == s % ContactCapacity
           now == (IF k \in F THEN slots[k] ELSE {}) \cup {p}
           Free(S, used) == {x \in SlotIndices : SlotFree(S, used, x)}
<1>1. /\ Call /\ op = On /\ op' = op /\ halfWiped' = halfWiped
      /\ contactFree # << >> /\ contactFree' = Front(contactFree) /\ messageFree' = messageFree
      /\ SetUsage(k, TRUE)
      /\ slots' = [slots EXCEPT ![k] = (IF CheckBit(usageBitmap, k) THEN @ ELSE {}) \cup {p}]
  BY DEF AddContact, Call
<1>2. /\ slots \in UsedSlots
      /\ Exactly(contactFree, Free(F, slots))
      /\ Exactly(messageFree, {m \in 0 .. MessageSectors - 1 : ContactSectors + m \notin F})
      /\ usageBitmap = MapOf(F)
  BY <1>1 DEF MountInv, TypeInv, RamInv
<1> HIDE DEF s
<1>3. s \in Free(F, slots) /\ Exactly(contactFree', Free(F, slots) \ {s})
  <2> HIDE DEF Free
  <2> QED BY <1>1, <1>2, ExactlyFront DEF s
<1>4. /\ k \in 0 .. ContactSectors - 1 /\ p \in 0 .. ContactCapacity - 1
      /\ k \in F => slots[k] # Lost /\ p \notin slots[k]
  BY <1>3, SlotSizes DEF SlotFree
<1>5. k \in DataSectors
  BY <1>4, Sizes DEF DataSectors
<1>6. CheckBit(usageBitmap, k) <=> k \in F
  BY <1>2, <1>5, MapOfBits
<1>7. FoundInUse' = F \cup {k}
  <2> HIDE DEF k
  <2> QED BY <1>1, <1>5, SetUsageIs
<1>8. slots' = [slots EXCEPT ![k] = now]
  BY <1>1, <1>6
<1>9. now \in SUBSET (0 .. ContactCapacity - 1)
  BY <1>2, <1>4 DEF UsedSlots
<1>10. slots' \in UsedSlots /\ slots'[k] = now /\ \A x \in 0 .. ContactSectors - 1 : x # k => slots'[x] = slots[x]
  <2> HIDE DEF now, k
  <2> QED BY <1>2, <1>4, <1>8, <1>9 DEF UsedSlots
<1>11. now # Lost
  <2> HIDE DEF now
  <2> QED BY <1>9, MountAssumption
<1>12. \A x \in SlotIndices : /\ x \div ContactCapacity \in 0 .. ContactSectors - 1
                              /\ x \div ContactCapacity = k /\ x % ContactCapacity = p => x = s
  <2> TAKE x \in SlotIndices
  <2>1. x \in Nat /\ s \in Nat /\ x \div ContactCapacity \in 0 .. ContactSectors - 1
    BY <1>3, SlotSizes
  <2>2. ASSUME x \div ContactCapacity = s \div ContactCapacity, x % ContactCapacity = s % ContactCapacity PROVE x = s
    BY <2>1, <2>2, Sizes, DivisionOf
  <2> QED
    BY <2>1, <2>2
<1>13. Free(F \cup {k}, slots') = Free(F, slots) \ {s}
  <2> HIDE DEF F
  <2>1. ASSUME NEW x \in SlotIndices PROVE SlotFree(F \cup {k}, slots', x) <=> SlotFree(F, slots, x) /\ x # s
    <3> DEFINE l == x \div ContactCapacity  q == x % ContactCapacity
    <3>1. l \in 0 .. ContactSectors - 1 /\ (l = k /\ q = p => x = s)
      BY <1>12
    <3>2. CASE l # k
      <4>1. x # s
        BY <3>2
      <4> HIDE DEF l, k, q, p
      <4>2. slots'[l] = slots[l] /\ (l \in F \cup {k} <=> l \in F)
        BY <1>10, <3>1, <3>2
      <4> QED
        BY <4>1, <4>2 DEF SlotFree, l, q
    <3>3. CASE l = k
      <4>1. SlotFree(F \cup {k}, slots', x) <=> q \notin now
        BY <1>10, <1>11, <3>3 DEF SlotFree
      <4>2. SlotFree(F, slots, x) <=> (k \in F => slots[k] # Lost /\ q \notin slots[k])
        BY <3>3 DEF SlotFree
      <4>3. q = p <=> x = s
        BY <3>1, <3>3
      <4> HIDE DEF l, k, q, p
      <4> QED
        BY <1>4, <4>1, <4>2, <4>3
    <3> QED
      BY <3>2, <3>3
  <2> QED
    BY <2>1
<1>14. Exactly(contactFree', {x \in SlotIndices : SlotFree(FoundInUse', slots', x)})
  BY <1>3, <1>7, <1>13
<1>15. {m \in 0 .. MessageSectors - 1 : ContactSectors + m \notin F \cup {k}}
        = {m \in 0 .. MessageSectors - 1 : ContactSectors + m \notin F}
  <2>1. \A m \in 0 .. MessageSectors - 1 : ContactSectors + m # k
    <3> HIDE DEF k
    <3> QED BY <1>4, Sizes
  <2> QED
    BY <2>1
<1>16. Exactly(messageFree', {m \in 0 .. MessageSectors - 1 : ContactSectors + m \notin FoundInUse'})
  BY <1>1, <1>2, <1>7, <1>15
<1>17. \E i \in DataSectors, used \in BOOLEAN : SetUsage(i, used)
  <2> HIDE DEF k
  <2> QED BY <1>1, <1>5
<1> HIDE DEF k, p, now, F
<1> QED
  BY <1>1, <1>10, <1>14, <1>16, <1>17, CallKeeps

LEMMA RemoveContactKeeps ==
    ASSUME MountInv, NEW s \in 0 .. ContactSlots - 1, RemoveContact(s)
    PROVE  MountInv'
<1> DEFINE F == FoundInUse
           k == s \div ContactCapacity
           p == s % ContactCapacity
           Free(S, used) == {x \in SlotIndices : SlotFree(S, used, x)}
<1>1. /\ Call /\ op = On /\ op' = op /\ halfWiped' = halfWiped
      /\ CheckBit(usageBitmap, k) /\ slots[k] # Lost /\ p \in slots[k]
      /\ contactFree' = Append(contactFree, s) /\ messageFree' = messageFree
      /\ \/ slots[k] = {p} /\ SetUsage(k, FALSE) /\ slots' = slots
         \/ /\ slots[k] # {p} /\ slots' = [slots EXCEPT ![k] = slots[k] \ {p}]
            /\ UNCHANGED <<card, usageBitmap, kept>>
  BY DEF RemoveContact, Call
<1>2. /\ slots \in UsedSlots
      /\ Exactly(contactFree, Free(F, slots))
      /\ Exactly(messageFree, {m \in 0 .. MessageSectors - 1 : ContactSectors + m \notin F})
      /\ usageBitmap = MapOf(F)
  BY <1>1 DEF MountInv, TypeInv, RamInv
<1>3. s \in SlotIndices /\ k \in 0 .. ContactSectors - 1 /\ p \in 0 .. ContactCapacity - 1
  BY SlotSizes DEF SlotIndices
<1>4. k \in DataSectors
  BY <1>3, Sizes DEF DataSectors
<1>5. k \in F
  BY <1>1, <1>2, <1>4, MapOfBits
<1>6. s \notin Free(F, slots)
  BY <1>1, <1>5 DEF SlotFree
<1>7. Exactly(contactFree', Free(F, slots) \cup {s})
  <2> HIDE DEF Free
  <2> QED BY <1>1, <1>2, <1>6, ExactlyAppend
<1>8. \A x \in SlotIndices : /\ x \div ContactCapacity \in 0 .. ContactSectors - 1
                             /\ x \div ContactCapacity = k /\ x % ContactCapacity = p => x = s
  <2> TAKE x \in SlotIndices
  <2>1. x \in Nat /\ s \in Nat /\ x \div ContactCapacity \in 0 .. ContactSectors - 1
    BY <1>3, SlotSizes
  <2>2. ASSUME x \div ContactCapacity = s \div ContactCapacity, x % ContactCapacity = s % ContactCapacity PROVE x = s
    BY <2>1, <2>2, Sizes, DivisionOf
  <2> QED
    BY <2>1, <2>2
<1>9. CASE slots[k] = {p} /\ SetUsage(k, FALSE) /\ slots' = slots
  <2>1. FoundInUse' = F \ {k}
    <3> HIDE DEF k
    <3> QED BY <1>1, <1>4, <1>9, SetUsageIs
  <2>2. Free(F \ {k}, slots) = Free(F, slots) \cup {s}
    <3> HIDE DEF F
    <3>1. ASSUME NEW x \in SlotIndices PROVE SlotFree(F \ {k}, slots, x) <=> SlotFree(F, slots, x) \/ x = s
      <4> DEFINE l == x \div ContactCapacity  q == x % ContactCapacity
      <4>1. l = k /\ q = p => x = s
        BY <1>8
      <4>2. x = s => l = k
        OBVIOUS
      <4>3. SlotFree(F \ {k}, slots, x) <=> (l \in F \ {k} => slots[l] # Lost /\ q \notin slots[l])
        BY DEF SlotFree
      <4>4. SlotFree(F, slots, x) <=> (l \in F => slots[l] # Lost /\ q \notin slots[l])
        BY DEF SlotFree
      <4> HIDE DEF l, q, k, p
      <4> QED
        BY <1>1, <1>9, <4>1, <4>2, <4>3, <4>4
    <3> QED
      BY <1>3, <3>1
  <2>3. Exactly(contactFree', {x \in SlotIndices : SlotFree(FoundInUse', slots', x)})
    BY <1>7, <1>9, <2>1, <2>2
  <2>4. {m \in 0 .. MessageSectors - 1 : ContactSectors + m \notin F \ {k}}
          = {m \in 0 .. MessageSectors - 1 : ContactSectors + m \notin F}
    <3>1. \A m \in 0 .. MessageSectors - 1 : ContactSectors + m # k
      <4> HIDE DEF k
      <4> QED BY <1>3, Sizes
    <3> QED
      BY <3>1
  <2>5. Exactly(messageFree', {m \in 0 .. MessageSectors - 1 : ContactSectors + m \notin FoundInUse'})
    BY <1>1, <1>2, <2>1, <2>4
  <2>6. \E i \in DataSectors, used \in BOOLEAN : SetUsage(i, used)
    <3> HIDE DEF k
    <3> QED BY <1>4, <1>9
  <2>7. slots' \in UsedSlots
    BY <1>2, <1>9
  <2> HIDE DEF k, p, F
  <2> QED
    BY <1>1, <2>3, <2>5, <2>6, <2>7, CallKeeps
<1>10. CASE /\ slots[k] # {p} /\ slots' = [slots EXCEPT ![k] = slots[k] \ {p}]
            /\ UNCHANGED <<card, usageBitmap, kept>>
  <2> DEFINE now == slots[k] \ {p}
  <2>1. FoundInUse' = F
    BY <1>10 DEF FoundInUse
  <2>2. now \in SUBSET (0 .. ContactCapacity - 1)
    BY <1>1, <1>2, <1>3 DEF UsedSlots
  <2>3. /\ slots' \in UsedSlots /\ slots'[k] = now
        /\ \A x \in 0 .. ContactSectors - 1 : x # k => slots'[x] = slots[x]
    <3>1. slots' = [slots EXCEPT ![k] = now]
      BY <1>10
    <3> HIDE DEF now, k
    <3> QED BY <1>2, <1>3, <2>2, <3>1 DEF UsedSlots
  <2>4. now # Lost
    <3> HIDE DEF now
    <3> QED BY <2>2, MountAssumption
  <2>5. Free(F, slots') = Free(F, slots) \cup {s}
    <3> HIDE DEF F
    <3>1. ASSUME NEW x \in SlotIndices PROVE SlotFree(F, slots', x) <=> SlotFree(F, slots, x) \/ x = s
      <4> DEFINE l == x \div ContactCapacity  q == x % ContactCapacity
      <4>1. (l = k /\ q = p => x = s) /\ l \in 0 .. ContactSectors - 1
        BY <1>8
      <4>2. x = s => l = k /\ q = p
        OBVIOUS
      <4>3. SlotFree(F, slots', x) <=> (l \in F => slots'[l] # Lost /\ q \notin slots'[l])
        BY DEF SlotFree
      <4>4. SlotFree(F, slots, x) <=> (l \in F => slots[l] # Lost /\ q \notin slots[l])
        BY DEF SlotFree
      <4>5. CASE l = k
        <5>1. q \notin now <=> q \notin slots[k] \/ q = p
          OBVIOUS
        <5> HIDE DEF l, q, k, p, now
        <5> QED
          BY <1>1, <1>5, <2>3, <2>4, <4>1, <4>2, <4>3, <4>4, <4>5, <5>1
      <4>6. CASE l # k
        <5> HIDE DEF l, q, k, p, now
        <5> QED
          BY <2>3, <4>1, <4>2, <4>3, <4>4, <4>6
      <4> QED
        BY <4>5, <4>6
    <3> QED
      BY <1>3, <3>1
  <2>6. Exactly(contactFree', {x \in SlotIndices : SlotFree(FoundInUse', slots', x)})
    BY <1>7, <2>1, <2>5
  <2>7. Exactly(messageFree', {m \in 0 .. MessageSectors - 1 : ContactSectors + m \notin FoundInUse'})
    BY <1>1, <1>2, <2>1
  <2> HIDE DEF k, p, F
  <2> QED
    BY <1>1, <1>10, <2>3, <2>6, <2>7, CallKeeps
<1> QED
  BY <1>1, <1>9, <1>10

(* Allocating a message sector and freeing one.                            *)
LEMMA SectorCallKeeps ==
    ASSUME MountInv, Call, NEW m \in 0 .. MessageSectors - 1, NEW used \in BOOLEAN,
           SetUsage(ContactSectors + m, used), UNCHANGED <<slots, contactFree>>,
           LET free == {l \in 0 .. MessageSectors - 1 : ContactSectors + l \notin FoundInUse}
           IN  Exactly(messageFree', IF used THEN free \ {m} ELSE free \cup {m})
    PROVE  MountInv'
<1> DEFINE F == FoundInUse
           i == ContactSectors + m
           S == IF used THEN F \cup {i} ELSE F \ {i}
<1>1. op = On /\ op' = op /\ halfWiped' = halfWiped
  BY DEF Call
<1>2. /\ slots \in UsedSlots
      /\ Exactly(contactFree, {s \in SlotIndices : SlotFree(F, slots, s)})
  BY <1>1 DEF MountInv, TypeInv, RamInv
<1>3. i \in DataSectors
  BY Sizes DEF DataSectors
<1>4. FoundInUse' = S
  <2>1. ASSUME NEW u \in BOOLEAN, SetUsage(i, u)
        PROVE  FoundInUse' = IF u THEN FoundInUse \cup {i} ELSE FoundInUse \ {i}
    <3> HIDE DEF i
    <3> QED BY <1>1, <1>3, <2>1, SetUsageIs
  <2> QED
    BY <2>1
<1>5. \A k \in 0 .. ContactSectors - 1 : k \in S <=> k \in F
  <2>1. \A k \in 0 .. ContactSectors - 1 : k # i
    BY Sizes
  <2> HIDE DEF i
  <2> QED
    BY <2>1
<1>6. \A l \in 0 .. MessageSectors - 1 : ContactSectors + l = i <=> l = m
  BY Sizes
<1> HIDE DEF F, i
<1>7. {s \in SlotIndices : SlotFree(S, slots, s)} = {s \in SlotIndices : SlotFree(F, slots, s)}
  <2> HIDE DEF S
  <2> QED BY <1>5, SlotSizes DEF SlotFree
<1>8. Exactly(contactFree', {s \in SlotIndices : SlotFree(FoundInUse', slots', s)})
  <2> HIDE DEF S
  <2> QED BY <1>2, <1>4, <1>7
<1>9. {l \in 0 .. MessageSectors - 1 : ContactSectors + l \notin S}
        = LET free == {l \in 0 .. MessageSectors - 1 : ContactSectors + l \notin F}
          IN  IF used THEN free \ {m} ELSE free \cup {m}
  BY <1>6
<1>10. Exactly(messageFree', {l \in 0 .. MessageSectors - 1 : ContactSectors + l \notin FoundInUse'})
  <2> HIDE DEF S
  <2> QED BY <1>4, <1>9 DEF F
<1>11. \E j \in DataSectors, u \in BOOLEAN : SetUsage(j, u)
  BY <1>3 DEF i
<1> QED
  BY <1>2, <1>8, <1>10, <1>11, CallKeeps

LEMMA SectorCallsKeep ==
    ASSUME MountInv, AddSector \/ \E m \in 0 .. MessageSectors - 1 : RemoveSector(m)
    PROVE  MountInv'
<1> DEFINE free == {l \in 0 .. MessageSectors - 1 : ContactSectors + l \notin FoundInUse}
<1>1. op = On
  BY DEF AddSector, RemoveSector, Call
<1>2. Exactly(messageFree, free) /\ usageBitmap = MapOf(FoundInUse)
  BY <1>1 DEF MountInv, RamInv
<1>3. CASE AddSector
  <2> DEFINE m == Last(messageFree)
  <2>1. m \in free /\ Exactly(messageFree', free \ {m})
    <3>1. messageFree # << >> /\ messageFree' = Front(messageFree)
      BY <1>3 DEF AddSector
    <3> HIDE DEF free
    <3> QED
      BY <1>2, <3>1, ExactlyFront
  <2>2. /\ Call /\ SetUsage(ContactSectors + m, TRUE)
        /\ UNCHANGED <<slots, contactFree>>
    BY <1>3 DEF AddSector
  <2> HIDE DEF m
  <2> QED
    BY <2>1, <2>2, SectorCallKeeps
<1>4. ASSUME NEW m \in 0 .. MessageSectors - 1, RemoveSector(m) PROVE MountInv'
  <2>1. /\ Call /\ SetUsage(ContactSectors + m, FALSE)
        /\ UNCHANGED <<slots, contactFree>>
        /\ CheckBit(usageBitmap, ContactSectors + m)
        /\ messageFree' = Append(messageFree, m)
    BY <1>4 DEF RemoveSector
  <2>2. ContactSectors + m \in DataSectors
    BY Sizes DEF DataSectors
  <2>3. ContactSectors + m \in FoundInUse
    BY <1>2, <2>1, <2>2, MapOfBits
  <2>4. m \notin free
    BY <2>3
  <2>5. Exactly(messageFree', free \cup {m})
    <3> HIDE DEF free
    <3> QED BY <1>2, <2>1, <2>4, ExactlyAppend
  <2> QED
    BY <2>1, <2>5, SectorCallKeeps
<1> QED
  BY <1>3, <1>4

-----------------------------------------------------------------------------
(* The invariant, and what it says.                                        *)

(* Whatever a boot, a format, a cut in one or a call does, RAM has the     *)
(* bitmap of the card, the allocators the rest, and the card what the      *)
(* calls have left there.                                                  *)
THEOREM MountInvariant == Spec => []MountInv
<1>1. Init => MountInv
  BY InitMount
<1>2. MountInv /\ [Next]_vars => MountInv'
  <2> SUFFICES ASSUME MountInv, [Next]_vars PROVE MountInv'
    OBVIOUS
  <2>1. CASE BootFormats \/ BootRefuses \/ MountFails \/ AskFormat
    BY <2>1, RefusalsKeep
  <2>2. CASE BootMounts
    BY <2>2, BootMountsKeeps
  <2>3. CASE FormatWrites
    BY <2>3, FormatWritesKeeps
  <2>4. CASE FormatEnds
    BY <2>4, FormatEndsKeeps
  <2>5. CASE FormatFails
    BY <2>5, FormatFailsKeeps
  <2>6. CASE PowerCut
    BY <2>6, PowerCutKeeps
  <2>7. CASE AddContact
    BY <2>7, AddContactKeeps
  <2>8. ASSUME NEW s \in 0 .. ContactSlots - 1, RemoveContact(s) PROVE MountInv'
    BY <2>8, RemoveContactKeeps
  <2>9. CASE AddSector \/ \E m \in 0 .. MessageSectors - 1 : RemoveSector(m)
    BY <2>9, SectorCallsKeep
  <2>10. CASE UNCHANGED vars
    <3>1. UNCHANGED <<card, slots, usageBitmap, contactFree, messageFree, op, calls, kept, halfWiped>>
      BY <2>10 DEF vars
    <3>2. TypeInv' /\ FormatInv' /\ KeptInv'
      BY <3>1 DEF MountInv, TypeInv, FormatInv, KeptInv, HasKept, Formatting
    <3>3. FoundInUse' = FoundInUse
      BY <3>1 DEF FoundInUse
    <3>4. RamInv'
      BY <3>1, <3>3 DEF MountInv, RamInv
    <3> QED
      BY <3>2, <3>4 DEF MountInv
  <2> QED
    BY <2>1, <2>2, <2>3, <2>4, <2>5, <2>6, <2>7, <2>8, <2>9, <2>10 DEF Next
<1> QED
  BY <1>1, <1>2, PTL DEF Spec

(* The bitmap in RAM has the sectors in use, and they are those it finds.  *)
LEMMA InUseIs ==
    ASSUME MountInv, op = On
    PROVE  /\ InUse = FoundInUse /\ FoundInUse \in SUBSET DataSectors
           /\ \A s \in MapSectors : card[BitmapSector(s)] = FoundInUse \cap InSector(s)
           /\ usageBitmap = MapOf(InUse)
<1>1. \A s \in MapSectors : card[BitmapSector(s)] \in SUBSET InSector(s)
  BY DEF MountInv, TypeInv, RamInv
<1>2. /\ FoundInUse \in SUBSET DataSectors
      /\ \A s \in MapSectors : card[BitmapSector(s)] = FoundInUse \cap InSector(s)
  BY <1>1, FoundParts DEF FoundInUse
<1>3. usageBitmap = MapOf(FoundInUse)
  BY DEF MountInv, RamInv
<1>4. InUse = FoundInUse
  BY <1>2, <1>3, MapOfBits DEF InUse
<1> QED
  BY <1>2, <1>3, <1>4

(* A boot wipes no card that was ever formatted, and mounts none whose     *)
(* format was interrupted, but for one that a client asked for: what a     *)
(* database that is up has on its card is what its calls have left there.  *)
THEOREM CardIsKept == Spec => []CardIsAsLeft
<1>1. MountInv => CardIsAsLeft
  <2> SUFFICES ASSUME MountInv, op = On, ~halfWiped
               PROVE  /\ InUse = kept
                      /\ card[Superheader] = "good" /\ card[JournalHeader] = "valid"
                      /\ \A s \in 0 .. BitmapSectors - 1 : card[BitmapSector(s)] = kept \cap InSector(s)
                      /\ \A r \in 0 .. RingSectors - 1 : card[RingSector(r)] \in {"empty", "entries"}
    BY DEF CardIsAsLeft
  <2>1. card[Superheader] = "good" /\ kept \in SUBSET DataSectors
    BY DEF MountInv, RamInv, TypeInv
  <2>2. HasKept
    BY <2>1, OpIs DEF MountInv, KeptInv, Formatting
  <2>3. FoundInUse = kept
    BY <2>1, <2>2, PartsFound DEF HasKept, FoundInUse
  <2> QED
    BY <2>1, <2>2, <2>3, InUseIs DEF HasKept, MapSectors, RingNumbers
<1> QED
  BY <1>1, MountInvariant, PTL

(* The allocators that a mount fills have each slot and each sector that   *)
(* the card does not use, once, and so they stay.                          *)
THEOREM AllocatorsAreExact == Spec => []AllocatorsExact
<1>1. MountInv => AllocatorsExact
  <2> SUFFICES ASSUME MountInv, op = On
               PROVE  /\ IsInjective(contactFree) /\ IsInjective(messageFree)
                      /\ Range(contactFree) =
                            {s \in 0 .. ContactSlots - 1 :
                                LET k == s \div ContactCapacity
                                IN  k \in InUse => slots[k] # Lost /\ s % ContactCapacity \notin slots[k]}
                      /\ Range(messageFree) = {m \in 0 .. MessageSectors - 1 : ContactSectors + m \notin InUse}
    BY DEF AllocatorsExact
  <2> DEFINE T == {s \in SlotIndices : SlotFree(FoundInUse, slots, s)}
             U == {m \in 0 .. MessageSectors - 1 : ContactSectors + m \notin FoundInUse}
  <2>1. Exactly(contactFree, T) /\ Exactly(messageFree, U)
    BY DEF MountInv, RamInv
  <2>2. /\ IsInjective(contactFree) /\ Range(contactFree) = T
        /\ IsInjective(messageFree) /\ Range(messageFree) = U
    <3> HIDE DEF T, U
    <3> QED BY <2>1, ExactlyIs
  <2> QED
    BY <2>2, InUseIs DEF SlotFree, SlotIndices
<1> QED
  BY <1>1, MountInvariant, PTL

-----------------------------------------------------------------------------
(* The scans of the bitmap in use.                                         *)

LEMMA LeastOf ==
    ASSUME NEW S \in SUBSET Nat, NEW x \in S, \A y \in S : x <= y
    PROVE  Least(S) = x
<1>1. Least(S) \in S /\ Least(S) <= x
  BY LeastIs
<1>2. x <= Least(S) /\ x \in Nat /\ Least(S) \in Nat
  BY <1>1
<1> QED
  BY <1>1, <1>2

LEMMA GreatestOf ==
    ASSUME NEW n \in Nat, NEW S \in SUBSET (0 .. n), NEW x \in S, \A y \in S : x >= y
    PROVE  Greatest(S) = x
<1>1. Greatest(S) \in S /\ Greatest(S) >= x
  BY GreatestIs
<1>2. x >= Greatest(S) /\ x \in 0 .. n /\ Greatest(S) \in 0 .. n
  BY <1>1
<1> QED
  BY <1>1, <1>2

LEMMA DataIsFinite ==
    /\ ContactSectors + MessageSectors - 1 \in Nat
    /\ DataSectors = 0 .. ContactSectors + MessageSectors - 1
    /\ DataSectors \subseteq Nat
BY Sizes DEF DataSectors

LEMMA RangeScans ==
    ASSUME NEW S \in SUBSET DataSectors, NEW i \in DataSectors, NEW j \in DataSectors, i <= j
    PROVE  LET between == {x \in S : x \in i .. j}
               next    == NextBit(MapOf(S), i, j)
           IN  /\ IF between # {} THEN next = Least(between) ELSE next = NoBit \/ next > j
               /\ PrevBit(MapOf(S), i, j) = IF between = {} THEN NoBit ELSE Greatest(between)
<1> DEFINE between == {x \in S : x \in i .. j}
           next == NextBit(MapOf(S), i, j)
           prev == PrevBit(MapOf(S), i, j)
           n == ContactSectors + MessageSectors - 1
<1>1. /\ n \in Nat /\ DataSectors = 0 .. n
      /\ \A x \in S : x \in Nat
      /\ i \in Nat /\ j \in Nat
  BY DataIsFinite
<1>2. \/ next = NoBit /\ \A x \in S : ~ (i <= x /\ x <= j)
      \/ next \in S /\ i <= next /\ \A x \in S : i <= x => next <= x
  BY NextBitIs
<1>3. \/ prev = NoBit /\ \A x \in S : ~ (i <= x /\ x <= j)
      \/ prev \in S /\ i <= prev /\ prev <= j /\ \A x \in S : i <= x /\ x <= j => x <= prev
  BY PrevBitIs
<1> HIDE DEF next, prev, n
<1>4. \A x \in S : x \in between <=> i <= x /\ x <= j
  BY <1>1
<1>5. between \in SUBSET Nat /\ between \in SUBSET (0 .. n) /\ between \in SUBSET S
  BY <1>1
<1> HIDE DEF between
<1>6. CASE between = {}
  <2>1. \A x \in S : ~ (i <= x /\ x <= j)
    BY <1>4, <1>6
  <2>2. next = NoBit \/ next > j
    <3>1. CASE next \in S /\ i <= next
      <4>1. next \in Nat /\ ~ (next <= j)
        BY <1>1, <2>1, <3>1
      <4> QED
        BY <1>1, <4>1
    <3> QED
      BY <1>2, <3>1
  <2>3. prev = NoBit
    BY <1>3, <2>1
  <2> QED
    BY <1>6, <2>2, <2>3 DEF between, next, prev
<1>7. CASE between # {}
  <2>1. PICK y \in between : y \in S /\ i <= y /\ y <= j /\ y \in Nat
    BY <1>1, <1>4, <1>5, <1>7
  <2>2. next = Least(between)
    <3>1. next \in S /\ i <= next /\ \A x \in S : i <= x => next <= x
      BY <1>2, <2>1
    <3>2. next \in Nat /\ next <= y
      BY <1>1, <2>1, <3>1
    <3>3. next <= j
      BY <1>1, <2>1, <3>2
    <3>4. next \in between /\ \A x \in between : next <= x
      BY <1>4, <1>5, <3>1, <3>3
    <3> QED
      BY <1>5, <3>4, LeastOf
  <2>3. prev = Greatest(between)
    <3>1. prev \in S /\ i <= prev /\ prev <= j /\ \A x \in S : i <= x /\ x <= j => x <= prev
      BY <1>3, <2>1
    <3>2. prev \in between /\ \A x \in between : x <= prev
      BY <1>4, <1>5, <3>1
    <3>3. \A x \in between : prev >= x
      BY <1>5, <3>2
    <3> QED
      BY <1>1, <1>5, <3>2, <3>3, GreatestOf
  <2> QED
    BY <1>7, <2>2, <2>3 DEF between, next, prev
<1> QED
  BY <1>6, <1>7

(* An iterator over the first total bits, on cur: where it goes.           *)
IteratorGoes(map, S, total, cur) ==
    LET later   == {x \in S : x > cur}
        earlier == {x \in S : x < (IF cur = NoBit THEN total ELSE cur)}
        next    == IteratorNext(map, total, cur)
    IN  /\ IF later \cap 0 .. total - 1 # {} THEN next = Least(later)
           ELSE next = NoBit \/ next >= total
        /\ IteratorPrev(map, total, cur) = IF earlier = {} THEN NoBit ELSE Greatest(earlier)

LEMMA IteratorScans ==
    ASSUME NEW S \in SUBSET DataSectors, NEW total \in {n + 1 : n \in DataSectors},
           NEW cur \in {NoBit} \cup {x \in S : x < total}
    PROVE  IteratorGoes(MapOf(S), S, total, cur)
<1> DEFINE later == {x \in S : x > cur}
           top == IF cur = NoBit THEN total ELSE cur
           earlier == {x \in S : x < top}
           start == IF cur = NoBit THEN 0 ELSE cur + 1
           n == ContactSectors + MessageSectors - 1
<1>1. /\ n \in Nat /\ DataSectors = 0 .. n
      /\ \A x \in S : x \in Nat /\ x \in 0 .. n
      /\ total \in 1 .. n + 1
      /\ cur = -1 \/ (cur \in S /\ cur < total)
  BY DataIsFinite DEF NoBit
<1> HIDE DEF n
<1>2. /\ start \in Nat /\ top \in Nat /\ start <= total /\ top <= total
      /\ \A x \in Nat : x > cur <=> start <= x
      /\ 0 \in 0 .. n /\ total - 1 \in 0 .. n
      /\ total \in Nat /\ total # 0
  BY <1>1 DEF NoBit
<1> HIDE DEF top
<1>3. later \in SUBSET Nat /\ \A x \in S : x \in later <=> start <= x
  BY <1>1, <1>2
<1>4. earlier \in SUBSET (0 .. n) /\ \A x \in S : x \in earlier <=> x < top
  BY <1>1
<1> DEFINE next == IteratorNext(MapOf(S), total, cur)
           prev == IteratorPrev(MapOf(S), total, cur)
<1>5. next = IF start >= total THEN NoBit ELSE NextBit(MapOf(S), start, total - 1)
  BY DEF IteratorNext
<1>6. prev = IF top = 0 THEN NoBit ELSE PrevBit(MapOf(S), 0, top - 1)
  <2>1. CASE cur = NoBit
    BY <1>2, <2>1 DEF IteratorPrev, NoBit, top
  <2>2. CASE cur # NoBit
    BY <1>2, <2>2 DEF IteratorPrev, NoBit, top
  <2> QED
    BY <2>1, <2>2
<1> HIDE DEF later, earlier, start, next, prev
<1>7. IF later \cap 0 .. total - 1 # {} THEN next = Least(later) ELSE next = NoBit \/ next >= total
  <2>1. CASE start >= total
    <3>1. \A x \in later : x \notin 0 .. total - 1
      <4> TAKE x \in later
      <4>1. x \in S /\ start <= x /\ x \in Nat
        BY <1>1, <1>3 DEF later
      <4> QED
        BY <1>2, <2>1, <4>1
    <3> QED
      BY <1>5, <2>1, <3>1
  <2>2. CASE ~ (start >= total)
    <3>1. start \in DataSectors /\ total - 1 \in DataSectors /\ start <= total - 1
      BY <1>1, <1>2, <2>2
    <3>2. \/ next = NoBit /\ \A x \in S : ~ (start <= x /\ x <= total - 1)
          \/ next \in S /\ start <= next /\ \A x \in S : start <= x => next <= x
      BY <1>5, <2>2, <3>1, NextBitIs
    <3>3. CASE next = NoBit /\ \A x \in S : ~ (start <= x /\ x <= total - 1)
      <4>1. \A x \in later : x \notin 0 .. total - 1
        <5> TAKE x \in later
        <5>1. x \in S /\ start <= x /\ x \in Nat
          BY <1>1, <1>3 DEF later
        <5> QED
          BY <1>2, <3>3, <5>1
      <4> QED
        BY <3>3, <4>1
    <3>4. CASE next \in S /\ start <= next /\ \A x \in S : start <= x => next <= x
      <4>1. next \in later /\ \A x \in later : next <= x
        BY <1>3, <3>4 DEF later
      <4>2. next = Least(later)
        BY <1>3, <4>1, LeastOf
      <4>3. next \in Nat /\ \A x \in later : x \in Nat
        BY <1>3, <4>1
      <4>4. later \cap 0 .. total - 1 = {} => next >= total
        BY <1>2, <4>1, <4>3
      <4> QED
        BY <4>2, <4>4
    <3> QED
      BY <3>2, <3>3, <3>4
  <2> QED
    BY <2>1, <2>2
<1>8. prev = IF earlier = {} THEN NoBit ELSE Greatest(earlier)
  <2>1. CASE top = 0
    <3>1. \A x \in earlier : FALSE
      <4> TAKE x \in earlier
      <4>1. x \in S /\ x < top /\ x \in Nat
        BY <1>1, <1>4 DEF earlier
      <4> QED
        BY <2>1, <4>1
    <3> QED
      BY <1>6, <2>1, <3>1
  <2>2. CASE top # 0
    <3>1. 0 \in DataSectors /\ top - 1 \in DataSectors /\ 0 <= top - 1
      BY <1>1, <1>2, <2>2
    <3>2. \/ prev = NoBit /\ \A x \in S : ~ (0 <= x /\ x <= top - 1)
          \/ prev \in S /\ 0 <= prev /\ prev <= top - 1 /\ \A x \in S : 0 <= x /\ x <= top - 1 => x <= prev
      BY <1>6, <2>2, <3>1, PrevBitIs
    <3>3. \A x \in S : x \in earlier <=> 0 <= x /\ x <= top - 1
      <4> TAKE x \in S
      <4>1. x \in Nat
        BY <1>1
      <4>2. x < top <=> 0 <= x /\ x <= top - 1
        BY <1>2, <4>1
      <4> QED
        BY <1>4, <4>2
    <3>4. \A x \in earlier : x \in S
      BY DEF earlier
    <3>5. CASE prev = NoBit /\ \A x \in S : ~ (0 <= x /\ x <= top - 1)
      <4>1. earlier = {}
        BY <3>3, <3>4, <3>5
      <4> QED
        BY <3>5, <4>1
    <3>6. CASE prev \in S /\ 0 <= prev /\ prev <= top - 1 /\ \A x \in S : 0 <= x /\ x <= top - 1 => x <= prev
      <4>1. prev \in earlier /\ \A x \in earlier : x <= prev
        BY <3>3, <3>4, <3>6
      <4>2. \A x \in earlier : prev >= x
        BY <1>1, <3>4, <4>1
      <4> QED
        BY <1>1, <1>4, <4>1, <4>2, GreatestOf
    <3> QED
      BY <3>2, <3>5, <3>6
  <2> QED
    BY <2>1, <2>2
<1> QED
  BY <1>7, <1>8 DEF later, earlier, top, next, prev, IteratorGoes

-----------------------------------------------------------------------------
(* The listing by usage.                                                   *)

LEMMA NthIs ==
    ASSUME NEW n \in Nat, NEW S \in SUBSET (0 .. n), NEW x \in S
    PROVE  LET r == Cardinality({a \in S : a < x})
           IN  /\ r \in 0 .. Cardinality(S) - 1 /\ r + 1 \in 1 .. Cardinality(S)
               /\ NthSetBit(S, r) = x /\ Ascending(S)[r + 1] = x
<1> DEFINE rank(y) == Cardinality({a \in S : a < y})
<1>1. /\ Cardinality(S) \in Nat
      /\ \A y \in S : rank(y) \in 0 .. Cardinality(S) - 1
      /\ \A y, z \in S : y < z => rank(y) < rank(z)
  BY NumberRanks
<1> DEFINE r == rank(x)  b == NthSetBit(S, r)
<1>2. b \in S /\ rank(b) = r
  BY DEF NthSetBit
<1> HIDE DEF b
<1>3. b = x
  <2>1. b \in 0 .. n /\ x \in 0 .. n
    BY <1>2
  <2>2. ~ (b < x) /\ ~ (x < b)
    <3>1. rank(b) \in Int /\ rank(x) \in Int
      BY <1>1, <1>2
    <3>2. (b < x => rank(b) < rank(x)) /\ (x < b => rank(x) < rank(b))
      BY <1>1, <1>2
    <3> HIDE DEF rank
    <3> QED
      BY <1>2, <3>1, <3>2 DEF r
  <2> QED
    BY <2>1, <2>2
<1>4. r \in 0 .. Cardinality(S) - 1 /\ r + 1 \in 1 .. Cardinality(S) /\ (r + 1) - 1 = r
  <2>1. r \in 0 .. Cardinality(S) - 1
    BY <1>1
  <2> HIDE DEF r
  <2> QED
    BY <1>1, <2>1
<1>5. Ascending(S)[r + 1] = NthSetBit(S, r)
  <2> HIDE DEF r
  <2> QED BY <1>4, AscendingNth
<1> QED
  BY <1>3, <1>4, <1>5 DEF b

LEMMA NthRank ==
    ASSUME NEW n \in Nat, NEW S \in SUBSET (0 .. n), NEW p \in 1 .. Cardinality(S)
    PROVE  Ascending(S)[p] \in S /\ Cardinality({a \in S : a < Ascending(S)[p]}) = p - 1
<1> DEFINE k == p - 1
<1>1. Cardinality(S) \in Nat
  BY NumberRanks
<1>2. k \in 0 .. Cardinality(S) - 1
  BY <1>1
<1>3. \E x \in S : Cardinality({a \in S : a < x}) = k
  <2> HIDE DEF k
  <2> QED BY <1>2, EveryRank
<1>4. Ascending(S)[p] = NthSetBit(S, k)
  BY AscendingNth
<1> HIDE DEF k
<1>5. NthSetBit(S, k) \in S /\ Cardinality({a \in S : a < NthSetBit(S, k)}) = k
  BY <1>3 DEF NthSetBit
<1> QED
  BY <1>4, <1>5 DEF k

(* The slots that a sector's header can name, and their places.            *)
NamesSlots(used) ==
    /\ used \in UsedSlots
    /\ \A k \in 0 .. ContactSectors - 1 : used[k] \in SUBSET Positions(k)

LEMMA SlotPlace ==
    /\ \A s \in SlotIndices :
          /\ s = (s \div ContactCapacity) * ContactCapacity + (s % ContactCapacity)
          /\ s \div ContactCapacity \in 0 .. ContactSectors - 1
          /\ s % ContactCapacity \in Positions(s \div ContactCapacity)
    /\ \A k \in 0 .. ContactSectors - 1 : \A p \in Positions(k) :
          /\ k * ContactCapacity + p \in SlotIndices
          /\ (k * ContactCapacity + p) \div ContactCapacity = k
          /\ (k * ContactCapacity + p) % ContactCapacity = p
<1>1. ASSUME NEW s \in SlotIndices
      PROVE  /\ s = (s \div ContactCapacity) * ContactCapacity + (s % ContactCapacity)
             /\ s \div ContactCapacity \in 0 .. ContactSectors - 1
             /\ s % ContactCapacity \in Positions(s \div ContactCapacity)
  <2> DEFINE k == s \div ContactCapacity  p == s % ContactCapacity
  <2>1. s \in Nat /\ k \in 0 .. ContactSectors - 1 /\ p \in 0 .. ContactCapacity - 1
    BY SlotSizes
  <2>2. s = k * ContactCapacity + p
    BY <2>1, Sizes, DivisionOf
  <2>3. s < ContactSlots
    BY SlotSizes DEF SlotIndices
  <2> HIDE DEF k, p
  <2>4. p \in Positions(k)
    BY <2>1, <2>2, <2>3 DEF Positions
  <2> QED
    BY <2>1, <2>2, <2>4 DEF k, p
<1>2. ASSUME NEW k \in 0 .. ContactSectors - 1, NEW p \in Positions(k)
      PROVE  /\ k * ContactCapacity + p \in SlotIndices
             /\ (k * ContactCapacity + p) \div ContactCapacity = k
             /\ (k * ContactCapacity + p) % ContactCapacity = p
  <2>1. p \in 0 .. ContactCapacity - 1 /\ k * ContactCapacity + p < ContactSlots /\ k \in Nat
    BY DEF Positions
  <2>2. k * ContactCapacity \in Nat
    BY <2>1, Sizes, SectorBefore
  <2>3. k * ContactCapacity + p \in SlotIndices
    <3> DEFINE c == k * ContactCapacity
    <3> HIDE DEF c
    <3>1. c \in Nat /\ c + p < ContactSlots
      BY <2>1, <2>2 DEF c
    <3>2. c + p \in SlotIndices
      BY <2>1, <3>1, SlotSizes DEF SlotIndices
    <3> QED
      BY <3>2 DEF c
  <2> QED
    BY <2>1, <2>3, Sizes, DivisionIs
<1> QED
  BY <1>1, <1>2

UsedContacts(S, used) ==
    {s \in SlotIndices : s \div ContactCapacity \in S /\ s % ContactCapacity \in used[s \div ContactCapacity]}

LEMMA ContactsAreFinite ==
    ASSUME NEW S, NEW used
    PROVE  /\ ContactSlots - 1 \in Nat
           /\ UsedContacts(S, used) \in SUBSET (0 .. ContactSlots - 1)
           /\ \A T \in SUBSET UsedContacts(S, used) :
                 /\ IsFiniteSet(T) /\ Cardinality(T) \in Nat
                 /\ \A U \in SUBSET T : Cardinality(U) <= Cardinality(T)
<1>1. /\ ContactSlots - 1 \in Nat
      /\ UsedContacts(S, used) \in SUBSET (0 .. ContactSlots - 1)
  BY SlotSizes DEF UsedContacts, SlotIndices
<1>2. ASSUME NEW T \in SUBSET (0 .. ContactSlots - 1) PROVE IsFiniteSet(T) /\ Cardinality(T) \in Nat
  <2>1. IsFiniteSet(0 .. ContactSlots - 1)
    BY <1>1, FS_Interval
  <2> QED
    BY <2>1, FS_Subset, FS_CardinalityType
<1> QED
  BY <1>1, <1>2, FS_Subset

(* Counted by sectors, or as slots.                                        *)
ContactsScanned(S, used, scan, n) ==
    {x \in UsedContacts(S, used) : \E j \in 1 .. n - 1 : x \div ContactCapacity = scan[j]}
ContactsBelow(S, used, k)  == {x \in UsedContacts(S, used) : x \div ContactCapacity < k}
ContactsUpTo(S, used, k) == {x \in UsedContacts(S, used) : x \div ContactCapacity <= k}

LEMMA CountIs ==
    ASSUME NEW S \in SUBSET DataSectors, NEW used, NamesSlots(used),
           NEW scan \in Seq(0 .. ContactSectors - 1), \A j \in 1 .. Len(scan) : scan[j] \in S,
           NEW n \in 1 .. Len(scan) + 1
    PROVE  CountBefore(scan, used, n) = Cardinality(ContactsScanned(S, used, scan, n))
<1> DEFINE T == {x \in UsedContacts(S, used) : \E j \in 1 .. n - 1 : x \div ContactCapacity = scan[j]}
           U == UNION {{<<scan[k], s>> : s \in used[scan[k]]} : k \in 1 .. n - 1}
           f == [x \in T |-> <<x \div ContactCapacity, x % ContactCapacity>>]
<1>1. IsFiniteSet(T)
  BY ContactsAreFinite
<1>2. \A j \in 1 .. n - 1 : scan[j] \in 0 .. ContactSectors - 1 /\ scan[j] \in S
  <2>1. \A j \in 1 .. n - 1 : j \in 1 .. Len(scan)
    BY LenProperties
  <2> QED
    BY <2>1, ElementOfSeq
<1>3. f \in [T -> U]
  <2>1. ASSUME NEW x \in T PROVE <<x \div ContactCapacity, x % ContactCapacity>> \in U
    <3>1. PICK j \in 1 .. n - 1 : x \div ContactCapacity = scan[j]
      OBVIOUS
    <3>2. x % ContactCapacity \in used[scan[j]]
      BY <3>1 DEF UsedContacts
    <3> QED
      BY <3>1, <3>2
  <2> QED
    BY <2>1
<1>4. ASSUME NEW x \in T, NEW y \in T, f[x] = f[y] PROVE x = y
  <2>1. x \in SlotIndices /\ y \in SlotIndices
    BY DEF UsedContacts
  <2>2. x \div ContactCapacity = y \div ContactCapacity /\ x % ContactCapacity = y % ContactCapacity
    BY <1>4
  <2> QED
    BY <2>1, <2>2, SlotPlace
<1>5. ASSUME NEW u \in U PROVE \E x \in T : f[x] = u
  <2>1. PICK j \in 1 .. n - 1 : u \in {<<scan[j], s>> : s \in used[scan[j]]}
    OBVIOUS
  <2>2. PICK s \in used[scan[j]] : u = <<scan[j], s>>
    BY <2>1
  <2> DEFINE k == scan[j]  x == k * ContactCapacity + s
  <2>3. k \in 0 .. ContactSectors - 1 /\ k \in S /\ s \in Positions(k)
    BY <1>2 DEF NamesSlots
  <2>4. x \in SlotIndices /\ x \div ContactCapacity = k /\ x % ContactCapacity = s
    <3> HIDE DEF k
    <3> QED BY <2>3, SlotPlace
  <2> HIDE DEF x
  <2>5. x \in T
    BY <2>3, <2>4 DEF UsedContacts
  <2> QED
    BY <2>2, <2>4, <2>5
<1>6. Cardinality(U) = Cardinality(T)
  <2> HIDE DEF T, U, f
  <2> QED BY <1>1, <1>3, <1>4, <1>5, SameSize
<1> QED
  BY <1>6 DEF CountBefore, ContactsScanned

LEMMA ContactsInUse ==
    ASSUME NEW S \in SUBSET DataSectors
    PROVE  /\ ContactSectors - 1 \in Nat
           /\ {k \in S : k < ContactSectors} \in SUBSET (0 .. ContactSectors - 1)
<1>1. \A k \in S : k \in Nat
  BY DataIsFinite
<1>2. \A k \in S : k < ContactSectors => k \in 0 .. ContactSectors - 1
  BY <1>1, Sizes
<1> QED
  BY <1>2, Sizes

SectorsScanned(S) == {k \in S : k < ContactSectors}

LEMMA CountAt ==
    ASSUME NEW S \in SUBSET DataSectors, NEW used, NamesSlots(used),
           NEW scan, scan = Ascending(SectorsScanned(S)), NEW j \in 1 .. Len(scan)
    PROVE  /\ CountBefore(scan, used, j) = Cardinality(ContactsBelow(S, used, scan[j]))
           /\ CountBefore(scan, used, j + 1) = Cardinality(ContactsUpTo(S, used, scan[j]))
<1> DEFINE A == UsedContacts(S, used)
           C == {k \in S : k < ContactSectors}
           n == Len(scan)
           Q == 0 .. ContactSectors - 1
<1>1. C \in SUBSET Q /\ C \in SUBSET (0 .. ContactSectors - 1)
  BY ContactsInUse
<1>2. /\ scan \in Seq(C) /\ n \in Nat
      /\ \A p, q \in 1 .. n : p < q => scan[p] < scan[q]
      /\ \A x \in C : \E p \in 1 .. n : scan[p] = x
  <2>1. ContactSectors - 1 \in Nat
    BY Sizes
  <2> DEFINE top == ContactSectors - 1
  <2> HIDE DEF C, top
  <2>2. /\ Ascending(C) \in Seq(C) /\ Len(Ascending(C)) = Cardinality(C) /\ Cardinality(C) \in Nat
        /\ \A p, q \in 1 .. Cardinality(C) : p < q => Ascending(C)[p] < Ascending(C)[q]
        /\ \A x \in C : \E p \in 1 .. Cardinality(C) : Ascending(C)[p] = x
    BY <1>1, <2>1, AscendingIs DEF top
  <2>3. scan = Ascending(C)
    BY DEF C, SectorsScanned
  <2> QED
    BY <2>2, <2>3
<1>3. \A p \in 1 .. n : scan[p] \in C /\ scan[p] \in Q /\ scan[p] \in S /\ scan[p] \in Int
  <2>1. \A p \in 1 .. n : scan[p] \in C
    BY <1>2, ElementOfSeq
  <2>2. \A x \in Q : x \in Int
    OBVIOUS
  <2> QED
    BY <1>1, <2>1, <2>2
<1> HIDE DEF C
<1>4. scan \in Seq(Q)
  <2>1. scan \in [1 .. n -> Q]
    <3>1. DOMAIN scan = 1 .. n
      BY <1>2, LenProperties
    <3>2. scan = [p \in DOMAIN scan |-> scan[p]]
      <4>1. scan = [p \in 1 .. Cardinality(C) |-> NthSetBit(C, p - 1)]
        <5> DEFINE top == ContactSectors - 1
        <5>1. top \in Nat /\ C \in SUBSET (0 .. top) /\ scan = Ascending(C)
          BY ContactsInUse DEF C, SectorsScanned
        <5> HIDE DEF top
        <5> QED
          BY <5>1, AscendingNth
      <4> QED
        BY <4>1
    <3> HIDE DEF n
    <3> QED
      BY <1>3, <3>1, <3>2
  <2> HIDE DEF n
  <2> QED
    BY <1>2, <2>1, FunctionIsSeq
<1>5. \A p, q \in 1 .. n : scan[p] < scan[q] <=> p < q
  <2> TAKE p, q \in 1 .. n
  <2>1. p \in Int /\ q \in Int /\ scan[p] \in Int /\ scan[q] \in Int
    BY <1>2, <1>3
  <2>2. (p < q => scan[p] < scan[q]) /\ (q < p => scan[q] < scan[p]) /\ (p = q => scan[p] = scan[q])
    BY <1>2
  <2> QED
    BY <2>1, <2>2
<1>6. \A x \in A : x \div ContactCapacity \in C /\ \E p \in 1 .. n : scan[p] = x \div ContactCapacity
  <2> TAKE x \in A
  <2>1. x \div ContactCapacity \in S /\ x \in SlotIndices
    BY DEF UsedContacts
  <2>2. x \div ContactCapacity < ContactSectors
    <3>1. x \div ContactCapacity \in Q
      BY <2>1, SlotPlace
    <3> QED
      BY <3>1, Sizes
  <2> QED
    BY <1>2, <2>1, <2>2 DEF C
<1>7. j \in 1 .. n + 1 /\ j + 1 \in 1 .. n + 1 /\ j \in 1 .. n
  BY <1>2
<1>8. \A m \in 1 .. n + 1 : CountBefore(scan, used, m) = Cardinality(ContactsScanned(S, used, scan, m))
  <2> TAKE m \in 1 .. n + 1
  <2>1. scan \in Seq(0 .. ContactSectors - 1) /\ m \in 1 .. Len(scan) + 1
    BY <1>4
  <2>2. \A i \in 1 .. Len(scan) : scan[i] \in S
    BY <1>3
  <2> QED
    BY <2>1, <2>2, CountIs
<1> HIDE DEF A, Q, n
<1>9. ContactsScanned(S, used, scan, j) = ContactsBelow(S, used, scan[j])
  <2>1. \A i \in 1 .. j - 1 : i \in 1 .. n /\ i < j
    BY <1>2, <1>7
  <2>2. \A i \in 1 .. n : i < j => i \in 1 .. j - 1
    BY <1>2, <1>7
  <2>3. ASSUME NEW x \in A
        PROVE  (\E i \in 1 .. j - 1 : x \div ContactCapacity = scan[i]) <=> x \div ContactCapacity < scan[j]
    <3>1. PICK p \in 1 .. n : scan[p] = x \div ContactCapacity
      BY <1>6
    <3>2. scan[p] < scan[j] => p \in 1 .. j - 1
      BY <1>5, <1>7, <2>2
    <3>3. \A i \in 1 .. j - 1 : scan[i] < scan[j]
      BY <1>5, <1>7, <2>1
    <3> QED
      BY <3>1, <3>2, <3>3
  <2> QED
    BY <2>3 DEF A, ContactsScanned, ContactsBelow
<1>10. ContactsScanned(S, used, scan, j + 1) = ContactsUpTo(S, used, scan[j])
  <2>1. \A i \in 1 .. (j + 1) - 1 : i \in 1 .. n /\ (i < j \/ i = j)
    BY <1>2, <1>7
  <2>2. \A i \in 1 .. n : i < j \/ i = j => i \in 1 .. (j + 1) - 1
    BY <1>2, <1>7
  <2>3. ASSUME NEW x \in A
        PROVE  (\E i \in 1 .. (j + 1) - 1 : x \div ContactCapacity = scan[i]) <=> x \div ContactCapacity <= scan[j]
    <3>1. PICK p \in 1 .. n : scan[p] = x \div ContactCapacity
      BY <1>6
    <3>2. scan[p] \in Int /\ scan[j] \in Int
      BY <1>3, <1>7
    <3>3. scan[p] <= scan[j] <=> scan[p] < scan[j] \/ scan[p] = scan[j]
      BY <3>2
    <3>4. scan[p] = scan[j] => ~ (p < j) /\ ~ (j < p)
      BY <1>5, <1>7, <3>2
    <3>5. scan[p] = scan[j] => p = j
      BY <1>2, <1>7, <3>4
    <3> QED
      BY <1>5, <1>7, <2>1, <2>2, <3>1, <3>3, <3>5
  <2> QED
    BY <2>3 DEF A, ContactsScanned, ContactsUpTo
<1> QED
  BY <1>7, <1>8, <1>9, <1>10

(* get_nth_contact_index finds the n-th contact.                           *)
LEMMA NthContactIs ==
    ASSUME NEW S \in SUBSET DataSectors, NEW used, NamesSlots(used), NEW n \in Nat
    PROVE  LET A == UsedContacts(S, used)
           IN  NthContact(MapOf(S), used, n)
                 = IF n < Cardinality(A) THEN Ascending(A)[n + 1] ELSE NoBit
<1> DEFINE A == UsedContacts(S, used)
           C == {k \in S : k < ContactSectors}
           scan == Ascending(C)
           m == Len(scan)
           has == {k \in DOMAIN scan : CountBefore(scan, used, k + 1) > n}
           atMost(K) == ContactsUpTo(S, used, K)
           below(K) == ContactsBelow(S, used, K)
<1>1. NthContact(MapOf(S), used, n)
        = IF has = {} THEN NoBit
          ELSE scan[Least(has)] * ContactCapacity
                 + NthSetBit(used[scan[Least(has)]], n - CountBefore(scan, used, Least(has)))
  BY ContactScanIs DEF NthContact
<1>2. /\ scan \in Seq(C) /\ m \in Nat /\ DOMAIN scan = 1 .. m
      /\ \A p, q \in 1 .. m : p < q => scan[p] < scan[q]
      /\ \A x \in C : \E p \in 1 .. m : scan[p] = x
  <2>1. ContactSectors - 1 \in Nat /\ C \in SUBSET (0 .. ContactSectors - 1)
    BY ContactsInUse
  <2> DEFINE top == ContactSectors - 1
  <2> HIDE DEF C, top
  <2>2. /\ Ascending(C) \in Seq(C) /\ Len(Ascending(C)) = Cardinality(C) /\ Cardinality(C) \in Nat
        /\ \A p, q \in 1 .. Cardinality(C) : p < q => Ascending(C)[p] < Ascending(C)[q]
        /\ \A x \in C : \E p \in 1 .. Cardinality(C) : Ascending(C)[p] = x
    BY <2>1, AscendingIs DEF top
  <2> HIDE DEF scan
  <2> QED
    BY <2>2, LenProperties DEF scan
<1>3. \A k \in 1 .. m : /\ CountBefore(scan, used, k) = Cardinality(below(scan[k]))
                        /\ CountBefore(scan, used, k + 1) = Cardinality(atMost(scan[k]))
  <2> DEFINE s == scan
  <2>1. s = Ascending(SectorsScanned(S))
    BY DEF SectorsScanned
  <2> HIDE DEF s
  <2>2. \A k \in 1 .. Len(s) : /\ CountBefore(s, used, k) = Cardinality(below(s[k]))
                               /\ CountBefore(s, used, k + 1) = Cardinality(atMost(s[k]))
    <3> TAKE k \in 1 .. Len(s)
    <3>1. /\ CountBefore(s, used, k) = Cardinality(ContactsBelow(S, used, s[k]))
          /\ CountBefore(s, used, k + 1) = Cardinality(ContactsUpTo(S, used, s[k]))
      <4> HIDE DEF has, below, atMost
      <4> QED BY <2>1, CountAt
    <3> QED
      BY <3>1
  <2> QED
    BY <2>2 DEF s
<1>4. /\ ContactSlots - 1 \in Nat /\ A \in SUBSET (0 .. ContactSlots - 1)
      /\ Cardinality(A) \in Nat
      /\ \A T \in SUBSET A : /\ IsFiniteSet(T) /\ Cardinality(T) \in Nat
                             /\ \A U \in SUBSET T : Cardinality(U) <= Cardinality(T)
  BY ContactsAreFinite
<1>5. /\ \A K : below(K) = {x \in A : x \div ContactCapacity < K} /\ below(K) \in SUBSET A
      /\ \A K : atMost(K) = {x \in A : x \div ContactCapacity <= K} /\ atMost(K) \in SUBSET A
  BY DEF ContactsBelow, ContactsUpTo
<1>6. \A k \in 1 .. m : k \in Nat /\ scan[k] \in C /\ scan[k] \in Int /\ scan[k] \in 0 .. ContactSectors - 1
  <2>1. \A k \in 1 .. m : scan[k] \in C
    <3> HIDE DEF scan, C
    <3> QED BY <1>2, ElementOfSeq
  <2>2. C \in SUBSET (0 .. ContactSectors - 1) /\ \A x \in 0 .. ContactSectors - 1 : x \in Int
    BY ContactsInUse
  <2>3. \A k \in 1 .. m : k \in Nat
    BY <1>2
  <2> HIDE DEF scan, C, m
  <2> QED
    BY <2>1, <2>2, <2>3
<1> HIDE DEF A, C, scan, m
<1>7. has = {k \in 1 .. m : CountBefore(scan, used, k + 1) > n} /\ has \in SUBSET Nat
  BY <1>2, <1>6
<1> HIDE DEF has
<1>8. CASE ~ (n < Cardinality(A))
  <2>1. \A k \in 1 .. m : ~ (CountBefore(scan, used, k + 1) > n)
    <3> TAKE k \in 1 .. m
    <3>1. /\ Cardinality(atMost(scan[k])) \in Nat /\ Cardinality(atMost(scan[k])) <= Cardinality(A)
      BY <1>4, <1>5
    <3> HIDE DEF atMost
    <3>2. ~ (Cardinality(atMost(scan[k])) > n)
      BY <1>4, <1>8, <3>1
    <3> QED
      BY <1>3, <3>2
  <2>2. has = {}
    BY <1>7, <2>1
  <2> QED
    BY <1>1, <1>8, <2>2 DEF A
<1>9. CASE n < Cardinality(A)
  <2> DEFINE x == Ascending(A)[n + 1]
             K == x \div ContactCapacity
             b == x % ContactCapacity
             before == {a \in A : a < x}
  <2>1. n + 1 \in 1 .. Cardinality(A) /\ (n + 1) - 1 = n
    BY <1>4, <1>9
  <2>2. x \in A /\ Cardinality(before) = n
    <3> DEFINE p == n + 1  top == ContactSlots - 1
    <3> HIDE DEF p, top
    <3>1. Ascending(A)[p] \in A /\ Cardinality({a \in A : a < Ascending(A)[p]}) = p - 1
      BY <1>4, <2>1, NthRank DEF p, top
    <3> QED
      BY <2>1, <3>1 DEF p
  <2> HIDE DEF x
  <2>3. /\ x \in SlotIndices /\ K \in S /\ b \in used[K]
        /\ x = K * ContactCapacity + b /\ K \in 0 .. ContactSectors - 1 /\ b \in Positions(K)
    <3>1. x \in SlotIndices /\ K \in S /\ b \in used[K]
      BY <2>2 DEF A, UsedContacts
    <3> QED
      BY <3>1, SlotPlace
  <2>4. PICK k \in 1 .. m : scan[k] = K
    <3>1. K < ContactSectors
      <4> HIDE DEF K
      <4> QED BY <2>3, Sizes
    <3>2. K \in C
      BY <2>3, <3>1 DEF C
    <3> QED
      BY <1>2, <3>2
  <2>5. \A a \in A : /\ a < x <=> (a \div ContactCapacity < K
                                   \/ (a \div ContactCapacity = K /\ a % ContactCapacity < b))
                     /\ a \div ContactCapacity \in Int /\ a \in Int
    <3> TAKE a \in A
    <3> DEFINE q == a \div ContactCapacity  e == a % ContactCapacity
    <3>1. a \in SlotIndices
      BY DEF A, UsedContacts
    <3>2. /\ a \in Nat /\ x \in Nat /\ q \in Nat /\ K \in Nat
          /\ e \in 0 .. ContactCapacity - 1 /\ b \in 0 .. ContactCapacity - 1
          /\ a = q * ContactCapacity + e /\ x = K * ContactCapacity + b
      BY <2>3, <3>1, SlotSizes, SlotPlace
    <3>3. ContactCapacity \in Nat /\ ContactCapacity > 0
      BY Sizes
    <3>4. (a < x => q < K \/ (q = K /\ e < b))
      BY <3>2, <3>3, DivisionOrder
    <3>5. (x < a => K < q \/ (K = q /\ b < e))
      BY <3>2, <3>3, DivisionOrder
    <3>6. q = K /\ e < b => a # x
      BY <3>2
    <3>7. q < K => a # x
      BY <3>2
    <3> HIDE DEF q, K, e, b
    <3>8. e \in Int /\ b \in Int
      BY <3>2
    <3>9. a < x <=> q < K \/ (q = K /\ e < b)
      BY <3>2, <3>4, <3>5, <3>6, <3>7, <3>8
    <3> QED
      BY <3>2, <3>9 DEF q, e
  <2> DEFINE rest == {a \in A : a \div ContactCapacity = K /\ a % ContactCapacity < b}
             lower == {p \in used[K] : p < b}
             f == [a \in rest |-> a % ContactCapacity]
  <2>6. rest \in SUBSET A /\ IsFiniteSet(rest)
    BY <1>4
  <2>7. Cardinality(lower) = Cardinality(rest)
    <3>1. f \in [rest -> lower]
      BY DEF A, UsedContacts
    <3>2. ASSUME NEW a \in rest, NEW c \in rest, f[a] = f[c] PROVE a = c
      <4>1. a \in SlotIndices /\ c \in SlotIndices
        BY DEF A, UsedContacts
      <4> QED
        BY <3>2, <4>1, SlotPlace
    <3>3. ASSUME NEW p \in lower PROVE \E a \in rest : f[a] = p
      <4> DEFINE a == K * ContactCapacity + p
      <4>1. p \in Positions(K)
        BY <2>3 DEF NamesSlots
      <4>2. a \in SlotIndices /\ a \div ContactCapacity = K /\ a % ContactCapacity = p
        <5> HIDE DEF K
        <5> QED BY <2>3, <4>1, SlotPlace
      <4> HIDE DEF a
      <4>3. a \in rest
        BY <2>3, <4>2 DEF A, UsedContacts
      <4> QED
        BY <4>2, <4>3
    <3> HIDE DEF rest, lower, f
    <3> QED
      BY <2>6, <3>1, <3>2, <3>3, SameSize
  <2> HIDE DEF K, b
  <2>8. before = below(K) \cup rest /\ below(K) \cap rest = {} /\ before \in SUBSET A
    <3>1. K \in Int
      BY <2>3
    <3>2. below(K) = {a \in A : a \div ContactCapacity < K}
      BY <1>5
    <3> HIDE DEF below
    <3> QED
      BY <2>5, <3>1, <3>2
  <2>9. /\ Cardinality(below(K)) \in Nat /\ Cardinality(rest) \in Nat
        /\ n = Cardinality(below(K)) + Cardinality(rest)
    <3>1. /\ IsFiniteSet(below(K)) /\ IsFiniteSet(rest)
          /\ Cardinality(below(K)) \in Nat /\ Cardinality(rest) \in Nat
      BY <1>4, <1>5, <2>6
    <3> DEFINE t == below(K)  u == rest
    <3> HIDE DEF t, u
    <3>2. Cardinality(t \cup u) = Cardinality(t) + Cardinality(u) - Cardinality(t \cap u)
      BY <3>1, FS_Union DEF t, u
    <3>3. Cardinality(t \cap u) = 0
      BY <2>8, FS_EmptySet DEF t, u
    <3>4. Cardinality(t \cup u) = n
      BY <2>2, <2>8 DEF t, u
    <3> QED
      BY <3>1, <3>2, <3>3, <3>4 DEF t, u
  <2>10. Cardinality(atMost(K)) \in Nat /\ Cardinality(atMost(K)) > n
    <3>1. before \cup {x} \in SUBSET atMost(K)
      <4>1. \A a \in before : a \div ContactCapacity <= K
        <5>1. K \in Int
          BY <2>3
        <5> QED
          BY <2>5, <5>1
      <4>2. x \div ContactCapacity <= K
        <5>1. x \div ContactCapacity = K /\ K \in Int
          BY <2>3 DEF K
        <5> QED
          BY <5>1
      <4>3. atMost(K) = {a \in A : a \div ContactCapacity <= K}
        BY <1>5
      <4> HIDE DEF atMost
      <4> QED
        BY <2>2, <4>1, <4>2, <4>3
    <3>2. IsFiniteSet(before) /\ x \notin before
      BY <1>4, <2>5, <2>2, <2>8
    <3>3. Cardinality(before \cup {x}) = Cardinality(before) + 1
      <4> HIDE DEF before
      <4> QED BY <3>2, FS_AddElement
    <3>4. Cardinality(before \cup {x}) <= Cardinality(atMost(K)) /\ Cardinality(atMost(K)) \in Nat
      <4> HIDE DEF before, atMost
      <4> QED BY <1>4, <1>5, <3>1
    <3> HIDE DEF before, atMost
    <3> QED
      BY <2>2, <3>3, <3>4
  <2> HIDE DEF before, rest, lower, f
  <2>11. k \in has
    BY <1>3, <1>7, <2>4, <2>10
  <2>12. \A j \in has : k <= j
    <3> TAKE j \in has
    <3>1. j \in 1 .. m /\ Cardinality(atMost(scan[j])) > n
      BY <1>3, <1>7
    <3>2. ASSUME j < k PROVE FALSE
      <4>1. scan[j] < K /\ scan[j] \in Int /\ K \in Int
        BY <1>2, <1>6, <2>4, <3>1, <3>2
      <4>2. atMost(scan[j]) \in SUBSET below(K)
        <5>1. \A a \in A : a \div ContactCapacity <= scan[j] => a \div ContactCapacity < K
          BY <2>5, <4>1
        <5>2. /\ atMost(scan[j]) = {a \in A : a \div ContactCapacity <= scan[j]}
              /\ below(K) = {a \in A : a \div ContactCapacity < K}
          BY <1>5
        <5> HIDE DEF atMost, below
        <5> QED
          BY <5>1, <5>2
      <4>3. Cardinality(atMost(scan[j])) <= Cardinality(below(K)) /\ Cardinality(atMost(scan[j])) \in Nat
        <5> HIDE DEF atMost, below
        <5> QED BY <1>4, <1>5, <4>2
      <4> HIDE DEF atMost, below
      <4> QED
        BY <2>9, <3>1, <4>3
    <3>3. j \in Nat /\ k \in Nat
      BY <1>6, <3>1
    <3> QED
      BY <3>2, <3>3
  <2>13. Least(has) = k
    BY <1>7, <2>11, <2>12, LeastOf
  <2>14. n - CountBefore(scan, used, k) = Cardinality(rest)
    <3>1. CountBefore(scan, used, k) = Cardinality(below(K))
      BY <1>3, <2>4
    <3> HIDE DEF below
    <3> QED
      BY <2>9, <3>1
  <2>15. NthSetBit(used[K], Cardinality(rest)) = b
    <3>1. ContactCapacity - 1 \in Nat
      BY Sizes
    <3>2. used[K] \in SUBSET (0 .. ContactCapacity - 1) /\ b \in used[K]
      BY <2>3 DEF NamesSlots, Positions
    <3> DEFINE top == ContactCapacity - 1  B == used[K]
    <3> HIDE DEF top, B
    <3>3. NthSetBit(B, Cardinality({p \in B : p < b})) = b
      BY <3>1, <3>2, NthIs DEF top, B
    <3> QED
      BY <2>7, <3>3 DEF lower, B
  <2>16. NthContact(MapOf(S), used, n) = K * ContactCapacity + b
    BY <1>1, <2>4, <2>11, <2>13, <2>14, <2>15
  <2> QED
    BY <1>9, <2>3, <2>16 DEF x, A
<1> QED
  BY <1>8, <1>9

(* The contacts from one of them on, in order.                             *)
LEMMA TailAscends ==
    ASSUME NEW n \in Nat, NEW A \in SUBSET (0 .. n), NEW start \in Nat, start < Cardinality(A)
    PROVE  LET first == Ascending(A)[start + 1]
               B == {x \in A : x >= first}
           IN  /\ first \in A /\ Cardinality(A) \in Nat /\ Cardinality(B) = Cardinality(A) - start
               /\ \A p \in 1 .. Cardinality(B) : Ascending(B)[p] = Ascending(A)[start + p]
<1> DEFINE c == Cardinality(A)
           first == Ascending(A)[start + 1]
           B == {x \in A : x >= first}
           below == {x \in A : x < first}
<1>1. IsFiniteSet(A) /\ c \in Nat
  BY NumberRanks
<1>2. first \in A /\ Cardinality(below) = start
  <2> DEFINE k == start + 1
  <2>1. k \in 1 .. c /\ k - 1 = start
    BY <1>1
  <2> HIDE DEF k
  <2>2. Ascending(A)[k] \in A /\ Cardinality({a \in A : a < Ascending(A)[k]}) = k - 1
    BY <2>1, NthRank
  <2> QED
    BY <2>1, <2>2 DEF k
<1> HIDE DEF first
<1>3. first \in Int /\ \A x \in A : x \in Int
  BY <1>2
<1>4. below \in SUBSET A /\ B \in SUBSET A /\ below \cup B = A /\ below \cap B = {}
  <2>1. \A x \in A : x < first <=> ~ (x >= first)
    BY <1>3
  <2> QED
    BY <2>1
<1>5. \A T \in SUBSET A : IsFiniteSet(T) /\ Cardinality(T) \in Nat
  BY <1>1, FS_Subset, FS_CardinalityType
<1>6. ASSUME NEW T \in SUBSET B PROVE Cardinality(below \cup T) = start + Cardinality(T)
  <2>1. T \in SUBSET A /\ below \cap T = {}
    BY <1>4
  <2> HIDE DEF below, B
  <2>2. IsFiniteSet(T) /\ IsFiniteSet(below) /\ Cardinality(T) \in Nat
    BY <1>4, <1>5, <2>1
  <2>3. Cardinality(below \cup T) = Cardinality(below) + Cardinality(T) - Cardinality(below \cap T)
    BY <2>2, FS_Union
  <2>4. Cardinality(below \cap T) = 0
    BY <2>1, FS_EmptySet
  <2> QED
    BY <1>2, <2>2, <2>3, <2>4
<1>7. Cardinality(B) \in Nat /\ Cardinality(B) = c - start
  <2> HIDE DEF below, B
  <2>1. Cardinality(B) \in Nat /\ c = start + Cardinality(B)
    BY <1>4, <1>5, <1>6
  <2> HIDE DEF c
  <2> QED
    BY <1>1, <2>1
<1>8. ASSUME NEW p \in 1 .. Cardinality(B) PROVE Ascending(B)[p] = Ascending(A)[start + p]
  <2> DEFINE y == Ascending(B)[p]
             under == {a \in B : a < y}
  <2>1. y \in B /\ Cardinality(under) = p - 1
    <3>1. B \in SUBSET (0 .. n)
      BY <1>4
    <3> HIDE DEF B
    <3> QED
      BY <3>1, NthRank
  <2> HIDE DEF y
  <2>2. {a \in A : a < y} = below \cup under
    <3>1. y \in Int /\ first <= y
      BY <1>3, <2>1
    <3>2. \A x \in A : x < first => x < y
      BY <1>3, <3>1
    <3>3. \A x \in A : x < first \/ x >= first
      BY <1>3
    <3>4. /\ \A x \in A : x < y => x \in below \cup under
          /\ \A x \in below \cup under : x \in A /\ x < y
      BY <3>2, <3>3
    <3> QED
      BY <3>4
  <2>3. Cardinality({a \in A : a < y}) = start + (p - 1)
    <3>1. under \in SUBSET B
      OBVIOUS
    <3> HIDE DEF under, below, B
    <3> QED
      BY <1>6, <2>1, <2>2, <3>1
  <2>4. Ascending(A)[Cardinality({a \in A : a < y}) + 1] = y
    <3>1. y \in A
      BY <2>1
    <3> QED
      BY <3>1, NthIs
  <2>5. (start + (p - 1)) + 1 = start + p
    <3> HIDE DEF B
    <3> QED BY <1>7
  <2> QED
    BY <2>3, <2>4, <2>5 DEF y
<1> QED
  BY <1>1, <1>2, <1>7, <1>8 DEF first

LEMMA ListingIs ==
    ASSUME NEW S \in SUBSET DataSectors, NEW used, NamesSlots(used), NEW start \in Nat, NEW n \in Nat
    PROVE  LET all == Ascending(UsedContacts(S, used))
           IN  ContactsByUsage(MapOf(S), used, start, n)
                 = SubSeq(all, start + 1, IF start + n < Len(all) THEN start + n ELSE Len(all))
<1> DEFINE A == UsedContacts(S, used)
           all == Ascending(A)
           c == Cardinality(A)
           C == {k \in S : k < ContactSectors}
           first == NthContact(MapOf(S), used, start)
           scanned == {k \in Range(ContactScan(MapOf(S))) : k >= first \div ContactCapacity}
           numbers == UNION {{k * ContactCapacity + s : s \in used[k]} : k \in scanned}
           found == {s \in numbers : s >= first}
           B == {x \in A : x >= first}
           rest == Ascending(B)
           end == IF start + n < Len(all) THEN start + n ELSE Len(all)
<1>1. ContactSlots - 1 \in Nat /\ A \in SUBSET (0 .. ContactSlots - 1)
  BY ContactsAreFinite
<1>2. first = IF start < c THEN all[start + 1] ELSE NoBit
  BY NthContactIs
<1>3. Range(ContactScan(MapOf(S))) = C
  <2>1. ContactScan(MapOf(S)) = Ascending(C)
    BY ContactScanIs
  <2>2. ContactSectors - 1 \in Nat /\ C \in SUBSET (0 .. ContactSectors - 1)
    BY ContactsInUse
  <2> DEFINE top == ContactSectors - 1
  <2> HIDE DEF top, C
  <2>3. Exactly(Ascending(C), C)
    BY <2>2, AscendingExactly DEF top
  <2> QED
    BY <2>1, <2>3, ExactlyIs
<1>4. ContactsByUsage(MapOf(S), used, start, n)
        = IF first = NoBit THEN << >>
          ELSE SubSeq(Ascending(found), 1, IF n < Len(Ascending(found)) THEN n ELSE Len(Ascending(found)))
  BY DEF ContactsByUsage
<1>5. /\ all \in Seq(A) /\ Len(all) = c /\ c \in Nat
  <2> DEFINE top == ContactSlots - 1
  <2> HIDE DEF top, A
  <2> QED BY <1>1, AscendingIs DEF top
<1>6. CASE ~ (start < c)
  <2>1. first = NoBit
    BY <1>2, <1>6
  <2>2. end \in Int /\ start + 1 \in Int /\ end < start + 1
    <3> HIDE DEF all, c
    <3> QED BY <1>5, <1>6
  <2>3. SubSeq(all, start + 1, end) = << >>
    <3> HIDE DEF all, end
    <3> QED BY <2>2, SubSeqEmpty
  <2> QED
    BY <1>4, <2>1, <2>3
<1>7. CASE start < c
  <2>1. /\ first = all[start + 1] /\ first \in A
        /\ Cardinality(B) = c - start
        /\ \A p \in 1 .. Cardinality(B) : rest[p] = all[start + p]
    <3> DEFINE top == ContactSlots - 1  a == all[start + 1]
    <3>1. first = a
      BY <1>2, <1>7
    <3> HIDE DEF first, top, A
    <3>2. /\ a \in A /\ Cardinality({x \in A : x >= a}) = c - start
          /\ \A p \in 1 .. Cardinality({x \in A : x >= a}) : Ascending({x \in A : x >= a})[p] = all[start + p]
      BY <1>1, <1>7, TailAscends DEF top
    <3> HIDE DEF a
    <3> QED
      BY <3>1, <3>2 DEF a
  <2>2. first \in SlotIndices /\ first \in Nat /\ first # NoBit
    <3>1. first \in SlotIndices
      BY <2>1 DEF UsedContacts
    <3> HIDE DEF first
    <3> QED
      BY <3>1, SlotSizes DEF NoBit
  <2>3. found = B
    <3> HIDE DEF first
    <3>1. ASSUME NEW x \in found PROVE x \in A
      <4>1. PICK k \in scanned : x \in {k * ContactCapacity + s : s \in used[k]}
        OBVIOUS
      <4>2. PICK s \in used[k] : x = k * ContactCapacity + s
        BY <4>1
      <4>3. k \in S /\ k \in 0 .. ContactSectors - 1
        BY <1>3, ContactsInUse
      <4>4. s \in Positions(k)
        BY <4>3 DEF NamesSlots
      <4>5. x \in SlotIndices /\ x \div ContactCapacity = k /\ x % ContactCapacity = s
        BY <4>2, <4>3, <4>4, SlotPlace
      <4> QED
        BY <4>3, <4>5 DEF UsedContacts
    <3>2. ASSUME NEW x \in B PROVE x \in numbers
      <4> DEFINE k == x \div ContactCapacity  s == x % ContactCapacity
      <4>1. x \in SlotIndices /\ k \in S /\ s \in used[k] /\ first <= x /\ x \in Nat
        BY SlotSizes DEF UsedContacts
      <4>2. x = k * ContactCapacity + s /\ k \in 0 .. ContactSectors - 1
        BY <4>1, SlotPlace
      <4>3. k < ContactSectors
        <5> HIDE DEF k
        <5> QED BY <4>2, Sizes
      <4>4. first \div ContactCapacity <= k
        <5> DEFINE d == first \div ContactCapacity
        <5>1. d \in Nat /\ k \in Nat
          BY <2>2, <4>1, SlotSizes, Sizes, DivisionOf
        <5>2. first < x => d < k \/ d = k
          BY <2>2, <4>1, Sizes, DivisionOrder
        <5>3. first = x => d = k
          OBVIOUS
        <5>4. first < x \/ first = x
          BY <2>2, <4>1
        <5> HIDE DEF d, k
        <5>5. d <= k
          BY <5>1, <5>2, <5>3, <5>4
        <5> QED
          BY <5>5 DEF d
      <4>5. k \in scanned
        <5>1. k \in C
          BY <4>1, <4>3
        <5>2. k >= first \div ContactCapacity
          <6>1. k \in Nat /\ first \div ContactCapacity \in Nat
            BY <2>2, <4>1, SlotSizes, Sizes, DivisionOf
          <6> HIDE DEF k
          <6> QED
            BY <4>4, <6>1
        <5> HIDE DEF k, C
        <5> QED
          BY <1>3, <5>1, <5>2
      <4> HIDE DEF k, s, scanned
      <4>6. x \in {k * ContactCapacity + t : t \in used[k]}
        BY <4>1, <4>2
      <4> QED
        BY <4>5, <4>6
    <3> HIDE DEF numbers
    <3> QED
      BY <3>1, <3>2
  <2> HIDE DEF found, first
  <2> DEFINE m == IF n < Cardinality(B) THEN n ELSE Cardinality(B)
  <2>4. rest \in Seq(Nat) /\ all \in Seq(Nat) /\ Len(rest) = Cardinality(B)
    <3>1. B \in SUBSET (0 .. ContactSlots - 1) /\ B \in SUBSET Nat /\ A \in SUBSET Nat
      BY <1>1, SlotSizes
    <3> DEFINE top == ContactSlots - 1
    <3> HIDE DEF top, A, B
    <3>2. Exactly(rest, B) /\ Exactly(all, A) /\ Len(rest) = Cardinality(B)
      BY <1>1, <3>1, AscendingExactly, AscendingIs DEF top
    <3> HIDE DEF rest, all
    <3> QED
      BY <3>1, <3>2, ExactlyNumbers
  <2> HIDE DEF rest, all, A, B
  <2> DEFINE b == Cardinality(B)
  <2>5. /\ b \in Nat /\ b = c - start /\ m \in 0 .. b /\ end = start + m
        /\ Len(rest) = b /\ Len(all) = c
    <3>1. b = c - start /\ Len(rest) = b /\ Len(all) = c
      BY <1>5, <2>1, <2>4
    <3> HIDE DEF b, c
    <3>2. b \in Nat
      BY <1>5, <1>7, <3>1
    <3>3. m = IF n < b THEN n ELSE b
      BY DEF b
    <3> HIDE DEF m
    <3> QED
      BY <1>5, <1>7, <3>1, <3>2, <3>3
  <2>6. \A p \in 1 .. b : rest[p] = all[start + p]
    BY <2>1
  <2> HIDE DEF m, end, b, c
  <2>7. /\ SubSeq(rest, 1, m) \in Seq(Nat) /\ Len(SubSeq(rest, 1, m)) = m
        /\ \A i \in 1 .. m : SubSeq(rest, 1, m)[i] = rest[i]
    <3>1. 1 \in 1 .. Len(rest) + 1 /\ m \in 1 - 1 .. Len(rest) /\ m - 1 + 1 = m
      BY <2>5
    <3>2. /\ SubSeq(rest, 1, m) \in Seq(Nat) /\ Len(SubSeq(rest, 1, m)) = m - 1 + 1
          /\ \A i \in 1 .. m - 1 + 1 : SubSeq(rest, 1, m)[i] = rest[1 + (i - 1)]
      BY <2>4, <3>1, SubSeqIs
    <3>3. \A i \in 1 .. m : 1 + (i - 1) = i
      BY <2>5
    <3> QED
      BY <3>1, <3>2, <3>3
  <2> DEFINE k == start + 1
  <2>8. k \in 1 .. Len(all) + 1 /\ end \in k - 1 .. Len(all) /\ end - k + 1 = m
    BY <1>5, <1>7, <2>5
  <2>9. \A i \in 1 .. m : k + (i - 1) = start + i /\ i \in 1 .. b
    BY <2>5
  <2> HIDE DEF k
  <2>10. /\ SubSeq(all, k, end) \in Seq(Nat) /\ Len(SubSeq(all, k, end)) = m
         /\ \A i \in 1 .. m : SubSeq(all, k, end)[i] = all[start + i]
    <3>1. /\ SubSeq(all, k, end) \in Seq(Nat) /\ Len(SubSeq(all, k, end)) = end - k + 1
          /\ \A i \in 1 .. end - k + 1 : SubSeq(all, k, end)[i] = all[k + (i - 1)]
      BY <2>4, <2>8, SubSeqIs
    <3> QED
      BY <2>8, <2>9, <3>1
  <2>11. SubSeq(rest, 1, m) = SubSeq(all, k, end)
    <3> DEFINE u == SubSeq(rest, 1, m)  v == SubSeq(all, k, end)
    <3>1. u \in Seq(Nat) /\ v \in Seq(Nat) /\ Len(u) = Len(v) /\ \A i \in 1 .. Len(u) : u[i] = v[i]
      BY <2>6, <2>7, <2>9, <2>10
    <3> HIDE DEF u, v
    <3>2. u = v
      BY <3>1, SeqEqual
    <3> QED
      BY <3>2 DEF u, v
  <2>12. ContactsByUsage(MapOf(S), used, start, n) = SubSeq(rest, 1, m)
    <3>1. Ascending(found) = rest /\ Len(Ascending(found)) = Cardinality(B)
      BY <2>3, <2>4 DEF rest
    <3> QED
      BY <1>4, <2>2, <3>1 DEF m
  <2> QED
    BY <2>11, <2>12 DEF k, end, all, A
<1> QED
  BY <1>6, <1>7

-----------------------------------------------------------------------------
(* No header names a slot past the end of the table: the positions come    *)
(* from slots.                                                             *)
PositionsInv ==
    \A k \in 0 .. ContactSectors - 1 : slots[k] \in (SUBSET Positions(k)) \cup {Lost}

LEMMA PositionsInvariant == Spec => []PositionsInv
<1>1. Init => PositionsInv
  BY DEF Init, PositionsInv
<1>2. MountInv /\ PositionsInv /\ [Next]_vars => PositionsInv'
  <2> SUFFICES ASSUME MountInv, PositionsInv, [Next]_vars PROVE PositionsInv'
    OBVIOUS
  <2>1. CASE UNCHANGED slots
    BY <2>1 DEF PositionsInv
  <2>2. slots \in UsedSlots
    BY DEF MountInv, TypeInv
  <2>3. CASE AddContact
    <3> DEFINE s == Last(contactFree)  k == s \div ContactCapacity  p == s % ContactCapacity
               now == (IF CheckBit(usageBitmap, k) THEN slots[k] ELSE {}) \cup {p}
               F == FoundInUse
               Free == {x \in SlotIndices : SlotFree(F, slots, x)}
    <3>1. /\ op = On /\ contactFree # << >>
          /\ slots' = [slots EXCEPT ![k] = now]
      BY <2>3 DEF AddContact, Call
    <3>2. Exactly(contactFree, Free) /\ usageBitmap = MapOf(F)
      BY <3>1 DEF MountInv, RamInv
    <3> HIDE DEF s
    <3>3. s \in Free
      <4> HIDE DEF Free
      <4> QED BY <3>1, <3>2, ExactlyFront DEF s
    <3>4. k \in 0 .. ContactSectors - 1 /\ p \in Positions(k) /\ (k \in F => slots[k] # Lost)
      BY <3>3, SlotPlace DEF SlotFree
    <3>5. CheckBit(usageBitmap, k) => k \in F
      <4>1. k \in DataSectors
        BY <3>4, Sizes DEF DataSectors
      <4> HIDE DEF k, F
      <4> QED
        BY <3>2, <4>1, MapOfBits
    <3>6. now \in SUBSET Positions(k)
      <4>1. slots[k] \in (SUBSET Positions(k)) \cup {Lost}
        BY <3>4 DEF PositionsInv
      <4> HIDE DEF k, p
      <4> QED
        BY <3>4, <3>5, <4>1
    <3> HIDE DEF k, now
    <3> QED
      BY <2>2, <3>1, <3>4, <3>6 DEF PositionsInv, UsedSlots
  <2>4. ASSUME NEW s \in 0 .. ContactSlots - 1, RemoveContact(s), slots' # slots PROVE PositionsInv'
    <3> DEFINE k == s \div ContactCapacity  now == slots[k] \ {s % ContactCapacity}
    <3>1. slots' = [slots EXCEPT ![k] = now] /\ slots[k] # Lost
      BY <2>4 DEF RemoveContact
    <3>2. k \in 0 .. ContactSectors - 1
      BY SlotPlace DEF SlotIndices
    <3>3. now \in SUBSET Positions(k)
      BY <3>1, <3>2 DEF PositionsInv
    <3> HIDE DEF k, now
    <3> QED
      BY <2>2, <3>1, <3>2, <3>3 DEF PositionsInv, UsedSlots
  <2>5. ASSUME NEW m \in 0 .. MessageSectors - 1, RemoveSector(m) PROVE UNCHANGED slots
    BY <2>5 DEF RemoveSector
  <2> QED
    BY <2>1, <2>3, <2>4, <2>5
    DEF Next, BootFormats, BootRefuses, BootMounts, MountFails, AskFormat, FormatWrites, FormatEnds,
        FormatFails, PowerCut, AddSector, vars
<1> QED
  BY <1>1, <1>2, MountInvariant, PTL DEF Spec

(* Every scan of the bitmap, from any sector to any other, finds the       *)
(* sectors in use between them, across words, checksums and the ends of    *)
(* regions; and the listing by usage is the contacts in order, from any of *)
(* them on.                                                                *)
THEOREM ScansAreExact == Spec => []ScansExact
<1>1. MountInv /\ PositionsInv => ScansExact
  <2> SUFFICES ASSUME MountInv, PositionsInv, op = On PROVE ScansExact
    BY DEF ScansExact
  <2> DEFINE S == InUse
  <2>1. S \in SUBSET DataSectors /\ usageBitmap = MapOf(S)
    BY InUseIs
  <2> HIDE DEF S
  <2>2. \A i, j \in DataSectors : i <= j =>
              LET between == {x \in S : x \in i .. j}
                  next    == NextBit(usageBitmap, i, j)
              IN  /\ IF between # {} THEN next = Least(between) ELSE next = NoBit \/ next > j
                  /\ PrevBit(usageBitmap, i, j) = IF between = {} THEN NoBit ELSE Greatest(between)
    <3> TAKE i, j \in DataSectors
    <3> HAVE i <= j
    <3> QED
      BY <2>1, RangeScans
  <2>3. \A total \in {n + 1 : n \in DataSectors} : \A cur \in {NoBit} \cup {x \in S : x < total} :
              LET later   == {x \in S : x > cur}
                  earlier == {x \in S : x < (IF cur = NoBit THEN total ELSE cur)}
                  next    == IteratorNext(usageBitmap, total, cur)
              IN  /\ IF later \cap 0 .. total - 1 # {} THEN next = Least(later)
                     ELSE next = NoBit \/ next >= total
                  /\ IteratorPrev(usageBitmap, total, cur) =
                         IF earlier = {} THEN NoBit ELSE Greatest(earlier)
    <3> TAKE total \in {n + 1 : n \in DataSectors}
    <3> TAKE cur \in {NoBit} \cup {x \in S : x < total}
    <3>1. IteratorGoes(MapOf(S), S, total, cur)
      BY <2>1, IteratorScans
    <3> QED
      BY <2>1, <3>1 DEF IteratorGoes
  <2>4. ASSUME \A k \in 0 .. ContactSectors - 1 : slots[k] # Lost
        PROVE  LET all == Ascending(UsedContacts(S, slots))
               IN  \A start, n \in 0 .. ContactSlots :
                      ContactsByUsage(usageBitmap, slots, start, n) =
                         SubSeq(all, start + 1, IF start + n < Len(all) THEN start + n ELSE Len(all))
    <3>1. NamesSlots(slots)
      BY <2>4 DEF NamesSlots, PositionsInv, MountInv, TypeInv
    <3>2. \A n \in 0 .. ContactSlots : n \in Nat
      BY SlotSizes
    <3> DEFINE used == slots
    <3> HIDE DEF used
    <3>3. ASSUME NEW start \in 0 .. ContactSlots, NEW n \in 0 .. ContactSlots
          PROVE  LET all == Ascending(UsedContacts(S, used))
                 IN  ContactsByUsage(MapOf(S), used, start, n) =
                         SubSeq(all, start + 1, IF start + n < Len(all) THEN start + n ELSE Len(all))
      <4>1. start \in Nat /\ n \in Nat /\ NamesSlots(used)
        BY <3>1, <3>2 DEF used
      <4> QED
        BY <2>1, <4>1, ListingIs
    <3> QED
      BY <2>1, <3>3 DEF used
  <2> QED
    BY <2>2, <2>3, <2>4 DEF ScansExact, S, UsedContacts, SlotIndices
<1> QED
  BY <1>1, MountInvariant, PositionsInvariant, PTL

=============================================================================
