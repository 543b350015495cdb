---------------------------- MODULE DatabaseProofs ----------------------------
(***************************************************************************)
(* Proofs about the database's two lists.  First the name index by itself  *)
(* (modules SortedArray and NameIndex): its comparisons are a dictionary's *)
(* order, its search ends at the lower bound, and its heapsort sorts, so   *)
(* that the calls and a boot arrive at the same index.  Then the chat      *)
(* order's operations (ChatOrder), and then the database, which keeps both *)
(* beside the hash table (Database): the inductive invariant DbInv relates *)
(* their entries to the cells of the table, to the call in progress and to *)
(* the contacts on the card, and the properties of the lists follow.       *)
(***************************************************************************)
EXTENDS Database, NameIndex, HashTableProofs

(* The letters of a string, and after its end a mark before every letter.  *)
At(s, i) == IF i \in 1 .. Len(s) THEN s[i] + 1 ELSE 0

(* s comes before t in the dictionary: it does where they first differ.    *)
Before(s, t) ==
    \E i \in Nat \ {0} : At(s, i) < At(t, i) /\ \A j \in 1 .. i - 1 : At(s, j) = At(t, j)

(* A place holds a letter exactly where the string reaches it.             *)
LEMMA AtIs ==
    ASSUME NEW s \in Seq(Nat), NEW i
    PROVE  /\ At(s, i) \in Nat
           /\ i \in 1 .. Len(s) => s[i] \in Nat /\ At(s, i) = s[i] + 1 /\ At(s, i) > 0
           /\ i \notin 1 .. Len(s) => At(s, i) = 0
<1>1. i \in 1 .. Len(s) => s[i] \in Nat
  BY ElementOfSeq
<1> QED
  BY <1>1 DEF At

(* Before is a strict order.                                               *)
LEMMA BeforeOrder ==
    ASSUME NEW s \in Seq(Nat), NEW t \in Seq(Nat)
    PROVE  /\ ~ Before(s, s)
           /\ ~ (Before(s, t) /\ Before(t, s))
           /\ \A u \in Seq(Nat) : Before(s, t) /\ Before(t, u) => Before(s, u)
<1>1. ~ Before(s, s)
  BY AtIs DEF Before
<1>2. ASSUME NEW u \in Seq(Nat), Before(s, t), Before(t, u) PROVE Before(s, u)
  <2>1. PICK i \in Nat \ {0} : At(s, i) < At(t, i) /\ \A j \in 1 .. i - 1 : At(s, j) = At(t, j)
    BY <1>2 DEF Before
  <2>2. PICK k \in Nat \ {0} : At(t, k) < At(u, k) /\ \A j \in 1 .. k - 1 : At(t, j) = At(u, j)
    BY <1>2 DEF Before
  <2>3. \A j : At(s, j) \in Nat /\ At(t, j) \in Nat /\ At(u, j) \in Nat
    BY AtIs
  <2>4. CASE i <= k
    <3>1. At(s, i) < At(u, i)
      <4>1. i = k \/ i \in 1 .. k - 1
        BY <2>4
      <4>2. At(t, i) <= At(u, i)
        BY <2>2, <2>3, <4>1
      <4> QED
        BY <2>1, <2>3, <4>2
    <3>2. \A j \in 1 .. i - 1 : At(s, j) = At(u, j)
      BY <2>1, <2>2, <2>4
    <3> QED
      BY <3>1, <3>2 DEF Before
  <2>5. CASE k < i
    <3>1. At(s, k) < At(u, k)
      BY <2>1, <2>2, <2>3, <2>5
    <3>2. \A j \in 1 .. k - 1 : At(s, j) = At(u, j)
      BY <2>1, <2>2, <2>5
    <3> QED
      BY <3>1, <3>2 DEF Before
  <2> QED
    BY <2>4, <2>5
<1>3. ~ (Before(s, t) /\ Before(t, s))
  BY <1>1, <1>2
<1> QED
  BY <1>1, <1>2, <1>3

(* bytes_cmp is negative, zero or positive as the dictionary says.         *)
LEMMA BytesCmpIs ==
    ASSUME NEW s \in Seq(Nat), NEW t \in Seq(Nat)
    PROVE  /\ BytesCmp(s, t) \in Int
           /\ BytesCmp(s, t) < 0 <=> Before(s, t)
           /\ BytesCmp(s, t) > 0 <=> Before(t, s)
           /\ BytesCmp(s, t) = 0 <=> s = t
           /\ Before(s, t) \/ Before(t, s) \/ s = t
<1> DEFINE n       == IF Len(s) < Len(t) THEN Len(s) ELSE Len(t)
           differs == {i \in 1 .. n : s[i] # t[i]}
           first   == CHOOSE i \in differs : \A j \in differs : i <= j
<1>1. BytesCmp(s, t) = IF differs = {} THEN Len(s) - Len(t) ELSE s[first] - t[first]
  BY DEF BytesCmp
<1>2. /\ Len(s) \in Nat /\ Len(t) \in Nat /\ n \in Nat /\ n <= Len(s) /\ n <= Len(t)
      /\ n = Len(s) \/ n = Len(t)
  BY LenProperties
<1>3. CASE differs = {}
  <2>1. \A i \in 1 .. n : s[i] = t[i]
    BY <1>3
  <2> HIDE DEF n
  <2>2. \A i \in 1 .. n : At(s, i) = At(t, i)
    BY <1>2, <2>1 DEF At
  <2>3. CASE Len(s) < Len(t)
    <3>1. At(s, Len(s) + 1) < At(t, Len(s) + 1)
      <4>1. Len(s) + 1 \in 1 .. Len(t) /\ Len(s) + 1 \notin 1 .. Len(s)
        BY <1>2, <2>3
      <4> QED
        BY <4>1, AtIs
    <3>2. \A j \in 1 .. (Len(s) + 1) - 1 : At(s, j) = At(t, j)
      BY <1>2, <2>2, <2>3
    <3>3. Before(s, t)
      BY <1>2, <3>1, <3>2 DEF Before
    <3> QED
      BY <1>1, <1>2, <1>3, <2>3, <3>3, BeforeOrder
  <2>4. CASE Len(t) < Len(s)
    <3>1. At(t, Len(t) + 1) < At(s, Len(t) + 1)
      <4>1. Len(t) + 1 \in 1 .. Len(s) /\ Len(t) + 1 \notin 1 .. Len(t)
        BY <1>2, <2>4
      <4> QED
        BY <4>1, AtIs
    <3>2. \A j \in 1 .. (Len(t) + 1) - 1 : At(t, j) = At(s, j)
      BY <1>2, <2>2, <2>4
    <3>3. Before(t, s)
      BY <1>2, <3>1, <3>2 DEF Before
    <3> QED
      BY <1>1, <1>2, <1>3, <2>4, <3>3, BeforeOrder
  <2>5. CASE Len(s) = Len(t)
    <3>1. s = t
      BY <1>2, <2>1, <2>5, SeqEqual
    <3> QED
      BY <1>1, <1>2, <1>3, <2>5, <3>1, BeforeOrder
  <2> QED
    BY <1>2, <2>3, <2>4, <2>5
<1>4. CASE differs # {}
  <2>1. \E i \in differs : \A j \in differs : i <= j
    <3>1. differs \subseteq Nat
      BY <1>2
    <3> HIDE DEF differs
    <3> QED BY <1>4, <3>1, LeastNatural
  <2>2. first \in differs /\ \A j \in differs : first <= j
    <3> HIDE DEF differs
    <3> QED BY <2>1
  <2>3. /\ first \in 1 .. n /\ s[first] # t[first]
        /\ \A j \in 1 .. first - 1 : s[j] = t[j]
    <3>1. first \in 1 .. n /\ s[first] # t[first]
      BY <2>2
    <3> DEFINE f == first
    <3>2. f \in 1 .. n /\ \A j \in differs : f <= j
      BY <2>2, <3>1
    <3> HIDE DEF f
    <3>3. \A j \in 1 .. f - 1 : s[j] = t[j]
      BY <1>2, <3>2
    <3> QED
      BY <3>1, <3>3 DEF f
  <2> HIDE DEF first, differs, n
  <2>4. first \in Nat /\ 1 <= first /\ first <= n
    BY <1>2, <2>3
  <2>5. /\ first \in 1 .. Len(s) /\ first \in 1 .. Len(t)
        /\ \A j \in 1 .. first - 1 : j \in 1 .. Len(s) /\ j \in 1 .. Len(t)
    BY <1>2, <2>4
  <2>6. \A j \in 1 .. first - 1 : At(s, j) = At(t, j)
    BY <2>3, <2>5 DEF At
  <2>7. /\ s[first] \in Nat /\ At(s, first) = s[first] + 1
        /\ t[first] \in Nat /\ At(t, first) = t[first] + 1
        /\ first \in Nat \ {0}
    <3>1. first \in Nat \ {0}
      BY <2>4
    <3> QED
      BY <2>5, <3>1, AtIs
  <2>8. s # t
    BY <2>3
  <2>9. CASE s[first] < t[first]
    <3>1. Before(s, t)
      <4>1. first \in Nat \ {0} /\ At(s, first) < At(t, first)
        BY <2>7, <2>9
      <4> QED
        BY <2>6, <4>1 DEF Before
    <3>2. s[first] - t[first] < 0 /\ s[first] - t[first] \in Int
      BY <2>7, <2>9
    <3> QED
      BY <1>1, <1>4, <2>8, <3>1, <3>2, BeforeOrder
  <2>10. CASE t[first] < s[first]
    <3>1. Before(t, s)
      <4>1. first \in Nat \ {0} /\ At(t, first) < At(s, first)
        BY <2>7, <2>10
      <4> QED
        BY <2>6, <4>1 DEF Before
    <3>2. s[first] - t[first] > 0 /\ s[first] - t[first] \in Int
      BY <2>7, <2>10
    <3> QED
      BY <1>1, <1>4, <2>8, <3>1, <3>2, BeforeOrder
  <2> QED
    BY <2>3, <2>7, <2>9, <2>10
<1> QED
  BY <1>3, <1>4

-----------------------------------------------------------------------------
(* The keys of the index.                                                  *)
LEMMA FoldedIs ==
    ASSUME NEW s \in Seq(Nat)
    PROVE  /\ Folded(s) \in Seq(Nat) /\ Len(Folded(s)) = Len(s)
           /\ \A i \in 1 .. Len(s) : Folded(s)[i] = RemoveCase(s[i]) /\ RemoveCase(s[i]) \in Nat
<1>1. Len(s) \in Nat /\ DOMAIN s = 1 .. Len(s)
  BY LenProperties
<1>2. \A i \in 1 .. Len(s) : s[i] \in Nat
  BY ElementOfSeq
<1>3. \A i \in 1 .. Len(s) : RemoveCase(s[i]) \in Nat
  BY <1>2 DEF RemoveCase
<1>4. Folded(s) = [i \in 1 .. Len(s) |-> RemoveCase(s[i])]
  BY <1>1 DEF Folded
<1>5. Folded(s) \in [1 .. Len(s) -> Nat]
  BY <1>3, <1>4
<1>6. Folded(s) \in Seq(Nat) /\ Len(Folded(s)) = Len(s)
  BY <1>1, <1>5, FunctionIsSeq
<1> QED
  BY <1>3, <1>4, <1>6

(* A key is the start of the folded name, filled up with zeros             *)
(* (sorted_array_make_key).                                                *)
LEMMA MakeKeyIs ==
    ASSUME NEW s \in Seq(Nat)
    PROVE  /\ MakeKey(s) \in Seq(Nat) /\ Len(MakeKey(s)) = KeyLength /\ KeyLength \in Nat
           /\ \A i \in 1 .. KeyLength :
                 MakeKey(s)[i] = IF i <= Len(s) THEN RemoveCase(s[i]) ELSE 0
<1>1. KeyLength \in Nat /\ Len(s) \in Nat
  BY IndexAssumption, LenProperties
<1>2. \A i \in 1 .. KeyLength : i <= Len(s) => i \in 1 .. Len(s)
  BY <1>1
<1>3. \A i \in 1 .. KeyLength : (IF i <= Len(s) THEN RemoveCase(s[i]) ELSE 0) \in Nat
  BY <1>2, FoldedIs
<1>4. MakeKey(s) \in [1 .. KeyLength -> Nat]
  BY <1>3 DEF MakeKey
<1>5. MakeKey(s) \in Seq(Nat) /\ Len(MakeKey(s)) = KeyLength
  BY <1>1, <1>4, FunctionIsSeq
<1> QED
  BY <1>1, <1>5 DEF MakeKey

(* Two keys that differ are in the order of the strings in lower case.     *)
LEMMA KeyBefore ==
    ASSUME NEW s \in Seq(Nat), NEW t \in Seq(Nat), Before(MakeKey(s), MakeKey(t))
    PROVE  Before(Folded(s), Folded(t))
<1> DEFINE k == MakeKey(s)  m == MakeKey(t)  f == Folded(s)  g == Folded(t)
<1>1. /\ k \in Seq(Nat) /\ m \in Seq(Nat) /\ Len(k) = KeyLength /\ Len(m) = KeyLength /\ KeyLength \in Nat
      /\ \A i \in 1 .. KeyLength : k[i] = IF i <= Len(s) THEN RemoveCase(s[i]) ELSE 0
      /\ \A i \in 1 .. KeyLength : m[i] = IF i <= Len(t) THEN RemoveCase(t[i]) ELSE 0
  BY MakeKeyIs
<1>2. /\ f \in Seq(Nat) /\ Len(f) = Len(s) /\ Len(s) \in Nat
      /\ \A i \in 1 .. Len(s) : f[i] = RemoveCase(s[i])
      /\ g \in Seq(Nat) /\ Len(g) = Len(t) /\ Len(t) \in Nat
      /\ \A i \in 1 .. Len(t) : g[i] = RemoveCase(t[i])
  BY FoldedIs, LenProperties
<1>3. Before(k, m)
  OBVIOUS
<1> HIDE DEF k, m, f, g
<1>4. PICK i \in Nat \ {0} : At(k, i) < At(m, i) /\ \A j \in 1 .. i - 1 : At(k, j) = At(m, j)
  BY <1>3 DEF Before
<1>5. i \in 1 .. KeyLength
  <2>1. At(k, i) \in Nat /\ At(m, i) # 0
    BY <1>1, <1>4, AtIs
  <2> QED
    BY <1>1, <2>1, AtIs
<1>6. k[i] \in Nat /\ m[i] \in Nat /\ k[i] < m[i] /\ \A j \in 1 .. i - 1 : k[j] = m[j]
  <2>1. \A j \in 1 .. i : j \in 1 .. KeyLength
    BY <1>1, <1>5
  <2>2. \A j \in 1 .. i : At(k, j) = k[j] + 1 /\ At(m, j) = m[j] + 1 /\ k[j] \in Nat /\ m[j] \in Nat
    BY <1>1, <2>1, AtIs
  <2>3. i \in 1 .. i /\ \A j \in 1 .. i - 1 : j \in 1 .. i
    OBVIOUS
  <2>4. k[i] < m[i] /\ k[i] \in Nat /\ m[i] \in Nat
    BY <1>4, <2>2, <2>3
  <2>5. ASSUME NEW j \in 1 .. i - 1 PROVE k[j] = m[j]
    BY <1>4, <2>2, <2>3
  <2> QED
    BY <2>4, <2>5
<1>7. i \in 1 .. Len(t)
  BY <1>1, <1>2, <1>5, <1>6
<1>8. ASSUME NEW j \in 1 .. KeyLength
       PROVE  /\ k[j] \in Nat /\ m[j] \in Nat
              /\ At(f, j) = IF j \in 1 .. Len(s) THEN k[j] + 1 ELSE 0
              /\ At(g, j) = IF j \in 1 .. Len(t) THEN m[j] + 1 ELSE 0
  <2>1. k[j] \in Nat /\ m[j] \in Nat
    BY <1>1, ElementOfSeq
  <2>2. j <= Len(s) <=> j \in 1 .. Len(s)
    BY <1>1, <1>2
  <2>3. j <= Len(t) <=> j \in 1 .. Len(t)
    BY <1>1, <1>2
  <2>4. j \in 1 .. Len(s) => f[j] = k[j]
    BY <1>1, <1>2, <2>2
  <2>5. j \in 1 .. Len(t) => g[j] = m[j]
    BY <1>1, <1>2, <2>3
  <2> QED
    BY <1>2, <2>1, <2>4, <2>5 DEF At
<1> DEFINE differ == {j \in 1 .. i : At(f, j) # At(g, j)}
<1>9. i \in differ
  <2>1. At(g, i) = m[i] + 1 /\ (At(f, i) = 0 \/ At(f, i) = k[i] + 1)
    BY <1>5, <1>7, <1>8
  <2>2. At(f, i) # At(g, i) /\ i \in 1 .. i
    BY <1>6, <2>1
  <2> QED
    BY <2>2
<1>10. PICK d \in differ : \A j \in differ : d <= j
  <2>1. differ \subseteq Nat
    OBVIOUS
  <2> HIDE DEF differ
  <2> QED BY <1>9, <2>1, LeastNatural
<1>11. /\ d \in 1 .. i /\ d \in Nat \ {0} /\ At(f, d) # At(g, d)
       /\ \A j \in 1 .. d - 1 : At(f, j) = At(g, j)
  <2>1. d \in 1 .. i /\ d \in Nat \ {0} /\ At(f, d) # At(g, d)
    OBVIOUS
  <2>2. \A j \in 1 .. d - 1 : j \in 1 .. i /\ ~ (d <= j)
    BY <2>1
  <2>3. \A j \in 1 .. d - 1 : At(f, j) = At(g, j)
    BY <1>10, <2>2
  <2> QED
    BY <2>1, <2>3
<1>12. d \in 1 .. Len(t) /\ d \in 1 .. KeyLength
  <2>1. i <= Len(t) /\ i <= KeyLength /\ d <= i /\ d >= 1 /\ d \in Nat
    BY <1>1, <1>2, <1>5, <1>7, <1>11
  <2> QED
    BY <1>1, <1>2, <2>1
<1>13. At(g, d) = m[d] + 1 /\ m[d] \in Nat
  BY <1>12, <1>8
<1>14. At(f, d) < At(g, d)
  <2>1. CASE d \in 1 .. Len(s)
    <3>1. At(f, d) = k[d] + 1 /\ k[d] \in Nat
      BY <1>12, <1>8, <2>1
    <3>2. k[d] # m[d]
      BY <1>11, <1>13, <3>1
    <3>3. d = i
      BY <1>6, <1>11, <3>2
    <3> QED
      BY <1>6, <1>13, <3>1, <3>3
  <2>2. CASE d \notin 1 .. Len(s)
    BY <1>2, <1>13, <2>2, AtIs
  <2> QED
    BY <2>1, <2>2
<1>15. Before(f, g)
  BY <1>11, <1>14 DEF Before
<1> QED
  BY <1>15 DEF f, g

(* Keys that differ are ordered as the folded names are.                   *)
LEMMA KeysDiffer ==
    ASSUME NEW s \in Seq(Nat), NEW t \in Seq(Nat), MakeKey(s) # MakeKey(t)
    PROVE  /\ BytesCmp(MakeKey(s), MakeKey(t)) \in Int
           /\ BytesCmp(MakeKey(s), MakeKey(t)) # 0
           /\ BytesCmp(Folded(s), Folded(t)) # 0
           /\ BytesCmp(MakeKey(s), MakeKey(t)) < 0 <=> BytesCmp(Folded(s), Folded(t)) < 0
           /\ BytesCmp(MakeKey(s), MakeKey(t)) > 0 <=> BytesCmp(Folded(s), Folded(t)) > 0
<1> DEFINE k == MakeKey(s)  m == MakeKey(t)  f == Folded(s)  g == Folded(t)
<1>1. k \in Seq(Nat) /\ m \in Seq(Nat) /\ f \in Seq(Nat) /\ g \in Seq(Nat) /\ k # m
  BY MakeKeyIs, FoldedIs
<1>2. (Before(k, m) => Before(f, g)) /\ (Before(m, k) => Before(g, f))
  BY KeyBefore
<1> HIDE DEF k, m, f, g
<1>3. /\ BytesCmp(k, m) \in Int /\ BytesCmp(k, m) # 0
      /\ BytesCmp(k, m) < 0 <=> Before(k, m)
      /\ BytesCmp(k, m) > 0 <=> Before(m, k)
      /\ Before(k, m) \/ Before(m, k)
  BY <1>1, BytesCmpIs
<1>4. /\ BytesCmp(f, g) \in Int
      /\ BytesCmp(f, g) < 0 <=> Before(f, g)
      /\ BytesCmp(f, g) > 0 <=> Before(g, f)
  BY <1>1, BytesCmpIs
<1>5. /\ ~ (Before(f, g) /\ Before(g, f)) /\ ~ (Before(k, m) /\ Before(m, k))
  BY <1>1, BeforeOrder
<1>6. (Before(k, m) <=> Before(f, g)) /\ (Before(m, k) <=> Before(g, f))
  BY <1>2, <1>3, <1>5
<1>7. BytesCmp(f, g) # 0
  BY <1>3, <1>4, <1>6
<1>8. /\ BytesCmp(k, m) < 0 <=> BytesCmp(f, g) < 0
      /\ BytesCmp(k, m) > 0 <=> BytesCmp(f, g) > 0
  BY <1>3, <1>4, <1>6
<1> QED
  BY <1>3, <1>7, <1>8 DEF k, m, f, g

-----------------------------------------------------------------------------
(* The comparisons of the index are the alphabetical order.                *)
Contact == [phone : Nat, name : Seq(Nat)]

(* Folded names decide, then names, then phones.                           *)
LEMMA PrecedesIs ==
    ASSUME NEW c \in Contact, NEW d \in Contact
    PROVE  /\ c.name \in Seq(Nat) /\ d.name \in Seq(Nat) /\ c.phone \in Nat /\ d.phone \in Nat
           /\ Folded(c.name) \in Seq(Nat) /\ Folded(d.name) \in Seq(Nat)
           /\ Precedes(c, d) <=> \/ Before(Folded(c.name), Folded(d.name))
                                 \/ Folded(c.name) = Folded(d.name) /\ Before(c.name, d.name)
                                 \/ c.name = d.name /\ c.phone < d.phone
<1>1. c.name \in Seq(Nat) /\ d.name \in Seq(Nat) /\ c.phone \in Nat /\ d.phone \in Nat
  BY DEF Contact
<1> DEFINE s == c.name  t == d.name  f == Folded(s)  g == Folded(t)
<1>2. f \in Seq(Nat) /\ g \in Seq(Nat)
  BY <1>1, FoldedIs
<1>3. s = t => f = g
  OBVIOUS
<1>4. Precedes(c, d) <=> \/ BytesCmp(f, g) < 0
                         \/ BytesCmp(f, g) = 0 /\ BytesCmp(s, t) < 0
                         \/ BytesCmp(f, g) = 0 /\ BytesCmp(s, t) = 0 /\ c.phone < d.phone
  BY DEF Precedes
<1>5. s \in Seq(Nat) /\ t \in Seq(Nat)
  BY <1>1
<1> HIDE DEF s, t, f, g
<1>6. Precedes(c, d) <=> \/ Before(f, g)
                         \/ f = g /\ Before(s, t)
                         \/ f = g /\ s = t /\ c.phone < d.phone
  BY <1>2, <1>4, <1>5, BytesCmpIs
<1> QED
  BY <1>1, <1>2, <1>3, <1>6 DEF s, t, f, g

(* Precedes is a strict order, total where phones differ.                  *)
LEMMA PrecedesOrder ==
    ASSUME NEW c \in Contact, NEW d \in Contact
    PROVE  /\ ~ Precedes(c, c)
           /\ ~ (Precedes(c, d) /\ Precedes(d, c))
           /\ c.phone # d.phone => Precedes(c, d) \/ Precedes(d, c)
           /\ \A e \in Contact : Precedes(c, d) /\ Precedes(d, e) => Precedes(c, e)
<1>1. ASSUME NEW x \in Contact PROVE ~ Precedes(x, x)
  <2>1. x.name \in Seq(Nat) /\ Folded(x.name) \in Seq(Nat) /\ x.phone \in Nat
    BY PrecedesIs
  <2>2. ~ Before(x.name, x.name) /\ ~ Before(Folded(x.name), Folded(x.name)) /\ ~ (x.phone < x.phone)
    BY <2>1, BeforeOrder
  <2> QED
    BY <2>2, PrecedesIs
<1>2. ASSUME NEW x \in Contact, NEW y \in Contact, NEW z \in Contact, Precedes(x, y), Precedes(y, z)
      PROVE  Precedes(x, z)
  <2> DEFINE p == x.name  q == y.name  r == z.name  f == Folded(p)  g == Folded(q)  h == Folded(r)
  <2>1. /\ p \in Seq(Nat) /\ q \in Seq(Nat) /\ r \in Seq(Nat)
        /\ f \in Seq(Nat) /\ g \in Seq(Nat) /\ h \in Seq(Nat)
        /\ x.phone \in Nat /\ y.phone \in Nat /\ z.phone \in Nat
    BY PrecedesIs
  <2>2. (p = q => f = g) /\ (q = r => g = h)
    OBVIOUS
  <2>3. /\ Before(f, g) \/ (f = g /\ Before(p, q)) \/ (p = q /\ x.phone < y.phone)
        /\ Before(g, h) \/ (g = h /\ Before(q, r)) \/ (q = r /\ y.phone < z.phone)
    BY <1>2, PrecedesIs
  <2>4. Before(f, h) \/ (f = h /\ Before(p, r)) \/ (p = r /\ x.phone < z.phone) => Precedes(x, z)
    BY PrecedesIs
  <2> HIDE DEF p, q, r, f, g, h
  <2>5. Before(f, g) /\ Before(g, h) => Before(f, h)
    BY <2>1, BeforeOrder
  <2>6. Before(p, q) /\ Before(q, r) => Before(p, r)
    BY <2>1, BeforeOrder
  <2>7. x.phone < y.phone /\ y.phone < z.phone => x.phone < z.phone
    BY <2>1
  <2> QED
    BY <2>2, <2>3, <2>4, <2>5, <2>6, <2>7
<1>3. ASSUME c.phone # d.phone PROVE Precedes(c, d) \/ Precedes(d, c)
  <2> DEFINE p == c.name  q == d.name  f == Folded(p)  g == Folded(q)
  <2>1. /\ p \in Seq(Nat) /\ q \in Seq(Nat) /\ f \in Seq(Nat) /\ g \in Seq(Nat)
        /\ c.phone \in Nat /\ d.phone \in Nat
    BY PrecedesIs
  <2>2. /\ Before(f, g) \/ (f = g /\ Before(p, q)) \/ (p = q /\ c.phone < d.phone) => Precedes(c, d)
        /\ Before(g, f) \/ (g = f /\ Before(q, p)) \/ (q = p /\ d.phone < c.phone) => Precedes(d, c)
    BY PrecedesIs
  <2> HIDE DEF p, q, f, g
  <2>3. /\ Before(f, g) \/ Before(g, f) \/ f = g
        /\ Before(p, q) \/ Before(q, p) \/ p = q
    BY <2>1, BytesCmpIs
  <2>4. c.phone < d.phone \/ d.phone < c.phone
    BY <1>3, <2>1
  <2> QED
    BY <2>2, <2>3, <2>4
<1> QED
  BY <1>1, <1>2, <1>3

(* cmp, of a contact or a string with an entry for d.                      *)
LEMMA TiebreakIs ==
    ASSUME NEW c \in Contact, NEW d \in Contact
    PROVE  /\ Tiebreak(ProbeFromContact(c), d) \in Int
           /\ Tiebreak(ProbeFromContact(c), d) < 0 <=> Precedes(c, d)
           /\ Tiebreak(ProbeFromContact(c), d) > 0 <=> Precedes(d, c)
<1> DEFINE p == c.name  q == d.name  f == BytesCmp(Folded(p), Folded(q))  e == BytesCmp(p, q)
           g == BytesCmp(Folded(q), Folded(p))  h == BytesCmp(q, p)
           b == Tiebreak(ProbeFromContact(c), d)
<1>1. b = IF f # 0 THEN f ELSE IF e # 0 THEN e ELSE c.phone - d.phone
  BY DEF Tiebreak, ProbeFromContact
<1>2. /\ p \in Seq(Nat) /\ q \in Seq(Nat) /\ Folded(p) \in Seq(Nat) /\ Folded(q) \in Seq(Nat)
      /\ c.phone \in Nat /\ d.phone \in Nat
  BY PrecedesIs
<1>3. /\ Precedes(c, d) <=> f < 0 \/ (f = 0 /\ e < 0) \/ (f = 0 /\ e = 0 /\ c.phone < d.phone)
      /\ Precedes(d, c) <=> g < 0 \/ (g = 0 /\ h < 0) \/ (g = 0 /\ h = 0 /\ d.phone < c.phone)
  BY DEF Precedes
<1>4. /\ f \in Int /\ g \in Int /\ (f > 0 <=> g < 0) /\ (f = 0 <=> g = 0)
      /\ e \in Int /\ h \in Int /\ (e > 0 <=> h < 0) /\ (e = 0 <=> h = 0)
  BY <1>2, BytesCmpIs
<1> HIDE DEF f, e, g, h, b
<1>5. b \in Int /\ (b < 0 <=> Precedes(c, d)) /\ (b > 0 <=> Precedes(d, c))
  BY <1>1, <1>2, <1>3, <1>4
<1> QED
  BY <1>5 DEF b

(* cmp compares a contact with an entry as the index orders them.          *)
LEMMA CmpIs ==
    ASSUME NEW c \in Contact, NEW d \in Contact, NEW e, NEW R,
           e.key = MakeKey(d.name), R[e.cell] = d
    PROVE  /\ Comparable(ProbeFromContact(c), e, R)
           /\ Cmp(ProbeFromContact(c), e, R) \in Int
           /\ Cmp(ProbeFromContact(c), e, R) < 0 <=> Precedes(c, d)
           /\ Cmp(ProbeFromContact(c), e, R) > 0 <=> Precedes(d, c)
<1> DEFINE b == Cmp(ProbeFromContact(c), e, R)
           f == BytesCmp(Folded(c.name), Folded(d.name))
           g == BytesCmp(Folded(d.name), Folded(c.name))
           k == BytesCmp(MakeKey(c.name), MakeKey(d.name))
<1>1. b = IF MakeKey(c.name) # MakeKey(d.name) THEN k ELSE Tiebreak(ProbeFromContact(c), d)
  BY DEF Cmp, ProbeFromContact
<1>2. Comparable(ProbeFromContact(c), e, R)
  BY DEF Comparable, IsContact, Contact
<1>3. CASE MakeKey(c.name) # MakeKey(d.name)
  <2>1. /\ c.name \in Seq(Nat) /\ d.name \in Seq(Nat)
        /\ Folded(c.name) \in Seq(Nat) /\ Folded(d.name) \in Seq(Nat)
    BY PrecedesIs
  <2>2. k \in Int /\ k # 0 /\ f # 0 /\ (k < 0 <=> f < 0) /\ (k > 0 <=> f > 0)
    BY <1>3, <2>1, KeysDiffer
  <2>3. f \in Int /\ g \in Int /\ (f > 0 <=> g < 0) /\ (f = 0 <=> g = 0)
    BY <2>1, BytesCmpIs
  <2>4. /\ f # 0 => (Precedes(c, d) <=> f < 0)
        /\ g # 0 => (Precedes(d, c) <=> g < 0)
    BY <2>3 DEF Precedes
  <2>5. b = k
    BY <1>1, <1>3
  <2> HIDE DEF b, f, g, k
  <2>6. b \in Int /\ (b < 0 <=> Precedes(c, d)) /\ (b > 0 <=> Precedes(d, c))
    BY <2>2, <2>3, <2>4, <2>5
  <2> QED
    BY <1>2, <2>6 DEF b
<1>4. CASE MakeKey(c.name) = MakeKey(d.name)
  <2>1. b = Tiebreak(ProbeFromContact(c), d)
    BY <1>1, <1>4
  <2> HIDE DEF b
  <2>2. b \in Int /\ (b < 0 <=> Precedes(c, d)) /\ (b > 0 <=> Precedes(d, c))
    BY <2>1, TiebreakIs
  <2> QED
    BY <1>2, <2>2 DEF b
<1> QED
  BY <1>3, <1>4

(* cmp compares a prefix with an entry by their folded names.              *)
LEMMA CmpStringIs ==
    ASSUME NEW s \in Seq(Nat), NEW d \in Contact, NEW e, NEW R,
           e.key = MakeKey(d.name), R[e.cell] = d
    PROVE  /\ Comparable(ProbeFromString(s), e, R)
           /\ Cmp(ProbeFromString(s), e, R) \in Int
           /\ Cmp(ProbeFromString(s), e, R) > 0 <=> Before(Folded(d.name), Folded(s))
<1> DEFINE b == Cmp(ProbeFromString(s), e, R)
           f == BytesCmp(Folded(s), Folded(d.name))
           k == BytesCmp(MakeKey(s), MakeKey(d.name))
<1>1. b = IF MakeKey(s) # MakeKey(d.name) THEN k ELSE f
  BY DEF Cmp, ProbeFromString, Tiebreak
<1>2. Comparable(ProbeFromString(s), e, R)
  BY DEF Comparable, IsContact, Contact
<1>3. d.name \in Seq(Nat) /\ Folded(s) \in Seq(Nat) /\ Folded(d.name) \in Seq(Nat)
  BY PrecedesIs, FoldedIs
<1>4. f \in Int /\ (f > 0 <=> Before(Folded(d.name), Folded(s)))
  BY <1>3, BytesCmpIs
<1>5. MakeKey(s) # MakeKey(d.name) => k \in Int /\ (k > 0 <=> f > 0)
  BY <1>3, KeysDiffer
<1> HIDE DEF b, f, k
<1>6. b \in Int /\ (b > 0 <=> Before(Folded(d.name), Folded(s)))
  BY <1>1, <1>4, <1>5
<1> QED
  BY <1>2, <1>6 DEF b

(* entry_cmp, of entries for c and d.                                      *)
LEMMA EntryLessIs ==
    ASSUME NEW c \in Contact, NEW d \in Contact, NEW a, NEW b, NEW R,
           a.key = MakeKey(c.name), R[a.cell] = c, b.key = MakeKey(d.name), R[b.cell] = d
    PROVE  EntryLess(a, b, R) <=> Precedes(c, d)
<1>1. Cmp(ProbeFromContact(c), b, R) < 0 <=> Precedes(c, d)
  BY CmpIs
<1>2. EntryLess(a, b, R) <=> Cmp(ProbeFromContact(c), b, R) < 0
  BY DEF EntryLess, Cmp, ProbeFromContact
<1> QED
  BY <1>1, <1>2

-----------------------------------------------------------------------------
(* The binary search.                                                      *)
SearchNext(s, probe, R, at) ==
    LET mid == at.lo + (at.hi - at.lo) \div 2
    IN  IF ~at.ok \/ at.lo >= at.hi THEN at
        ELSE IF ~Comparable(probe, s[mid + 1], R) THEN [at EXCEPT !.ok = FALSE]
        ELSE IF Cmp(probe, s[mid + 1], R) > 0
        THEN [at EXCEPT !.lo = mid + 1]
        ELSE [at EXCEPT !.hi = mid, !.match = Cmp(probe, s[mid + 1], R) = 0]

(* The probe can be compared with every entry, and is above only the first *)
(* ones of them.                                                           *)
Searchable(s, probe, R) ==
    /\ \A k \in 1 .. Len(s) : Comparable(probe, s[k], R) /\ Cmp(probe, s[k], R) \in Int
    /\ \A j, k \in 1 .. Len(s) : j < k /\ Cmp(probe, s[k], R) > 0 => Cmp(probe, s[j], R) > 0

(* What holds after each round of the search.                              *)
Searching(at, s, probe, R) ==
    /\ at \in [ok : {TRUE}, lo : Nat, hi : Nat, match : BOOLEAN]
    /\ at.lo <= at.hi /\ at.hi <= Len(s)
    /\ \A k \in 1 .. at.lo : Cmp(probe, s[k], R) > 0
    /\ \A k \in at.hi + 1 .. Len(s) : ~ (Cmp(probe, s[k], R) > 0)
    /\ at.match <=> at.hi < Len(s) /\ Cmp(probe, s[at.hi + 1], R) = 0

(* A round keeps that, and shrinks an interval that is not empty.          *)
LEMMA SearchStep ==
    ASSUME NEW E, NEW s \in Seq(E), NEW probe, NEW R, Searchable(s, probe, R),
           NEW at, Searching(at, s, probe, R)
    PROVE  /\ Searching(SearchNext(s, probe, R, at), s, probe, R)
           /\ at.lo < at.hi => SearchNext(s, probe, R, at).hi - SearchNext(s, probe, R, at).lo
                                 < at.hi - at.lo
           /\ at.lo = at.hi => SearchNext(s, probe, R, at) = at
<1> DEFINE n == Len(s)  lo == at.lo  hi == at.hi  mid == lo + ((hi - lo) \div 2)
           new == SearchNext(s, probe, R, at)
           cmp == [k \in 1 .. n |-> Cmp(probe, s[k], R)]
<1>1. n \in Nat
  BY LenProperties
<1>2. /\ \A k \in 1 .. n : Comparable(probe, s[k], R) /\ cmp[k] \in Int /\ cmp[k] = Cmp(probe, s[k], R)
      /\ \A j, k \in 1 .. n : j < k /\ cmp[k] > 0 => cmp[j] > 0
  BY DEF Searchable
<1>3. /\ at \in [ok : {TRUE}, lo : Nat, hi : Nat, match : BOOLEAN] /\ lo \in Nat /\ hi \in Nat
      /\ lo <= hi /\ hi <= n
  BY DEF Searching
<1>4. /\ \A k \in 1 .. lo : cmp[k] > 0
      /\ \A k \in hi + 1 .. n : ~ (cmp[k] > 0)
      /\ at.match <=> hi < n /\ cmp[hi + 1] = 0
  BY <1>1, <1>3 DEF Searching
<1>5. CASE lo = hi
  <2>1. new = at
    BY <1>3, <1>5 DEF SearchNext
  <2> QED
    BY <1>3, <1>5, <2>1
<1>6. CASE lo < hi
  <2>1. mid \in Nat /\ lo <= mid /\ mid < hi /\ mid + 1 \in 1 .. n
    BY <1>1, <1>3, <1>6
  <2>2. /\ cmp[mid + 1] > 0 => new = [at EXCEPT !.lo = mid + 1]
        /\ ~ (cmp[mid + 1] > 0) => new = [at EXCEPT !.hi = mid, !.match = (cmp[mid + 1] = 0)]
    <3>1. /\ Comparable(probe, s[mid + 1], R) /\ cmp[mid + 1] = Cmp(probe, s[mid + 1], R)
      BY <1>2, <2>1
    <3>2. at.ok = TRUE
      BY <1>3
    <3>3. ~ (at.lo >= at.hi)
      BY <1>3, <1>6
    <3> HIDE DEF cmp
    <3> QED
      BY <3>1, <3>2, <3>3 DEF SearchNext
  <2> HIDE DEF mid, new
  <2>3. CASE cmp[mid + 1] > 0
    <3>1. new = [at EXCEPT !.lo = mid + 1]
      BY <2>2, <2>3
    <3>2. /\ new \in [ok : {TRUE}, lo : Nat, hi : Nat, match : BOOLEAN]
          /\ new.lo = mid + 1 /\ new.hi = hi /\ new.match = at.match
      <4>1. mid + 1 \in Nat
        BY <2>1
      <4> QED
        BY <1>3, <3>1, <4>1
    <3>3. \A k \in 1 .. mid + 1 : cmp[k] > 0
      <4> TAKE k \in 1 .. mid + 1
      <4>1. k = mid + 1 \/ (k < mid + 1 /\ k \in 1 .. n)
        BY <1>1, <2>1
      <4> QED
        BY <1>2, <2>1, <2>3, <4>1
    <3>4. /\ \A k \in 1 .. new.lo : Cmp(probe, s[k], R) > 0
          /\ \A k \in new.hi + 1 .. Len(s) : ~ (Cmp(probe, s[k], R) > 0)
      <4>1. \A k \in 1 .. n : cmp[k] = Cmp(probe, s[k], R)
        BY <1>2
      <4>2. new.lo \in Nat /\ new.lo <= n /\ new.hi \in Nat
        BY <1>1, <1>3, <2>1, <3>2
      <4> HIDE DEF cmp
      <4>3. /\ \A k \in 1 .. new.lo : k \in 1 .. n /\ cmp[k] > 0
            /\ \A k \in new.hi + 1 .. n : k \in 1 .. n /\ ~ (cmp[k] > 0)
        <5>1. \A k \in new.hi + 1 .. n : ~ (cmp[k] > 0)
          BY <1>4, <3>2
        <5>2. \A k \in 1 .. new.lo : cmp[k] > 0
          BY <3>3, <3>2
        <5>3. /\ \A k \in 1 .. new.lo : k \in 1 .. n
              /\ \A k \in new.hi + 1 .. n : k \in 1 .. n
          BY <1>1, <4>2
        <5> QED
          BY <5>1, <5>2, <5>3
      <4> QED
        BY <4>3, <4>1
    <3>5. new.match <=> new.hi < Len(s) /\ Cmp(probe, s[new.hi + 1], R) = 0
      BY <3>2 DEF Searching
    <3>6. new.lo <= new.hi /\ new.hi <= Len(s)
      BY <1>3, <2>1, <3>2
    <3>7. Searching(new, s, probe, R)
      BY <3>2, <3>4, <3>6, <3>5 DEF Searching
    <3>8. new.hi - new.lo < hi - lo
      BY <1>3, <2>1, <3>2
    <3> QED
      BY <1>3, <1>6, <3>7, <3>8 DEF new
  <2>4. CASE ~ (cmp[mid + 1] > 0)
    <3>1. new = [at EXCEPT !.hi = mid, !.match = (cmp[mid + 1] = 0)]
      BY <2>2, <2>4
    <3>2. /\ new \in [ok : {TRUE}, lo : Nat, hi : Nat, match : BOOLEAN]
          /\ new.lo = lo /\ new.hi = mid /\ new.match = (cmp[mid + 1] = 0)
      BY <1>3, <2>1, <3>1
    <3>3. \A k \in mid + 1 .. n : ~ (cmp[k] > 0)
      <4> TAKE k \in mid + 1 .. n
      <4>1. k = mid + 1 \/ (mid + 1 < k /\ k \in 1 .. n)
        BY <1>1, <2>1
      <4> QED
        BY <1>2, <2>1, <2>4, <4>1
    <3>4. /\ \A k \in 1 .. new.lo : Cmp(probe, s[k], R) > 0
          /\ \A k \in new.hi + 1 .. Len(s) : ~ (Cmp(probe, s[k], R) > 0)
      <4>1. \A k \in 1 .. n : cmp[k] = Cmp(probe, s[k], R)
        BY <1>2
      <4>2. new.lo \in Nat /\ new.lo <= n /\ new.hi \in Nat
        BY <1>1, <1>3, <2>1, <3>2
      <4> HIDE DEF cmp
      <4>3. /\ \A k \in 1 .. new.lo : k \in 1 .. n /\ cmp[k] > 0
            /\ \A k \in new.hi + 1 .. n : k \in 1 .. n /\ ~ (cmp[k] > 0)
        <5>1. \A k \in new.hi + 1 .. n : ~ (cmp[k] > 0)
          BY <3>3, <3>2
        <5>2. \A k \in 1 .. new.lo : cmp[k] > 0
          BY <1>4, <3>2
        <5>3. /\ \A k \in 1 .. new.lo : k \in 1 .. n
              /\ \A k \in new.hi + 1 .. n : k \in 1 .. n
          BY <1>1, <4>2
        <5> QED
          BY <5>1, <5>2, <5>3
      <4> QED
        BY <4>3, <4>1
    <3>5. new.match <=> new.hi < Len(s) /\ Cmp(probe, s[new.hi + 1], R) = 0
      <4>1. mid < n /\ cmp[mid + 1] = Cmp(probe, s[mid + 1], R)
        BY <1>1, <1>3, <2>1
      <4> HIDE DEF cmp
      <4> QED
        BY <3>2, <4>1
    <3>6. new.lo <= new.hi /\ new.hi <= Len(s)
      BY <1>1, <1>3, <2>1, <3>2
    <3>7. Searching(new, s, probe, R)
      BY <3>2, <3>4, <3>6, <3>5 DEF Searching
    <3>8. new.hi - new.lo < hi - lo
      BY <1>3, <2>1, <3>2
    <3> QED
      BY <1>3, <1>6, <3>7, <3>8 DEF new
  <2> QED
    BY <2>3, <2>4
<1> QED
  BY <1>3, <1>5, <1>6

(* A set of states of the search that no round leaves.                     *)
SearchStates(s) == [ok : BOOLEAN, lo : 0 .. Len(s), hi : 0 .. Len(s), match : BOOLEAN]

Encloses(V, s, probe, R) ==
    /\ \A at \in V : /\ at \in SearchStates(s) /\ at.lo <= at.hi
                     /\ SearchNext(s, probe, R, at) \in V
    /\ [ok |-> TRUE, lo |-> 0, hi |-> Len(s), match |-> FALSE] \in V

(* Whatever it compares, a round shrinks the interval, or the search ends. *)
LEMMA SearchShrinks ==
    ASSUME NEW E, NEW s \in Seq(E), NEW probe, NEW R, NEW at \in SearchStates(s), at.lo <= at.hi
    PROVE  /\ ~ at.ok \/ at.lo = at.hi => SearchNext(s, probe, R, at) = at
           /\ at.ok /\ at.lo < at.hi =>
                 \/ ~ SearchNext(s, probe, R, at).ok
                 \/ SearchNext(s, probe, R, at).hi - SearchNext(s, probe, R, at).lo < at.hi - at.lo
<1> DEFINE lo == at.lo  hi == at.hi  mid == lo + ((hi - lo) \div 2)
           new == SearchNext(s, probe, R, at)
<1>1. /\ at = [ok |-> at.ok, lo |-> lo, hi |-> hi, match |-> at.match]
      /\ lo \in Nat /\ hi \in Nat /\ lo <= hi
  BY LenProperties DEF SearchStates
<1>2. ~ at.ok \/ lo = hi => new = at
  BY <1>1 DEF SearchNext
<1>3. ASSUME at.ok, lo < hi PROVE ~ new.ok \/ new.hi - new.lo < hi - lo
  <2>1. mid \in Nat /\ lo <= mid /\ mid < hi
    BY <1>1, <1>3
  <2>2. \/ new = [at EXCEPT !.ok = FALSE]
        \/ new = [at EXCEPT !.lo = mid + 1]
        \/ new = [at EXCEPT !.hi = mid, !.match = Cmp(probe, s[mid + 1], R) = 0]
    BY <1>1, <1>3 DEF SearchNext
  <2> HIDE DEF new, mid
  <2>3. \/ ~ new.ok
        \/ new.lo = mid + 1 /\ new.hi = hi
        \/ new.lo = lo /\ new.hi = mid
    BY <1>1, <2>2
  <2> QED
    BY <1>1, <2>1, <2>3
<1> QED
  BY <1>2, <1>3

(* The search comes to an end in such a set (binary_search_lower_bound).   *)
LEMMA SearchEnds ==
    ASSUME NEW E, NEW s \in Seq(E), NEW probe, NEW R, NEW V, Encloses(V, s, probe, R)
    PROVE  /\ LowerBound(s, probe, R) \in V
           /\ LowerBound(s, probe, R).ok => LowerBound(s, probe, R).lo = LowerBound(s, probe, R).hi
<1> DEFINE n == Len(s)
           v == [ok |-> TRUE, lo |-> 0, hi |-> Len(s), match |-> FALSE]
           go == [k \in 0 .. n + 1 |-> [at \in V |-> SearchNext(s, probe, R, at)]]
           Body(g) == [k \in 0 .. n + 1 |-> IF k = 0 THEN v ELSE SearchNext(s, probe, R, g[k - 1])]
           search == CHOOSE g : g = Body(g)
<1>1. n \in Nat
  BY LenProperties
<1>2. LowerBound(s, probe, R) = search[n + 1]
  BY DEF LowerBound, SearchNext
<1>3. v \in V /\ v.hi - v.lo <= n - 0
  BY <1>1 DEF Encloses
<1>4. ASSUME NEW at \in V
      PROVE  /\ SearchNext(s, probe, R, at) \in V
             /\ at \in SearchStates(s) /\ at.lo \in Nat /\ at.hi \in Nat /\ at.lo <= at.hi
  <2>1. SearchNext(s, probe, R, at) \in V /\ at \in SearchStates(s) /\ at.lo <= at.hi
    BY DEF Encloses
  <2> QED
    BY <1>1, <2>1 DEF SearchStates
<1> HIDE DEF v
<1>5. go \in [0 .. n + 1 -> [V -> V]]
  BY <1>4
<1>6. PICK h \in [0 .. n + 1 -> V] : h[0] = v /\ \A k \in 0 + 1 .. n + 1 : h[k] = go[k][h[k - 1]]
  <2> DEFINE q == n + 1
  <2>1. \E h : Iterates(h, 0, q, V, v, go)
    <3>1. 0 \in Nat /\ q \in Nat /\ 0 <= q
      BY <1>1
    <3> HIDE DEF go
    <3>2. go \in [0 .. q -> [V -> V]]
      BY <1>5
    <3> HIDE DEF q
    <3> QED BY <1>3, <3>1, <3>2, RecursionExists
  <2> QED
    BY <2>1 DEF Iterates
<1>7. ASSUME NEW k \in 0 .. n + 1, k # 0
      PROVE  k - 1 \in 0 .. n + 1 /\ h[k] = SearchNext(s, probe, R, h[k - 1])
  <2>1. k - 1 \in 0 .. n + 1 /\ k \in 0 + 1 .. n + 1
    BY <1>1, <1>7
  <2>2. h[k - 1] \in V
    BY <1>6, <2>1
  <2> QED
    BY <1>6, <2>1, <2>2
<1>8. h = Body(h)
  <2>1. h = [k \in 0 .. n + 1 |-> h[k]]
    OBVIOUS
  <2>2. \A k \in 0 .. n + 1 : h[k] = IF k = 0 THEN v ELSE SearchNext(s, probe, R, h[k - 1])
    BY <1>6, <1>7
  <2> QED
    BY <2>1, <2>2
<1>9. search = Body(search)
  <2> HIDE DEF Body
  <2> QED BY <1>8
<1> HIDE DEF search
<1>10. /\ search[0] = v
       /\ \A k \in 0 .. n + 1 : k # 0 => search[k] = SearchNext(s, probe, R, search[k - 1])
  <2>1. Body(search)[0] = v
    BY <1>1
  <2>2. \A k \in 0 .. n + 1 : k # 0 => Body(search)[k] = SearchNext(s, probe, R, search[k - 1])
    OBVIOUS
  <2> HIDE DEF Body
  <2> QED
    BY <1>9, <2>1, <2>2
<1> DEFINE S == {k \in 0 .. n + 1 : /\ search[k] \in V
                                    /\ \/ ~ search[k].ok
                                       \/ search[k].hi - search[k].lo <= n - k
                                       \/ search[k].lo = search[k].hi}
<1>11. 0 \in S
  BY <1>1, <1>3, <1>10
<1>12. ASSUME NEW k \in 0 .. n, k \in S PROVE k + 1 \in S
  <2> DEFINE q == k + 1  at == search[k]  new == search[q]
  <2>1. q \in 0 .. n + 1 /\ q # 0 /\ q - 1 = k
    BY <1>1
  <2>2. at \in V /\ (~ at.ok \/ at.hi - at.lo <= n - k \/ at.lo = at.hi)
    BY <1>12
  <2>3. n - q = (n - k) - 1
    BY <1>1
  <2> HIDE DEF q
  <2>4. new = SearchNext(s, probe, R, at)
    BY <1>10, <2>1
  <2> HIDE DEF at, new
  <2>5. new \in V
    BY <1>4, <2>2, <2>4
  <2>6. /\ at \in SearchStates(s) /\ at.lo \in Nat /\ at.hi \in Nat /\ at.lo <= at.hi
        /\ new.lo \in Nat /\ new.hi \in Nat
    BY <1>4, <2>2, <2>5
  <2>7. /\ ~ at.ok \/ at.lo = at.hi => new = at
        /\ at.ok /\ at.lo < at.hi => ~ new.ok \/ new.hi - new.lo < at.hi - at.lo
    BY <2>4, <2>6, SearchShrinks
  <2>8. ~ new.ok \/ new.hi - new.lo <= n - q \/ new.lo = new.hi
    <3>1. CASE ~ at.ok \/ at.lo = at.hi
      BY <2>7, <3>1
    <3>2. CASE at.ok /\ at.lo < at.hi
      BY <1>1, <2>2, <2>3, <2>6, <2>7, <3>2
    <3> QED
      BY <2>6, <3>1, <3>2
  <2>9. q \in S
    BY <2>1, <2>5, <2>8 DEF new
  <2> QED
    BY <2>9 DEF q
<1>13. n + 1 \in S
  <2> DEFINE q == n + 1
  <2>1. 0 .. q \subseteq S
    <3>1. 0 \in Nat /\ q \in Nat /\ \A k \in 0 .. q - 1 : k \in S => k + 1 \in S
      BY <1>1, <1>12
    <3> HIDE DEF S, q
    <3> QED BY <1>11, <3>1, IntervalInduction
  <2>2. q \in 0 .. q
    BY <1>1
  <2> QED
    BY <2>1, <2>2
<1> DEFINE at == search[n + 1]
<1>14. at \in V /\ (~ at.ok \/ at.hi - at.lo <= n - (n + 1) \/ at.lo = at.hi)
  BY <1>13
<1> HIDE DEF at
<1>15. ~ (at.hi - at.lo <= n - (n + 1))
  BY <1>1, <1>4, <1>14
<1> QED
  BY <1>2, <1>14, <1>15 DEF at

(* The search ends where the entries below the probe do, and says whether  *)
(* the next one matches (binary_search_lower_bound).                       *)
LEMMA LowerBoundIs ==
    ASSUME NEW E, NEW s \in Seq(E), NEW probe, NEW R, Searchable(s, probe, R)
    PROVE  /\ LowerBound(s, probe, R).ok
           /\ LowerBound(s, probe, R).lo \in 0 .. Len(s)
           /\ \A k \in 1 .. Len(s) :
                 k <= LowerBound(s, probe, R).lo <=> Cmp(probe, s[k], R) > 0
           /\ LowerBound(s, probe, R).match <=>
                 /\ LowerBound(s, probe, R).lo < Len(s)
                 /\ Cmp(probe, s[LowerBound(s, probe, R).lo + 1], R) = 0
<1> DEFINE n == Len(s)
           V == {at \in SearchStates(s) : Searching(at, s, probe, R)}
           v == [ok |-> TRUE, lo |-> 0, hi |-> Len(s), match |-> FALSE]
<1>1. n \in Nat
  BY LenProperties
<1>2. ASSUME NEW at, Searching(at, s, probe, R) PROVE at \in SearchStates(s) /\ at.lo <= at.hi
  <2>1. /\ at = [ok |-> at.ok, lo |-> at.lo, hi |-> at.hi, match |-> at.match]
        /\ at.ok = TRUE /\ at.match \in BOOLEAN
        /\ at.lo \in Nat /\ at.hi \in Nat /\ at.lo <= at.hi /\ at.hi <= n
    BY <1>2 DEF Searching
  <2>2. at.lo \in 0 .. n /\ at.hi \in 0 .. n
    BY <1>1, <2>1
  <2> QED
    BY <2>1, <2>2 DEF SearchStates
<1>3. v \in V
  <2>1. /\ v \in [ok : {TRUE}, lo : Nat, hi : Nat, match : BOOLEAN]
        /\ v.lo = 0 /\ v.hi = n /\ v.match = FALSE
    BY <1>1
  <2> HIDE DEF v
  <2>2. \A k \in 1 .. v.lo : FALSE
    BY <2>1
  <2>3. \A k \in v.hi + 1 .. Len(s) : FALSE
    BY <1>1, <2>1
  <2>4. v.lo <= v.hi /\ v.hi <= Len(s) /\ ~ (v.hi < Len(s)) /\ ~ v.match
    BY <1>1, <2>1
  <2>5. Searching(v, s, probe, R)
    BY <2>1, <2>2, <2>3, <2>4 DEF Searching
  <2> QED
    BY <1>2, <2>5
<1>4. ASSUME NEW at \in V
      PROVE  at \in SearchStates(s) /\ at.lo <= at.hi /\ SearchNext(s, probe, R, at) \in V
  <2>1. Searching(SearchNext(s, probe, R, at), s, probe, R)
    BY SearchStep
  <2> QED
    BY <1>2, <2>1
<1>5. Encloses(V, s, probe, R)
  BY <1>3, <1>4 DEF Encloses
<1> HIDE DEF V
<1> DEFINE at == LowerBound(s, probe, R)
<1>6. at \in V /\ (at.ok => at.lo = at.hi)
  BY <1>5, SearchEnds
<1> HIDE DEF at
<1>7. Searching(at, s, probe, R)
  BY <1>6 DEF V
<1>8. at.lo = at.hi /\ at.lo \in 0 .. n /\ at.ok
  <2>1. at.lo \in Nat /\ at.hi \in Nat /\ at.lo <= at.hi /\ at.hi <= n /\ at.ok = TRUE
    BY <1>7 DEF Searching
  <2> QED
    BY <1>1, <1>6, <2>1
<1>9. \A k \in 1 .. n : k <= at.lo <=> Cmp(probe, s[k], R) > 0
  <2> TAKE k \in 1 .. n
  <2>1. k \in 1 .. at.lo \/ k \in at.lo + 1 .. n
    BY <1>1, <1>8
  <2>2. CASE k \in 1 .. at.lo
    BY <1>7, <1>8, <2>2 DEF Searching
  <2>3. CASE k \in at.lo + 1 .. n
    BY <1>7, <1>8, <2>3 DEF Searching
  <2> QED
    BY <2>1, <2>2, <2>3
<1>10. at.match <=> at.lo < n /\ Cmp(probe, s[at.lo + 1], R) = 0
  BY <1>7, <1>8 DEF Searching
<1> QED
  BY <1>8, <1>9, <1>10 DEF at

(* Whatever the index holds, and whatever can be read: a search that says  *)
(* that it has found its probe ends at an entry that matches it.           *)
LEMMA SearchFinds ==
    ASSUME NEW E, NEW s \in Seq(E), NEW probe, NEW R
    PROVE  /\ LowerBound(s, probe, R).lo \in 0 .. Len(s)
           /\ LowerBound(s, probe, R).ok /\ LowerBound(s, probe, R).match =>
                 /\ LowerBound(s, probe, R).lo < Len(s)
                 /\ Comparable(probe, s[LowerBound(s, probe, R).lo + 1], R)
                 /\ Cmp(probe, s[LowerBound(s, probe, R).lo + 1], R) = 0
<1> DEFINE n == Len(s)
           Good(at) == at.match => /\ at.hi < n
                                   /\ Comparable(probe, s[at.hi + 1], R)
                                   /\ Cmp(probe, s[at.hi + 1], R) = 0
           V == {at \in SearchStates(s) : at.lo <= at.hi /\ Good(at)}
           v == [ok |-> TRUE, lo |-> 0, hi |-> Len(s), match |-> FALSE]
<1>1. n \in Nat
  BY LenProperties
<1>2. v \in V
  BY <1>1 DEF SearchStates
<1>3. ASSUME NEW at \in V PROVE SearchNext(s, probe, R, at) \in V
  <2> DEFINE lo == at.lo  hi == at.hi  mid == lo + ((hi - lo) \div 2)
             new == SearchNext(s, probe, R, at)
             same == (Cmp(probe, s[mid + 1], R) = 0)
  <2>1. /\ at = [ok |-> at.ok, lo |-> lo, hi |-> hi, match |-> at.match]
        /\ at.ok \in BOOLEAN /\ at.match \in BOOLEAN
        /\ lo \in Nat /\ hi \in Nat /\ lo <= hi /\ lo <= n /\ hi <= n
    BY <1>1 DEF SearchStates
  <2>2. Good(at)
    OBVIOUS
  <2>3. CASE new = at
    BY <2>3
  <2>4. CASE at.ok /\ lo < hi
    <3>1. mid \in Nat /\ lo <= mid /\ mid < hi /\ mid + 1 \in 1 .. n /\ mid < n
      BY <1>1, <2>1, <2>4
    <3>2. \/ new = [at EXCEPT !.ok = FALSE]
          \/ new = [at EXCEPT !.lo = mid + 1]
          \/ new = [at EXCEPT !.hi = mid, !.match = same] /\ Comparable(probe, s[mid + 1], R)
      BY <2>1, <2>4 DEF SearchNext
    <3> HIDE DEF new, mid
    <3>3. CASE new = [at EXCEPT !.ok = FALSE]
      <4>1. new = [ok |-> FALSE, lo |-> lo, hi |-> hi, match |-> at.match]
        BY <2>1, <3>3
      <4>2. new \in SearchStates(s) /\ new.lo <= new.hi /\ new.hi = hi /\ new.match = at.match
        BY <2>1, <4>1 DEF SearchStates
      <4>3. new \in V
        BY <2>2, <4>2
      <4> QED
        BY <4>3 DEF new
    <3>4. CASE new = [at EXCEPT !.lo = mid + 1]
      <4>1. new = [ok |-> at.ok, lo |-> mid + 1, hi |-> hi, match |-> at.match]
        BY <2>1, <3>4
      <4>2. mid + 1 \in 0 .. n /\ mid + 1 <= hi /\ hi \in 0 .. n
        BY <1>1, <2>1, <3>1
      <4>3. new \in SearchStates(s) /\ new.lo <= new.hi /\ new.hi = hi /\ new.match = at.match
        BY <2>1, <4>1, <4>2 DEF SearchStates
      <4>4. new \in V
        BY <2>2, <4>3
      <4> QED
        BY <4>4 DEF new
    <3>5. CASE new = [at EXCEPT !.hi = mid, !.match = same] /\ Comparable(probe, s[mid + 1], R)
      <4>1. new = [ok |-> at.ok, lo |-> lo, hi |-> mid, match |-> same]
        BY <2>1, <3>5
      <4>2. mid \in 0 .. n /\ lo \in 0 .. n /\ same \in BOOLEAN
        BY <1>1, <2>1, <3>1
      <4> HIDE DEF same
      <4>3. new \in SearchStates(s) /\ new.lo <= new.hi /\ new.hi = mid /\ new.match = same
        BY <2>1, <3>1, <4>1, <4>2 DEF SearchStates
      <4>4. Good(new)
        BY <3>1, <3>5, <4>3 DEF same
      <4>5. new \in V
        BY <4>3, <4>4
      <4> QED
        BY <4>5 DEF new
    <3> QED
      BY <3>2, <3>3, <3>4, <3>5 DEF new
  <2>5. ~ at.ok \/ lo = hi => new = at
    BY SearchShrinks
  <2> QED
    BY <2>1, <2>3, <2>4, <2>5
<1>4. Encloses(V, s, probe, R)
  BY <1>2, <1>3 DEF Encloses
<1> HIDE DEF V
<1> DEFINE at == LowerBound(s, probe, R)
<1>5. at \in V /\ (at.ok => at.lo = at.hi)
  BY <1>4, SearchEnds
<1> HIDE DEF at
<1>6. at \in SearchStates(s) /\ Good(at)
  BY <1>5 DEF V
<1>7. at.lo \in 0 .. n
  BY <1>6 DEF SearchStates
<1> QED
  BY <1>5, <1>6, <1>7 DEF at

-----------------------------------------------------------------------------
(* The heapsort.  An array has each member of X once.                      *)
Arrays(n, X) ==
    {m \in [0 .. n - 1 -> X] : /\ \A i, j \in 0 .. n - 1 : m[i] = m[j] => i = j
                               /\ \A x \in X : \E i \in 0 .. n - 1 : m[i] = x}

(* less is a strict total order.                                           *)
Strict(less, X) ==
    /\ \A x \in X : <<x, x>> \notin less
    /\ \A x, y \in X : x # y => <<x, y>> \in less \/ <<y, x>> \in less
    /\ \A x, y, z \in X : <<x, y>> \in less /\ <<y, z>> \in less => <<x, z>> \in less

(* What it means under a strict order not to be less.                      *)
LEMMA NotLess ==
    ASSUME NEW X, NEW less, Strict(less, X), NEW x \in X, NEW y \in X
    PROVE  /\ <<x, y>> \in less => <<y, x>> \notin less
           /\ x # y /\ <<x, y>> \notin less => <<y, x>> \in less
           /\ \A z \in X : <<x, y>> \notin less /\ <<y, z>> \notin less => <<x, z>> \notin less
<1>1. <<x, y>> \in less => <<y, x>> \notin less
  BY Zenon DEF Strict
<1>2. x # y /\ <<x, y>> \notin less => <<y, x>> \in less
  BY Zenon DEF Strict
<1>3. ASSUME NEW z \in X, <<x, y>> \notin less, <<y, z>> \notin less, <<x, z>> \in less PROVE FALSE
  <2>1. CASE x = y
    BY <1>3, <2>1
  <2>2. CASE x # y
    <3>1. <<y, x>> \in less
      BY <1>2, <1>3, <2>2
    <3>2. <<y, z>> \in less
      BY <1>3, <3>1, Zenon DEF Strict
    <3> QED
      BY <1>3, <3>2
  <2> QED
    BY <2>1, <2>2
<1> QED
  BY <1>1, <1>2, <1>3

(* A swap leaves an array an array (entry_swap).                           *)
LEMMA SwapIs ==
    ASSUME NEW n \in Nat, NEW X, NEW m \in Arrays(n, X), NEW i \in 0 .. n - 1, NEW j \in 0 .. n - 1
    PROVE  /\ Swap(m, i, j) \in Arrays(n, X)
           /\ Swap(m, i, j)[i] = m[j] /\ Swap(m, i, j)[j] = m[i]
           /\ \A k \in 0 .. n - 1 : k # i /\ k # j => Swap(m, i, j)[k] = m[k]
<1> DEFINE s == Swap(m, i, j)  to == [k \in 0 .. n - 1 |-> IF k = i THEN j ELSE IF k = j THEN i ELSE k]
<1>1. /\ m \in [0 .. n - 1 -> X]
      /\ \A k, l \in 0 .. n - 1 : m[k] = m[l] => k = l
      /\ \A x \in X : \E k \in 0 .. n - 1 : m[k] = x
  BY DEF Arrays
<1>2. /\ s \in [0 .. n - 1 -> X]
      /\ \A k \in 0 .. n - 1 : s[k] = m[to[k]]
  BY <1>1 DEF Swap
<1>3. /\ \A k \in 0 .. n - 1 : to[k] \in 0 .. n - 1 /\ to[to[k]] = k
      /\ to[i] = j /\ to[j] = i
      /\ \A k \in 0 .. n - 1 : k # i /\ k # j => to[k] = k
  OBVIOUS
<1> HIDE DEF s, to
<1>4. ASSUME NEW k \in 0 .. n - 1, NEW l \in 0 .. n - 1, s[k] = s[l] PROVE k = l
  <2>1. to[k] = to[l]
    <3>1. to[k] \in 0 .. n - 1 /\ to[l] \in 0 .. n - 1
      BY <1>3
    <3>2. m[to[k]] = m[to[l]]
      BY <1>2, <1>4
    <3> QED
      BY <1>1, <3>1, <3>2
  <2> QED
    BY <1>3, <2>1
<1>5. ASSUME NEW x \in X PROVE \E k \in 0 .. n - 1 : s[k] = x
  <2>1. PICK k \in 0 .. n - 1 : m[k] = x
    BY <1>1
  <2>2. to[k] \in 0 .. n - 1 /\ s[to[k]] = x
    BY <1>2, <1>3, <2>1
  <2> QED
    BY <2>2
<1>6. s \in Arrays(n, X)
  BY <1>2, <1>4, <1>5 DEF Arrays
<1>7. s[i] = m[j] /\ s[j] = m[i] /\ \A k \in 0 .. n - 1 : k # i /\ k # j => s[k] = m[k]
  BY <1>2, <1>3
<1> QED
  BY <1>6, <1>7 DEF s

Children(i) == {2 * i + 1, 2 * i + 2}

(* From f on, no entry of the first e is below its children.               *)
HeapFrom(m, less, f, e) ==
    \A i \in f .. e - 1 : \A c \in Children(i) : c < e => <<m[i], m[c]>> \notin less

(* No child is larger than the larger child (sift_down).                   *)
LEMMA LargerChildIs ==
    ASSUME NEW n \in Nat, NEW X, NEW less, Strict(less, X), NEW m \in Arrays(n, X),
           NEW e \in 0 .. n, NEW r \in Nat, 2 * r + 1 < e
    PROVE  /\ LargerChild(m, r, e, less) \in Children(r) /\ LargerChild(m, r, e, less) < e
           /\ \A c \in Children(r) : c < e => <<m[LargerChild(m, r, e, less)], m[c]>> \notin less
<1> DEFINE a == 2 * r + 1  l == LargerChild(m, r, e, less)
<1>1. a \in 0 .. e - 1 /\ \A c \in Children(r) : c = a \/ c = a + 1
  BY DEF Children
<1>2. a \in Children(r) /\ a + 1 \in Children(r)
  BY DEF Children
<1>3. l = IF a + 1 < e /\ <<m[a], m[a + 1]>> \in less THEN a + 1 ELSE a
  BY DEF LargerChild
<1> HIDE DEF a, l
<1>4. \A k \in 0 .. n - 1 : m[k] \in X
  BY DEF Arrays
<1>5. m[a] \in X /\ (a + 1 < e => m[a + 1] \in X)
  BY <1>1, <1>4
<1>6. \A x \in X : <<x, x>> \notin less
  BY DEF Strict
<1>7. CASE a + 1 < e /\ <<m[a], m[a + 1]>> \in less
  <2>1. l = a + 1 /\ <<m[a + 1], m[a]>> \notin less /\ <<m[a + 1], m[a + 1]>> \notin less
    BY <1>3, <1>5, <1>6, <1>7, NotLess
  <2>2. l \in Children(r) /\ l < e /\ \A c \in Children(r) : c < e => <<m[l], m[c]>> \notin less
    BY <1>1, <1>2, <1>7, <2>1
  <2> QED
    BY <2>2 DEF l
<1>8. CASE ~ (a + 1 < e /\ <<m[a], m[a + 1]>> \in less)
  <2>1. l = a /\ <<m[a], m[a]>> \notin less /\ (a + 1 < e => <<m[a], m[a + 1]>> \notin less)
    BY <1>3, <1>5, <1>6, <1>8
  <2>2. l \in Children(r) /\ l < e /\ \A c \in Children(r) : c < e => <<m[l], m[c]>> \notin less
    BY <1>1, <1>2, <2>1
  <2> QED
    BY <2>2 DEF l
<1> QED
  BY <1>7, <1>8

(* While an entry of m moves down from f, only it may be below its         *)
(* children, and these are not above its parent.                           *)
Sifting(at, m, n, X, less, f, e) ==
    /\ at.mem \in Arrays(n, X) /\ at.root \in Nat /\ at.root >= f
    /\ \A i \in 0 .. n - 1 : i < f \/ i >= e => at.mem[i] = m[i]
    /\ \A i \in f .. e - 1 : i # at.root =>
          \A c \in Children(i) : c < e => <<at.mem[i], at.mem[c]>> \notin less
    /\ \A i \in f .. e - 1 : at.root \in Children(i) =>
          \A c \in Children(at.root) : c < e => <<at.mem[i], at.mem[c]>> \notin less

(* Whether a round of sift_down moves the entry, and what it makes.        *)
MovesDown(at, e, less) ==
    2 * at.root + 1 < e /\ <<at.mem[at.root], at.mem[LargerChild(at.mem, at.root, e, less)]>> \in less

OneDown(at, e, less) ==
    [mem  |-> Swap(at.mem, at.root, LargerChild(at.mem, at.root, e, less)),
     root |-> LargerChild(at.mem, at.root, e, less)]

(* A round that moves the entry keeps Sifting.                             *)
LEMMA SiftStep ==
    ASSUME NEW n \in Nat, NEW X, NEW less, Strict(less, X), NEW m, NEW f \in Nat, NEW e \in 0 .. n,
           NEW at, Sifting(at, m, n, X, less, f, e), MovesDown(at, e, less)
    PROVE  Sifting(OneDown(at, e, less), m, n, X, less, f, e) /\ OneDown(at, e, less).root > at.root
<1> DEFINE a == at.mem  r == at.root  l == LargerChild(a, r, e, less)  b == Swap(a, r, l)
<1>1. /\ a \in Arrays(n, X) /\ r \in Nat /\ r >= f
      /\ \A i \in 0 .. n - 1 : i < f \/ i >= e => a[i] = m[i]
      /\ \A i \in f .. e - 1 : i # r => \A c \in Children(i) : c < e => <<a[i], a[c]>> \notin less
      /\ \A i \in f .. e - 1 : r \in Children(i) => \A c \in Children(r) : c < e => <<a[i], a[c]>> \notin less
  BY DEF Sifting
<1>2. 2 * r + 1 < e /\ <<a[r], a[l]>> \in less
  BY DEF MovesDown
<1>3. OneDown(at, e, less) = [mem |-> b, root |-> l]
  BY DEF OneDown
<1> HIDE DEF a, r
<1>4. l \in Children(r) /\ l < e /\ \A c \in Children(r) : c < e => <<a[l], a[c]>> \notin less
  BY <1>1, <1>2, LargerChildIs
<1> HIDE DEF l
<1>5. r \in 0 .. n - 1 /\ l \in 0 .. n - 1 /\ r < l /\ l \in f .. e - 1 /\ r \in f .. e - 1
  BY <1>1, <1>2, <1>4 DEF Children
<1>6. /\ b \in Arrays(n, X) /\ b[r] = a[l] /\ b[l] = a[r]
      /\ \A k \in 0 .. n - 1 : k # r /\ k # l => b[k] = a[k]
  BY <1>1, <1>5, SwapIs
<1> HIDE DEF b
<1>7. \A i, j \in Nat : \A c \in Children(i) : c \in Nat /\ i < c /\ (c \in Children(j) => i = j)
  BY DEF Children
<1>8. \A k \in 0 .. n - 1 : a[k] \in X
  BY <1>1 DEF Arrays
<1>9. \A i \in 0 .. n - 1 : i < f \/ i >= e => b[i] = m[i]
  BY <1>1, <1>5, <1>6
<1>10. ASSUME NEW i \in f .. e - 1, i # l, NEW c \in Children(i), c < e
       PROVE  <<b[i], b[c]>> \notin less
  <2>1. i \in Nat /\ c \in Nat /\ i < c /\ i \in 0 .. n - 1 /\ c \in 0 .. n - 1
    BY <1>7, <1>10
  <2>2. CASE i = r
    <3>1. b[i] = a[l] /\ (c = l => b[c] = a[r]) /\ (c # l => b[c] = a[c])
      BY <1>6, <2>1, <2>2
    <3>2. <<a[l], a[r]>> \notin less
      BY <1>2, <1>5, <1>8, NotLess
    <3>3. <<a[l], a[c]>> \notin less
      BY <1>4, <1>10, <2>2
    <3> QED
      BY <3>1, <3>2, <3>3
  <2>3. CASE i # r
    <3>1. b[i] = a[i] /\ <<a[i], a[c]>> \notin less
      BY <1>1, <1>6, <1>10, <2>1, <2>3
    <3>2. c # l
      BY <1>1, <1>4, <1>7, <1>10, <2>1, <2>3
    <3>3. CASE c = r
      <4>1. <<a[i], a[l]>> \notin less
        BY <1>1, <1>4, <1>10, <2>3, <3>3
      <4> QED
        BY <1>6, <3>1, <3>3, <4>1
    <3>4. CASE c # r
      BY <1>6, <2>1, <3>1, <3>2, <3>4
    <3> QED
      BY <3>3, <3>4
  <2> QED
    BY <2>2, <2>3
<1>11. ASSUME NEW i \in f .. e - 1, l \in Children(i), NEW c \in Children(l), c < e
       PROVE  <<b[i], b[c]>> \notin less
  <2>1. i = r
    BY <1>1, <1>4, <1>7, <1>11
  <2>2. c \in Nat /\ l < c /\ c \in 0 .. n - 1
    BY <1>5, <1>7, <1>11
  <2>3. b[c] = a[c] /\ b[i] = a[l]
    BY <1>5, <1>6, <2>1, <2>2
  <2>4. <<a[l], a[c]>> \notin less
    BY <1>1, <1>5, <1>11
  <2> QED
    BY <2>3, <2>4
<1>12. l \in Nat /\ l >= f
  BY <1>1, <1>5
<1>13. Sifting([mem |-> b, root |-> l], m, n, X, less, f, e)
  BY <1>6, <1>9, <1>10, <1>11, <1>12 DEF Sifting
<1> QED
  BY <1>3, <1>5, <1>13 DEF r

(* An entry that stays where it is has found its place.                    *)
LEMMA SiftStops ==
    ASSUME NEW n \in Nat, NEW X, NEW less, Strict(less, X), NEW m, NEW f \in Nat, NEW e \in 0 .. n,
           NEW at, Sifting(at, m, n, X, less, f, e), ~ MovesDown(at, e, less)
    PROVE  HeapFrom(at.mem, less, f, e)
<1> DEFINE a == at.mem  r == at.root  l == LargerChild(a, r, e, less)
<1>1. /\ a \in Arrays(n, X) /\ r \in Nat /\ r >= f
      /\ \A i \in f .. e - 1 : i # r => \A c \in Children(i) : c < e => <<a[i], a[c]>> \notin less
  BY DEF Sifting
<1>2. 2 * r + 1 < e => <<a[r], a[l]>> \notin less
  BY DEF MovesDown
<1> HIDE DEF a, r
<1>3. 2 * r + 1 < e =>
          l \in Children(r) /\ l < e /\ \A c \in Children(r) : c < e => <<a[l], a[c]>> \notin less
  BY <1>1, LargerChildIs
<1> HIDE DEF l
<1>4. \A k \in 0 .. n - 1 : a[k] \in X
  BY <1>1 DEF Arrays
<1>5. ASSUME NEW c \in Children(r), c < e PROVE <<a[r], a[c]>> \notin less
  <2>1. 2 * r + 1 < e /\ c \in 0 .. n - 1 /\ r \in 0 .. n - 1
    BY <1>1, <1>5 DEF Children
  <2>2. l \in 0 .. n - 1
    BY <1>1, <1>3, <2>1 DEF Children
  <2>3. <<a[r], a[l]>> \notin less /\ <<a[l], a[c]>> \notin less /\ a[r] \in X /\ a[l] \in X /\ a[c] \in X
    BY <1>2, <1>3, <1>4, <1>5, <2>1, <2>2
  <2>4. \A z \in X : <<a[r], a[l]>> \notin less /\ <<a[l], z>> \notin less => <<a[r], z>> \notin less
    BY <2>3, NotLess
  <2> QED
    BY <2>3, <2>4
<1>6. HeapFrom(a, less, f, e)
  BY <1>1, <1>5 DEF HeapFrom
<1> QED
  BY <1>6 DEF a

(* sift_down restores the heap from the entry at f on.                     *)
LEMMA SiftDownIs ==
    ASSUME NEW n \in Nat, NEW X, NEW less, Strict(less, X), NEW m \in Arrays(n, X), NEW f \in Nat,
           NEW e \in 0 .. n, HeapFrom(m, less, f + 1, e)
    PROVE  /\ SiftDown(m, f, e, less) \in Arrays(n, X)
           /\ \A i \in 0 .. n - 1 : i < f \/ i >= e => SiftDown(m, f, e, less)[i] = m[i]
           /\ HeapFrom(SiftDown(m, f, e, less), less, f, e)
<1> DEFINE V == {at \in [mem : Arrays(n, X), root : Nat] : Sifting(at, m, n, X, less, f, e)}
           v == [mem |-> m, root |-> f]
           go == [k \in 0 .. e |-> [at \in V |-> IF MovesDown(at, e, less) THEN OneDown(at, e, less) ELSE at]]
           Body(g) == [k \in 0 .. e |->
                          IF k = 0 THEN [mem |-> m, root |-> f]
                          ELSE IF 2 * g[k - 1].root + 1 < e
                                  /\ <<g[k - 1].mem[g[k - 1].root],
                                       g[k - 1].mem[LargerChild(g[k - 1].mem, g[k - 1].root, e, less)]>> \in less
                          THEN [mem |-> Swap(g[k - 1].mem, g[k - 1].root,
                                             LargerChild(g[k - 1].mem, g[k - 1].root, e, less)),
                                root |-> LargerChild(g[k - 1].mem, g[k - 1].root, e, less)]
                          ELSE g[k - 1]]
           sift == CHOOSE g : g = Body(g)
<1>1. v \in V
  <2>1. \A i \in f .. e - 1 : i # f => i \in f + 1 .. e - 1
    OBVIOUS
  <2>2. \A i \in f .. e - 1 : i # f => \A c \in Children(i) : c < e => <<m[i], m[c]>> \notin less
    BY <2>1 DEF HeapFrom
  <2>3. \A i \in f .. e - 1 : f \notin Children(i)
    BY DEF Children
  <2>4. v.mem = m /\ v.root = f /\ v \in [mem : Arrays(n, X), root : Nat]
    OBVIOUS
  <2> HIDE DEF v
  <2>5. Sifting(v, m, n, X, less, f, e)
    BY <2>2, <2>3, <2>4 DEF Sifting
  <2> QED
    BY <2>4, <2>5
<1>2. ASSUME NEW at \in V, MovesDown(at, e, less)
      PROVE  OneDown(at, e, less) \in V /\ OneDown(at, e, less).root > at.root
  <2>1. Sifting(at, m, n, X, less, f, e)
    OBVIOUS
  <2>2. /\ Sifting(OneDown(at, e, less), m, n, X, less, f, e)
        /\ OneDown(at, e, less).root > at.root
    BY <1>2, <2>1, SiftStep
  <2>3. OneDown(at, e, less).mem \in Arrays(n, X) /\ OneDown(at, e, less).root \in Nat
    BY <2>2 DEF Sifting
  <2>4. OneDown(at, e, less) \in [mem : Arrays(n, X), root : Nat]
    BY <2>3 DEF OneDown
  <2> QED
    BY <2>2, <2>4
<1>3. go \in [0 .. e -> [V -> V]]
  <2> HIDE DEF V
  <2> QED BY <1>2
<1>4. PICK h \in [0 .. e -> V] : h[0] = v /\ \A k \in 0 + 1 .. e : h[k] = go[k][h[k - 1]]
  <2>1. \E h : Iterates(h, 0, e, V, v, go)
    <3>1. 0 \in Nat /\ e \in Nat /\ 0 <= e
      OBVIOUS
    <3> HIDE DEF go, V, v
    <3> QED BY <1>1, <1>3, <3>1, RecursionExists
  <2> QED
    BY <2>1 DEF Iterates
<1>5. ASSUME NEW k \in 0 .. e, k # 0
      PROVE  /\ k - 1 \in 0 .. e /\ h[k - 1] \in V
             /\ h[k] = IF MovesDown(h[k - 1], e, less) THEN OneDown(h[k - 1], e, less) ELSE h[k - 1]
  <2>1. k - 1 \in 0 .. e /\ k \in 0 + 1 .. e
    BY <1>5
  <2> HIDE DEF V
  <2> QED
    BY <1>4, <2>1
<1>6. h = Body(h)
  <2>1. h = [k \in 0 .. e |-> h[k]]
    OBVIOUS
  <2>2. \A k \in 0 .. e : h[k] = Body(h)[k]
    BY <1>4, <1>5 DEF MovesDown, OneDown
  <2>3. Body(h) = [k \in 0 .. e |-> Body(h)[k]]
    OBVIOUS
  <2> HIDE DEF Body
  <2> QED
    BY <2>1, <2>2, <2>3
<1>7. sift = Body(sift)
  <2> HIDE DEF Body
  <2> QED BY <1>6
<1>8. SiftDown(m, f, e, less) = sift[e].mem
  BY DEF SiftDown
<1> HIDE DEF sift
<1>9. /\ sift[0] = v
      /\ \A k \in 0 .. e : k # 0 =>
            sift[k] = IF MovesDown(sift[k - 1], e, less) THEN OneDown(sift[k - 1], e, less) ELSE sift[k - 1]
  <2>1. Body(sift)[0] = v
    OBVIOUS
  <2>2. ASSUME NEW k \in 0 .. e, k # 0
        PROVE  Body(sift)[k] =
                  IF MovesDown(sift[k - 1], e, less) THEN OneDown(sift[k - 1], e, less) ELSE sift[k - 1]
    BY <2>2 DEF MovesDown, OneDown
  <2> HIDE DEF Body, v
  <2> QED
    BY <1>7, <2>1, <2>2
<1> DEFINE S == {k \in 0 .. e : /\ sift[k] \in V
                                /\ sift[k].root >= k \/ ~ MovesDown(sift[k], e, less)}
<1>10. 0 \in S
  <2>1. v.root >= 0
    OBVIOUS
  <2> HIDE DEF V, v
  <2> QED
    BY <1>1, <1>9, <2>1
<1>11. ASSUME NEW k \in 0 .. e - 1, k \in S PROVE k + 1 \in S
  <2>1. k + 1 \in 0 .. e /\ k + 1 # 0 /\ (k + 1) - 1 = k
    OBVIOUS
  <2>2. sift[k + 1] = IF MovesDown(sift[k], e, less) THEN OneDown(sift[k], e, less) ELSE sift[k]
    BY <1>9, <2>1
  <2>3. sift[k] \in V /\ (sift[k].root >= k \/ ~ MovesDown(sift[k], e, less))
    BY <1>11
  <2>4. \A at \in V : at.root \in Nat
    OBVIOUS
  <2> HIDE DEF V
  <2>5. CASE MovesDown(sift[k], e, less)
    <3>1. /\ sift[k + 1] \in V /\ sift[k + 1].root > sift[k].root
          /\ sift[k].root >= k /\ sift[k].root \in Nat /\ sift[k + 1].root \in Nat
      BY <1>2, <2>2, <2>3, <2>4, <2>5
    <3>2. sift[k + 1].root >= k + 1
      BY <3>1
    <3> QED
      BY <2>1, <3>1, <3>2
  <2>6. CASE ~ MovesDown(sift[k], e, less)
    BY <2>1, <2>2, <2>3, <2>6
  <2> QED
    BY <2>5, <2>6
<1>12. e \in S
  <2>1. 0 .. e \subseteq S
    <3>1. 0 \in Nat /\ e \in Nat /\ \A k \in 0 .. e - 1 : k \in S => k + 1 \in S
      BY <1>11
    <3> HIDE DEF S
    <3> QED BY <1>10, <3>1, IntervalInduction
  <2> QED
    BY <2>1
<1> DEFINE at == sift[e]
<1>13. at \in V /\ (at.root >= e \/ ~ MovesDown(at, e, less))
  BY <1>12
<1>14. Sifting(at, m, n, X, less, f, e) /\ at.root \in Nat /\ at.mem \in Arrays(n, X)
  BY <1>13
<1> HIDE DEF V, at
<1>15. ~ MovesDown(at, e, less)
  <2>1. at.root >= e => ~ (2 * at.root + 1 < e)
    BY <1>14
  <2> QED
    BY <1>13, <2>1 DEF MovesDown
<1>16. HeapFrom(at.mem, less, f, e)
  BY <1>14, <1>15, SiftStops
<1>17. \A i \in 0 .. n - 1 : i < f \/ i >= e => at.mem[i] = m[i]
  BY <1>14 DEF Sifting
<1>18. SiftDown(m, f, e, less) = at.mem
  BY <1>8 DEF at
<1> QED
  BY <1>14, <1>16, <1>17, <1>18

(* The first entry of a heap is a largest one.                             *)
LEMMA RootIsLargest ==
    ASSUME NEW n \in Nat, NEW X, NEW less, Strict(less, X), NEW m \in Arrays(n, X),
           NEW e \in 0 .. n, HeapFrom(m, less, 0, e)
    PROVE  \A i \in 0 .. e - 1 : <<m[0], m[i]>> \notin less
<1> DEFINE bad == {i \in 0 .. e - 1 : <<m[0], m[i]>> \in less}
<1> SUFFICES ASSUME bad # {} PROVE FALSE
  OBVIOUS
<1>1. PICK i \in bad : \A j \in bad : i <= j
  <2>1. bad \subseteq Nat
    OBVIOUS
  <2> HIDE DEF bad
  <2> QED BY <2>1, LeastNatural
<1>2. i \in 0 .. e - 1 /\ <<m[0], m[i]>> \in less
  OBVIOUS
<1>3. \A k \in 0 .. n - 1 : m[k] \in X
  BY DEF Arrays
<1>4. \A x \in X : <<x, x>> \notin less
  BY DEF Strict
<1>5. i # 0
  BY <1>2, <1>3, <1>4
<1> DEFINE p == (i - 1) \div 2
<1>6. p \in 0 .. e - 1 /\ p < i /\ i \in Children(p)
  BY <1>2, <1>5 DEF Children
<1> HIDE DEF p
<1>7. <<m[p], m[i]>> \notin less
  BY <1>2, <1>6 DEF HeapFrom
<1>8. <<m[0], m[p]>> \notin less
  <2>1. p \notin bad
    BY <1>1, <1>2, <1>6
  <2> QED
    BY <1>6, <2>1
<1>9. m[0] \in X /\ m[p] \in X /\ m[i] \in X
  BY <1>2, <1>3, <1>6
<1>10. \A z \in X : <<m[0], m[p]>> \notin less /\ <<m[p], z>> \notin less => <<m[0], z>> \notin less
  <2> DEFINE x == m[0]  y == m[p]
  <2>1. x \in X /\ y \in X
    BY <1>9
  <2> HIDE DEF x, y
  <2>2. \A z \in X : <<x, y>> \notin less /\ <<y, z>> \notin less => <<x, z>> \notin less
    BY <2>1, NotLess
  <2> QED
    BY <2>2 DEF x, y
<1> QED
  BY <1>2, <1>7, <1>8, <1>9, <1>10

(* The first e entries are a heap, and those after them are in place.      *)
HeapSorted(m, less, n, e) ==
    /\ HeapFrom(m, less, 0, e)
    /\ \A i \in e .. n - 1 : \A j \in 0 .. i - 1 : <<m[i], m[j]>> \notin less

(* The root goes behind the heap, which gets a new root.                   *)
LEMMA SortStep ==
    ASSUME NEW n \in Nat, NEW X, NEW less, Strict(less, X), NEW a \in Arrays(n, X),
           NEW e \in 1 .. n - 1, HeapSorted(a, less, n, e + 1)
    PROVE  /\ SiftDown(Swap(a, 0, e), 0, e, less) \in Arrays(n, X)
           /\ HeapSorted(SiftDown(Swap(a, 0, e), 0, e, less), less, n, e)
<1> DEFINE b == Swap(a, 0, e)  s == SiftDown(b, 0, e, less)
<1>1. /\ b \in Arrays(n, X) /\ b[0] = a[e] /\ b[e] = a[0]
      /\ \A k \in 0 .. n - 1 : k # 0 /\ k # e => b[k] = a[k]
  <2>1. 0 \in 0 .. n - 1 /\ e \in 0 .. n - 1
    OBVIOUS
  <2> QED
    BY <2>1, SwapIs
<1> HIDE DEF b
<1>2. HeapFrom(a, less, 0, e + 1) /\ \A i \in e + 1 .. n - 1 : \A j \in 0 .. i - 1 : <<a[i], a[j]>> \notin less
  BY DEF HeapSorted
<1>3. \A i \in 0 .. e : <<a[0], a[i]>> \notin less
  <2>1. e + 1 \in 0 .. n /\ (e + 1) - 1 = e
    OBVIOUS
  <2> QED
    BY <1>2, <2>1, RootIsLargest
<1>4. HeapFrom(b, less, 0 + 1, e)
  <2> SUFFICES ASSUME NEW i \in 1 .. e - 1, NEW c \in Children(i), c < e
               PROVE  <<b[i], b[c]>> \notin less
    BY DEF HeapFrom
  <2>1. c \in 0 .. n - 1 /\ c # 0 /\ c # e /\ i \in 0 .. n - 1 /\ i # 0 /\ i # e
    BY DEF Children
  <2>2. b[i] = a[i] /\ b[c] = a[c]
    BY <1>1, <2>1
  <2>3. <<a[i], a[c]>> \notin less
    <3>1. i \in 0 .. (e + 1) - 1 /\ c < e + 1
      BY <2>1
    <3> QED
      BY <1>2, <3>1 DEF HeapFrom
  <2> QED
    BY <2>2, <2>3
<1>5. /\ s \in Arrays(n, X) /\ HeapFrom(s, less, 0, e)
      /\ \A i \in 0 .. n - 1 : i < 0 \/ i >= e => s[i] = b[i]
  <2>1. e \in 0 .. n /\ 0 \in Nat
    OBVIOUS
  <2> QED
    BY <1>1, <1>4, <2>1, SiftDownIs
<1> HIDE DEF s
<1>6. ASSUME NEW j \in 0 .. e - 1 PROVE \E k \in 0 .. e : s[j] = a[k]
  <2>1. s[j] \in X
    <3>1. j \in 0 .. n - 1
      OBVIOUS
    <3>2. \A k \in 0 .. n - 1 : s[k] \in X
      BY <1>5 DEF Arrays
    <3> QED
      BY <3>1, <3>2
  <2>2. PICK k \in 0 .. n - 1 : b[k] = s[j]
    BY <1>1, <2>1 DEF Arrays
  <2>3. k < e
    <3> SUFFICES ASSUME k >= e PROVE FALSE
      OBVIOUS
    <3>1. s[k] = s[j] /\ j \in 0 .. n - 1
      BY <1>5, <2>2
    <3>2. k = j
      BY <1>5, <3>1 DEF Arrays
    <3> QED
      BY <3>2
  <2>4. b[k] = a[e] \/ b[k] = a[k]
    BY <1>1, <2>3
  <2> QED
    BY <2>2, <2>3, <2>4
<1>7. s[e] = a[0] /\ \A i \in e + 1 .. n - 1 : s[i] = a[i]
  BY <1>1, <1>5
<1>8. ASSUME NEW i \in e .. n - 1, NEW j \in 0 .. i - 1 PROVE <<s[i], s[j]>> \notin less
  <2>1. CASE i = e
    <3>1. PICK k \in 0 .. e : s[j] = a[k]
      BY <1>6, <2>1
    <3> QED
      BY <1>3, <1>7, <2>1, <3>1
  <2>2. CASE i # e
    <3>1. i \in e + 1 .. n - 1 /\ s[i] = a[i]
      BY <1>7, <2>2
    <3>2. PICK k \in 0 .. i - 1 : s[j] = a[k]
      <4>1. CASE j < e
        <5>1. PICK k \in 0 .. e : s[j] = a[k]
          BY <1>6, <4>1
        <5> QED
          BY <3>1, <5>1
      <4>2. CASE j = e
        BY <1>7, <3>1, <4>2
      <4>3. CASE j > e
        BY <1>7, <3>1, <4>3
      <4> QED
        BY <4>1, <4>2, <4>3
    <3> QED
      BY <1>2, <3>1, <3>2
  <2> QED
    BY <2>1, <2>2
<1>9. HeapSorted(s, less, n, e)
  BY <1>5, <1>8 DEF HeapSorted
<1> QED
  BY <1>5, <1>9 DEF s, b

(* sorted_array_sort and chat_scratch_sort: the entries in order.          *)
LEMMA SortedIs ==
    ASSUME NEW n \in Nat, NEW X, NEW less, Strict(less, X), NEW m \in Arrays(n, X)
    PROVE  /\ Sorted(m, n, less) \in Arrays(n, X)
           /\ \A i, j \in 0 .. n - 1 : i < j => <<Sorted(m, n, less)[i], Sorted(m, n, less)[j]>> \in less
<1> DEFINE A == Arrays(n, X)  half == n \div 2
           Parents(g) == [k \in 0 .. half |-> IF k = 0 THEN m ELSE SiftDown(g[k - 1], half - k, n, less)]
           heap == CHOOSE g : g = Parents(g)
           Rest(g) == [k \in 0 .. n - 1 |->
                          IF k = 0 THEN heap[half] ELSE SiftDown(Swap(g[k - 1], 0, n - k), 0, n - k, less)]
           rest == CHOOSE g : g = Rest(g)
<1>1. Sorted(m, n, less) = IF n < 2 THEN m ELSE rest[n - 1]
  BY DEF Sorted
<1>2. CASE n < 2
  <2>1. \A i, j \in 0 .. n - 1 : ~ (i < j)
    BY <1>2
  <2> QED
    BY <1>1, <1>2, <2>1
<1>3. CASE n >= 2
  <2>1. half \in Nat /\ half >= 1 /\ \A i \in Nat : i >= half => 2 * i + 1 >= n
    BY <1>3
  <2> HIDE DEF half
  <2>2. heap[half] \in A /\ HeapFrom(heap[half], less, 0, n)
    <3> DEFINE Good(a, k) == HeapFrom(a, less, half - k, n)
               go == [k \in 0 .. half |-> [a \in A |->
                         IF k # 0 /\ Good(a, k - 1) THEN SiftDown(a, half - k, n, less) ELSE a]]
    <3>1. ASSUME NEW a \in A, NEW k \in 0 .. half, k # 0, Good(a, k - 1)
          PROVE  SiftDown(a, half - k, n, less) \in A /\ Good(SiftDown(a, half - k, n, less), k)
      <4>1. half - k \in Nat /\ n \in 0 .. n /\ half - (k - 1) = (half - k) + 1
        BY <2>1, <3>1
      <4>2. HeapFrom(a, less, (half - k) + 1, n)
        BY <3>1, <4>1
      <4> QED
        BY <4>1, <4>2, SiftDownIs
    <3>2. go \in [0 .. half -> [A -> A]]
      <4> HIDE DEF A, Good
      <4> QED BY <3>1
    <3>3. Good(m, 0) /\ m \in A
      <4>1. \A i \in half .. n - 1 : \A c \in Children(i) : ~ (c < n)
        BY <2>1 DEF Children
      <4> QED
        BY <2>1, <4>1 DEF HeapFrom
    <3>4. PICK h \in [0 .. half -> A] : h[0] = m /\ \A k \in 0 + 1 .. half : h[k] = go[k][h[k - 1]]
      <4>1. \E h : Iterates(h, 0, half, A, m, go)
        <5>1. 0 \in Nat /\ 0 <= half
          BY <2>1
        <5> HIDE DEF go, A
        <5> QED BY <2>1, <3>2, <3>3, <5>1, RecursionExists
      <4> QED
        BY <4>1 DEF Iterates
    <3> DEFINE S == {k \in 0 .. half : Good(h[k], k)}
    <3>5. 0 \in S
      BY <2>1, <3>3, <3>4
    <3>6. ASSUME NEW k \in 0 .. half - 1, k \in S
          PROVE  k + 1 \in S /\ h[k + 1] = SiftDown(h[k], half - (k + 1), n, less)
      <4>1. k + 1 \in 0 .. half /\ k + 1 # 0 /\ (k + 1) - 1 = k /\ k + 1 \in 0 + 1 .. half /\ k \in 0 .. half
        BY <2>1
      <4>2. h[k] \in A /\ Good(h[k], k)
        BY <3>4, <3>6, <4>1
      <4> DEFINE q == k + 1
      <4>3. q \in 0 .. half /\ q # 0 /\ q - 1 = k /\ q \in 0 + 1 .. half
        BY <4>1
      <4> HIDE DEF Good, A, q
      <4>4. h[q] = go[q][h[k]]
        BY <3>4, <4>3
      <4>5. h[q] = SiftDown(h[k], half - q, n, less)
        BY <4>2, <4>3, <4>4
      <4>6. Good(h[q], q)
        BY <3>1, <4>2, <4>3, <4>5
      <4> QED
        BY <4>3, <4>5, <4>6 DEF q
    <3>7. \A k \in 0 .. half : k \in S
      <4>1. 0 .. half \subseteq S
        <5>1. 0 \in Nat /\ \A k \in 0 .. half - 1 : k \in S => k + 1 \in S
          BY <3>6
        <5> HIDE DEF S
        <5> QED BY <2>1, <3>5, <5>1, IntervalInduction
      <4> QED
        BY <4>1
    <3>8. h = Parents(h)
      <4>1. ASSUME NEW k \in 0 .. half, k # 0 PROVE h[k] = SiftDown(h[k - 1], half - k, n, less)
        <5>1. k - 1 \in 0 .. half - 1 /\ (k - 1) + 1 = k /\ k - 1 \in 0 .. half
          BY <2>1, <4>1
        <5> HIDE DEF S
        <5> QED
          BY <3>6, <3>7, <5>1
      <4>2. h = [k \in 0 .. half |-> h[k]]
        OBVIOUS
      <4>3. \A k \in 0 .. half : h[k] = IF k = 0 THEN m ELSE SiftDown(h[k - 1], half - k, n, less)
        BY <3>4, <4>1
      <4> QED
        BY <4>2, <4>3
    <3>9. heap = Parents(heap)
      <4> HIDE DEF Parents
      <4> QED BY <3>8
    <3> HIDE DEF heap
    <3>10. /\ heap[0] = m
           /\ \A k \in 0 .. half : k # 0 => heap[k] = SiftDown(heap[k - 1], half - k, n, less)
      <4>1. Parents(heap)[0] = m
        BY <2>1
      <4>2. \A k \in 0 .. half : k # 0 => Parents(heap)[k] = SiftDown(heap[k - 1], half - k, n, less)
        OBVIOUS
      <4> HIDE DEF Parents
      <4> QED
        BY <3>9, <4>1, <4>2
    <3> DEFINE R == {k \in 0 .. half : heap[k] \in A /\ Good(heap[k], k)}
    <3>11. 0 \in R
      BY <2>1, <3>3, <3>10
    <3>12. ASSUME NEW k \in 0 .. half - 1, k \in R PROVE k + 1 \in R
      <4> DEFINE q == k + 1
      <4>1. q \in 0 .. half /\ q # 0 /\ q - 1 = k
        BY <2>1
      <4>2. heap[k] \in A /\ Good(heap[k], k)
        BY <3>12
      <4> HIDE DEF Good, A, q
      <4>3. heap[q] = SiftDown(heap[k], half - q, n, less)
        BY <3>10, <4>1
      <4>4. heap[q] \in A /\ Good(heap[q], q)
        BY <3>1, <4>1, <4>2, <4>3
      <4> QED
        BY <4>1, <4>4 DEF q
    <3>13. half \in R
      <4>1. 0 .. half \subseteq R
        <5>1. 0 \in Nat /\ \A k \in 0 .. half - 1 : k \in R => k + 1 \in R
          BY <3>12
        <5> HIDE DEF R
        <5> QED BY <2>1, <3>11, <5>1, IntervalInduction
      <4>2. half \in 0 .. half
        BY <2>1
      <4> QED
        BY <4>1, <4>2
    <3>14. half - half = 0
      BY <2>1
    <3> QED
      BY <3>13, <3>14
  <2> DEFINE start == heap[half]
             last == n - 1
  <2>3. start \in A /\ HeapSorted(start, less, n, n - 0)
    <3>1. n - 0 = n /\ n .. n - 1 = {}
      OBVIOUS
    <3> QED
      BY <2>2, <3>1 DEF HeapSorted
  <2>4. ASSUME NEW a \in A, NEW k \in 0 .. last, k # 0, HeapSorted(a, less, n, n - (k - 1))
        PROVE  /\ SiftDown(Swap(a, 0, n - k), 0, n - k, less) \in A
               /\ HeapSorted(SiftDown(Swap(a, 0, n - k), 0, n - k, less), less, n, n - k)
    <3> DEFINE e == n - k
    <3>1. e \in 1 .. n - 1 /\ n - (k - 1) = e + 1
      BY <2>4
    <3> HIDE DEF e
    <3>2. HeapSorted(a, less, n, e + 1)
      BY <2>4, <3>1
    <3>3. /\ SiftDown(Swap(a, 0, e), 0, e, less) \in A
          /\ HeapSorted(SiftDown(Swap(a, 0, e), 0, e, less), less, n, e)
      BY <3>1, <3>2, SortStep
    <3> QED
      BY <3>3 DEF e
  <2>5. last \in Nat /\ n - last = 1
    BY <1>3
  <2> HIDE DEF start, last
  <2> DEFINE Next2(a, k) == SiftDown(Swap(a, 0, n - k), 0, n - k, less)
             Good(a, k) == HeapSorted(a, less, n, n - k)
             go == [k \in 0 .. last |-> [a \in A |-> IF k # 0 /\ Good(a, k - 1) THEN Next2(a, k) ELSE a]]
             Body(g) == [k \in 0 .. last |-> IF k = 0 THEN start ELSE Next2(g[k - 1], k)]
  <2>6. /\ start \in A /\ Good(start, 0)
        /\ \A a \in A : \A k \in 0 .. last :
              k # 0 /\ Good(a, k - 1) => Next2(a, k) \in A /\ Good(Next2(a, k), k)
    BY <2>3, <2>4
  <2>7. rest = CHOOSE g : g = Body(g)
    BY DEF start, last
  <2> HIDE DEF Next2, Good, rest, A
  <2>8. go \in [0 .. last -> [A -> A]]
    BY <2>6
  <2>9. PICK h \in [0 .. last -> A] : h[0] = start /\ \A k \in 0 + 1 .. last : h[k] = go[k][h[k - 1]]
    <3>1. \E h : Iterates(h, 0, last, A, start, go)
      <4>1. 0 \in Nat /\ 0 <= last /\ start \in A
        BY <2>5, <2>6
      <4> HIDE DEF go
      <4> QED BY <2>5, <2>8, <4>1, RecursionExists
    <3> QED
      BY <3>1 DEF Iterates
  <2> DEFINE S == {k \in 0 .. last : Good(h[k], k)}
  <2>10. 0 \in S
    BY <2>5, <2>6, <2>9
  <2>11. ASSUME NEW k \in 0 .. last - 1, k \in S
         PROVE  k + 1 \in S /\ h[k + 1] = Next2(h[k], k + 1)
    <3> DEFINE q == k + 1
    <3>1. q \in 0 .. last /\ q # 0 /\ q - 1 = k /\ q \in 0 + 1 .. last /\ k \in 0 .. last
      BY <2>5
    <3>2. h[k] \in A /\ Good(h[k], k)
      BY <2>9, <2>11, <3>1
    <3> HIDE DEF q
    <3>3. h[q] = go[q][h[k]]
      BY <2>9, <3>1
    <3>4. h[q] = Next2(h[k], q)
      BY <3>1, <3>2, <3>3
    <3>5. Good(h[q], q)
      BY <2>6, <3>1, <3>2, <3>4
    <3> QED
      BY <3>1, <3>4, <3>5 DEF q
  <2>12. \A k \in 0 .. last : k \in S
    <3>1. 0 .. last \subseteq S
      <4>1. 0 \in Nat /\ \A k \in 0 .. last - 1 : k \in S => k + 1 \in S
        BY <2>11
      <4> HIDE DEF S
      <4> QED BY <2>5, <2>10, <4>1, IntervalInduction
    <3> QED
      BY <3>1
  <2>13. h = Body(h)
    <3>1. ASSUME NEW k \in 0 .. last, k # 0 PROVE h[k] = Next2(h[k - 1], k)
      <4>1. k - 1 \in 0 .. last - 1 /\ (k - 1) + 1 = k /\ k - 1 \in 0 .. last
        BY <2>5, <3>1
      <4> HIDE DEF S
      <4> QED
        BY <2>11, <2>12, <4>1
    <3>2. h = [k \in 0 .. last |-> h[k]]
      OBVIOUS
    <3>3. \A k \in 0 .. last : h[k] = IF k = 0 THEN start ELSE Next2(h[k - 1], k)
      BY <2>9, <3>1
    <3> QED
      BY <3>2, <3>3
  <2>14. rest = Body(rest)
    <3> HIDE DEF Body
    <3> QED BY <2>7, <2>13
  <2>15. /\ rest[0] = start
         /\ \A k \in 0 .. last : k # 0 => rest[k] = Next2(rest[k - 1], k)
    <3>1. Body(rest)[0] = start
      BY <2>5
    <3>2. \A k \in 0 .. last : k # 0 => Body(rest)[k] = Next2(rest[k - 1], k)
      OBVIOUS
    <3> HIDE DEF Body
    <3> QED
      BY <2>14, <3>1, <3>2
  <2> DEFINE R == {k \in 0 .. last : rest[k] \in A /\ Good(rest[k], k)}
  <2>16. 0 \in R
    BY <2>5, <2>6, <2>15
  <2>17. ASSUME NEW k \in 0 .. last - 1, k \in R PROVE k + 1 \in R
    <3> DEFINE q == k + 1
    <3>1. q \in 0 .. last /\ q # 0 /\ q - 1 = k
      BY <2>5
    <3>2. rest[k] \in A /\ Good(rest[k], k)
      BY <2>17
    <3> HIDE DEF q
    <3>3. rest[q] = Next2(rest[k], q)
      BY <2>15, <3>1
    <3>4. rest[q] \in A /\ Good(rest[q], q)
      BY <2>6, <3>1, <3>2, <3>3
    <3> QED
      BY <3>1, <3>4 DEF q
  <2>18. rest[last] \in A /\ Good(rest[last], last)
    <3>1. 0 .. last \subseteq R
      <4>1. 0 \in Nat /\ \A k \in 0 .. last - 1 : k \in R => k + 1 \in R
        BY <2>17
      <4> HIDE DEF R
      <4> QED BY <2>5, <2>16, <4>1, IntervalInduction
    <3>2. last \in 0 .. last
      BY <2>5
    <3> QED
      BY <3>1, <3>2
  <2> DEFINE s == rest[last]
  <2>19. s \in Arrays(n, X) /\ HeapSorted(s, less, n, 1)
    BY <2>5, <2>18 DEF Good, A
  <2>20. Sorted(m, n, less) = s
    BY <1>1, <1>3 DEF last
  <2> HIDE DEF s
  <2>21. ASSUME NEW i \in 0 .. n - 1, NEW j \in 0 .. n - 1, i < j PROVE <<s[i], s[j]>> \in less
    <3>1. <<s[j], s[i]>> \notin less
      <4>1. j \in 1 .. n - 1 /\ i \in 0 .. j - 1
        BY <2>21
      <4> QED
        BY <2>19, <4>1 DEF HeapSorted
    <3>2. s[i] \in X /\ s[j] \in X /\ s[i] # s[j]
      BY <2>19, <2>21 DEF Arrays
    <3> DEFINE x == s[i]  y == s[j]
    <3>3. x \in X /\ y \in X /\ x # y /\ <<y, x>> \notin less
      BY <3>1, <3>2
    <3> HIDE DEF x, y
    <3>4. <<x, y>> \in less
      BY <3>3, NotLess
    <3> QED
      BY <3>4 DEF x, y
  <2> QED
    BY <2>19, <2>20, <2>21
<1> QED
  BY <1>2, <1>3

-----------------------------------------------------------------------------
(* The index that lists the contacts of the cells L, in h, as it should.   *)
Entry(h, c) == [key |-> MakeKey(h[c].name), cell |-> c]

(* Contacts with phones of their own.                                      *)
Holds(h, L) ==
    /\ \A c \in L : h[c] \in Contact
    /\ \A c, d \in L : c # d => h[c].phone # h[d].phone

(* Every cell of L and no other, in order.                                 *)
Listing(s, h, L) ==
    /\ s \in Seq({Entry(h, c) : c \in L})
    /\ \A c \in L : \E k \in 1 .. Len(s) : s[k].cell = c
    /\ \A j, k \in 1 .. Len(s) : j < k => Precedes(h[s[j].cell], h[s[k].cell])

(* What an entry of a listing is.                                          *)
LEMMA ListingIs ==
    ASSUME NEW h, NEW L, NEW s, Listing(s, h, L)
    PROVE  /\ Len(s) \in Nat
           /\ \A k \in 1 .. Len(s) : s[k].cell \in L /\ s[k] = Entry(h, s[k].cell)
                                     /\ s[k].key = MakeKey(h[s[k].cell].name)
<1>1. s \in Seq({Entry(h, c) : c \in L})
  BY DEF Listing
<1>2. Len(s) \in Nat
  BY <1>1, LenProperties
<1>3. \A k \in 1 .. Len(s) : s[k] \in {Entry(h, c) : c \in L}
  BY <1>1, ElementOfSeq
<1>4. \A c \in L : Entry(h, c).cell = c /\ Entry(h, c).key = MakeKey(h[c].name)
  BY DEF Entry
<1>5. ASSUME NEW k \in 1 .. Len(s)
      PROVE  s[k].cell \in L /\ s[k] = Entry(h, s[k].cell) /\ s[k].key = MakeKey(h[s[k].cell].name)
  <2>1. PICK c \in L : s[k] = Entry(h, c)
    BY <1>3
  <2>2. s[k].cell = c /\ s[k].key = MakeKey(h[c].name)
    BY <1>4, <2>1
  <2> QED
    BY <2>1, <2>2
<1> QED
  BY <1>2, <1>5

(* Each contact is listed at one position.                                 *)
LEMMA ListedOnce ==
    ASSUME NEW h, NEW L, Holds(h, L), NEW s, Listing(s, h, L),
           NEW j \in 1 .. Len(s), NEW k \in 1 .. Len(s)
    PROVE  /\ s[j].cell = s[k].cell => j = k
           /\ Precedes(h[s[j].cell], h[s[k].cell]) <=> j < k
<1>1. Len(s) \in Nat /\ s[j].cell \in L /\ s[k].cell \in L
  BY ListingIs
<1>2. h[s[j].cell] \in Contact /\ h[s[k].cell] \in Contact
  BY <1>1 DEF Holds
<1>3. /\ ~ Precedes(h[s[j].cell], h[s[j].cell])
      /\ ~ (Precedes(h[s[j].cell], h[s[k].cell]) /\ Precedes(h[s[k].cell], h[s[j].cell]))
  BY <1>2, PrecedesOrder
<1>4. /\ j < k => Precedes(h[s[j].cell], h[s[k].cell])
      /\ k < j => Precedes(h[s[k].cell], h[s[j].cell])
  BY DEF Listing
<1>5. j < k \/ k < j \/ j = k
  BY <1>1
<1> QED
  BY <1>3, <1>4, <1>5

(* A listing has as many entries as there are cells.                       *)
LEMMA ListingSize ==
    ASSUME NEW h, NEW L, Holds(h, L), NEW s, Listing(s, h, L)
    PROVE  IsFiniteSet(L) /\ Cardinality(L) = Len(s)
<1> DEFINE T == 1 .. Len(s)
           f == [k \in T |-> s[k].cell]
<1>1. Len(s) \in Nat /\ \A k \in T : s[k].cell \in L
  BY ListingIs
<1>2. \A j, k \in T : s[j].cell = s[k].cell => j = k
  BY ListedOnce
<1>3. \A c \in L : \E k \in T : s[k].cell = c
  BY DEF Listing
<1>4. IsFiniteSet(T) /\ Cardinality(T) = Len(s)
  BY <1>1, FS_Interval
<1>5. f \in [T -> L] /\ (\A j, k \in T : f[j] = f[k] => j = k) /\ (\A c \in L : \E k \in T : f[k] = c)
  BY <1>1, <1>2, <1>3
<1>6. IsFiniteSet(L) /\ Cardinality(L) = Cardinality(T)
  <2> HIDE DEF f, T
  <2> QED BY <1>4, <1>5, SameSize
<1> QED
  BY <1>4, <1>6

(* There is one listing.                                                   *)
LEMMA OneListing ==
    ASSUME NEW h, NEW L, Holds(h, L), NEW s, Listing(s, h, L), NEW t, Listing(t, h, L)
    PROVE  s = t
<1> DEFINE n == Len(s)
           f == [k \in 1 .. n |-> s[k].cell]
           g == [k \in 1 .. n |-> t[k].cell]
           r == [c \in L |-> CHOOSE k \in 1 .. n : s[k].cell = c]
<1>1. n \in Nat /\ Len(t) = n
  BY ListingSize, ListingIs
<1>2. /\ \A k \in 1 .. n : s[k].cell \in L /\ s[k] = Entry(h, s[k].cell)
      /\ \A k \in 1 .. n : t[k].cell \in L /\ t[k] = Entry(h, t[k].cell)
  BY <1>1, ListingIs
<1>3. \A c \in L : (\E k \in 1 .. n : s[k].cell = c) /\ (\E k \in 1 .. n : t[k].cell = c)
  BY <1>1 DEF Listing
<1>4. \A c \in L : r[c] \in 1 .. n /\ s[r[c]].cell = c
  BY <1>3
<1>5. \A k \in 1 .. n : r[s[k].cell] = k
  BY <1>2, <1>4, ListedOnce
<1> HIDE DEF r
<1>6. Within(n, f, g) /\ Within(n, g, f)
  BY <1>2, <1>3 DEF Within
<1>7. Increases(n, r, f)
  <2>1. \A p \in 1 .. n : f[p] = s[p].cell /\ r[f[p]] = p
    BY <1>5
  <2> HIDE DEF f
  <2> QED
    BY <1>1, <2>1 DEF Increases
<1>8. Increases(n, r, g)
  <2>1. \A p \in 1 .. n : g[p] \in L /\ r[g[p]] \in 1 .. n /\ s[r[g[p]]].cell = g[p] /\ g[p] = t[p].cell
    BY <1>2, <1>4
  <2> HIDE DEF g
  <2>2. ASSUME NEW p \in 1 .. n, NEW q \in 1 .. n, p < q PROVE r[g[p]] < r[g[q]]
    <3>1. Precedes(h[g[p]], h[g[q]])
      <4>1. p \in 1 .. Len(t) /\ q \in 1 .. Len(t)
        BY <1>1
      <4>2. Precedes(h[t[p].cell], h[t[q].cell])
        BY <2>2, <4>1 DEF Listing
      <4> QED
        BY <2>1, <4>2
    <3>2. Precedes(h[s[r[g[p]]].cell], h[s[r[g[q]]].cell])
      BY <2>1, <3>1
    <3> QED
      BY <2>1, <3>2, ListedOnce
  <2>3. \A p \in 1 .. n : r[g[p]] \in Int
    BY <1>1, <2>1
  <2> QED
    BY <2>2, <2>3 DEF Increases
<1>9. \A p \in 1 .. n : f[p] = g[p]
  <2> HIDE DEF f, g, n
  <2> QED BY <1>1, <1>6, <1>7, <1>8, OneOrder
<1>10. \A p \in 1 .. n : s[p] = t[p]
  <2>1. \A p \in 1 .. n : s[p].cell = t[p].cell
    BY <1>9
  <2> QED
    BY <1>2, <2>1
<1>11. s \in Seq({Entry(h, c) : c \in L}) /\ t \in Seq({Entry(h, c) : c \in L})
  BY DEF Listing
<1> QED
  BY <1>1, <1>10, <1>11, SeqEqual

(* Only the contacts of the cells matter.                                  *)
LEMMA ListingKept ==
    ASSUME NEW h, NEW L, NEW s, Listing(s, h, L), NEW g, \A c \in L : g[c] = h[c]
    PROVE  Listing(s, g, L)
<1>1. \A c \in L : Entry(g, c) = Entry(h, c)
  BY DEF Entry
<1>2. {Entry(g, c) : c \in L} = {Entry(h, c) : c \in L}
  BY <1>1
<1>3. \A k \in 1 .. Len(s) : s[k].cell \in L
  BY ListingIs
<1>4. \A k \in 1 .. Len(s) : g[s[k].cell] = h[s[k].cell]
  BY <1>3
<1>5. /\ s \in Seq({Entry(h, c) : c \in L})
      /\ \A c \in L : \E k \in 1 .. Len(s) : s[k].cell = c
      /\ \A j, k \in 1 .. Len(s) : j < k => Precedes(h[s[j].cell], h[s[k].cell])
  BY DEF Listing
<1>6. s \in Seq({Entry(g, c) : c \in L})
  BY <1>2, <1>5
<1> QED
  BY <1>4, <1>5, <1>6 DEF Listing

(* Where the search for a contact ends.                                    *)
LEMMA FindIs ==
    ASSUME NEW h, NEW L, Holds(h, L), NEW s, Listing(s, h, L), NEW c \in Contact
    PROVE  /\ Find(s, c, h).ok /\ Find(s, c, h).lo \in 0 .. Len(s)
           /\ \A k \in 1 .. Len(s) : k <= Find(s, c, h).lo <=> Precedes(h[s[k].cell], c)
           /\ Find(s, c, h).match <=>
                 /\ Find(s, c, h).lo < Len(s)
                 /\ ~ Precedes(c, h[s[Find(s, c, h).lo + 1].cell])
                 /\ ~ Precedes(h[s[Find(s, c, h).lo + 1].cell], c)
<1> DEFINE p == ProbeFromContact(c)  E == {Entry(h, d) : d \in L}
<1>1. s \in Seq(E) /\ Len(s) \in Nat
  BY ListingIs DEF Listing
<1>2. ASSUME NEW k \in 1 .. Len(s)
      PROVE  /\ h[s[k].cell] \in Contact
             /\ Comparable(p, s[k], h) /\ Cmp(p, s[k], h) \in Int
             /\ Cmp(p, s[k], h) < 0 <=> Precedes(c, h[s[k].cell])
             /\ Cmp(p, s[k], h) > 0 <=> Precedes(h[s[k].cell], c)
  <2> DEFINE d == h[s[k].cell]  e == s[k]
  <2>1. e.key = MakeKey(d.name) /\ h[e.cell] = d
    BY ListingIs
  <2>2. d \in Contact
    BY ListingIs DEF Holds
  <2> HIDE DEF d, e
  <2>3. /\ Comparable(p, e, h) /\ Cmp(p, e, h) \in Int
        /\ Cmp(p, e, h) < 0 <=> Precedes(c, d)
        /\ Cmp(p, e, h) > 0 <=> Precedes(d, c)
    BY <2>1, <2>2, CmpIs
  <2> QED
    BY <2>2, <2>3 DEF d, e
<1> HIDE DEF p, E
<1>3. Searchable(s, p, h)
  <2>1. ASSUME NEW j \in 1 .. Len(s), NEW k \in 1 .. Len(s), j < k, Cmp(p, s[k], h) > 0
        PROVE  Cmp(p, s[j], h) > 0
    <3>1. Precedes(h[s[k].cell], c) /\ Precedes(h[s[j].cell], h[s[k].cell])
      BY <1>2, <2>1 DEF Listing
    <3>2. Precedes(h[s[j].cell], c)
      BY <1>2, <3>1, PrecedesOrder
    <3> QED
      BY <1>2, <3>2
  <2> QED
    BY <1>2, <2>1 DEF Searchable
<1> DEFINE at == LowerBound(s, p, h)
<1>4. /\ at.ok /\ at.lo \in 0 .. Len(s)
      /\ \A k \in 1 .. Len(s) : k <= at.lo <=> Cmp(p, s[k], h) > 0
      /\ at.match <=> at.lo < Len(s) /\ Cmp(p, s[at.lo + 1], h) = 0
  BY <1>1, <1>3, LowerBoundIs
<1>5. Find(s, c, h) = at
  BY DEF Find, p
<1> HIDE DEF at
<1>6. \A k \in 1 .. Len(s) : k <= at.lo <=> Precedes(h[s[k].cell], c)
  BY <1>2, <1>4
<1>7. at.lo < Len(s) => at.lo + 1 \in 1 .. Len(s)
  BY <1>1, <1>4
<1>8. at.match <=> /\ at.lo < Len(s)
                   /\ ~ Precedes(c, h[s[at.lo + 1].cell])
                   /\ ~ Precedes(h[s[at.lo + 1].cell], c)
  <2>1. at.lo < Len(s) =>
           (Cmp(p, s[at.lo + 1], h) = 0 <=> /\ ~ Precedes(c, h[s[at.lo + 1].cell])
                                            /\ ~ Precedes(h[s[at.lo + 1].cell], c))
    <3> SUFFICES ASSUME at.lo < Len(s)
                 PROVE  Cmp(p, s[at.lo + 1], h) = 0 <=> /\ ~ Precedes(c, h[s[at.lo + 1].cell])
                                                        /\ ~ Precedes(h[s[at.lo + 1].cell], c)
      OBVIOUS
    <3> DEFINE k == at.lo + 1
    <3>1. k \in 1 .. Len(s)
      BY <1>7
    <3> HIDE DEF k
    <3>2. Cmp(p, s[k], h) = 0 <=> ~ Precedes(c, h[s[k].cell]) /\ ~ Precedes(h[s[k].cell], c)
      BY <1>2, <3>1
    <3> QED
      BY <3>2 DEF k
  <2> QED
    BY <1>4, <2>1
<1> QED
  BY <1>4, <1>5, <1>6, <1>8

(* sorted_array_insert puts a new contact where it belongs.                *)
LEMMA InsertedIs ==
    ASSUME NEW h, NEW L, NEW s, Listing(s, h, L), Len(s) < IndexCapacity,
           NEW c, c \notin L, Holds(h, L \cup {c})
    PROVE  Inserted(s, h[c], c, h).ok /\ Listing(Inserted(s, h[c], c, h).index, h, L \cup {c})
<1> DEFINE x == h[c]  at == Find(s, x, h)  n == Len(s)  M == L \cup {c}  e == Entry(h, c)
           t == InsertAt(s, at.lo + 1, e)
           E == {Entry(h, d) : d \in M}
<1>1. Holds(h, L) /\ x \in Contact /\ \A d \in L : h[d] \in Contact /\ h[d].phone # x.phone
  BY DEF Holds
<1>2. n \in Nat /\ \A k \in 1 .. n : s[k].cell \in L /\ s[k] = Entry(h, s[k].cell)
  BY ListingIs
<1> HIDE DEF x
<1>3. /\ at.ok /\ at.lo \in 0 .. n
      /\ \A k \in 1 .. n : k <= at.lo <=> Precedes(h[s[k].cell], x)
      /\ at.match => at.lo < n /\ ~ Precedes(x, h[s[at.lo + 1].cell]) /\ ~ Precedes(h[s[at.lo + 1].cell], x)
  BY <1>1, FindIs
<1> HIDE DEF at
<1>4. \A k \in 1 .. n : Precedes(x, h[s[k].cell]) \/ Precedes(h[s[k].cell], x)
  BY <1>1, <1>2, PrecedesOrder
<1>5. ~ at.match
  <2>1. at.lo < n => at.lo + 1 \in 1 .. n
    BY <1>2, <1>3
  <2> QED
    BY <1>3, <1>4, <2>1
<1>6. Inserted(s, x, c, h).ok /\ Inserted(s, x, c, h).index = t
  <2>1. e = [key |-> MakeKey(x.name), cell |-> c]
    BY DEF Entry, x
  <2> QED
    BY <1>3, <1>5, <2>1 DEF Inserted, at
<1> DEFINE i == at.lo + 1
<1>7. i \in 1 .. n + 1 /\ e \in E /\ e.cell = c /\ h[e.cell] = x
  <2>1. i \in 1 .. n + 1
    BY <1>2, <1>3
  <2>2. e \in E
    OBVIOUS
  <2>3. e.cell = c /\ h[c] = x
    BY DEF Entry, x
  <2> QED
    BY <2>1, <2>2, <2>3
<1>8. s \in Seq(E)
  <2>1. {Entry(h, d) : d \in L} \subseteq E
    OBVIOUS
  <2>2. s \in Seq({Entry(h, d) : d \in L})
    BY DEF Listing
  <2>3. \A k \in 1 .. Len(s) : s[k] \in E
    BY <2>1, <2>2, ElementOfSeq
  <2>4. s \in [1 .. n -> E]
    <3>1. s = [k \in 1 .. n |-> s[k]]
      BY <2>2, LenProperties
    <3> HIDE DEF E
    <3> QED
      BY <2>3, <3>1
  <2> HIDE DEF E, n
  <2> QED
    BY <1>2, <2>4, FunctionIsSeq
<1> HIDE DEF E, e
<1>9. /\ t \in Seq(E) /\ Len(t) = n + 1
      /\ \A k \in 1 .. n + 1 : t[k] = IF k < i THEN s[k] ELSE IF k = i THEN e ELSE s[k - 1]
  <2> HIDE DEF i
  <2>1. i \in 1 .. Len(s) + 1 /\ e \in E /\ s \in Seq(E)
    BY <1>7, <1>8
  <2> DEFINE u == InsertAt(s, i, e)
  <2>2. /\ u \in Seq(E) /\ Len(u) = Len(s) + 1
        /\ \A k \in 1 .. Len(s) + 1 : u[k] = IF k < i THEN s[k] ELSE IF k = i THEN e ELSE s[k - 1]
    <3>1. i \in 1 .. Len(s) + 1
      BY <2>1
    <3>2. e \in E
      BY <2>1
    <3>3. s \in Seq(E)
      BY <2>1
    <3> HIDE DEF n, M, u
    <3>4. /\ u \in Seq(E) /\ Len(u) = Len(s) + 1
          /\ Spliced(s, i, e, u)
      BY <3>1, <3>2, <3>3, InsertedAt DEF u
    <3> QED
      BY <3>4 DEF Spliced
  <2> QED
    BY <2>2 DEF i
<1> HIDE DEF t
<1>10. ASSUME NEW d \in M PROVE \E k \in 1 .. n + 1 : t[k].cell = d
  <2>1. CASE d = c
    <3>1. i \in 1 .. n + 1 /\ ~ (i < i) /\ t[i] = e
      BY <1>7, <1>9
    <3> QED
      BY <1>7, <2>1, <3>1
  <2>2. CASE d # c
    <3>1. d \in L
      BY <2>2
    <3>2. PICK k \in 1 .. n : s[k].cell = d
      BY <3>1 DEF Listing
    <3>3. CASE k < i
      <4>1. k \in 1 .. n + 1 /\ t[k] = s[k]
        BY <1>2, <1>9, <3>3
      <4> QED
        BY <3>2, <4>1
    <3>4. CASE k >= i
      <4> DEFINE q == k + 1
      <4>1. q \in 1 .. n + 1 /\ ~ (q < i) /\ q # i /\ q - 1 = k
        BY <1>2, <1>7, <3>4
      <4> HIDE DEF q
      <4>2. t[q] = s[k]
        BY <1>9, <4>1
      <4> QED
        BY <3>2, <4>1, <4>2
    <3> QED
      BY <1>2, <1>7, <3>3, <3>4
  <2> QED
    BY <2>1, <2>2
<1>11. ASSUME NEW k \in 1 .. n
       PROVE  /\ k < i => Precedes(h[s[k].cell], x)
              /\ k >= i => Precedes(x, h[s[k].cell])
  <2>1. k < i <=> k <= at.lo
    BY <1>2, <1>3
  <2> QED
    BY <1>2, <1>3, <1>4, <1>7, <2>1
<1>12. \A j, k \in 1 .. n : j < k => Precedes(h[s[j].cell], h[s[k].cell])
  BY DEF Listing
<1>13. ASSUME NEW j \in 1 .. n + 1, NEW k \in 1 .. n + 1, j < k
       PROVE  Precedes(h[t[j].cell], h[t[k].cell])
  <2>1. j \in Int /\ k \in Int /\ i \in Int
    BY <1>2, <1>7
  <2>2. CASE k < i
    <3>1. t[j] = s[j] /\ t[k] = s[k] /\ j \in 1 .. n /\ k \in 1 .. n
      BY <1>2, <1>7, <1>9, <1>13, <2>2
    <3> QED
      BY <1>12, <1>13, <3>1
  <2>3. CASE k = i
    <3>1. t[j] = s[j] /\ t[k] = e /\ j \in 1 .. n /\ j < i
      BY <1>2, <1>7, <1>9, <1>13, <2>3
    <3>2. h[t[k].cell] = x /\ h[t[j].cell] = h[s[j].cell]
      BY <1>7, <3>1
    <3>3. Precedes(h[s[j].cell], x)
      BY <1>11, <3>1
    <3> QED
      BY <3>2, <3>3
  <2>4. CASE k > i /\ j < i
    <3> DEFINE q == k - 1
    <3>1. t[j] = s[j] /\ t[k] = s[q] /\ j \in 1 .. n /\ q \in 1 .. n /\ j < q
      BY <1>2, <1>7, <1>9, <1>13, <2>4
    <3> HIDE DEF q
    <3> QED
      BY <1>12, <3>1
  <2>5. CASE k > i /\ j = i
    <3> DEFINE q == k - 1
    <3>1. t[j] = e /\ t[k] = s[q] /\ q \in 1 .. n /\ q >= i
      BY <1>2, <1>7, <1>9, <1>13, <2>5
    <3> HIDE DEF q
    <3>2. h[t[j].cell] = x /\ h[t[k].cell] = h[s[q].cell]
      BY <1>7, <3>1
    <3>3. Precedes(x, h[s[q].cell])
      BY <1>11, <3>1
    <3> QED
      BY <3>2, <3>3
  <2>6. CASE j > i
    <3> DEFINE q == k - 1  p == j - 1
    <3>1. t[j] = s[p] /\ t[k] = s[q] /\ p \in 1 .. n /\ q \in 1 .. n /\ p < q
      BY <1>2, <1>7, <1>9, <1>13, <2>6
    <3> HIDE DEF p, q
    <3> QED
      BY <1>12, <3>1
  <2> QED
    BY <1>13, <2>1, <2>2, <2>3, <2>4, <2>5, <2>6
<1>14. Listing(t, h, M)
  BY <1>9, <1>10, <1>13 DEF Listing, E
<1> QED
  BY <1>6, <1>14 DEF x

(* sorted_array_remove takes the contact out.                              *)
LEMMA RemovedIs ==
    ASSUME NEW h, NEW L, Holds(h, L), NEW s, Listing(s, h, L), NEW c \in L
    PROVE  Removed(s, h[c], h).ok /\ Listing(Removed(s, h[c], h).index, h, L \ {c})
<1> DEFINE x == h[c]  at == Find(s, x, h)  n == Len(s)  M == L \ {c}
           E == {Entry(h, d) : d \in M}
<1>1. x \in Contact /\ \A d \in L : h[d] \in Contact
  BY DEF Holds
<1>2. n \in Nat /\ \A k \in 1 .. n : s[k].cell \in L /\ s[k] = Entry(h, s[k].cell)
  BY ListingIs
<1>3. PICK i \in 1 .. n : s[i].cell = c
  BY DEF Listing
<1>4. \A k \in 1 .. n : (Precedes(h[s[k].cell], x) <=> k < i) /\ (k # i => s[k].cell # c)
  BY <1>3, ListedOnce
<1> HIDE DEF x
<1>5. /\ at.ok /\ at.lo \in 0 .. n
      /\ \A k \in 1 .. n : k <= at.lo <=> Precedes(h[s[k].cell], x)
      /\ at.match <=> /\ at.lo < n
                      /\ ~ Precedes(x, h[s[at.lo + 1].cell]) /\ ~ Precedes(h[s[at.lo + 1].cell], x)
  BY <1>1, FindIs
<1> HIDE DEF at
<1>6. at.lo + 1 = i
  <2>1. ~ (i <= at.lo)
    BY <1>2, <1>4, <1>5
  <2>2. at.lo >= i - 1
    <3>1. CASE i = 1
      BY <1>5, <3>1
    <3>2. CASE i # 1
      <4> DEFINE q == i - 1
      <4>1. q \in 1 .. n /\ q < i
        BY <1>2, <3>2
      <4> HIDE DEF q
      <4>2. q <= at.lo
        BY <1>4, <1>5, <4>1
      <4> QED
        BY <4>2 DEF q
    <3> QED
      BY <3>1, <3>2
  <2> QED
    BY <1>2, <1>5, <2>1, <2>2
<1>7. at.match
  <2>1. at.lo < n
    BY <1>2, <1>5, <1>6
  <2>2. h[s[at.lo + 1].cell] = x
    BY <1>3, <1>6 DEF x
  <2>3. ~ Precedes(x, x)
    BY <1>1, PrecedesOrder
  <2> QED
    BY <1>5, <2>1, <2>2, <2>3
<1> DEFINE t == RemoveAt(s, i)
<1>8. Removed(s, x, h).ok /\ Removed(s, x, h).index = t
  BY <1>5, <1>6, <1>7 DEF Removed, at
<1>9. s \in Seq({Entry(h, d) : d \in L})
  BY DEF Listing
<1>10. /\ t \in Seq({Entry(h, d) : d \in L}) /\ Len(t) = n - 1
       /\ \A k \in 1 .. n - 1 : t[k] = IF k < i THEN s[k] ELSE s[k + 1]
  <2> DEFINE F == {Entry(h, d) : d \in L}
  <2>1. s \in Seq(F) /\ i \in 1 .. Len(s)
    BY <1>9
  <2> HIDE DEF F
  <2>2. /\ t \in Seq(F) /\ Len(t) = Len(s) - 1
        /\ \A k \in 1 .. Len(s) - 1 : t[k] = IF k < i THEN s[k] ELSE s[k + 1]
    BY <2>1, RemovedAt
  <2> QED
    BY <2>2 DEF F
<1> HIDE DEF t
<1> DEFINE old == [k \in 1 .. n - 1 |-> IF k < i THEN k ELSE k + 1]
<1>11. /\ \A k \in 1 .. n - 1 : old[k] \in 1 .. n /\ old[k] # i /\ t[k] = s[old[k]]
       /\ \A j, k \in 1 .. n - 1 : j < k => old[j] < old[k]
       /\ \A q \in 1 .. n : q # i => \E k \in 1 .. n - 1 : old[k] = q
  <2>1. \A k \in 1 .. n - 1 : old[k] \in 1 .. n /\ old[k] # i /\ t[k] = s[old[k]]
    <3> TAKE k \in 1 .. n - 1
    <3>1. old[k] = (IF k < i THEN k ELSE k + 1) /\ t[k] = IF k < i THEN s[k] ELSE s[k + 1]
      BY <1>10
    <3>2. k \in Nat /\ k + 1 \in 1 .. n /\ k \in 1 .. n /\ i \in Nat
      BY <1>2
    <3>3. CASE k < i
      BY <3>1, <3>2, <3>3
    <3>4. CASE ~ (k < i)
      BY <3>1, <3>2, <3>4
    <3> QED
      BY <3>3, <3>4
  <2>2. \A j, k \in 1 .. n - 1 : j < k => old[j] < old[k]
    BY <1>2
  <2>3. ASSUME NEW q \in 1 .. n, q # i PROVE \E k \in 1 .. n - 1 : old[k] = q
    <3>1. CASE q < i
      <4>1. q \in 1 .. n - 1 /\ old[q] = q
        BY <1>2, <3>1
      <4> QED
        BY <4>1
    <3>2. CASE q > i
      <4>1. q - 1 \in 1 .. n - 1 /\ ~ (q - 1 < i) /\ (q - 1) + 1 = q
        BY <1>2, <3>2
      <4>2. old[q - 1] = q
        BY <4>1
      <4> QED
        BY <4>1, <4>2
    <3> QED
      BY <2>3, <3>1, <3>2
  <2> QED
    BY <2>1, <2>2, <2>3
<1> HIDE DEF old
<1>12. \A k \in 1 .. n - 1 : t[k] \in E
  <2> TAKE k \in 1 .. n - 1
  <2> DEFINE q == old[k]
  <2>1. q \in 1 .. n /\ q # i /\ t[k] = s[q]
    BY <1>11
  <2> HIDE DEF q
  <2>2. s[q].cell \in M /\ s[q] = Entry(h, s[q].cell)
    BY <1>2, <1>4, <2>1
  <2> QED
    BY <2>1, <2>2
<1>13. t \in Seq(E)
  <2>1. n - 1 \in Nat
    BY <1>2
  <2>2. t = [k \in 1 .. n - 1 |-> t[k]]
    BY <1>10, LenProperties
  <2> HIDE DEF E, n
  <2>3. t \in [1 .. n - 1 -> E]
    BY <1>12, <2>2
  <2> DEFINE q == n - 1
  <2>4. q \in Nat /\ t \in [1 .. q -> E]
    BY <2>1, <2>3
  <2> HIDE DEF q
  <2> QED
    BY <2>4, FunctionIsSeq
<1>14. ASSUME NEW d \in M PROVE \E k \in 1 .. n - 1 : t[k].cell = d
  <2>1. PICK q \in 1 .. n : s[q].cell = d
    BY DEF Listing
  <2>2. q # i
    BY <1>3, <2>1
  <2>3. PICK k \in 1 .. n - 1 : old[k] = q
    BY <1>11, <2>2
  <2> QED
    BY <1>11, <2>1, <2>3
<1>15. ASSUME NEW j \in 1 .. n - 1, NEW k \in 1 .. n - 1, j < k
       PROVE  Precedes(h[t[j].cell], h[t[k].cell])
  <2>1. old[j] \in 1 .. n /\ old[k] \in 1 .. n /\ old[j] < old[k] /\ t[j] = s[old[j]] /\ t[k] = s[old[k]]
    BY <1>11, <1>15
  <2>2. Precedes(h[s[old[j]].cell], h[s[old[k]].cell])
    BY <2>1 DEF Listing
  <2> QED
    BY <2>1, <2>2
<1>16. Listing(t, h, M)
  BY <1>10, <1>13, <1>14, <1>15 DEF Listing
<1> QED
  BY <1>8, <1>16 DEF x

(* sorted_array_build lists the contacts that it finds.                    *)
IndexEntries(h, L) == {Entry(h, c) : c \in L}

Comparison(h, L) == {p \in IndexEntries(h, L) \X IndexEntries(h, L) : EntryLess(p[1], p[2], h)}

(* entry_cmp is a strict order of the entries, that of the contacts.       *)
LEMMA EntriesInOrder ==
    ASSUME NEW h, NEW L, Holds(h, L)
    PROVE  /\ Strict(Comparison(h, L), IndexEntries(h, L))
           /\ \A a, b \in IndexEntries(h, L) :
                 <<a, b>> \in Comparison(h, L) <=> Precedes(h[a.cell], h[b.cell])
<1> DEFINE X == IndexEntries(h, L)  less == Comparison(h, L)
<1> HIDE DEF X, less
<1>1. ASSUME NEW a \in X
      PROVE  /\ a.cell \in L /\ a = Entry(h, a.cell) /\ h[a.cell] \in Contact
             /\ a.key = MakeKey(h[a.cell].name)
  <2>1. PICK c \in L : a = Entry(h, c)
    BY DEF X, IndexEntries
  <2>2. a.cell = c /\ a.key = MakeKey(h[c].name)
    BY <2>1 DEF Entry
  <2> QED
    BY <2>1, <2>2 DEF Holds
<1>2. ASSUME NEW a \in X, NEW b \in X PROVE <<a, b>> \in less <=> Precedes(h[a.cell], h[b.cell])
  <2>1. EntryLess(a, b, h) <=> Precedes(h[a.cell], h[b.cell])
    <3> DEFINE c == h[a.cell]  d == h[b.cell]
    <3>1. /\ c \in Contact /\ d \in Contact /\ a.key = MakeKey(c.name) /\ b.key = MakeKey(d.name)
          /\ h[a.cell] = c /\ h[b.cell] = d
      BY <1>1
    <3> HIDE DEF c, d
    <3>2. EntryLess(a, b, h) <=> Precedes(c, d)
      BY <3>1, EntryLessIs
    <3> QED
      BY <3>1, <3>2
  <2>2. <<a, b>> \in X \X X /\ <<a, b>>[1] = a /\ <<a, b>>[2] = b
    OBVIOUS
  <2>3. <<a, b>> \in less <=> EntryLess(a, b, h)
    BY <2>2 DEF less, Comparison, X
  <2> QED
    BY <2>1, <2>3
<1>3. \A a \in X : <<a, a>> \notin less
  BY <1>1, <1>2, PrecedesOrder
<1>4. ASSUME NEW a \in X, NEW b \in X, a # b PROVE <<a, b>> \in less \/ <<b, a>> \in less
  <2>1. a.cell # b.cell /\ a.cell \in L /\ b.cell \in L
    BY <1>1, <1>4
  <2>2. h[a.cell].phone # h[b.cell].phone
    BY <2>1 DEF Holds
  <2>3. Precedes(h[a.cell], h[b.cell]) \/ Precedes(h[b.cell], h[a.cell])
    BY <1>1, <2>2, PrecedesOrder
  <2> QED
    BY <1>2, <2>3
<1>5. ASSUME NEW a \in X, NEW b \in X, NEW d \in X, <<a, b>> \in less, <<b, d>> \in less
      PROVE  <<a, d>> \in less
  <2>1. Precedes(h[a.cell], h[b.cell]) /\ Precedes(h[b.cell], h[d.cell])
    BY <1>2, <1>5
  <2>2. Precedes(h[a.cell], h[d.cell])
    BY <1>1, <2>1, PrecedesOrder
  <2> QED
    BY <1>2, <2>2
<1>6. Strict(less, X)
  BY <1>3, <1>4, <1>5 DEF Strict
<1> QED
  BY <1>2, <1>6 DEF X, less

(* A boot builds a listing (sorted_array_build).                           *)
LEMMA BuiltIs ==
    ASSUME NEW h, NEW N \in Nat, NEW L \in SUBSET (0 .. N), Holds(h, L)
    PROVE  Listing(BuiltNames(L, h), h, L)
<1> DEFINE order == Ascending(L)
           n     == Len(order)
           X     == IndexEntries(h, L)
           mem   == [k \in 0 .. n - 1 |-> [key |-> MakeKey(h[order[k + 1]].name), cell |-> order[k + 1]]]
           less  == {p \in Range(mem) \X Range(mem) : EntryLess(p[1], p[2], h)}
           done  == Sorted(mem, n, less)
           t     == [k \in 1 .. n |-> done[k - 1]]
<1>1. BuiltNames(L, h) = t
  BY DEF BuiltNames
<1>2. /\ order \in Seq(L) /\ n \in Nat
      /\ \A p, q \in 1 .. n : p < q => order[p] < order[q]
      /\ \A x \in L : \E p \in 1 .. n : order[p] = x
  <2>1. /\ order \in Seq(L) /\ n = Cardinality(L) /\ Cardinality(L) \in Nat
        /\ \A p, q \in 1 .. Cardinality(L) : p < q => order[p] < order[q]
        /\ \A x \in L : \E p \in 1 .. Cardinality(L) : order[p] = x
    BY AscendingIs
  <2> HIDE DEF order
  <2> QED
    BY <2>1
<1> HIDE DEF order
<1>3. \A p \in 1 .. n : order[p] \in L /\ order[p] \in Int
  <2>1. \A p \in 1 .. n : order[p] \in L
    <3> HIDE DEF X
    <3> QED BY <1>2, ElementOfSeq
  <2>2. \A x \in L : x \in Int
    OBVIOUS
  <2> QED
    BY <2>1, <2>2
<1> HIDE DEF n
<1>4. \A p, q \in 1 .. n : order[p] = order[q] => p = q
  BY <1>2, <1>3
<1>5. \A c \in L : Entry(h, c) \in X
  BY DEF IndexEntries
<1>6. \A x \in X : \E c \in L : x = Entry(h, c)
  BY DEF IndexEntries
<1> HIDE DEF X
<1>7. ASSUME NEW k \in 0 .. n - 1
      PROVE  k + 1 \in 1 .. n /\ mem[k] = Entry(h, order[k + 1]) /\ mem[k] \in X /\ mem[k].cell = order[k + 1]
  <2>1. k + 1 \in 1 .. n
    BY <1>2
  <2> DEFINE q == order[k + 1]
  <2>2. q \in L /\ mem[k] = [key |-> MakeKey(h[q].name), cell |-> q]
    BY <1>3, <2>1
  <2> HIDE DEF q
  <2>3. mem[k] = Entry(h, q) /\ mem[k].cell = q
    BY <2>2 DEF Entry
  <2> QED
    BY <1>5, <2>1, <2>2, <2>3 DEF q
<1>8. mem \in Arrays(n, X)
  <2>1. mem \in [0 .. n - 1 -> X]
    <3>1. \A k \in 0 .. n - 1 : mem[k] \in X
      BY <1>7
    <3>2. mem = [k \in 0 .. n - 1 |-> mem[k]]
      OBVIOUS
    <3> HIDE DEF mem, X
    <3> QED
      BY <3>1, <3>2
  <2>2. ASSUME NEW j \in 0 .. n - 1, NEW k \in 0 .. n - 1, mem[j] = mem[k] PROVE j = k
    <3>1. order[j + 1] = order[k + 1] /\ j + 1 \in 1 .. n /\ k + 1 \in 1 .. n
      BY <1>7, <2>2
    <3>2. j + 1 = k + 1
      BY <1>4, <3>1
    <3> QED
      BY <3>2
  <2>3. ASSUME NEW x \in X PROVE \E k \in 0 .. n - 1 : mem[k] = x
    <3>1. PICK c \in L : x = Entry(h, c)
      BY <1>6
    <3>2. PICK p \in 1 .. n : order[p] = c
      BY <1>2
    <3> DEFINE k == p - 1
    <3>3. k \in 0 .. n - 1 /\ k + 1 = p
      BY <1>2
    <3> HIDE DEF k, mem
    <3>4. mem[k] = x
      BY <1>7, <3>1, <3>2, <3>3
    <3> QED
      BY <3>3, <3>4
  <2> HIDE DEF mem, X
  <2> QED
    BY <2>1, <2>2, <2>3 DEF Arrays
<1> HIDE DEF mem
<1>9. Range(mem) = X
  <2>1. DOMAIN mem = 0 .. n - 1 /\ (\A k \in 0 .. n - 1 : mem[k] \in X)
        /\ (\A x \in X : \E k \in 0 .. n - 1 : mem[k] = x)
    BY <1>8 DEF Arrays
  <2> HIDE DEF X
  <2> QED
    BY <2>1 DEF Range
<1>10. /\ Strict(less, X)
      /\ \A a, b \in X : <<a, b>> \in less <=> Precedes(h[a.cell], h[b.cell])
  <2>1. less = Comparison(h, L)
    BY <1>9 DEF Comparison, X
  <2> HIDE DEF less
  <2> QED
    BY <2>1, EntriesInOrder DEF X
<1> HIDE DEF less
<1>11. /\ done \in Arrays(n, X)
      /\ \A i, j \in 0 .. n - 1 : i < j => <<done[i], done[j]>> \in less
  <2> HIDE DEF X
  <2> QED BY <1>2, <1>8, <1>10, SortedIs
<1> HIDE DEF done
<1>12. \A c \in L : Entry(h, c) \in X /\ Entry(h, c).cell = c
  BY <1>5 DEF Entry
<1> HIDE DEF X
<1>13. \A k \in 1 .. n : k - 1 \in 0 .. n - 1 /\ t[k] = done[k - 1] /\ t[k] \in X
  <2>1. \A k \in 1 .. n : k - 1 \in 0 .. n - 1
    BY <1>2
  <2>2. \A k \in 0 .. n - 1 : done[k] \in X
    BY <1>11 DEF Arrays
  <2> QED
    BY <2>1, <2>2
<1>14. t \in Seq(X) /\ Len(t) = n
  <2>1. t \in [1 .. n -> X]
    BY <1>13
  <2> HIDE DEF t
  <2> QED
    BY <1>2, <2>1, FunctionIsSeq
<1> HIDE DEF t
<1>15. ASSUME NEW c \in L PROVE \E k \in 1 .. n : t[k].cell = c
  <2>1. PICK i \in 0 .. n - 1 : done[i] = Entry(h, c)
    BY <1>11, <1>12 DEF Arrays
  <2> DEFINE k == i + 1
  <2>2. k \in 1 .. n /\ k - 1 = i
    BY <1>2
  <2> HIDE DEF k
  <2>3. t[k].cell = c
    BY <1>12, <1>13, <2>1, <2>2
  <2> QED
    BY <2>2, <2>3
<1>16. ASSUME NEW j \in 1 .. n, NEW k \in 1 .. n, j < k PROVE Precedes(h[t[j].cell], h[t[k].cell])
  <2>1. j - 1 \in 0 .. n - 1 /\ k - 1 \in 0 .. n - 1 /\ j - 1 < k - 1
    BY <1>2, <1>16
  <2>2. <<t[j], t[k]>> \in less /\ t[j] \in X /\ t[k] \in X
    BY <1>11, <1>13, <2>1
  <2> QED
    BY <1>10, <2>2
<1>17. Listing(t, h, L)
  BY <1>14, <1>15, <1>16 DEF Listing, X, IndexEntries
<1> QED
  BY <1>1, <1>17

(* sorted_array_seek counts the contacts before a prefix.                  *)
NamedBefore(h, L, p) == {c \in L : BytesCmp(Folded(h[c].name), Folded(p)) < 0}

LEMMA SeekIs ==
    ASSUME NEW h, NEW L, Holds(h, L), NEW s, Listing(s, h, L), NEW p \in Seq(Nat)
    PROVE  Seek(s, p, h).lo = Cardinality(NamedBefore(h, L, p))
<1> DEFINE b == ProbeFromString(p)  E == {Entry(h, c) : c \in L}  n == Len(s)
           First == NamedBefore(h, L, p)
           at == LowerBound(s, b, h)
<1>1. s \in Seq(E) /\ n \in Nat
  BY ListingIs DEF Listing
<1>2. ASSUME NEW c \in L
      PROVE  /\ h[c] \in Contact /\ Folded(h[c].name) \in Seq(Nat) /\ Folded(p) \in Seq(Nat)
             /\ c \in First <=> Before(Folded(h[c].name), Folded(p))
  <2>1. h[c] \in Contact
    BY DEF Holds
  <2> DEFINE f == Folded(h[c].name)  g == Folded(p)
  <2>2. f \in Seq(Nat) /\ g \in Seq(Nat)
    BY <2>1, PrecedesIs, FoldedIs
  <2>3. c \in First <=> BytesCmp(f, g) < 0
    BY DEF NamedBefore
  <2> HIDE DEF f, g, First
  <2>4. c \in First <=> Before(f, g)
    BY <2>2, <2>3, BytesCmpIs
  <2> QED
    BY <2>1, <2>2, <2>4 DEF f, g
<1> HIDE DEF First
<1>3. ASSUME NEW k \in 1 .. n
      PROVE  /\ s[k].cell \in L
             /\ Comparable(b, s[k], h) /\ Cmp(b, s[k], h) \in Int
             /\ Cmp(b, s[k], h) > 0 <=> s[k].cell \in First
  <2> DEFINE d == h[s[k].cell]  e == s[k]
  <2>1. e.cell \in L /\ e.key = MakeKey(d.name) /\ h[e.cell] = d
    BY ListingIs
  <2>2. d \in Contact /\ (e.cell \in First <=> Before(Folded(d.name), Folded(p)))
    BY <1>2, <2>1
  <2> HIDE DEF d, e
  <2>3. /\ Comparable(b, e, h) /\ Cmp(b, e, h) \in Int
        /\ Cmp(b, e, h) > 0 <=> Before(Folded(d.name), Folded(p))
    BY <2>1, <2>2, CmpStringIs
  <2> QED
    BY <2>1, <2>2, <2>3 DEF e
<1> HIDE DEF E
<1>4. ASSUME NEW j \in 1 .. n, NEW k \in 1 .. n, j < k, s[k].cell \in First
      PROVE  s[j].cell \in First
  <2> DEFINE c == h[s[j].cell]  d == h[s[k].cell]  f == Folded(c.name)  g == Folded(d.name)  q == Folded(p)
  <2>1. /\ c \in Contact /\ d \in Contact /\ f \in Seq(Nat) /\ g \in Seq(Nat) /\ q \in Seq(Nat)
        /\ Before(g, q) /\ (s[j].cell \in First <=> Before(f, q))
    BY <1>2, <1>3, <1>4
  <2>2. Precedes(c, d)
    BY <1>4 DEF Listing
  <2>3. Before(f, g) \/ f = g
    <3> HIDE DEF c, d
    <3>1. \/ Before(f, g) \/ f = g
          \/ c.name = d.name
      BY <2>1, <2>2, PrecedesIs
    <3> QED
      BY <3>1
  <2> HIDE DEF f, g, q
  <2>4. Before(f, q)
    BY <2>1, <2>3, BeforeOrder
  <2> QED
    BY <2>1, <2>4
<1> HIDE DEF b
<1>5. Searchable(s, b, h)
  BY <1>3, <1>4 DEF Searchable
<1>6. /\ at.lo \in 0 .. n
      /\ \A k \in 1 .. n : k <= at.lo <=> Cmp(b, s[k], h) > 0
  BY <1>1, <1>5, LowerBoundIs
<1> DEFINE m == at.lo  T == 1 .. m
           f == [k \in T |-> s[k].cell]
<1>7. m \in Nat /\ m <= n /\ \A k \in 1 .. n : k \in T <=> s[k].cell \in First
  BY <1>1, <1>3, <1>6
<1>8. Seek(s, p, h).lo = m
  BY DEF Seek, b
<1> HIDE DEF at, m
<1>9. IsFiniteSet(T) /\ Cardinality(T) = m
  BY <1>7, FS_Interval
<1>10. \A k \in T : k \in 1 .. n
  BY <1>1, <1>7
<1>11. ASSUME NEW c \in First PROVE \E k \in T : s[k].cell = c
  <2>1. c \in L
    BY DEF First, NamedBefore
  <2>2. PICK k \in 1 .. n : s[k].cell = c
    BY <2>1 DEF Listing
  <2> QED
    BY <1>7, <2>2
<1>12. \A j, k \in T : s[j].cell = s[k].cell => j = k
  BY <1>10, ListedOnce
<1>13. f \in [T -> First] /\ (\A j, k \in T : f[j] = f[k] => j = k) /\ (\A c \in First : \E k \in T : f[k] = c)
  <2> HIDE DEF T
  <2> QED BY <1>7, <1>10, <1>11, <1>12
<1>14. Cardinality(First) = Cardinality(T)
  <2> HIDE DEF f, T
  <2> QED BY <1>9, <1>13, SameSize
<1> QED
  BY <1>8, <1>9, <1>14 DEF First

-----------------------------------------------------------------------------
(* The contacts that are held have phones of their own, and the index      *)
(* lists them.                                                             *)
NameInv ==
    /\ held \in [0 .. NumCells - 1 -> SomeContacts \cup {Vacant}]
    /\ Holds(held, Live)
    /\ Listing(index, held, Live)
    /\ Len(index) <= IndexCapacity

LEMMA LiveIs ==
    ASSUME held \in [0 .. NumCells - 1 -> SomeContacts \cup {Vacant}]
    PROVE  /\ Live \in SUBSET (0 .. NumCells) /\ IsFiniteSet(Live) /\ Cardinality(Live) \in Nat
           /\ \A c \in Live : c \in 0 .. NumCells - 1 /\ held[c] \in SomeContacts /\ held[c] \in Contact
<1>1. NumCells \in Nat /\ SomeContacts \subseteq Contact
  BY NameAssumption DEF Contact
<1>2. Live \in SUBSET (0 .. NumCells)
  BY <1>1 DEF Live
<1>3. IsFiniteSet(Live) /\ Cardinality(Live) \in Nat
  BY <1>1, <1>2, NumberRanks
<1>4. \A c \in Live : c \in 0 .. NumCells - 1 /\ held[c] \in SomeContacts
  BY DEF Live
<1> QED
  BY <1>1, <1>2, <1>3, <1>4

LEMMA InitNames == NamesInit => NameInv
<1> SUFFICES ASSUME NamesInit PROVE NameInv
  OBVIOUS
<1>1. held = [c \in 0 .. NumCells - 1 |-> Vacant] /\ index = << >>
  BY DEF NamesInit
<1>2. Live = {}
  BY <1>1 DEF Live
<1>3. Holds(held, {}) /\ Len(<< >>) = 0 /\ IndexCapacity \in Nat
  BY IndexAssumption DEF Holds
<1>4. Listing(<< >>, held, {})
  BY <1>3 DEF Listing
<1>5. held \in [0 .. NumCells - 1 -> SomeContacts \cup {Vacant}]
  BY <1>1
<1> QED
  BY <1>1, <1>2, <1>3, <1>4, <1>5 DEF NameInv

(* The three actions.                                                      *)
LEMMA InsertNameKeeps ==
    ASSUME NameInv, NEW c \in 0 .. NumCells - 1, NEW x \in SomeContacts, InsertName(c, x)
    PROVE  NameInv'
<1> DEFINE h == [held EXCEPT ![c] = x]  L == Live  M == L \cup {c}
<1>1. /\ held \in [0 .. NumCells - 1 -> SomeContacts \cup {Vacant}]
      /\ Holds(held, L) /\ Listing(index, held, L)
  BY DEF NameInv
<1>2. /\ held[c] = Vacant /\ Cardinality(L) < IndexCapacity
      /\ \A d \in L : held[d].phone # x.phone
      /\ held' = h /\ index' = Inserted(index, x, c, h).index
  BY DEF InsertName
<1>3. x # Vacant /\ x \in Contact /\ c \notin L
  BY <1>2, NameAssumption DEF Contact, Live
<1>4. /\ h \in [0 .. NumCells - 1 -> SomeContacts \cup {Vacant}] /\ h[c] = x
      /\ \A d \in L : h[d] = held[d]
  <2>1. \A d \in L : d \in 0 .. NumCells - 1 /\ d # c
    BY <1>1, <1>3, LiveIs
  <2> HIDE DEF L
  <2> QED
    BY <1>1, <2>1
<1>5. Live' = M
  <2>1. Live' = {d \in 0 .. NumCells - 1 : h[d] # Vacant}
    BY <1>2 DEF Live
  <2>2. \A d \in 0 .. NumCells - 1 : h[d] = IF d = c THEN x ELSE held[d]
    BY <1>1
  <2>3. L = {d \in 0 .. NumCells - 1 : held[d] # Vacant}
    BY DEF Live
  <2> HIDE DEF h, L
  <2> QED
    BY <1>3, <2>1, <2>2, <2>3
<1>6. IsFiniteSet(L) /\ Cardinality(L) \in Nat /\ Cardinality(L) = Len(index)
  BY <1>1, LiveIs, ListingSize
<1> HIDE DEF h, L
<1>7. Holds(h, M)
  <2>1. \A d \in L : held[d] \in Contact
    BY <1>1 DEF Holds
  <2>2. \A d \in M : h[d] \in Contact
    BY <1>3, <1>4, <2>1
  <2>3. ASSUME NEW d \in M, NEW e \in M, d # e PROVE h[d].phone # h[e].phone
    <3>1. CASE d \in L /\ e \in L
      BY <1>1, <1>4, <2>3, <3>1 DEF Holds
    <3>2. CASE d = c
      BY <1>2, <1>4, <2>3, <3>2
    <3>3. CASE e = c
      BY <1>2, <1>4, <2>3, <3>3
    <3> QED
      BY <3>1, <3>2, <3>3
  <2> QED
    BY <2>2, <2>3 DEF Holds
<1>8. Listing(index, h, L)
  BY <1>1, <1>4, ListingKept
<1> DEFINE t == Inserted(index, h[c], c, h).index
<1>9. Listing(t, h, M)
  BY <1>2, <1>3, <1>6, <1>7, <1>8, InsertedIs
<1>10. index' = t
  BY <1>2, <1>4
<1> HIDE DEF t
<1>11. Len(t) <= IndexCapacity
  <2>1. Cardinality(M) = Cardinality(L) + 1
    BY <1>3, <1>6, FS_AddElement
  <2>2. Cardinality(M) = Len(t)
    BY <1>7, <1>9, ListingSize
  <2> QED
    BY <1>2, <1>6, <2>1, <2>2, IndexAssumption
<1> QED
  BY <1>2, <1>4, <1>5, <1>7, <1>9, <1>10, <1>11 DEF NameInv

LEMMA RemoveNameKeeps ==
    ASSUME NameInv, NEW c \in 0 .. NumCells - 1, RemoveName(c)
    PROVE  NameInv'
<1> DEFINE h == [held EXCEPT ![c] = Vacant]  L == Live  M == L \ {c}
           t == Removed(index, held[c], held).index
<1>1. /\ held \in [0 .. NumCells - 1 -> SomeContacts \cup {Vacant}]
      /\ Holds(held, L) /\ Listing(index, held, L) /\ Len(index) <= IndexCapacity
  BY DEF NameInv
<1>2. c \in L /\ held' = h /\ index' = t
  BY DEF RemoveName, Live
<1>3. /\ h \in [0 .. NumCells - 1 -> SomeContacts \cup {Vacant}]
      /\ \A d \in M : h[d] = held[d]
  <2>1. \A d \in L : d \in 0 .. NumCells - 1
    BY <1>1, LiveIs
  <2> HIDE DEF L
  <2> QED
    BY <1>1, <2>1
<1>4. Live' = M
  <2>1. Live' = {d \in 0 .. NumCells - 1 : h[d] # Vacant}
    BY <1>2 DEF Live
  <2>2. \A d \in 0 .. NumCells - 1 : h[d] = IF d = c THEN Vacant ELSE held[d]
    BY <1>1
  <2>3. L = {d \in 0 .. NumCells - 1 : held[d] # Vacant}
    BY DEF Live
  <2> HIDE DEF h, L
  <2> QED
    BY <2>1, <2>2, <2>3
<1> HIDE DEF h
<1>5. Listing(t, held, M)
  <2> HIDE DEF L
  <2> QED BY <1>1, <1>2, RemovedIs
<1>6. IsFiniteSet(L) /\ Cardinality(L) \in Nat /\ Cardinality(L) = Len(index)
  BY <1>1, LiveIs, ListingSize
<1> HIDE DEF L, t
<1>7. Holds(held, M) /\ Holds(h, M)
  BY <1>1, <1>3 DEF Holds
<1>8. Listing(t, h, M)
  <2> HIDE DEF M
  <2> QED BY <1>3, <1>5, ListingKept
<1>9. Len(t) <= IndexCapacity
  <2>1. Cardinality(M) \in Nat /\ Cardinality(M) <= Cardinality(L)
    <3>1. M \in SUBSET L
      OBVIOUS
    <3> QED
      BY <1>6, <3>1, FS_Subset, FS_CardinalityType
  <2>2. Cardinality(M) = Len(t)
    BY <1>5, <1>7, ListingSize
  <2> QED
    BY <1>1, <1>6, <2>1, <2>2, IndexAssumption
<1> QED
  BY <1>2, <1>3, <1>4, <1>7, <1>8, <1>9 DEF NameInv

LEMMA RebuildKeeps ==
    ASSUME NameInv, Rebuild
    PROVE  NameInv'
<1>1. BuiltNames(Live, held) = index
  <2>1. Holds(held, Live) /\ Listing(index, held, Live)
    BY DEF NameInv
  <2>2. NumCells \in Nat /\ Live \in SUBSET (0 .. NumCells)
    BY LiveIs, NameAssumption DEF NameInv
  <2>3. Listing(BuiltNames(Live, held), held, Live)
    BY <2>1, <2>2, BuiltIs
  <2> QED
    BY <2>1, <2>3, OneListing
<1>2. UNCHANGED <<held, index>>
  BY <1>1 DEF Rebuild
<1> QED
  BY <1>2 DEF NameInv, Live

(* The invariant of the index (sorted_array_insert, sorted_array_remove,   *)
(* sorted_array_build): every contact that is held is in it once, and it   *)
(* never has more entries than there is memory for.                        *)
THEOREM NamesInvariant == NamesSpec => []NameInv
<1>1. NamesInit => NameInv
  BY InitNames
<1>2. NameInv /\ [NamesNext]_<<held, index>> => NameInv'
  <2> SUFFICES ASSUME NameInv, [NamesNext]_<<held, index>> PROVE NameInv'
    OBVIOUS
  <2>1. CASE UNCHANGED <<held, index>>
    BY <2>1 DEF NameInv, Live
  <2>2. ASSUME NEW c \in 0 .. NumCells - 1, RemoveName(c) PROVE NameInv'
    BY <2>2, RemoveNameKeeps
  <2>3. ASSUME NEW c \in 0 .. NumCells - 1, NEW x \in SomeContacts, InsertName(c, x) PROVE NameInv'
    BY <2>3, InsertNameKeeps
  <2>4. CASE Rebuild
    BY <2>4, RebuildKeeps
  <2> QED
    BY <2>1, <2>2, <2>3, <2>4 DEF NamesNext
<1> QED
  BY <1>1, <1>2, PTL DEF NamesSpec

(* The index has exactly the contacts that are held, in alphabetical       *)
(* order.                                                                  *)
THEOREM NamesSorted == NamesSpec => []IndexSorted
<1>1. NameInv => IndexSorted
  <2> SUFFICES ASSUME NameInv PROVE IndexSorted
    OBVIOUS
  <2>1. Holds(held, Live) /\ Listing(index, held, Live)
    BY DEF NameInv
  <2>2. Len(index) = Cardinality(Live)
    BY <2>1, ListingSize
  <2>3. DOMAIN index = 1 .. Len(index)
    BY <2>1, LenProperties DEF Listing
  <2>4. \A k \in 1 .. Len(index) : index[k].cell \in Live
    BY <2>1, ListingIs
  <2>5. /\ \A c \in Live : \E k \in 1 .. Len(index) : index[k].cell = c
        /\ \A j, k \in 1 .. Len(index) : j < k => Precedes(held[index[j].cell], held[index[k].cell])
    BY <2>1 DEF Listing
  <2>6. {index[k].cell : k \in DOMAIN index} = Live
    BY <2>3, <2>4, <2>5
  <2> QED
    BY <2>2, <2>3, <2>5, <2>6 DEF IndexSorted
<1> QED
  BY <1>1, NamesInvariant, PTL

(* A prefix's rank is the number of contacts before all that start with it *)
(* or come after it (sorted_array_seek).                                   *)
THEOREM SeekIsExact == NamesSpec => []SeekIsLowerBound
<1>1. NameInv => SeekIsLowerBound
  <2> SUFFICES ASSUME NameInv, NEW s \in SomePrefixes
               PROVE  Seek(index, s, held).lo =
                         Cardinality({c \in Live : BytesCmp(Folded(held[c].name), Folded(s)) < 0})
    BY DEF SeekIsLowerBound
  <2>1. Holds(held, Live) /\ Listing(index, held, Live)
    BY DEF NameInv
  <2>2. s \in Seq(Nat)
    BY NameAssumption
  <2>3. Seek(index, s, held).lo = Cardinality(NamedBefore(held, Live, s))
    BY <2>1, <2>2, SeekIs
  <2> QED
    BY <2>3 DEF NamedBefore
<1> QED
  BY <1>1, NamesInvariant, PTL

(* The heapsort of a boot makes the index that the calls have kept.        *)
THEOREM BootRebuilds == NamesSpec => []RebuildAgrees
<1>1. NameInv => RebuildAgrees
  <2> SUFFICES ASSUME NameInv PROVE BuiltNames(Live, held) = index
    BY DEF RebuildAgrees
  <2>1. Holds(held, Live) /\ Listing(index, held, Live)
    BY DEF NameInv
  <2>2. NumCells \in Nat /\ Live \in SUBSET (0 .. NumCells)
    BY LiveIs, NameAssumption DEF NameInv
  <2>3. Listing(BuiltNames(Live, held), held, Live)
    BY <2>1, <2>2, BuiltIs
  <2> QED
    BY <2>1, <2>3, OneListing
<1> QED
  BY <1>1, NamesInvariant, PTL
-----------------------------------------------------------------------------
(* Whatever the card returns: the entries that an insertion or a removal   *)
(* leaves in the index.                                                    *)
IndexEntry(X) == [key : [1 .. KeyLength -> Nat], cell : X]

OncePerCell(s) == \A j, k \in 1 .. Len(s) : s[j].cell = s[k].cell => j = k

(* sorted_array_remove takes out an entry whose contact is read with the   *)
(* phone that it was given.                                                *)
LEMMA RemovedEntry ==
    ASSUME NEW X, NEW s \in Seq(IndexEntry(X)), NEW c \in Contact, NEW R, Removed(s, c, R).ok
    PROVE  \E i \in 1 .. Len(s) : /\ Removed(s, c, R).index = RemoveAt(s, i)
                                  /\ R[s[i].cell] \in Contact /\ R[s[i].cell].phone = c.phone
<1> DEFINE probe == ProbeFromContact(c)
           at == Find(s, c, R)
           i == at.lo + 1
<1>1. at.ok /\ at.match /\ Removed(s, c, R).index = RemoveAt(s, i)
  BY DEF Removed
<1>2. at = LowerBound(s, probe, R)
  BY DEF Find
<1> HIDE DEF at
<1>3. /\ at.lo \in 0 .. Len(s) /\ at.lo < Len(s)
      /\ Comparable(probe, s[i], R) /\ Cmp(probe, s[i], R) = 0
  BY <1>1, <1>2, SearchFinds
<1>4. i \in 1 .. Len(s)
  BY <1>3, LenProperties
<1> HIDE DEF i
<1> DEFINE d == R[s[i].cell]
<1>5. s[i] \in IndexEntry(X)
  BY <1>4, ElementOfSeq
<1>6. s[i].key \in Seq(Nat)
  <2>1. s[i].key \in [1 .. KeyLength -> Nat]
    BY <1>5 DEF IndexEntry
  <2>2. KeyLength \in Nat
    BY IndexAssumption
  <2> QED
    BY <2>1, <2>2, FunctionIsSeq
<1>7. c.name \in Seq(Nat) /\ probe.key = MakeKey(c.name) /\ probe.key \in Seq(Nat)
  <2>1. c.name \in Seq(Nat) /\ probe.key = MakeKey(c.name)
    BY DEF Contact, ProbeFromContact
  <2> QED
    BY <2>1, MakeKeyIs
<1>8. probe.key = s[i].key
  <2> SUFFICES ASSUME probe.key # s[i].key PROVE FALSE
    OBVIOUS
  <2>1. BytesCmp(probe.key, s[i].key) = 0
    BY <1>3 DEF Cmp
  <2>2. BytesCmp(probe.key, s[i].key) = 0 <=> probe.key = s[i].key
    BY <1>6, <1>7, BytesCmpIs
  <2> QED
    BY <2>1, <2>2
<1>9. d \in Contact
  BY <1>3, <1>8 DEF Comparable, IsContact, Contact
<1>10. Tiebreak(probe, d) = 0
  BY <1>3, <1>8 DEF Cmp
<1> HIDE DEF d
<1>11. ~ Precedes(c, d) /\ ~ Precedes(d, c)
  BY <1>9, <1>10, TiebreakIs
<1>12. d.phone = c.phone
  BY <1>9, <1>11, PrecedesOrder
<1> QED
  BY <1>1, <1>4, <1>9, <1>12 DEF d, i

(* Without an entry, every cell is still there at most once.               *)
LEMMA OneEntryLess ==
    ASSUME NEW X, NEW s \in Seq(IndexEntry(X)), OncePerCell(s), NEW i \in 1 .. Len(s),
           NEW t, t = RemoveAt(s, i)
    PROVE  /\ t \in Seq(IndexEntry(X)) /\ OncePerCell(t)
           /\ \A k \in 1 .. Len(t) : t[k].cell # s[i].cell
<1> DEFINE n == Len(s)  E == IndexEntry(X)
           old == [k \in 1 .. n - 1 |-> IF k < i THEN k ELSE k + 1]
<1> HIDE DEF E
<1>1. s \in Seq(E)
  BY DEF E
<1>2. /\ t \in Seq(E) /\ Len(t) = n - 1 /\ n \in Nat
      /\ \A k \in 1 .. n - 1 : t[k] = IF k < i THEN s[k] ELSE s[k + 1]
  BY <1>1, RemovedAt
<1>3. ASSUME NEW k \in 1 .. n - 1 PROVE old[k] \in 1 .. n /\ old[k] # i /\ t[k] = s[old[k]]
  <2>1. old[k] = (IF k < i THEN k ELSE k + 1) /\ t[k] = IF k < i THEN s[k] ELSE s[k + 1]
    BY <1>2
  <2>2. k \in Nat /\ k + 1 \in 1 .. n /\ k \in 1 .. n /\ i \in Nat
    BY <1>2
  <2>3. CASE k < i
    BY <2>1, <2>2, <2>3
  <2>4. CASE ~ (k < i)
    BY <2>1, <2>2, <2>4
  <2> QED
    BY <2>3, <2>4
<1>4. \A j, k \in 1 .. n - 1 : old[j] = old[k] => j = k
  BY <1>2
<1> HIDE DEF old
<1>5. OncePerCell(t)
  <2>1. ASSUME NEW j \in 1 .. n - 1, NEW k \in 1 .. n - 1, t[j].cell = t[k].cell PROVE j = k
    <3>1. s[old[j]].cell = s[old[k]].cell /\ old[j] \in 1 .. n /\ old[k] \in 1 .. n
      BY <1>3, <2>1
    <3>2. old[j] = old[k]
      BY <3>1 DEF OncePerCell
    <3> QED
      BY <1>4, <3>2
  <2> QED
    BY <1>2, <2>1 DEF OncePerCell
<1>6. \A k \in 1 .. Len(t) : t[k].cell # s[i].cell
  <2>1. ASSUME NEW k \in 1 .. n - 1 PROVE t[k].cell # s[i].cell
    <3>1. old[k] \in 1 .. n /\ old[k] # i /\ t[k] = s[old[k]] /\ i \in 1 .. n
      BY <1>3
    <3> QED
      BY <3>1 DEF OncePerCell
  <2> QED
    BY <1>2, <2>1
<1> QED
  BY <1>2, <1>5, <1>6 DEF E

(* With an entry for a cell that had none, too.                            *)
LEMMA OneEntryMore ==
    ASSUME NEW X, NEW s \in Seq(IndexEntry(X)), OncePerCell(s), NEW i \in 1 .. Len(s) + 1,
           NEW e \in IndexEntry(X), \A k \in 1 .. Len(s) : s[k].cell # e.cell,
           NEW t, t = InsertAt(s, i, e)
    PROVE  t \in Seq(IndexEntry(X)) /\ OncePerCell(t)
<1> DEFINE n == Len(s)  E == IndexEntry(X)
           old == [k \in 1 .. n + 1 |-> IF k < i THEN k ELSE k - 1]
<1> HIDE DEF E
<1>1. s \in Seq(E) /\ e \in E
  BY DEF E
<1>2. /\ t \in Seq(E) /\ Len(t) = n + 1 /\ n \in Nat
      /\ Spliced(s, i, e, t)
  BY <1>1, InsertedAt
<1>3. t[i] = e
  BY <1>2 DEF Spliced
<1>4. ASSUME NEW k \in 1 .. n + 1, k # i PROVE old[k] \in 1 .. n /\ t[k] = s[old[k]]
  <2>1. old[k] = (IF k < i THEN k ELSE k - 1)
    OBVIOUS
  <2>2. t[k] = IF k < i THEN s[k] ELSE IF k = i THEN e ELSE s[k - 1]
    BY <1>2 DEF Spliced
  <2>3. k \in Nat /\ i \in 1 .. n + 1
    BY <1>2
  <2>4. CASE k < i
    BY <1>2, <2>1, <2>2, <2>3, <2>4
  <2>5. CASE k > i
    BY <1>2, <2>1, <2>2, <2>3, <2>5
  <2> QED
    BY <1>4, <2>3, <2>4, <2>5
<1>5. \A j, k \in 1 .. n + 1 : j # i /\ k # i /\ old[j] = old[k] => j = k
  BY <1>2
<1> HIDE DEF old
<1>6. ASSUME NEW j \in 1 .. n + 1, NEW k \in 1 .. n + 1, t[j].cell = t[k].cell PROVE j = k
  <2>1. CASE j # i /\ k # i
    BY <1>4, <1>5, <1>6, <2>1 DEF OncePerCell
  <2>2. CASE j = i /\ k # i
    BY <1>3, <1>4, <1>6, <2>2
  <2>3. CASE j # i /\ k = i
    BY <1>3, <1>4, <1>6, <2>3
  <2> QED
    BY <2>1, <2>2, <2>3
<1> QED
  BY <1>2, <1>6 DEF OncePerCell, E

(* An insertion, whether or not it goes through.                           *)
LEMMA InsertedEntry ==
    ASSUME NEW X, NEW s \in Seq(IndexEntry(X)), OncePerCell(s), NEW c \in Contact,
           NEW cell \in X, \A k \in 1 .. Len(s) : s[k].cell # cell, NEW R
    PROVE  Inserted(s, c, cell, R).index \in Seq(IndexEntry(X)) /\ OncePerCell(Inserted(s, c, cell, R).index)
<1> DEFINE at == Find(s, c, R)
           e == [key |-> MakeKey(c.name), cell |-> cell]
           i == at.lo + 1
<1>1. at.lo \in 0 .. Len(s)
  BY SearchFinds DEF Find
<1>2. e \in IndexEntry(X) /\ e.cell = cell
  <2>1. c.name \in Seq(Nat)
    BY DEF Contact
  <2>2. MakeKey(c.name) \in [1 .. KeyLength -> Nat]
    BY <2>1, MakeKeyIs
  <2> QED
    BY <2>2 DEF IndexEntry
<1>3. Inserted(s, c, cell, R).index \in {s, InsertAt(s, i, e)}
  BY DEF Inserted
<1>4. i \in 1 .. Len(s) + 1
  BY <1>1, LenProperties
<1> HIDE DEF i, e
<1>5. InsertAt(s, i, e) \in Seq(IndexEntry(X)) /\ OncePerCell(InsertAt(s, i, e))
  BY <1>2, <1>4, OneEntryMore
<1> QED
  BY <1>3, <1>5

(* A listing has entries of its cells, each once.                          *)
LEMMA ListingTyped ==
    ASSUME NEW h, NEW L, Holds(h, L), NEW s, Listing(s, h, L), NEW X, L \subseteq X
    PROVE  /\ s \in Seq(IndexEntry(X)) /\ OncePerCell(s)
           /\ \A k \in 1 .. Len(s) : s[k].cell \in L
<1> DEFINE n == Len(s)
<1>1. n \in Nat /\ \A k \in 1 .. n : s[k].cell \in L /\ s[k] = Entry(h, s[k].cell)
  BY ListingIs
<1>2. \A k \in 1 .. n : s[k] \in IndexEntry(X)
  <2> TAKE k \in 1 .. n
  <2> DEFINE c == s[k].cell
  <2>1. c \in L /\ s[k] = Entry(h, c) /\ c \in X
    BY <1>1
  <2> HIDE DEF c
  <2>2. h[c].name \in Seq(Nat)
    BY <2>1 DEF Holds, Contact
  <2>3. MakeKey(h[c].name) \in [1 .. KeyLength -> Nat]
    BY <2>2, MakeKeyIs
  <2> QED
    BY <2>1, <2>3 DEF Entry, IndexEntry
<1>3. s \in Seq(IndexEntry(X))
  <2>1. s = [k \in 1 .. n |-> s[k]]
    BY LenProperties DEF Listing
  <2> HIDE DEF n
  <2>2. s \in [1 .. n -> IndexEntry(X)]
    BY <1>2, <2>1
  <2> QED
    BY <1>1, <2>2, FunctionIsSeq
<1>4. OncePerCell(s)
  BY ListedOnce DEF OncePerCell
<1> QED
  BY <1>1, <1>3, <1>4
-----------------------------------------------------------------------------
(* The chat order (chat_order.c).                                          *)
Once(s) == \A j, k \in 1 .. Len(s) : s[j] = s[k] => j = k

(* The entries of t are entries of s, in the same order.                   *)
InTheOrderOf(t, s) ==
    \E old \in [1 .. Len(t) -> 1 .. Len(s)] :
       /\ \A k \in 1 .. Len(t) : t[k] = s[old[k]]
       /\ \A j, k \in 1 .. Len(t) : j < k => old[j] < old[k]

(* chat_order_find gives the rank of a cell, or 0.                         *)
LEMMA RankOfIs ==
    ASSUME NEW X, NEW s \in Seq(X), Once(s), NEW c
    PROVE  /\ RankOf(s, c) \in 0 .. Len(s)
           /\ RankOf(s, c) # 0 => s[RankOf(s, c)] = c
           /\ RankOf(s, c) = 0 => \A k \in 1 .. Len(s) : s[k] # c
<1>1. Len(s) \in Nat /\ DOMAIN s = 1 .. Len(s)
  BY LenProperties
<1>2. CASE \E k \in 1 .. Len(s) : s[k] = c
  <2>1. PICK k \in 1 .. Len(s) : s[k] = c
    BY <1>2
  <2>2. \A j \in 1 .. k - 1 : s[j] # c
    <3> SUFFICES ASSUME NEW j \in 1 .. k - 1, s[j] = c PROVE FALSE
      OBVIOUS
    <3>1. j \in 1 .. Len(s) /\ j # k
      BY <1>1
    <3> QED
      BY <2>1, <3>1 DEF Once
  <2> DEFINE r == CHOOSE m \in DOMAIN s : s[m] = c /\ \A j \in 1 .. m - 1 : s[j] # c
  <2>3. r \in 1 .. Len(s) /\ s[r] = c
    BY <1>1, <2>1, <2>2
  <2>4. RankOf(s, c) = r
    BY <1>1, <1>2 DEF RankOf
  <2> HIDE DEF r
  <2> QED
    BY <1>1, <2>3, <2>4
<1>3. CASE ~ \E k \in 1 .. Len(s) : s[k] = c
  <2>1. RankOf(s, c) = 0
    BY <1>1, <1>3 DEF RankOf
  <2> QED
    BY <1>1, <1>3, <2>1
<1> QED
  BY <1>2, <1>3

(* chat_order_remove takes out one cell and keeps the others' order.       *)
Without(t, s, X, c) ==
    /\ t \in Seq(X \ {c}) /\ Once(t) /\ InTheOrderOf(t, s)
    /\ \A k \in 1 .. Len(s) : s[k] # c => \E j \in 1 .. Len(t) : t[j] = s[k]

(* chat_order_remove takes the cell out and leaves the rest in its order.  *)
LEMMA ChatRemovedIs ==
    ASSUME NEW X, NEW s \in Seq(X), Once(s), NEW c, NEW t, t = ChatRemoved(s, c)
    PROVE  Without(t, s, X, c)
<1> DEFINE n == Len(s)  i == RankOf(s, c)  Y == X \ {c}
<1>1. n \in Nat /\ \A k \in 1 .. n : s[k] \in X
  BY LenProperties, ElementOfSeq
<1>2. i \in 0 .. n /\ (i # 0 => s[i] = c) /\ (i = 0 => \A k \in 1 .. n : s[k] # c)
  BY RankOfIs
<1>3. t = IF i = 0 THEN s ELSE RemoveAt(s, i)
  BY DEF ChatRemoved
<1> HIDE DEF i
<1>4. CASE i = 0
  <2>1. t = s
    BY <1>3, <1>4
  <2>2. \A k \in 1 .. n : s[k] \in Y
    BY <1>1, <1>2, <1>4
  <2>3. s \in Seq(Y)
    <3>1. s = [k \in 1 .. n |-> s[k]]
      BY LenProperties
    <3> HIDE DEF n, Y
    <3>2. s \in [1 .. n -> Y]
      BY <2>2, <3>1
    <3> QED
      BY <1>1, <3>2, FunctionIsSeq
  <2>4. InTheOrderOf(s, s)
    <3> DEFINE old == [k \in 1 .. n |-> k]
    <3>1. old \in [1 .. Len(s) -> 1 .. Len(s)]
      OBVIOUS
    <3>2. /\ \A k \in 1 .. Len(s) : s[k] = s[old[k]]
          /\ \A j, k \in 1 .. Len(s) : j < k => old[j] < old[k]
      OBVIOUS
    <3> HIDE DEF old
    <3> QED
      BY <3>1, <3>2 DEF InTheOrderOf
  <2> QED
    BY <1>1, <1>2, <1>4, <2>1, <2>3, <2>4 DEF Without
<1>5. CASE i # 0
  <2>1. i \in 1 .. n /\ s[i] = c /\ t = RemoveAt(s, i)
    BY <1>1, <1>2, <1>3, <1>5
  <2>2. /\ Len(t) = n - 1 /\ t \in Seq(X)
        /\ \A k \in 1 .. n - 1 : t[k] = IF k < i THEN s[k] ELSE s[k + 1]
    BY <2>1, RemovedAt
  <2> DEFINE old == [k \in 1 .. n - 1 |-> IF k < i THEN k ELSE k + 1]
  <2>3. ASSUME NEW k \in 1 .. n - 1 PROVE old[k] \in 1 .. n /\ old[k] # i /\ t[k] = s[old[k]]
    <3>1. old[k] = (IF k < i THEN k ELSE k + 1) /\ t[k] = IF k < i THEN s[k] ELSE s[k + 1]
      BY <2>2
    <3>2. k \in Nat /\ k + 1 \in 1 .. n /\ k \in 1 .. n /\ i \in Nat
      BY <1>1, <2>1
    <3>3. CASE k < i
      BY <3>1, <3>2, <3>3
    <3>4. CASE ~ (k < i)
      BY <3>1, <3>2, <3>4
    <3> QED
      BY <3>3, <3>4
  <2>4. /\ \A j, k \in 1 .. n - 1 : j < k => old[j] < old[k]
        /\ \A j, k \in 1 .. n - 1 : old[j] = old[k] => j = k
    BY <1>1, <2>1
  <2>5. ASSUME NEW q \in 1 .. n, q # i PROVE \E k \in 1 .. n - 1 : old[k] = q
    <3>1. CASE q < i
      <4>1. q \in 1 .. n - 1 /\ old[q] = q
        BY <1>1, <2>1, <3>1
      <4> QED
        BY <4>1
    <3>2. CASE q > i
      <4>1. q - 1 \in 1 .. n - 1 /\ ~ (q - 1 < i) /\ (q - 1) + 1 = q
        BY <1>1, <2>1, <3>2
      <4>2. old[q - 1] = q
        BY <4>1
      <4> QED
        BY <4>1, <4>2
    <3> QED
      BY <2>1, <2>5, <3>1, <3>2
  <2>6. old \in [1 .. n - 1 -> 1 .. n]
    BY <2>3
  <2> HIDE DEF old
  <2>7. InTheOrderOf(t, s)
    BY <2>2, <2>3, <2>4, <2>6 DEF InTheOrderOf
  <2>8. Once(t)
    <3>1. ASSUME NEW j \in 1 .. n - 1, NEW k \in 1 .. n - 1, t[j] = t[k] PROVE j = k
      <4>1. old[j] \in 1 .. n /\ old[k] \in 1 .. n /\ s[old[j]] = s[old[k]]
        BY <2>3, <3>1
      <4>2. old[j] = old[k]
        BY <4>1 DEF Once
      <4> QED
        BY <2>4, <4>2
    <3> QED
      BY <2>2, <3>1 DEF Once
  <2>9. \A k \in 1 .. n - 1 : t[k] \in Y
    <3> TAKE k \in 1 .. n - 1
    <3>1. old[k] \in 1 .. n /\ old[k] # i /\ t[k] = s[old[k]]
      BY <2>3
    <3>2. s[old[k]] # c
      BY <2>1, <3>1 DEF Once
    <3> QED
      BY <1>1, <3>1, <3>2
  <2>10. t \in Seq(Y)
    <3> DEFINE q == n - 1
    <3>1. q \in Nat /\ Len(t) = q /\ \A k \in 1 .. q : t[k] \in Y
      BY <1>1, <2>1, <2>2, <2>9
    <3> HIDE DEF q, Y
    <3>2. t = [k \in 1 .. q |-> t[k]]
      BY <2>2, <3>1, LenProperties
    <3>3. t \in [1 .. q -> Y]
      BY <3>1, <3>2
    <3> QED
      BY <3>1, <3>3, FunctionIsSeq
  <2>11. \A k \in 1 .. n : s[k] # c => \E j \in 1 .. n - 1 : t[j] = s[k]
    <3> SUFFICES ASSUME NEW k \in 1 .. n, s[k] # c PROVE \E j \in 1 .. n - 1 : t[j] = s[k]
      OBVIOUS
    <3>1. k # i
      BY <2>1
    <3>2. PICK j \in 1 .. n - 1 : old[j] = k
      BY <2>5, <3>1
    <3> QED
      BY <2>3, <3>2
  <2> QED
    BY <2>2, <2>7, <2>8, <2>10, <2>11 DEF Without
<1> QED
  BY <1>4, <1>5

(* chat_order_touch puts a cell first.                                     *)
WithFirst(t, r, X, c) ==
    /\ t \in Seq(X) /\ Once(t) /\ Len(t) = Len(r) + 1 /\ Len(r) \in Nat
    /\ t[1] = c /\ \A k \in 1 .. Len(r) : t[k + 1] = r[k] /\ r[k] # c

(* chat_order_touch puts the cell first.                                   *)
LEMMA TouchedIs ==
    ASSUME NEW X, NEW s \in Seq(X), Once(s), NEW c \in X,
           RankOf(s, c) = 0 => Len(s) < ChatCapacity,
           NEW r, r = ChatRemoved(s, c), NEW t, t = Touched(s, c)
    PROVE  WithFirst(t, r, X, c)
<1> DEFINE i == RankOf(s, c)
<1>1. i = 0 => Len(s) < ChatCapacity
  OBVIOUS
<1>2. t = <<c>> \o r
  BY <1>1 DEF Touched, ChatRemoved
<1>3. r \in Seq(X \ {c}) /\ Once(r)
  BY ChatRemovedIs DEF Without
<1>4. r \in Seq(X) /\ Len(r) \in Nat /\ \A k \in 1 .. Len(r) : r[k] \in X /\ r[k] # c
  <2>1. Len(r) \in Nat /\ r = [k \in 1 .. Len(r) |-> r[k]]
    BY <1>3, LenProperties
  <2>2. \A k \in 1 .. Len(r) : r[k] \in X \ {c}
    BY <1>3, ElementOfSeq
  <2>3. r \in [1 .. Len(r) -> X]
    BY <2>1, <2>2
  <2> QED
    BY <2>1, <2>2, <2>3, FunctionIsSeq
<1>5. <<c>> \in Seq(X) /\ Len(<<c>>) = 1 /\ <<c>>[1] = c
  OBVIOUS
<1>6. /\ t \in Seq(X) /\ Len(t) = 1 + Len(r)
      /\ \A p \in 1 .. 1 : t[p] = <<c>>[p]
      /\ \A q \in 1 .. Len(r) : t[1 + q] = r[q]
  BY <1>2, <1>4, <1>5, Joined
<1>7. t[1] = c /\ Len(t) = Len(r) + 1
  BY <1>4, <1>5, <1>6
<1>8. \A k \in 1 .. Len(r) : t[k + 1] = r[k] /\ r[k] # c
  <2> TAKE k \in 1 .. Len(r)
  <2>1. k + 1 = 1 + k
    OBVIOUS
  <2> QED
    BY <1>4, <1>6, <2>1
<1>9. Once(t)
  <2>1. ASSUME NEW j \in 1 .. Len(t), NEW k \in 1 .. Len(t), t[j] = t[k] PROVE j = k
    <3>1. ASSUME NEW m \in 1 .. Len(t), m # 1
          PROVE  m - 1 \in 1 .. Len(r) /\ t[m] = r[m - 1] /\ t[m] # c
      <4> DEFINE q == m - 1
      <4>1. q \in 1 .. Len(r) /\ q + 1 = m
        BY <1>4, <1>7, <3>1
      <4> HIDE DEF q
      <4>2. t[m] = r[q] /\ r[q] # c
        BY <1>8, <4>1
      <4> QED
        BY <4>1, <4>2 DEF q
    <3>2. CASE j = 1 \/ k = 1
      BY <1>7, <2>1, <3>1, <3>2
    <3>3. CASE j # 1 /\ k # 1
      <4>1. r[j - 1] = r[k - 1] /\ j - 1 \in 1 .. Len(r) /\ k - 1 \in 1 .. Len(r)
        BY <2>1, <3>1, <3>3
      <4>2. j - 1 = k - 1
        BY <1>3, <4>1 DEF Once
      <4> QED
        BY <1>4, <1>7, <4>2
    <3> QED
      BY <3>2, <3>3
  <2> QED
    BY <2>1 DEF Once
<1> QED
  BY <1>4, <1>6, <1>7, <1>8, <1>9 DEF WithFirst

(* chat_order_replace gives a chat another cell and its old place.         *)
WithInstead(t, s, Y, c, d) ==
    /\ t \in Seq(Y) /\ Once(t) /\ Len(t) = Len(s)
    /\ \A k \in 1 .. Len(s) : t[k] = IF s[k] = c THEN d ELSE s[k]

(* chat_order_replace puts another cell in its place.                      *)
LEMMA ChatReplacedIs ==
    ASSUME NEW X, NEW s \in Seq(X), Once(s), NEW c, NEW Y, NEW d \in Y,
           X \ {c} \in SUBSET Y, d \notin X \ {c},
           NEW t, t = ChatReplaced(s, c, d)
    PROVE  WithInstead(t, s, Y, c, d)
<1> DEFINE n == Len(s)  i == RankOf(s, c)
<1>1. n \in Nat /\ DOMAIN s = 1 .. n /\ s = [k \in 1 .. n |-> s[k]] /\ \A k \in 1 .. n : s[k] \in X
  BY LenProperties, ElementOfSeq
<1>2. i \in 0 .. n /\ (i # 0 => s[i] = c) /\ (i = 0 => \A k \in 1 .. n : s[k] # c)
  BY RankOfIs
<1>3. t = IF i = 0 THEN s ELSE [s EXCEPT ![i] = d]
  BY DEF ChatReplaced
<1> HIDE DEF i
<1>4. \A k \in 1 .. n : s[k] = c <=> k = i
  <2> TAKE k \in 1 .. n
  <2>1. CASE i = 0
    BY <1>2, <2>1
  <2>2. CASE i # 0
    <3>1. i \in 1 .. n /\ s[i] = c
      BY <1>1, <1>2, <2>2
    <3> QED
      BY <3>1 DEF Once
  <2> QED
    BY <2>1, <2>2
<1>5. DOMAIN t = 1 .. n /\ t = [k \in 1 .. n |-> t[k]]
  BY <1>1, <1>3
<1>6. \A k \in 1 .. n : t[k] = IF s[k] = c THEN d ELSE s[k]
  BY <1>1, <1>2, <1>3, <1>4
<1>7. \A k \in 1 .. n : t[k] \in Y
  BY <1>1, <1>6
<1>8. t \in Seq(Y) /\ Len(t) = n
  <2>1. t \in [1 .. n -> Y]
    BY <1>5, <1>7
  <2> HIDE DEF n
  <2> QED
    BY <1>1, <2>1, FunctionIsSeq
<1>9. Once(t)
  <2>1. \A j, k \in 1 .. n : t[j] = t[k] => s[j] = s[k]
    BY <1>1, <1>6
  <2> QED
    BY <1>8, <2>1 DEF Once
<1> QED
  BY <1>6, <1>8, <1>9 DEF WithInstead

(* Ranks keep the order of the times that they stand for.                  *)
LEMMA RankedIs ==
    ASSUME NEW time \in [Slots -> Nat], NEW r, r = Ranked(time)
    PROVE  /\ r \in [Slots -> Nat]
           /\ \A x, y \in Slots : time[x] > time[y] => r[x] > r[y]
<1> DEFINE T == {time[x] : x \in Slots}
           Below(s) == T \cap (1 .. time[s])
<1>1. IsFiniteSet(T)
  <2>1. IsFiniteSet(Slots)
    BY Sizes, FS_Interval DEF Slots
  <2>2. time \in Surjection(Slots, T)
    BY DEF Surjection
  <2> QED
    BY <2>1, <2>2, FS_Surjection
<1>2. \A s \in Slots : IsFiniteSet(Below(s)) /\ Cardinality(Below(s)) \in Nat
  BY <1>1, FS_Intersection, FS_CardinalityType
<1>3. \A s \in Slots : r[s] = Cardinality(Below(s))
  BY DEF Ranked
<1>4. r \in [Slots -> Nat]
  <2> HIDE DEF T
  <2> QED BY <1>2 DEF Ranked, T
<1>5. ASSUME NEW x \in Slots, NEW y \in Slots, time[x] > time[y] PROVE r[x] > r[y]
  <2>1. Below(y) \subseteq Below(x) /\ time[x] \in Below(x) /\ time[x] \notin Below(y)
    BY <1>5
  <2>2. Cardinality(Below(y)) <= Cardinality(Below(x))
    BY <1>2, <2>1, FS_Subset
  <2>3. Cardinality(Below(y)) # Cardinality(Below(x))
    BY <1>2, <2>1, FS_Subset
  <2> HIDE DEF Below
  <2> QED
    BY <1>2, <1>3, <2>2, <2>3
<1> QED
  BY <1>4, <1>5

(* chat_order_build: every chat once, the later ones first.                *)
Latest(time, s) ==
    \A j, k \in 1 .. Len(s) : j < k => time[s[j]] > time[s[k]] \/ (time[s[j]] = time[s[k]] /\ s[j] < s[k])

ChatListing(t, C, time) ==
    /\ t \in Seq(C) /\ Len(t) = Cardinality(C) /\ Cardinality(C) \in Nat /\ Once(t)
    /\ \A c \in C : \E k \in 1 .. Len(t) : t[k] = c
    /\ Latest(time, t)

LEMMA BuiltChatsIs ==
    ASSUME NEW N \in Nat, NEW C \in SUBSET (0 .. N), NEW time \in [C -> Nat],
           NEW t, t = BuiltChats(C, time)
    PROVE  ChatListing(t, C, time)
<1> DEFINE order == Ascending(C)
           n     == Len(order)
           Chat(c) == [time |-> time[c], cell |-> c]
           X     == {Chat(c) : c \in C}
           mem   == [k \in 0 .. n - 1 |-> [time |-> time[order[k + 1]], cell |-> order[k + 1]]]
           less  == {p \in Range(mem) \X Range(mem) : LaterFirst(p[1], p[2])}
           done  == Sorted(mem, n, less)
<1>1. t = [k \in 1 .. n |-> done[k - 1].cell]
  BY DEF BuiltChats
<1>2. /\ order \in Seq(C) /\ n \in Nat /\ n = Cardinality(C) /\ Cardinality(C) \in Nat
      /\ \A p, q \in 1 .. n : p < q => order[p] < order[q]
      /\ \A x \in C : \E p \in 1 .. n : order[p] = x
  <2>1. /\ order \in Seq(C) /\ n = Cardinality(C) /\ Cardinality(C) \in Nat
        /\ \A p, q \in 1 .. Cardinality(C) : p < q => order[p] < order[q]
        /\ \A x \in C : \E p \in 1 .. Cardinality(C) : order[p] = x
    BY AscendingIs
  <2> HIDE DEF order
  <2> QED
    BY <2>1
<1> HIDE DEF order
<1>3. \A p \in 1 .. n : order[p] \in C /\ order[p] \in Int
  <2>1. \A p \in 1 .. n : order[p] \in C
    <3> HIDE DEF X
    <3> QED BY <1>2, ElementOfSeq
  <2>2. \A x \in C : x \in Int
    OBVIOUS
  <2> QED
    BY <2>1, <2>2
<1> HIDE DEF n
<1>4. \A p, q \in 1 .. n : order[p] = order[q] => p = q
  BY <1>2, <1>3
<1>5. \A c \in C : Chat(c) \in X /\ Chat(c).cell = c /\ Chat(c).time = time[c] /\ time[c] \in Nat /\ c \in Nat
  OBVIOUS
<1>6. \A x \in X : \E c \in C : x = Chat(c)
  OBVIOUS
<1> HIDE DEF X
<1>7. ASSUME NEW k \in 0 .. n - 1
      PROVE  k + 1 \in 1 .. n /\ mem[k] = Chat(order[k + 1]) /\ mem[k] \in X /\ mem[k].cell = order[k + 1]
  <2>1. k + 1 \in 1 .. n
    BY <1>2
  <2> DEFINE q == order[k + 1]
  <2>2. q \in C /\ mem[k] = [time |-> time[q], cell |-> q]
    BY <1>3, <2>1
  <2> HIDE DEF q
  <2>3. mem[k] = Chat(q) /\ mem[k].cell = q
    BY <2>2
  <2> QED
    BY <1>5, <2>1, <2>2, <2>3 DEF q
<1> HIDE DEF Chat
<1>8. mem \in Arrays(n, X)
  <2>1. mem \in [0 .. n - 1 -> X]
    <3>1. \A k \in 0 .. n - 1 : mem[k] \in X
      BY <1>7
    <3>2. mem = [k \in 0 .. n - 1 |-> mem[k]]
      OBVIOUS
    <3> HIDE DEF mem
    <3> QED
      BY <3>1, <3>2
  <2>2. ASSUME NEW j \in 0 .. n - 1, NEW k \in 0 .. n - 1, mem[j] = mem[k] PROVE j = k
    <3>1. order[j + 1] = order[k + 1] /\ j + 1 \in 1 .. n /\ k + 1 \in 1 .. n
      BY <1>7, <2>2
    <3>2. j + 1 = k + 1
      BY <1>4, <3>1
    <3> QED
      BY <3>2
  <2>3. ASSUME NEW x \in X PROVE \E k \in 0 .. n - 1 : mem[k] = x
    <3>1. PICK c \in C : x = Chat(c)
      BY <1>6
    <3>2. PICK p \in 1 .. n : order[p] = c
      BY <1>2
    <3> DEFINE k == p - 1
    <3>3. k \in 0 .. n - 1 /\ k + 1 = p
      BY <1>2
    <3> HIDE DEF k, mem
    <3>4. mem[k] = x
      BY <1>7, <3>1, <3>2, <3>3
    <3> QED
      BY <3>3, <3>4
  <2> HIDE DEF mem
  <2> QED
    BY <2>1, <2>2, <2>3 DEF Arrays
<1> HIDE DEF mem
<1>9. Range(mem) = X
  <2>1. DOMAIN mem = 0 .. n - 1 /\ (\A k \in 0 .. n - 1 : mem[k] \in X)
        /\ (\A x \in X : \E k \in 0 .. n - 1 : mem[k] = x)
    BY <1>8 DEF Arrays
  <2> QED
    BY <2>1 DEF Range
<1>10. ASSUME NEW a \in X
       PROVE  a.cell \in C /\ a.cell \in Nat /\ a.time = time[a.cell] /\ a.time \in Nat /\ a = Chat(a.cell)
  BY <1>5, <1>6
<1>11. ASSUME NEW a \in X, NEW b \in X
       PROVE  <<a, b>> \in less <=> a.time > b.time \/ (a.time = b.time /\ a.cell < b.cell)
  <2>1. <<a, b>> \in X \X X /\ <<a, b>>[1] = a /\ <<a, b>>[2] = b
    OBVIOUS
  <2>2. <<a, b>> \in less <=> LaterFirst(a, b)
    BY <1>9, <2>1
  <2> QED
    BY <2>2 DEF LaterFirst
<1> HIDE DEF less
<1>12. Strict(less, X)
  <2>1. \A a \in X : <<a, a>> \notin less
    BY <1>10, <1>11
  <2>2. ASSUME NEW a \in X, NEW b \in X, a # b PROVE <<a, b>> \in less \/ <<b, a>> \in less
    <3>1. a.cell # b.cell
      BY <1>10, <2>2
    <3> QED
      BY <1>10, <1>11, <3>1
  <2>3. ASSUME NEW a \in X, NEW b \in X, NEW c \in X, <<a, b>> \in less, <<b, c>> \in less
        PROVE  <<a, c>> \in less
    BY <1>10, <1>11, <2>3
  <2> QED
    BY <2>1, <2>2, <2>3 DEF Strict
<1>13. /\ done \in Arrays(n, X)
       /\ \A i, j \in 0 .. n - 1 : i < j => <<done[i], done[j]>> \in less
  BY <1>2, <1>8, <1>12, SortedIs
<1> HIDE DEF done
<1>14. ASSUME NEW k \in 1 .. n
       PROVE  k - 1 \in 0 .. n - 1 /\ done[k - 1] \in X /\ t[k] = done[k - 1].cell /\ t[k] \in C
  <2>1. k - 1 \in 0 .. n - 1
    BY <1>2
  <2>2. done[k - 1] \in X
    BY <1>13, <2>1 DEF Arrays
  <2> QED
    BY <1>1, <1>10, <2>1, <2>2
<1>15. t \in Seq(C) /\ Len(t) = n
  <2>1. t \in [1 .. n -> C]
    BY <1>1, <1>14
  <2> QED
    BY <1>2, <2>1, FunctionIsSeq
<1>16. ASSUME NEW j \in 1 .. n, NEW k \in 1 .. n, j < k
       PROVE  time[t[j]] > time[t[k]] \/ (time[t[j]] = time[t[k]] /\ t[j] < t[k])
  <2>1. j - 1 < k - 1 /\ j - 1 \in 0 .. n - 1 /\ k - 1 \in 0 .. n - 1
    BY <1>2, <1>16
  <2>2. <<done[j - 1], done[k - 1]>> \in less
    BY <1>13, <2>1
  <2> DEFINE a == done[j - 1]  b == done[k - 1]
  <2>3. a \in X /\ b \in X /\ <<a, b>> \in less /\ t[j] = a.cell /\ t[k] = b.cell
    BY <1>14, <2>2
  <2> HIDE DEF a, b
  <2> QED
    BY <1>10, <1>11, <2>3
<1>17. Once(t)
  <2>1. \A c \in C : time[c] \in Nat /\ c \in Nat
    BY <1>5
  <2>2. ASSUME NEW j \in 1 .. n, NEW k \in 1 .. n, t[j] = t[k] PROVE j = k
    <3>1. t[j] \in C /\ t[k] \in C
      BY <1>14
    <3>2. time[t[j]] = time[t[k]] /\ time[t[j]] \in Nat /\ t[j] \in Nat
      BY <2>1, <2>2, <3>1
    <3>3. ~ (j < k)
      BY <1>16, <2>2, <3>2
    <3>4. ~ (k < j)
      BY <1>16, <2>2, <3>2
    <3> QED
      BY <1>2, <3>3, <3>4
  <2> QED
    BY <1>15, <2>2 DEF Once
<1>18. ASSUME NEW c \in C PROVE \E k \in 1 .. n : t[k] = c
  <2>1. PICK i \in 0 .. n - 1 : done[i] = Chat(c)
    BY <1>5, <1>13 DEF Arrays
  <2> DEFINE k == i + 1
  <2>2. k \in 1 .. n /\ k - 1 = i
    BY <1>2
  <2> HIDE DEF k
  <2>3. t[k] = c
    BY <1>5, <1>14, <2>1, <2>2
  <2> QED
    BY <2>2, <2>3
<1>19. Latest(time, t)
  BY <1>15, <1>16 DEF Latest
<1> QED
  BY <1>2, <1>15, <1>17, <1>18, <1>19 DEF ChatListing
-----------------------------------------------------------------------------
(***************************************************************************)
(* The database's two lists.  What a lookup finds in a database that runs  *)
(* and has had no write fail: each lemma is an implication from the table's*)
(* invariant, so that it says the same of a step's next state.             *)
(***************************************************************************)
Settled == Running /\ ~Failing

(* A contact of the store is one of the index, and no mark is.             *)
LEMMA ContactsAre ==
    /\ \A x \in Contacts : x \in Contact /\ x.phone \in Phones /\ x.name \in Names
    /\ \A p \in Phones, n \in Names : /\ Named(p, n) \in Contacts /\ Named(p, n) \in Contact
                                      /\ Named(p, n).phone = p /\ Named(p, n).name = n
    /\ Free \notin Contact /\ Lost \notin Contact /\ NoContact \notin Contact
    /\ NoContact \notin [contact : Contacts, cell : Cells]
<1>1. ASSUME NEW x \in Contacts PROVE x \in Contact /\ x.phone \in Phones /\ x.name \in Names
  <2>1. x.phone \in Phones /\ x.name \in Names /\ x = [phone |-> x.phone, name |-> x.name]
    BY DEF Contacts
  <2>2. IsContact([phone |-> x.phone, name |-> x.name])
    BY <2>1, NamesAreStrings
  <2> QED
    BY <2>1, <2>2 DEF IsContact, Contact
<1>2. ASSUME NEW p \in Phones, NEW n \in Names
      PROVE  /\ Named(p, n) \in Contacts /\ Named(p, n).phone = p /\ Named(p, n).name = n
  BY DEF Named, Contacts
<1> QED
  BY <1>1, <1>2, MarksAreNoContacts DEF IsContact, Contact

(* Every occupied cell has its own slot, and there are no more of them.    *)
CellsOwnSlots ==
    /\ IsFiniteSet(OccupiedCells) /\ Cardinality(OccupiedCells) \in Nat
    /\ Cardinality(OccupiedCells) <= NumSlots
    /\ \A s \in Slots : (\A c \in OccupiedCells : table[c].slot # s) => Cardinality(OccupiedCells) < NumSlots
    /\ \A c \in OccupiedCells : /\ c \in Cells /\ table[c].slot \in Slots /\ table[c].chat \in BOOLEAN
                                /\ Read[c] = contacts[table[c].slot]
    /\ \A c, d \in OccupiedCells : table[c].slot = table[d].slot => c = d

(* A table entry has its own slot, and there are no more entries than      *)
(* slots.                                                                  *)
LEMMA CellsAre == TableInv => CellsOwnSlots
<1> SUFFICES ASSUME TableInv PROVE CellsOwnSlots
  OBVIOUS
<1>1. TypeOK /\ EntryInv
  BY InvParts
<1>2. IsFiniteSet(OccupiedCells) /\ Cardinality(OccupiedCells) \in Nat
  BY FiniteCells, FS_CardinalityType
<1>3. \A c \in OccupiedCells : c \in Cells /\ table[c].slot \in Slots /\ table[c].chat \in BOOLEAN
                               /\ table[c].state = "occupied"
  BY <1>1, CellFacts
<1>4. \A c, d \in OccupiedCells : table[c].slot = table[d].slot => c = d
  BY <1>1 DEF EntryInv
<1>5. \A c \in OccupiedCells : Read[c] = contacts[table[c].slot]
  BY <1>3 DEF Read
<1>6. IsFiniteSet(Slots) /\ Cardinality(Slots) = NumSlots
  <2>1. 0 \in Int /\ NumSlots - 1 \in Int /\ ~(0 > NumSlots - 1)
    BY Sizes
  <2>2. IsFiniteSet(Slots) /\ Cardinality(Slots) = NumSlots - 1 - 0 + 1
    BY <2>1, FS_Interval DEF Slots
  <2> QED
    BY <2>2, Sizes
<1>7. ASSUME NEW S \in SUBSET Slots, \A c \in OccupiedCells : table[c].slot \in S
      PROVE  Cardinality(OccupiedCells) <= Cardinality(S) /\ IsFiniteSet(S) /\ Cardinality(S) \in Nat
  <2> DEFINE f == [c \in OccupiedCells |-> table[c].slot]
  <2>1. f \in Injection(OccupiedCells, S)
    BY <1>4, <1>7 DEF Injection, IsInjective
  <2>2. IsFiniteSet(S)
    BY <1>6, FS_Subset
  <2> QED
    BY <2>1, <2>2, FS_Injection, FS_CardinalityType
<1>8. Cardinality(OccupiedCells) <= NumSlots
  BY <1>3, <1>6, <1>7
<1>9. ASSUME NEW s \in Slots, \A c \in OccupiedCells : table[c].slot # s
      PROVE  Cardinality(OccupiedCells) < NumSlots
  <2> DEFINE S == Slots \ {s}
  <2>1. Cardinality(OccupiedCells) <= Cardinality(S)
    BY <1>3, <1>7, <1>9
  <2>2. Cardinality(S) = NumSlots - 1
    BY <1>6, FS_RemoveElement
  <2> QED
    BY <1>2, <2>1, <2>2, Sizes
<1> QED
  BY <1>2, <1>3, <1>4, <1>5, <1>8, <1>9 DEF CellsOwnSlots

LEMMA CellsAreNext == TableInv' => CellsOwnSlots'
  BY CellsAre, PTL

(* A phone's lookup finds the one cell whose contact has the phone.        *)
LookupsSettled ==
    /\ contacts = durable /\ Garbage = {FALSE}
    /\ \A c \in OccupiedCells : /\ Read[c] \in Contacts /\ Read[c] \in Contact /\ Read[c].phone \in Phones
                                /\ (table[c].chat <=> table[c].slot \in chats)
    /\ \A p \in Phones : \A c \in OccupiedCells :
          Read[c].phone = p => CellOf(p) = c /\ IsFound(p, FALSE)
    /\ \A c, d \in OccupiedCells : Read[c].phone = Read[d].phone => c = d
    /\ \A s \in Slots : contacts[s] \in Contacts => \E c \in OccupiedCells : table[c].slot = s
    /\ freeSlots = {s \in Slots : contacts[s] = Free}
    /\ \A p \in Phones, i \in Attempts :
          /\ Found(p, i, FALSE) =>
                /\ Probe(p, i) \in OccupiedCells /\ Read[Probe(p, i)].phone = p
                /\ CellOf(p) = Probe(p, i)
          /\ FindsFree(p, i, FALSE) =>
                /\ Probe(p, i) \in Cells \ OccupiedCells
                /\ \A c \in OccupiedCells : Read[c].phone # p

LEMMA LookupsAre == TableInv => (Settled => LookupsSettled)
<1> SUFFICES ASSUME TableInv, Settled PROVE LookupsSettled
  OBVIOUS
<1>1. /\ TypeOK /\ CardInv /\ EntryInv /\ ReachInv /\ AllocInv /\ ChatInv /\ op \in Ops
      /\ Running /\ ~Failing
  BY InvParts DEF Settled
<1>2. /\ doubt = {} /\ contacts = durable /\ \A p \in Phones : ~Doubtful(p)
      /\ SlotsRead = Slots /\ ChatsRead = Slots
  BY <1>1, NotFailing, ReadFacts
<1>3. CellsOwnSlots
  BY CellsAre
<1>4. ASSUME NEW c \in OccupiedCells
      PROVE  /\ table[c].slot \in Slots /\ Read[c] = durable[table[c].slot] /\ Read[c] \in Contacts
             /\ Read[c] \in Contact /\ Read[c].phone \in Phones
  <2>1. table[c].slot \in Slots /\ Read[c] = contacts[table[c].slot]
    BY <1>3 DEF CellsOwnSlots
  <2>2. durable[table[c].slot] \in Contacts
    BY <1>1 DEF EntryInv
  <2> QED
    BY <1>2, <2>1, <2>2, ContactsAre
<1>5. ASSUME NEW c \in OccupiedCells, NEW d \in OccupiedCells, Read[c].phone = Read[d].phone
      PROVE  c = d
  <2>1. table[c].slot = table[d].slot
    BY <1>1, <1>4, <1>5 DEF CardInv
  <2> QED
    BY <1>3, <2>1 DEF CellsOwnSlots
<1>6. Garbage = {FALSE}
  <2>1. \A c \in Cells : table[c].state = "occupied" => contacts[table[c].slot] # Free
    <3> SUFFICES ASSUME NEW c \in Cells, table[c].state = "occupied" PROVE contacts[table[c].slot] # Free
      OBVIOUS
    <3>1. c \in OccupiedCells
      BY DEF OccupiedCells
    <3> QED
      BY <1>2, <1>4, <3>1, ContactAssumption
  <2> QED
    BY <2>1 DEF Garbage
<1>7. ASSUME NEW p \in Phones, NEW i \in Attempts, Found(p, i, FALSE)
      PROVE  Probe(p, i) \in OccupiedCells /\ Read[Probe(p, i)].phone = p
  <2>1. /\ Probe(p, i) \in OccupiedCells /\ EntryOf(p, i) = table[Probe(p, i)]
        /\ durable[EntryOf(p, i).slot].phone = p
    BY <1>1, <1>2, <1>7, FoundCell
  <2> QED
    BY <1>4, <2>1
<1>8. ASSUME NEW p \in Phones, NEW i \in Attempts, Found(p, i, FALSE)
      PROVE  CellOf(p) = Probe(p, i)
  <2> DEFINE j == CHOOSE m \in Attempts : Found(p, m, FALSE)
  <2>1. j \in Attempts /\ Found(p, j, FALSE)
    BY <1>8
  <2> HIDE DEF j
  <2>2. Probe(p, j) = Probe(p, i)
    <3> DEFINE c == Probe(p, i)  d == Probe(p, j)
    <3>1. c \in OccupiedCells /\ Read[c].phone = p
      BY <1>7, <1>8
    <3>2. d \in OccupiedCells /\ Read[d].phone = p
      BY <1>7, <2>1
    <3> HIDE DEF c, d
    <3>3. c = d
      BY <1>5, <3>1, <3>2
    <3> QED
      BY <3>3 DEF c, d
  <2> QED
    BY <2>2 DEF CellOf, j
<1>9. ASSUME NEW p \in Phones, NEW c \in OccupiedCells, Read[c].phone = p
      PROVE  CellOf(p) = c /\ IsFound(p, FALSE)
  <2> DEFINE s == table[c].slot
  <2>1. s \in SlotsRead /\ durable[s] \in Contacts /\ durable[s].phone = p
    BY <1>2, <1>4, <1>9
  <2> HIDE DEF s
  <2>2. PICK i \in Attempts : Probe(p, i) \in OccupiedCells /\ table[Probe(p, i)].slot = s
                              /\ \A u \in BOOLEAN : Found(p, i, u)
    BY <1>1, <1>2, <2>1, FindsContact
  <2>3. Probe(p, i) = c
    BY <1>3, <2>2 DEF CellsOwnSlots, s
  <2>4. Found(p, i, FALSE)
    BY <2>2
  <2> QED
    BY <1>8, <2>3, <2>4 DEF IsFound
<1>10. ASSUME NEW p \in Phones, NEW i \in Attempts, FindsFree(p, i, FALSE)
       PROVE  Probe(p, i) \in Cells \ OccupiedCells /\ \A c \in OccupiedCells : Read[c].phone # p
  <2>1. /\ Probe(p, i) \in Cells \ OccupiedCells
        /\ \A s \in SlotsRead : durable[s] \in Contacts => durable[s].phone # p
    BY <1>1, <1>2, <1>10, FreeCell
  <2> QED
    BY <1>2, <1>4, <2>1
<1>11. \A s \in Slots : contacts[s] \in Contacts => \E c \in OccupiedCells : table[c].slot = s
  BY <1>1, <1>2 DEF EntryInv
<1>12. /\ freeSlots = {s \in Slots : contacts[s] = Free}
       /\ \A c \in OccupiedCells : table[c].chat <=> table[c].slot \in chats
  BY <1>1, <1>2, <1>4 DEF AllocInv, ChatInv
<1> QED
  BY <1>2, <1>4, <1>5, <1>6, <1>7, <1>8, <1>9, <1>10, <1>11, <1>12 DEF LookupsSettled

LEMMA LookupsAreNext == TableInv' => (Settled' => LookupsSettled')
  BY LookupsAre, PTL

(* So the contacts of all cells can be listed.                             *)
LEMMA CellsHold == TableInv => (Settled => Holds(Read, OccupiedCells))
  BY LookupsAre DEF LookupsSettled, Holds

LEMMA CellsHoldNext == TableInv' => (Settled' => Holds(Read, OccupiedCells)')
  BY CellsHold, PTL
-----------------------------------------------------------------------------
(* The invariant of the database (module Database).                        *)

(* The contacts that are read have phones of their own, whatever a failed  *)
(* write has left.                                                         *)
OneRead ==
    \A s, t \in Slots : contacts[s] \in Contacts /\ contacts[t] \in Contacts
                          /\ contacts[s].phone = contacts[t].phone => s = t

(* The cells whose contacts the index has to list: not that of the contact *)
(* that the call in progress has taken out or is to enter.                 *)
InCall == IF calling = NoContact THEN {} ELSE {calling.cell}

ListedCells == {c \in OccupiedCells : Listed(c)} \ InCall

(* The contact of the call in progress has no entry; unless a write has    *)
(* failed it is the one that is read at the call's cell.                   *)
CallInv ==
    /\ calling # NoContact =>
          /\ calling \in [contact : Contacts, cell : OccupiedCells]
          /\ op.kind \in {"message", "remove"}
          /\ \A k \in 1 .. Len(nameIndex) : nameIndex[k].cell # calling.cell
          /\ ~Failing => /\ calling.cell = op.cell /\ calling.contact = Read[op.cell]
                         /\ Listed(op.cell)
                         /\ op.kind = "message" => calling.contact = Named(op.phone, Unnamed)
    /\ op.kind = "remove" => calling # NoContact

(* The index has entries of occupied cells, each once; and unless a write  *)
(* has failed it lists the contacts that it has to, in their order.        *)
IndexInv ==
    /\ nameIndex \in Seq(IndexEntry(OccupiedCells)) /\ OncePerCell(nameIndex)
    /\ Settled => Listing(nameIndex, Read, ListedCells)

(* The slots of the contacts that are not listed still have a contact.     *)
UnlistedInv ==
    /\ unlisted \subseteq Slots
    /\ ~Failing => \A s \in unlisted : contacts[s] \in Contacts

(* Before a boot has ended, RAM has neither list.                          *)
OffInv ==
    ~Running => /\ nameIndex = <<>> /\ chatOrder = <<>>
                /\ calling = NoContact /\ unlisted = {}

(* The cell of a contact that is being removed: its chat is gone, and its  *)
(* rank in the chat order goes last.                                       *)
Leaving == IF op.kind = "remove" THEN {op.cell} ELSE {}

(* The chat order has occupied cells, each once; and unless a write has    *)
(* failed they are the chats' cells, in the order of their latest messages *)
(* if no message's time was earlier than one before it.                    *)
ChatsRanked ==
    /\ \A c \in ChatCells : \E k \in 1 .. Len(chatOrder) : chatOrder[k] = c
    /\ \A k \in 1 .. Len(chatOrder) : chatOrder[k] \in ChatCells \cup Leaving
    /\ inOrder => \A j, k \in 1 .. Len(chatOrder) :
                     j < k => latest[table[chatOrder[j]].slot] > latest[table[chatOrder[k]].slot]

OrderInv ==
    /\ latest \in [Slots -> Nat] /\ inOrder \in BOOLEAN
    /\ chatOrder \in Seq(OccupiedCells) /\ Once(chatOrder)
    /\ Settled => ChatsRanked

ListsInv == OneRead /\ CallInv /\ IndexInv /\ UnlistedInv /\ OffInv /\ OrderInv

DbInv == TableInv /\ ListsInv

(* The parts of the invariant.                                             *)
LEMMA DbParts ==
    ASSUME DbInv
    PROVE  TableInv /\ OneRead /\ CallInv /\ IndexInv /\ UnlistedInv /\ OffInv /\ OrderInv
  BY DEF DbInv, ListsInv

(* No write that has failed: the contacts read are those of the next boot. *)
LEMMA OneReadIs == TableInv => (~Failing => OneRead)
<1> SUFFICES ASSUME TableInv, ~Failing PROVE OneRead
  OBVIOUS
<1>1. TypeOK /\ CardInv
  BY InvParts
<1>2. contacts = durable
  BY <1>1, NotFailing
<1> QED
  BY <1>1, <1>2 DEF OneRead, CardInv

LEMMA OneReadNext == TableInv' => (~Failing' => OneRead')
  BY OneReadIs, PTL

(* A new entry of a phone and its cell.                                    *)
Entering(x, p, n) ==
    /\ x \in Cells \ OccupiedCells /\ OccupiedCells' = OccupiedCells \cup {x}
    /\ Settled /\ Settled' /\ CellOf(p)' = x /\ Read'[x] = Named(p, n)
    /\ \A c \in OccupiedCells : Read'[c] = Read[c] /\ table'[c] = table[c]
    /\ table'[x].slot \in Slots /\ table'[x].chat = FALSE
    /\ contacts[table'[x].slot] = Free
    /\ \A s \in Slots : contacts[s] \in Contacts => contacts'[s] \in Contacts

LEMMA EnterIs ==
    ASSUME TableInv, TableInv', op = Idle, NEW p \in Phones, NEW n \in Names, NEW i \in Attempts,
           NEW s \in freeSlots, NEW u \in Garbage,
           FindsFree(p, i, u), Written(Holding(s, p, n)), Enter(p, i, s),
           op'.kind \in {"idle", "message"}
    PROVE  Entering(Probe(p, i), p, n)
<1> DEFINE x == Probe(p, i)
<1>1. TypeOK /\ ReachInv /\ CountInv
  BY InvParts
<1>2. Settled /\ Settled' /\ contacts' = Holding(s, p, n)
  BY OpFacts DEF Settled, Running, Written, Failing
<1>3. CellsOwnSlots /\ CellsOwnSlots' /\ LookupsSettled /\ LookupsSettled'
  BY <1>2, CellsAre, CellsAreNext, LookupsAre, LookupsAreNext
<1>4. u = FALSE /\ s \in Slots /\ contacts[s] = Free
  BY <1>3 DEF LookupsSettled
<1>5. /\ x \in Cells \ OccupiedCells /\ OccupiedCells' = OccupiedCells \cup {x}
      /\ table'[x].slot = s /\ table'[x].chat = FALSE
      /\ \A d \in OccupiedCells : table'[d] = table[d]
  <2>1. u \in BOOLEAN /\ numElems' = numElems + 1
        /\ table' = [table EXCEPT ![Probe(p, i)] = Occupied(Hash[p], s, FALSE)]
    BY <1>4 DEF Enter
  <2> QED
    BY <1>1, <1>4, <2>1, NewEntry
<1>6. /\ contacts'[s] = Named(p, n) /\ \A t \in Slots : t # s => contacts'[t] = contacts[t]
  <2>1. DOMAIN contacts = Slots
    BY <1>1, CardFacts
  <2> QED
    BY <1>2, <1>4, <2>1 DEF Holding, Named
<1> HIDE DEF x
<1>7. Read'[x] = Named(p, n)
  BY <1>3, <1>5, <1>6 DEF CellsOwnSlots
<1>8. ASSUME NEW c \in OccupiedCells PROVE Read'[c] = Read[c] /\ table'[c] = table[c]
  <2>1. table[c].slot \in Slots /\ Read[c] = contacts[table[c].slot] /\ Read[c] \in Contacts
    BY <1>3 DEF CellsOwnSlots, LookupsSettled
  <2>2. table[c].slot # s
    BY <1>4, <2>1, ContactAssumption
  <2>3. Read'[c] = contacts'[table'[c].slot]
    BY <1>3, <1>5 DEF CellsOwnSlots
  <2> QED
    BY <1>5, <1>6, <2>1, <2>2, <2>3
<1>9. CellOf(p)' = x
  <2>1. x \in OccupiedCells' /\ Read'[x].phone = p
    BY <1>5, <1>7, ContactsAre
  <2> QED
    BY <1>3, <2>1 DEF LookupsSettled
<1>10. \A t \in Slots : contacts[t] \in Contacts => contacts'[t] \in Contacts
  BY <1>4, <1>6, ContactsAre
<1> QED
  BY <1>2, <1>4, <1>5, <1>7, <1>8, <1>9, <1>10 DEF Entering, x

(* A contact changes, and its entry may get another cell.                  *)
Moving(c, d, q, n) ==
    /\ c \in OccupiedCells /\ d \in Cells /\ d \notin OccupiedCells \ {c}
    /\ OccupiedCells' = (OccupiedCells \ {c}) \cup {d}
    /\ Settled /\ Settled' /\ CellOf(q)' = d /\ Read'[d] = Named(q, n)
    /\ \A e \in OccupiedCells \ {c} : Read'[e] = Read[e] /\ table'[e] = table[e]
    /\ table'[d].slot = table[c].slot /\ table'[d].chat = table[c].chat
    /\ \A s \in Slots : contacts[s] \in Contacts => contacts'[s] \in Contacts

LEMMA MoveIs ==
    ASSUME TableInv, TableInv', op = Idle, op' = op, NEW p \in Phones, NEW q \in Phones,
           NEW n \in Names, NEW i \in Attempts, Found(p, i, FALSE),
           Written(Holding(EntryOf(p, i).slot, q, n)),
           NEW d \in Cells, d \notin OccupiedCells \ {Probe(p, i)},
           OccupiedCells' = (OccupiedCells \ {Probe(p, i)}) \cup {d},
           \A e \in OccupiedCells \ {Probe(p, i)} : table'[e] = table[e],
           table'[d].slot = table[Probe(p, i)].slot, table'[d].chat = table[Probe(p, i)].chat
    PROVE  Moving(CellOf(p), d, q, n)
<1> DEFINE c == Probe(p, i)  s == table[c].slot
<1>1. TypeOK
  BY InvParts
<1>2. Settled /\ Settled' /\ contacts' = Holding(s, q, n)
  BY OpFacts DEF Settled, Running, Written, Failing, EntryOf
<1>3. CellsOwnSlots /\ CellsOwnSlots' /\ LookupsSettled /\ LookupsSettled'
  BY <1>2, CellsAre, CellsAreNext, LookupsAre, LookupsAreNext
<1>4. c \in OccupiedCells /\ CellOf(p) = c
  <2>1. LookupsSettled
    BY <1>3
  <2> QED
    BY <2>1 DEF LookupsSettled
<1>5. s \in Slots
  BY <1>3, <1>4 DEF CellsOwnSlots
<1>6. /\ contacts'[s] = Named(q, n) /\ \A t \in Slots : t # s => contacts'[t] = contacts[t]
  <2>1. DOMAIN contacts = Slots
    BY <1>1, CardFacts
  <2> QED
    BY <1>2, <1>5, <2>1 DEF Holding, Named
<1>7. Read'[d] = Named(q, n)
  BY <1>3, <1>6 DEF CellsOwnSlots
<1>8. ASSUME NEW e \in OccupiedCells \ {c} PROVE Read'[e] = Read[e] /\ table'[e] = table[e]
  <2>1. table'[e] = table[e] /\ table[e].slot # s /\ table[e].slot \in Slots
        /\ Read[e] = contacts[table[e].slot]
    BY <1>3, <1>4 DEF CellsOwnSlots
  <2>2. Read'[e] = contacts'[table'[e].slot]
    BY <1>3 DEF CellsOwnSlots
  <2> QED
    BY <1>6, <2>1, <2>2
<1>9. CellOf(q)' = d
  <2>1. d \in OccupiedCells' /\ Read'[d].phone = q /\ q \in Phones
    BY <1>7, ContactsAre
  <2> QED
    BY <1>3, <2>1 DEF LookupsSettled
<1>10. \A t \in Slots : contacts[t] \in Contacts => contacts'[t] \in Contacts
  BY <1>5, <1>6, ContactsAre
<1> QED
  BY <1>2, <1>4, <1>7, <1>8, <1>9, <1>10 DEF Moving

(* hash_update_contact and hash_update_phone move the contact to a cell.   *)
LEMMA UpdateIs ==
    ASSUME TableInv, TableInv', NEW p \in Phones, NEW q \in Phones, NEW n \in Names,
           IF p = q THEN UpdateContact(p, n) ELSE UpdatePhone(p, q, n)
    PROVE  \E d \in Cells : Moving(CellOf(p), d, q, n)
<1>1. op = Idle /\ op' = op /\ ~Failing
  BY DEF UpdateContact, UpdatePhone, Written
<1>2. Settled
  BY <1>1, OpFacts DEF Settled, Running
<1>3. CellsOwnSlots /\ LookupsSettled
  BY <1>2, CellsAre, LookupsAre
<1>4. TypeOK
  BY InvParts
<1>5. CASE p = q
  <2>1. PICK u \in Garbage, i \in Attempts :
           Found(p, i, u) /\ Written(Holding(EntryOf(p, i).slot, p, n))
    BY <1>5 DEF UpdateContact
  <2> DEFINE d == Probe(p, i)
  <2>2. Found(p, i, FALSE)
    BY <1>3, <2>1 DEF LookupsSettled
  <2>3. d \in OccupiedCells /\ d \in Cells
    BY <1>3, <2>2 DEF LookupsSettled, CellsOwnSlots
  <2>4. table' = table
    BY <1>5 DEF UpdateContact, ram
  <2>5. OccupiedCells' = (OccupiedCells \ {d}) \cup {d}
    BY <2>3, <2>4 DEF OccupiedCells
  <2>6. Written(Holding(EntryOf(p, i).slot, q, n))
    BY <1>5, <2>1
  <2>7. Moving(CellOf(p), d, q, n)
    BY <1>1, <2>2, <2>3, <2>4, <2>5, <2>6, MoveIs
  <2> QED
    BY <2>3, <2>7
<1>6. CASE p # q
  <2>1. PICK i \in {j \in Attempts : \E u \in Garbage : Found(p, j, u)},
             k \in {j \in Attempts : \E u \in Garbage : FindsFree(q, j, u)} :
           /\ Written(Holding(EntryOf(p, i).slot, q, n))
           /\ table' = [table EXCEPT ![Probe(q, k)] = [EntryOf(p, i) EXCEPT !.id = Hash[q]],
                                     ![Probe(p, i)] = Tombstone]
    BY <1>6 DEF UpdatePhone
  <2> DEFINE c == Probe(p, i)  d == Probe(q, k)
  <2>2. i \in Attempts /\ k \in Attempts /\ Found(p, i, FALSE) /\ FindsFree(q, k, FALSE)
    BY <1>3, <2>1 DEF LookupsSettled
  <2>3. c \in OccupiedCells /\ c \in Cells /\ d \in Cells \ OccupiedCells
    BY <1>3, <2>2 DEF LookupsSettled, CellsOwnSlots
  <2>4. DOMAIN table = Cells
    BY <1>4, CardFacts
  <2>5. /\ table'[c] = Tombstone /\ table'[d] = [EntryOf(p, i) EXCEPT !.id = Hash[q]]
        /\ \A e \in Cells : e # c /\ e # d => table'[e] = table[e]
    BY <2>1, <2>3, <2>4
  <2>6. EntryOf(p, i) = table[c] /\ table[c] \in OccupiedEntries
    BY <1>4, <2>3, CellFacts DEF EntryOf
  <2>7. /\ table'[d].slot = table[c].slot /\ table'[d].chat = table[c].chat
        /\ table'[d].state = "occupied"
    <3>1. Hash[q] \in Nat
      BY HashAssumption
    <3>2. [EntryOf(p, i) EXCEPT !.id = Hash[q]] \in OccupiedEntries
      BY <2>6, <3>1, IdUpdate
    <3>3. [EntryOf(p, i) EXCEPT !.id = Hash[q]].state = "occupied"
      BY <3>2, EntryFacts
    <3> QED
      BY <2>5, <2>6, <3>1, <3>3, IdUpdate
  <2> HIDE DEF c, d
  <2>8. OccupiedCells' = (OccupiedCells \ {c}) \cup {d}
    <3>1. table'[c].state # "occupied"
      BY <2>5, EntryFacts
    <3> QED
      BY <2>3, <2>5, <2>7, <3>1 DEF OccupiedCells
  <2>9. \A e \in OccupiedCells \ {c} : table'[e] = table[e]
    BY <1>3, <2>3, <2>5 DEF CellsOwnSlots
  <2>10. Moving(CellOf(p), d, q, n)
    <3>1. d \in Cells /\ d \notin OccupiedCells \ {Probe(p, i)}
      BY <2>3 DEF c
    <3>2. OccupiedCells' = (OccupiedCells \ {Probe(p, i)}) \cup {d}
      BY <2>8 DEF c
    <3>3. \A e \in OccupiedCells \ {Probe(p, i)} : table'[e] = table[e]
      BY <2>9 DEF c
    <3>4. table'[d].slot = table[Probe(p, i)].slot /\ table'[d].chat = table[Probe(p, i)].chat
      BY <2>7 DEF c
    <3> QED
      BY <1>1, <2>1, <2>2, <3>1, <3>2, <3>3, <3>4, MoveIs
  <2> QED
    BY <2>3, <2>10
<1> QED
  BY <1>5, <1>6

(* A contact's chat comes or goes.                                         *)
Marking(c, b) ==
    /\ c \in OccupiedCells /\ OccupiedCells' = OccupiedCells
    /\ Settled /\ Settled' /\ contacts' = contacts
    /\ \A d \in OccupiedCells : /\ Read'[d] = Read[d] /\ table'[d].slot = table[d].slot
                                /\ d # c => table'[d].chat = table[d].chat
    /\ table'[c].chat = b

LEMMA MarkIs ==
    ASSUME TableInv, TableInv', Settled, op'.kind \in {"idle", "remove"},
           NEW c \in OccupiedCells, NEW b \in BOOLEAN,
           table' = [table EXCEPT ![c].chat = b], contacts' = contacts, doubt' = doubt
    PROVE  Marking(c, b)
<1>1. TypeOK /\ CellsOwnSlots /\ CellsOwnSlots'
  BY InvParts, CellsAre, CellsAreNext
<1>2. Settled'
  BY DEF Settled, Running, Failing
<1>3. /\ \A d \in Cells : SameEntry(table[d], table'[d])
      /\ \A d \in Cells : d # c => table'[d] = table[d]
      /\ table'[c].chat = b
  BY <1>1, ChatOfEntry
<1>4. OccupiedCells' = OccupiedCells
  BY <1>3 DEF SameEntry, OccupiedCells
<1>5. ASSUME NEW d \in OccupiedCells
      PROVE  Read'[d] = Read[d] /\ table'[d].slot = table[d].slot
  <2>1. d \in Cells /\ table[d].state = "occupied" /\ Read[d] = contacts[table[d].slot]
    BY <1>1 DEF OccupiedCells, CellsOwnSlots
  <2>2. table'[d].slot = table[d].slot
    BY <1>3, <2>1 DEF SameEntry
  <2>3. Read'[d] = contacts'[table'[d].slot]
    BY <1>1, <1>4 DEF CellsOwnSlots
  <2> QED
    BY <2>1, <2>2, <2>3
<1>6. \A d \in OccupiedCells : d # c => table'[d].chat = table[d].chat
  BY <1>3 DEF OccupiedCells
<1> QED
  BY <1>2, <1>3, <1>4, <1>5, <1>6 DEF Marking

(* A contact and its entry go.                                             *)
Freeing(c) ==
    /\ c \in OccupiedCells /\ OccupiedCells' = OccupiedCells \ {c}
    /\ Settled /\ Settled'
    /\ \A d \in OccupiedCells \ {c} : Read'[d] = Read[d] /\ table'[d] = table[d]
    /\ \A s \in Slots : s # table[c].slot => contacts'[s] = contacts[s]

LEMMA FreeIs ==
    ASSUME TableInv, TableInv', RemoveContact
    PROVE  Freeing(op.cell) /\ op' = Idle
<1> DEFINE c == op.cell  s == table[c].slot
<1>1. TypeOK /\ OpInv /\ CellsOwnSlots /\ CellsOwnSlots'
  BY InvParts, CellsAre, CellsAreNext
<1>2. /\ op.kind = "remove" /\ op' = Idle /\ ~Failing /\ doubt' = doubt
      /\ contacts' = [contacts EXCEPT ![s] = Free]
      /\ table' = [table EXCEPT ![c] = Tombstone]
  BY DEF RemoveContact, Written
<1>3. Settled /\ Settled'
  BY <1>2, OpFacts DEF Settled, Running, Failing
<1>4. c \in OccupiedCells
  BY <1>1, <1>2 DEF OpInv
<1>5. c \in Cells /\ s \in Slots /\ DOMAIN table = Cells /\ DOMAIN contacts = Slots
  BY <1>1, <1>4, CardFacts DEF CellsOwnSlots
<1> HIDE DEF c
<1>6. /\ table'[c].state # "occupied" /\ \A d \in Cells : d # c => table'[d] = table[d]
      /\ \A t \in Slots : t # s => contacts'[t] = contacts[t]
  BY <1>2, <1>5, EntryFacts
<1>7. OccupiedCells' = OccupiedCells \ {c}
  BY <1>4, <1>5, <1>6 DEF OccupiedCells
<1>8. ASSUME NEW d \in OccupiedCells \ {c} PROVE Read'[d] = Read[d] /\ table'[d] = table[d]
  <2>1. table'[d] = table[d] /\ table[d].slot # s /\ table[d].slot \in Slots
        /\ Read[d] = contacts[table[d].slot]
    BY <1>1, <1>4, <1>6 DEF CellsOwnSlots
  <2>2. Read'[d] = contacts'[table'[d].slot]
    BY <1>1, <1>7 DEF CellsOwnSlots
  <2> QED
    BY <1>6, <2>1, <2>2
<1> QED
  BY <1>2, <1>3, <1>4, <1>6, <1>7, <1>8 DEF Freeing, c
-----------------------------------------------------------------------------
(* A step of the database is one of its hash table, or leaves that alone.  *)
LEMMA DbStepIsTableStep == ASSUME [DbNext]_allVars PROVE [Next]_vars
<1>1. ASSUME NEW p \in Phones, DbCalls(p) PROVE [Next]_vars
  <2>1. ASSUME MessageAdd(p) \/ MessageAddFails(p) PROVE Next
    BY <2>1 DEF MessageAdd, MessageAddFails, Next, Calls
  <2>2. ASSUME MessageRemoveChat(p) \/ MessageRemoveChatFails(p) PROVE Next
    BY <2>2 DEF MessageRemoveChat, MessageRemoveChatFails, Next, Calls
  <2>3. ASSUME NEW t \in Times, MessageAdded(p, t) PROVE Next
    BY <2>3 DEF MessageAdded, Next
  <2>4. ASSUME ContactRemove(p) PROVE Next
    BY <2>4 DEF ContactRemove, Next, Calls
  <2>5. ASSUME CallRefused(p) PROVE UNCHANGED vars
    BY <2>5 DEF CallRefused
  <2>6. ASSUME NEW n \in NamesGiven[p], ContactAdd(p, n) \/ ContactAddFails(p, n) PROVE Next
    BY <2>6, NamesGivenAssumption DEF ContactAdd, ContactAddFails, Next, Calls
  <2>7. ASSUME NEW n \in NamesGiven[p], NEW q \in Phones,
               ContactUpdate(q, p, n) \/ ContactUpdateFails(q, p, n)
        PROVE  Next
    BY <2>7, NamesGivenAssumption DEF ContactUpdate, ContactUpdateFails, Next, Calls
  <2> QED
    BY <1>1, <2>1, <2>2, <2>3, <2>4, <2>5, <2>6, <2>7 DEF DbCalls
<1>2. ASSUME MessageNotAdded PROVE Next
  BY <1>2 DEF MessageNotAdded, Next
<1>3. ASSUME ContactRemoved \/ ContactRemoveFails PROVE Next
  BY <1>3 DEF ContactRemoved, ContactRemoveFails, Next
<1>4. ASSUME DbPowerCut \/ Mounting \/ DbMounted PROVE Next
  BY <1>4 DEF DbPowerCut, Mounting, DbMounted, Next
<1> QED
  BY <1>1, <1>2, <1>3, <1>4 DEF DbNext, allVars

(* Between calls no contact is in one.                                     *)
LEMMA NoneInCall ==
    ASSUME CallInv, op.kind \notin {"message", "remove"}
    PROVE  /\ calling = NoContact /\ InCall = {} /\ Leaving = {}
           /\ ListedCells = {c \in OccupiedCells : Listed(c)}
  BY DEF CallInv, InCall, Leaving, ListedCells

(* Fewer cells hold contacts with phones of their own all the more.        *)
LEMMA HoldsFewer ==
    ASSUME NEW h, NEW X, Holds(h, X), NEW L \in SUBSET X
    PROVE  Holds(h, L)
  BY DEF Holds

(* The index has room for every contact of the hash table.                 *)
LEMMA IndexTakes ==
    ASSUME NEW X, IsFiniteSet(X), Cardinality(X) \in Nat, Cardinality(X) <= IndexCapacity,
           NEW h, Holds(h, X), NEW L \in SUBSET X, NEW s, Listing(s, h, L), NEW c \in X, c \notin L
    PROVE  /\ Inserted(s, h[c], c, h).ok
           /\ Listing(Inserted(s, h[c], c, h).index, h, L \cup {c})
<1>1. Holds(h, L) /\ Holds(h, L \cup {c})
  BY HoldsFewer
<1>2. IsFiniteSet(L) /\ Cardinality(L) = Len(s)
  BY <1>1, ListingSize
<1>3. Len(s) < Cardinality(X)
  <2>1. L # X /\ Cardinality(L) \in Nat
    BY <1>2, FS_CardinalityType
  <2>2. Cardinality(L) <= Cardinality(X) /\ (Cardinality(L) = Cardinality(X) => L = X)
    BY FS_Subset
  <2> QED
    BY <1>2, <2>1, <2>2
<1>4. Len(s) < IndexCapacity
  <2>1. Len(s) \in Nat /\ IndexCapacity \in Nat
    BY <1>2, FS_CardinalityType, IndexAssumption
  <2> QED
    BY <1>3, <2>1
<1> QED
  BY <1>1, <1>4, InsertedIs

(* A removal that goes through takes out the contact that it was given.    *)
LEMMA RemovedListed ==
    ASSUME NEW h, NEW X, Holds(h, X), NEW L \in SUBSET X, NEW s, Listing(s, h, L),
           NEW c \in X, Removed(s, h[c], h).ok
    PROVE  c \in L /\ Listing(Removed(s, h[c], h).index, h, L \ {c})
<1>1. Holds(h, L) /\ h[c] \in Contact
  BY HoldsFewer DEF Holds
<1>2. s \in Seq(IndexEntry(X))
  BY <1>1, ListingTyped
<1>3. PICK i \in 1 .. Len(s) : h[s[i].cell].phone = h[c].phone
  BY <1>1, <1>2, RemovedEntry
<1>4. s[i].cell \in L
  BY ListingIs
<1>5. c \in L
  BY <1>3, <1>4 DEF Holds
<1> QED
  BY <1>1, <1>5, RemovedIs

(* A step's listing is all that its index needs.                           *)
LEMMA IndexFromListing ==
    ASSUME TableInv', Settled', Listing(nameIndex', Read', ListedCells')
    PROVE  IndexInv'
<1>1. Holds(Read', OccupiedCells')
  BY CellsHoldNext
<1>2. ListedCells' \in SUBSET OccupiedCells'
  BY DEF ListedCells
<1>3. Holds(Read', ListedCells')
  BY <1>1, <1>2, HoldsFewer
<1>4. nameIndex' \in Seq(IndexEntry(OccupiedCells')) /\ OncePerCell(nameIndex')
  BY <1>2, <1>3, ListingTyped
<1> QED
  BY <1>4 DEF IndexInv

(* Whatever has failed: the entry that a removal takes out.                *)
LEMMA RemovedWhere ==
    ASSUME TableInv, OneRead, IndexInv, NEW c \in OccupiedCells, IsContact(Read[c]),
           Removed(nameIndex, Read[c], Read).ok
    PROVE  \E i \in 1 .. Len(nameIndex) :
              /\ nameIndex[i].cell = c
              /\ Removed(nameIndex, Read[c], Read).index = RemoveAt(nameIndex, i)
<1>1. Read[c] \in Contact /\ nameIndex \in Seq(IndexEntry(OccupiedCells))
  BY DEF IsContact, Contact, IndexInv
<1>2. PICK i \in 1 .. Len(nameIndex) :
         /\ Removed(nameIndex, Read[c], Read).index = RemoveAt(nameIndex, i)
         /\ Read[nameIndex[i].cell] \in Contact /\ Read[nameIndex[i].cell].phone = Read[c].phone
  BY <1>1, RemovedEntry
<1> DEFINE d == nameIndex[i].cell
<1>3. d \in OccupiedCells
  <2>1. nameIndex[i] \in IndexEntry(OccupiedCells)
    BY <1>1, ElementOfSeq
  <2> QED
    BY <2>1 DEF IndexEntry
<1> HIDE DEF d
<1>4. CellsOwnSlots /\ TypeOK
  BY CellsAre, InvParts
<1>5. ASSUME NEW e \in OccupiedCells, Read[e] \in Contact
      PROVE  table[e].slot \in Slots /\ Read[e] = contacts[table[e].slot] /\ Read[e] \in Contacts
  <2>1. table[e].slot \in Slots /\ Read[e] = contacts[table[e].slot]
    BY <1>4 DEF CellsOwnSlots
  <2>2. contacts[table[e].slot] \in Contacts \cup {Free, Lost}
    BY <1>4, <2>1, CardFacts
  <2> QED
    BY <1>5, <2>1, <2>2, ContactsAre
<1>6. table[c].slot = table[d].slot
  <2>1. /\ table[c].slot \in Slots /\ Read[c] = contacts[table[c].slot] /\ Read[c] \in Contacts
        /\ table[d].slot \in Slots /\ Read[d] = contacts[table[d].slot] /\ Read[d] \in Contacts
    BY <1>1, <1>2, <1>3, <1>5 DEF d
  <2>2. Read[c].phone = Read[d].phone
    BY <1>2 DEF d
  <2> QED
    BY <2>1, <2>2 DEF OneRead
<1>7. c = d
  BY <1>3, <1>4, <1>6 DEF CellsOwnSlots
<1> QED
  BY <1>2, <1>7 DEF d

(* And once it has, the rest of the index.                                 *)
LEMMA RemovedAnyway ==
    ASSUME TableInv, OneRead, IndexInv, NEW c \in OccupiedCells, IsContact(Read[c]),
           Removed(nameIndex, Read[c], Read).ok, NEW t, t = Removed(nameIndex, Read[c], Read).index
    PROVE  /\ t \in Seq(IndexEntry(OccupiedCells)) /\ OncePerCell(t)
           /\ \A k \in 1 .. Len(t) : t[k].cell # c
<1>1. PICK i \in 1 .. Len(nameIndex) :
         /\ nameIndex[i].cell = c
         /\ Removed(nameIndex, Read[c], Read).index = RemoveAt(nameIndex, i)
  BY RemovedWhere
<1>2. nameIndex \in Seq(IndexEntry(OccupiedCells)) /\ OncePerCell(nameIndex)
  BY DEF IndexInv
<1>3. t = RemoveAt(nameIndex, i)
  BY <1>1
<1> QED
  BY <1>1, <1>2, <1>3, OneEntryLess
-----------------------------------------------------------------------------
(* A write that fails.  What the card then holds is read until the next    *)
(* boot, and no two contacts of it have the same phone.                    *)
LEMMA FailedWriteOneRead ==
    ASSUME OneRead, NEW phones, NEW new, NEW released, WriteFails(phones, new, released),
           ~Failing => CallsOwnSlot(phones, new, released), TypeOK
    PROVE  OneRead'
<1>1. CASE contacts' = contacts
  BY <1>1 DEF OneRead
<1>2. CASE contacts' # contacts
  <2>1. ~Failing /\ contacts' = new
    BY <1>2 DEF WriteFails
  <2>2. PICK s0 \in Slots, v \in Contacts \cup {Free} :
           /\ new = [contacts EXCEPT ![s0] = v]
           /\ v \in Contacts =>
                 \A t \in Slots : t # s0 /\ contacts[t] \in Contacts => contacts[t].phone # v.phone
    BY <2>1 DEF CallsOwnSlot
  <2>3. DOMAIN contacts = Slots
    BY CardFacts
  <2>4. contacts'[s0] = v /\ \A t \in Slots : t # s0 => contacts'[t] = contacts[t]
    BY <2>1, <2>2, <2>3
  <2>5. ASSUME NEW s \in Slots, NEW t \in Slots, contacts'[s] \in Contacts, contacts'[t] \in Contacts,
               contacts'[s].phone = contacts'[t].phone, s # t
        PROVE  FALSE
    <3>1. CASE s = s0
      <4>1. contacts'[t] = contacts[t] /\ contacts'[s] = v
        BY <2>4, <2>5, <3>1
      <4> QED
        BY <2>2, <2>5, <3>1, <4>1
    <3>2. CASE t = s0
      <4>1. contacts'[s] = contacts[s] /\ contacts'[t] = v
        BY <2>4, <2>5, <3>2
      <4> QED
        BY <2>2, <2>5, <3>2, <4>1
    <3>3. CASE s # s0 /\ t # s0
      <4>1. contacts'[s] = contacts[s] /\ contacts'[t] = contacts[t]
        BY <2>4, <3>3
      <4> QED
        BY <2>5, <4>1 DEF OneRead
    <3> QED
      BY <3>1, <3>2, <3>3
  <2> QED
    BY <2>5 DEF OneRead
<1> QED
  BY <1>1, <1>2

(* A call of the hash table whose write fails: the table stays as it is.   *)
StepFails == OneRead' /\ Failing' /\ table' = table

LEMMA FailedWriteIs ==
    ASSUME TableInv, OneRead, NEW phones, phones # {}, NEW new, NEW released,
           WriteFails(phones, new, released),
           ~Failing => CallsOwnSlot(phones, new, released), table' = table
    PROVE  StepFails
<1>1. Failing'
  BY DEF WriteFails, Failing
<1>2. TypeOK
  BY InvParts
<1> QED
  BY <1>1, <1>2, FailedWriteOneRead DEF StepFails

(* Each call of the hash table, when its write fails.                      *)
LEMMA InsertFailsHere ==
    ASSUME TableInv, OneRead, NEW p \in Phones, NEW n \in Names, InsertContactFails(p, n)
    PROVE  StepFails
<1>1. op.kind = "idle" /\ table' = table
  BY OpFacts DEF InsertContactFails, ram
<1>2. PICK u \in BOOLEAN, i \in Attempts, s \in freeSlots :
         FindsFree(p, i, u) /\ WriteFails({p}, Holding(s, p, n), TRUE)
  BY GarbageFacts DEF InsertContactFails
<1>3. PICK new : new = Holding(s, p, n) /\ WriteFails({p}, new, TRUE)
  BY <1>2 DEF WriteFails
<1>4. ~Failing => CallsOwnSlot({p}, new, TRUE)
  BY <1>1, <1>2, <1>3, FreeSlotOwn
<1> QED
  BY <1>1, <1>3, <1>4, FailedWriteIs

LEMMA NewContactFailsHere ==
    ASSUME TableInv, OneRead, NEW p \in Phones, MessageToNewContactFails(p)
    PROVE  StepFails
<1>1. op.kind = "idle" /\ table' = table
  BY OpFacts DEF MessageToNewContactFails
<1>2. PICK u \in BOOLEAN, i \in Attempts, s \in freeSlots :
         FindsFree(p, i, u) /\ WriteFails({p}, Holding(s, p, Unnamed), TRUE)
  BY GarbageFacts DEF MessageToNewContactFails
<1>3. PICK new : new = Holding(s, p, Unnamed) /\ WriteFails({p}, new, TRUE)
  BY <1>2 DEF WriteFails
<1>4. ~Failing => CallsOwnSlot({p}, new, TRUE)
  BY <1>1, <1>2, <1>3, FreeSlotOwn, ContactAssumption
<1> QED
  BY <1>1, <1>3, <1>4, FailedWriteIs

LEMMA UpdateFailsHere ==
    ASSUME TableInv, OneRead, NEW p \in Phones, NEW q \in Phones, NEW n \in Names,
           IF p = q THEN UpdateContactFails(p, n) ELSE UpdatePhoneFails(p, q, n)
    PROVE  StepFails
<1>1. op.kind = "idle" /\ table' = table
  BY OpFacts DEF UpdateContactFails, UpdatePhoneFails, ram
<1>2. CASE p = q
  <2>1. PICK u \in BOOLEAN, i \in Attempts :
           Found(p, i, u) /\ WriteFails({p}, Holding(EntryOf(p, i).slot, p, n), TRUE)
    BY <1>2, GarbageFacts DEF UpdateContactFails
  <2>2. PICK new : new = Holding(EntryOf(p, i).slot, p, n) /\ WriteFails({p}, new, TRUE)
    BY <2>1 DEF WriteFails
  <2>3. ~Failing => CallsOwnSlot({p, p}, new, TRUE)
    BY <1>1, <2>1, <2>2, FoundSlotOwn
  <2>4. {p, p} = {p}
    OBVIOUS
  <2>5. ~Failing => CallsOwnSlot({p}, new, TRUE)
    BY <2>3, <2>4
  <2> QED
    BY <1>1, <2>2, <2>5, FailedWriteIs
<1>3. CASE p # q
  <2>1. PICK u \in BOOLEAN, w \in BOOLEAN, i \in Attempts, k \in Attempts :
           /\ Found(p, i, u) /\ FindsFree(q, k, w)
           /\ WriteFails({p, q}, Holding(EntryOf(p, i).slot, q, n), TRUE)
    BY <1>3, GarbageFacts DEF UpdatePhoneFails
  <2>2. PICK new : new = Holding(EntryOf(p, i).slot, q, n) /\ WriteFails({p, q}, new, TRUE)
    BY <2>1 DEF WriteFails
  <2>3. ~Failing => CallsOwnSlot({p, q}, new, TRUE)
    BY <1>1, <2>1, <2>2, FoundSlotOwn
  <2> QED
    BY <1>1, <2>2, <2>3, FailedWriteIs
<1> QED
  BY <1>2, <1>3

LEMMA RemovalFailsHere ==
    ASSUME TableInv, OneRead, RemoveContactFails
    PROVE  StepFails
<1>1. TypeOK /\ CardInv /\ EntryInv /\ OpInv /\ op \in Ops
  BY InvParts
<1>2. op.kind = "remove" /\ table' = table
  BY DEF RemoveContactFails, ram
<1>3. PICK p \in Phones, c \in OccupiedCells, s \in Slots :
         p = op.phone /\ c = op.cell /\ s = table[c].slot
  BY <1>1, <1>2, OpKinds, CellFacts DEF OpInv
<1>4. PICK new : new = [contacts EXCEPT ![s] = Free] /\ WriteFails({p}, new, FALSE)
  BY <1>3 DEF RemoveContactFails, WriteFails
<1>5. ~Failing => CallsOwnSlot({p}, new, FALSE)
  <2> SUFFICES ASSUME ~Failing PROVE CallsOwnSlot({p}, new, FALSE)
    OBVIOUS
  <2>1. contacts = durable /\ contacts[s] \in Contacts /\ contacts[s].phone = p
    BY <1>1, <1>2, <1>3, NotFailing DEF EntryInv, OpInv
  <2> QED
    BY <1>1, <1>4, <2>1, CardFacts DEF CallsOwnSlot
<1> QED
  BY <1>2, <1>4, <1>5, FailedWriteIs

(* While the card refuses writes the lists are only kept apart, and the    *)
(* chat order stays.                                                       *)
LEMMA FailedStep ==
    ASSUME OrderInv, UnlistedInv, OccupiedCells' = OccupiedCells, Running', Failing',
           UNCHANGED <<chatOrder, latest, inOrder>>, unlisted' \subseteq Slots
    PROVE  UnlistedInv' /\ OffInv' /\ OrderInv'
<1>1. UnlistedInv' /\ OffInv'
  BY DEF UnlistedInv, OffInv
<1>2. ~Settled'
  BY DEF Settled
<1>3. latest' \in [Slots -> Nat] /\ inOrder' \in BOOLEAN
      /\ chatOrder' \in Seq(OccupiedCells') /\ Once(chatOrder')
  BY DEF OrderInv
<1> QED
  BY <1>1, <1>2, <1>3 DEF OrderInv

(* Then the index only has to have entries of occupied cells, each once.   *)
LEMMA FailedIndex ==
    ASSUME Failing', nameIndex' \in Seq(IndexEntry(OccupiedCells')), OncePerCell(nameIndex')
    PROVE  IndexInv'
<1>1. ~Settled'
  BY DEF Settled
<1> QED
  BY <1>1 DEF IndexInv

LEMMA SameCells == ASSUME table' = table PROVE OccupiedCells' = OccupiedCells
  BY DEF OccupiedCells

(* After a call.                                                           *)
LEMMA IdleNext ==
    ASSUME op' = Idle, calling' = NoContact
    PROVE  CallInv' /\ Running'
  BY OpFacts DEF CallInv, Running

(* A call finds its phone's entry.                                         *)
LEMMA FoundOccupied ==
    ASSUME TableInv, NEW p \in Phones, NEW cell, FindOccupied(p, cell)
    PROVE  cell \in OccupiedCells /\ (Settled => cell = CellOf(p))
<1>1. PICK i \in Attempts, u \in Garbage : cell = Probe(p, i) /\ Found(p, i, u)
  BY DEF FindOccupied
<1>2. cell \in OccupiedCells
  BY <1>1, ProbeInTable DEF Found, Matches, OccupiedCells
<1>3. ASSUME Settled PROVE cell = CellOf(p)
  <2>1. LookupsSettled
    BY <1>3, LookupsAre
  <2> QED
    BY <1>1, <2>1 DEF LookupsSettled
<1> QED
  BY <1>2, <1>3

(* Calls that fail before they change anything in RAM.                     *)
LEMMA QuietFails ==
    ASSUME DbInv, NEW p \in Phones,
           \/ MessageAddFails(p) \/ MessageRemoveChatFails(p)
           \/ \E n \in Names : ContactAddFails(p, n)
    PROVE  ListsInv'
<1>1. TableInv /\ OneRead /\ CallInv /\ IndexInv /\ UnlistedInv /\ OrderInv
  BY DbParts
<1>2. StepFails /\ op = Idle /\ op' = Idle /\ UNCHANGED dbVars
  <2>1. CASE MessageAddFails(p)
    <3>1. MessageToNewContactFails(p) /\ UNCHANGED dbVars
      BY <2>1 DEF MessageAddFails
    <3>2. op = Idle /\ op' = Idle
      BY <3>1 DEF MessageToNewContactFails
    <3> QED
      BY <1>1, <3>1, <3>2, NewContactFailsHere
  <2>2. CASE MessageRemoveChatFails(p)
    <3>1. RemoveChatFails(p) /\ UNCHANGED dbVars
      BY <2>2 DEF MessageRemoveChatFails
    <3>2. op = Idle /\ op' = Idle /\ table' = table /\ contacts' = contacts /\ Failing'
      BY <3>1 DEF RemoveChatFails, ram, ChatWriteFails, Failing
    <3>3. OneRead'
      BY <1>1, <3>2 DEF OneRead
    <3> QED
      BY <3>1, <3>2, <3>3 DEF StepFails
  <2>3. CASE \E n \in Names : ContactAddFails(p, n)
    <3>1. PICK n \in Names : InsertContactFails(p, n) /\ UNCHANGED dbVars
      BY <2>3 DEF ContactAddFails
    <3>2. op = Idle /\ op' = Idle
      BY <3>1 DEF InsertContactFails
    <3> QED
      BY <1>1, <3>1, <3>2, InsertFailsHere
  <2> QED
    BY <2>1, <2>2, <2>3
<1>3. /\ nameIndex' = nameIndex /\ chatOrder' = chatOrder /\ calling' = calling
      /\ latest' = latest /\ unlisted' = unlisted /\ inOrder' = inOrder
  BY <1>2 DEF dbVars
<1>4. calling' = NoContact
  BY <1>1, <1>2, <1>3, NoneInCall, OpFacts
<1>5. OneRead' /\ Failing' /\ OccupiedCells' = OccupiedCells
  BY <1>2, SameCells DEF StepFails
<1>6. CallInv' /\ Running'
  BY <1>2, <1>4, IdleNext
<1>7. IndexInv'
  <2>1. nameIndex \in Seq(IndexEntry(OccupiedCells)) /\ OncePerCell(nameIndex)
    BY <1>1 DEF IndexInv
  <2> QED
    BY <1>3, <1>5, <2>1, FailedIndex
<1>8. unlisted' \subseteq Slots
  BY <1>1, <1>3 DEF UnlistedInv
<1>9. UnlistedInv' /\ OffInv' /\ OrderInv'
  BY <1>1, <1>3, <1>5, <1>6, <1>8, FailedStep
<1> QED
  BY <1>5, <1>6, <1>7, <1>9 DEF ListsInv

(* A message that is not written, and the contact that it has created.     *)
LEMMA MessageFails ==
    ASSUME DbInv, MessageNotAdded, Failing'
    PROVE  ListsInv'
<1>1. TableInv /\ OneRead /\ CallInv /\ IndexInv /\ UnlistedInv /\ OrderInv
  BY DbParts
<1>2. /\ op.kind = "message" /\ op' = Idle /\ table' = table /\ contacts' = contacts /\ Failing'
      /\ calling' = NoContact /\ nameIndex' = nameIndex /\ UNCHANGED <<chatOrder, latest, inOrder>>
      /\ unlisted' \in {unlisted, unlisted \cup {table[op.cell].slot}}
  BY DEF WriteMessageFails, NoMessageSector, MessageNotAdded, ChatWriteFails, Failing, ram, card
<1>3. OccupiedCells' = OccupiedCells /\ CallInv' /\ Running'
  BY <1>2, SameCells, IdleNext
<1>4. OneRead'
  BY <1>1, <1>2 DEF OneRead
<1>5. unlisted' \subseteq Slots
  <2>1. op.cell \in OccupiedCells /\ CellsOwnSlots
    BY <1>1, <1>2, InvParts, CellsAre DEF OpInv
  <2>2. table[op.cell].slot \in Slots
    BY <2>1 DEF CellsOwnSlots
  <2> QED
    BY <1>1, <1>2, <2>2 DEF UnlistedInv
<1>6. IndexInv'
  <2>1. nameIndex \in Seq(IndexEntry(OccupiedCells)) /\ OncePerCell(nameIndex)
    BY <1>1 DEF IndexInv
  <2> QED
    BY <1>2, <1>3, <2>1, FailedIndex
<1>7. UnlistedInv' /\ OffInv' /\ OrderInv'
  BY <1>1, <1>2, <1>3, <1>5, FailedStep
<1> QED
  BY <1>3, <1>4, <1>6, <1>7 DEF ListsInv

(* An old entry that goes back.                                            *)
LEMMA PutBackFails ==
    ASSUME DbInv, StepFails, op = Idle, op' = Idle, NEW p \in Phones, PutBack(p)
    PROVE  ListsInv'
<1>1. TableInv /\ OneRead /\ CallInv /\ IndexInv /\ UnlistedInv /\ OrderInv
  BY DbParts
<1>2. PICK cell \in Cells :
         /\ FindOccupied(p, cell) /\ IsContact(Read[cell]) /\ Removed(nameIndex, Read[cell], Read).ok
         /\ nameIndex' = Inserted(Removed(nameIndex, Read[cell], Read).index, Read[cell], cell, Read').index
         /\ UNCHANGED <<chatOrder, calling, latest, unlisted, inOrder>>
  BY DEF PutBack
<1>3. cell \in OccupiedCells /\ Read[cell] \in Contact
  BY <1>1, <1>2, FoundOccupied DEF IsContact, Contact
<1>4. OneRead' /\ Failing' /\ OccupiedCells' = OccupiedCells
  BY SameCells DEF StepFails
<1>5. CallInv' /\ Running'
  <2>1. calling' = NoContact
    BY <1>1, <1>2, NoneInCall, OpFacts
  <2> QED
    BY <2>1, IdleNext
<1>6. IndexInv'
  <2> DEFINE old == Removed(nameIndex, Read[cell], Read).index  h == Read'
  <2>1. /\ old \in Seq(IndexEntry(OccupiedCells)) /\ OncePerCell(old)
        /\ \A k \in 1 .. Len(old) : old[k].cell # cell
    BY <1>1, <1>2, <1>3, RemovedAnyway
  <2>2. nameIndex' = Inserted(old, Read[cell], cell, h).index
    BY <1>2
  <2> HIDE DEF old, h
  <2>3. /\ Inserted(old, Read[cell], cell, h).index \in Seq(IndexEntry(OccupiedCells))
        /\ OncePerCell(Inserted(old, Read[cell], cell, h).index)
    BY <1>3, <2>1, InsertedEntry
  <2> QED
    BY <1>4, <2>2, <2>3, FailedIndex
<1>7. unlisted' \subseteq Slots
  BY <1>1, <1>2 DEF UnlistedInv
<1>8. UnlistedInv' /\ OffInv' /\ OrderInv'
  BY <1>1, <1>2, <1>4, <1>5, <1>7, FailedStep
<1> QED
  BY <1>4, <1>5, <1>6, <1>8 DEF ListsInv

(* An update whose write fails.                                            *)
LEMMA ContactUpdateFailsKeeps ==
    ASSUME DbInv, NEW p \in Phones, NEW q \in Phones, NEW n \in Names, ContactUpdateFails(p, q, n)
    PROVE  ListsInv'
<1>1. TableInv /\ OneRead
  BY DbParts
<1>2. /\ op = Idle /\ PutBack(p)
      /\ IF p = q THEN UpdateContactFails(p, n) ELSE UpdatePhoneFails(p, q, n)
  BY DEF ContactUpdateFails
<1>3. op' = Idle
  BY <1>2 DEF UpdateContactFails, UpdatePhoneFails
<1>4. StepFails
  BY <1>1, <1>2, UpdateFailsHere
<1> QED
  BY <1>2, <1>3, <1>4, PutBackFails

(* A removal whose contact stays.                                          *)
LEMMA ContactRemoveFailsKeeps ==
    ASSUME DbInv, ContactRemoveFails
    PROVE  ListsInv'
<1>1. TableInv /\ OneRead /\ CallInv /\ IndexInv /\ UnlistedInv /\ OrderInv
  BY DbParts
<1>2. /\ RemoveContactFails /\ calling' = NoContact
      /\ nameIndex' = Inserted(nameIndex, calling.contact, calling.cell, Read').index
      /\ UNCHANGED <<chatOrder, latest, unlisted, inOrder>>
  BY DEF ContactRemoveFails
<1>3. op.kind = "remove" /\ op' = Idle
  BY <1>2 DEF RemoveContactFails
<1>4. OneRead' /\ Failing' /\ OccupiedCells' = OccupiedCells
  BY <1>1, <1>2, RemovalFailsHere, SameCells DEF StepFails
<1>5. CallInv' /\ Running'
  BY <1>2, <1>3, IdleNext
<1>6. /\ calling.contact \in Contact /\ calling.cell \in OccupiedCells
      /\ \A k \in 1 .. Len(nameIndex) : nameIndex[k].cell # calling.cell
  <2>1. /\ calling \in [contact : Contacts, cell : OccupiedCells]
        /\ \A k \in 1 .. Len(nameIndex) : nameIndex[k].cell # calling.cell
    BY <1>1, <1>3 DEF CallInv
  <2> QED
    BY <2>1, ContactsAre
<1>7. IndexInv'
  <2> DEFINE h == Read'  c == calling.contact  d == calling.cell
  <2>1. nameIndex \in Seq(IndexEntry(OccupiedCells)) /\ OncePerCell(nameIndex)
    BY <1>1 DEF IndexInv
  <2>2. c \in Contact /\ d \in OccupiedCells /\ \A k \in 1 .. Len(nameIndex) : nameIndex[k].cell # d
    BY <1>6
  <2>3. nameIndex' = Inserted(nameIndex, c, d, h).index
    BY <1>2
  <2> HIDE DEF h, c, d
  <2>4. /\ Inserted(nameIndex, c, d, h).index \in Seq(IndexEntry(OccupiedCells))
        /\ OncePerCell(Inserted(nameIndex, c, d, h).index)
    BY <2>1, <2>2, InsertedEntry
  <2> QED
    BY <1>4, <2>3, <2>4, FailedIndex
<1>8. unlisted' \subseteq Slots
  BY <1>1, <1>2 DEF UnlistedInv
<1>9. UnlistedInv' /\ OffInv' /\ OrderInv'
  BY <1>1, <1>2, <1>4, <1>5, <1>8, FailedStep
<1> QED
  BY <1>4, <1>5, <1>7, <1>9 DEF ListsInv

(* A removal that begins, while the card refuses writes or when its first  *)
(* one fails.                                                              *)
LEMMA RemovalBeginsFailing ==
    ASSUME DbInv, NEW p \in Phones, ContactRemove(p), BeginRemoveFails(p)
    PROVE  ListsInv'
<1>1. TableInv /\ OneRead /\ CallInv /\ IndexInv /\ UnlistedInv /\ OrderInv
  BY DbParts
<1>2. PICK cell \in Cells :
         /\ FindOccupied(p, cell) /\ IsContact(Read[cell]) /\ Removed(nameIndex, Read[cell], Read).ok
         /\ nameIndex' = Removed(nameIndex, Read[cell], Read).index
         /\ calling' = [contact |-> Read[cell], cell |-> cell]
         /\ UNCHANGED <<chatOrder, latest, unlisted, inOrder>>
  BY DEF ContactRemove
<1>3. PICK u \in Garbage, i \in Attempts :
         /\ Found(p, i, u) /\ table' = [table EXCEPT ![Probe(p, i)].chat = FALSE]
         /\ op' = Removing(p, Probe(p, i))
  BY DEF BeginRemoveFails
<1>4. contacts' = contacts /\ Failing'
  BY DEF BeginRemoveFails, ChatWriteFails, Failing
<1>5. OccupiedCells' = OccupiedCells
  <2>1. FindOccupied(p, Probe(p, i))
    BY <1>3 DEF FindOccupied
  <2>2. Probe(p, i) \in OccupiedCells /\ TypeOK
    BY <1>1, <2>1, FoundOccupied, InvParts
  <2>3. \A d \in Cells : SameEntry(table[d], table'[d])
    BY <1>3, <2>2, ChatOfEntry
  <2> QED
    BY <2>3 DEF SameEntry, OccupiedCells
<1>6. OneRead'
  BY <1>1, <1>4 DEF OneRead
<1>7. op'.kind = "remove" /\ Running'
  <2>1. Probe(p, i) \in Cells
    BY ProbeInTable
  <2> QED
    BY <1>3, <2>1, OpFacts DEF Running
<1>8. cell \in OccupiedCells /\ Read[cell] \in Contacts
  <2>1. cell \in OccupiedCells /\ Read[cell] \in Contact /\ TypeOK /\ CellsOwnSlots
    BY <1>1, <1>2, FoundOccupied, InvParts, CellsAre DEF IsContact, Contact
  <2>2. table[cell].slot \in Slots /\ Read[cell] = contacts[table[cell].slot]
    BY <2>1 DEF CellsOwnSlots
  <2>3. Read[cell] \in Contacts \cup {Free, Lost}
    BY <2>1, <2>2, CardFacts
  <2> QED
    BY <2>1, <2>3, ContactsAre
<1>9. /\ nameIndex' \in Seq(IndexEntry(OccupiedCells)) /\ OncePerCell(nameIndex')
      /\ \A k \in 1 .. Len(nameIndex') : nameIndex'[k].cell # cell
  BY <1>1, <1>2, <1>8, RemovedAnyway
<1>10. CallInv'
  <2>1. /\ calling'.contact \in Contacts /\ calling'.cell = cell
        /\ calling' \in [contact : Contacts, cell : OccupiedCells']
        /\ calling' \in [contact : Contacts, cell : Cells]
    BY <1>2, <1>5, <1>8
  <2>2. calling' # NoContact
    BY <2>1, ContactsAre
  <2>3. \A k \in 1 .. Len(nameIndex') : nameIndex'[k].cell # calling'.cell
    BY <1>9, <2>1
  <2> QED
    BY <1>4, <1>7, <2>1, <2>2, <2>3 DEF CallInv
<1>11. IndexInv'
  BY <1>4, <1>5, <1>9, FailedIndex
<1>12. unlisted' \subseteq Slots
  BY <1>1, <1>2 DEF UnlistedInv
<1>13. UnlistedInv' /\ OffInv' /\ OrderInv'
  BY <1>1, <1>2, <1>4, <1>5, <1>7, <1>12, FailedStep
<1> QED
  BY <1>6, <1>10, <1>11, <1>13 DEF ListsInv
-----------------------------------------------------------------------------
(* Power cuts and boots.                                                   *)
LEMMA EmptyLists ==
    ASSUME nameIndex' = <<>>, chatOrder' = <<>>, calling' = NoContact, unlisted' = {},
           latest' \in [Slots -> Nat], inOrder' \in BOOLEAN, ~Running', TableInv'
    PROVE  ListsInv'
<1>1. ~Failing'
  <2>1. CardInv'
    BY InvParts, PTL DEF TableInv
  <2> QED
    BY <2>1 DEF CardInv, Failing
<1>2. OneRead'
  BY <1>1, OneReadNext
<1>3. CallInv'
  BY DEF CallInv, Running
<1>4. ~Settled'
  BY DEF Settled
<1>5. IndexInv'
  <2>1. nameIndex' \in Seq(IndexEntry(OccupiedCells')) /\ Len(nameIndex') = 0
    OBVIOUS
  <2>2. OncePerCell(nameIndex')
    BY <2>1 DEF OncePerCell
  <2> QED
    BY <1>4, <2>1, <2>2 DEF IndexInv
<1>6. UnlistedInv' /\ OffInv'
  BY DEF UnlistedInv, OffInv
<1>7. OrderInv'
  <2>1. chatOrder' \in Seq(OccupiedCells') /\ Len(chatOrder') = 0
    OBVIOUS
  <2>2. Once(chatOrder')
    BY <2>1 DEF Once
  <2> QED
    BY <1>4, <2>1, <2>2 DEF OrderInv
<1> QED
  BY <1>2, <1>3, <1>5, <1>6, <1>7 DEF ListsInv

(* Power is cut: RAM has lost both lists.                                  *)
LEMMA DbPowerCutKeeps == ASSUME DbInv, TableInv', DbPowerCut PROVE ListsInv'
<1>1. op' = Off /\ latest' = latest /\ inOrder' = TRUE
  BY DEF DbPowerCut, PowerCut
<1>2. ~Running'
  BY <1>1, OpFacts DEF Running
<1>3. latest \in [Slots -> Nat]
  BY DbParts DEF OrderInv
<1> QED
  BY <1>1, <1>2, <1>3, EmptyLists DEF DbPowerCut

(* The reconstruction has not come to the lists yet.                       *)
LEMMA MountingKeeps == ASSUME DbInv, TableInv', Mounting PROVE ListsInv'
<1>1. TableInv /\ OffInv /\ OrderInv
  BY DbParts
<1>2. /\ nameIndex' = nameIndex /\ chatOrder' = chatOrder /\ calling' = calling
      /\ latest' = latest /\ unlisted' = unlisted /\ inOrder' = inOrder
  BY DEF Mounting, dbVars
<1>3. ~Running /\ ~Running'
  <2>1. op \in Ops /\ op' \in Ops
    BY <1>1, InvParts DEF TableInv, TypeOK
  <2>2. \A k \in 0 .. NumSlots :
           ReadingContacts(k).kind = "contacts" /\ ReadingChats(k).kind = "chats"
    BY OpFacts
  <2>3. 0 \in 0 .. NumSlots /\ NumSlots \in 0 .. NumSlots
        /\ (op.kind \in {"contacts", "chats"} /\ op.at < NumSlots => op.at + 1 \in 0 .. NumSlots)
    BY <2>1, Sizes, OpKinds
  <2>4. op.kind \in {"off", "contacts", "chats"} /\ op'.kind \in {"off", "contacts", "chats"}
    <3>1. CASE PowerOn
      BY <2>2, <2>3, <3>1, OpFacts DEF PowerOn
    <3>2. CASE FreeSlotRead
      BY <2>2, <2>3, <3>2 DEF FreeSlotRead
    <3>3. CASE ContactRead
      BY <2>2, <2>3, <3>3 DEF ContactRead
    <3>4. CASE ContactsRead
      BY <2>2, <2>3, <3>4 DEF ContactsRead
    <3>5. CASE ChatRead
      BY <2>2, <2>3, <3>5 DEF ChatRead
    <3>6. CASE NoChatRead
      BY <2>2, <2>3, <3>6 DEF NoChatRead
    <3> QED
      BY <3>1, <3>2, <3>3, <3>4, <3>5, <3>6 DEF Mounting
  <2> QED
    BY <2>4 DEF Running
<1>4. nameIndex = <<>> /\ chatOrder = <<>> /\ calling = NoContact /\ unlisted = {}
  BY <1>1, <1>3 DEF OffInv
<1>5. latest \in [Slots -> Nat] /\ inOrder \in BOOLEAN
  BY <1>1 DEF OrderInv
<1> QED
  BY <1>2, <1>3, <1>4, <1>5, EmptyLists

(* A boot ends.                                                            *)
LEMMA DbMountedKeeps == ASSUME DbInv, TableInv', DbMounted PROVE ListsInv'
<1>1. TableInv /\ OffInv /\ OrderInv
  BY DbParts
<1>2. /\ op = ReadingChats(NumSlots) /\ op' = Idle
      /\ table' = table /\ contacts' = contacts /\ chats' = chats /\ doubt' = doubt
      /\ chatOrder' = ChatsOnCard /\ nameIndex' = BuiltNames(OccupiedCells, Read)
      /\ inOrder' = (\A s, t \in chats : s # t => latest[s] # latest[t])
      /\ calling' = calling /\ latest' = latest /\ unlisted' = unlisted
  BY DEF DbMounted, Mounted, ram, card
<1>3. op.kind = "chats" /\ ~Running
  <2>1. NumSlots \in 0 .. NumSlots
    BY Sizes
  <2> QED
    BY <1>2, <2>1, OpFacts DEF Running
<1>4. Settled' /\ ~Failing'
  <2>1. doubt = {}
    BY <1>1, <1>3, InvParts DEF CardInv
  <2> QED
    BY <1>2, <2>1, OpFacts DEF Settled, Running, Failing
<1>5. OccupiedCells' = OccupiedCells /\ Read' = Read
  BY <1>2 DEF OccupiedCells, Read
<1>6. calling' = NoContact /\ unlisted' = {}
  BY <1>1, <1>2, <1>3 DEF OffInv
<1>7. OneRead' /\ CallInv' /\ UnlistedInv' /\ OffInv'
  <2>1. CallInv' /\ Running'
    BY <1>2, <1>6, IdleNext
  <2> QED
    BY <1>4, <1>6, <2>1, OneReadNext DEF UnlistedInv, OffInv
<1>8. IndexInv'
  <2> DEFINE h == Read'
  <2>1. Holds(h, OccupiedCells)
    BY <1>4, <1>5, CellsHoldNext
  <2>2. nameIndex' = BuiltNames(OccupiedCells, h)
    BY <1>2, <1>5
  <2> HIDE DEF h
  <2>3. OccupiedCells \in SUBSET (0 .. TableSize) /\ TableSize \in Nat
    BY Sizes DEF OccupiedCells, Cells
  <2>4. Listing(nameIndex', h, OccupiedCells)
    BY <2>1, <2>2, <2>3, BuiltIs
  <2>5. ListedCells' = OccupiedCells'
    BY <1>6 DEF ListedCells, Listed, InCall
  <2>6. Listing(nameIndex', Read', ListedCells')
    BY <1>5, <2>4, <2>5 DEF h
  <2> QED
    BY <1>4, <2>6, IndexFromListing
<1>9. OrderInv'
  <2> DEFINE C    == ChatCells
             time == [c \in C |-> latest[table[c].slot]]
             t    == BuiltChats(C, time)
  <2>1. CellsOwnSlots /\ CellsOwnSlots' /\ LookupsSettled'
    BY <1>1, <1>4, CellsAre, CellsAreNext, LookupsAreNext
  <2>2. latest \in [Slots -> Nat]
    BY <1>1 DEF OrderInv
  <2>3. C \in SUBSET OccupiedCells /\ C \in SUBSET (0 .. TableSize) /\ TableSize \in Nat
    BY Sizes DEF ChatCells, OccupiedCells, Cells
  <2>4. \A c \in C : table[c].slot \in Slots /\ table[c].slot \in chats
    <3>1. ASSUME NEW c \in C PROVE table[c].slot \in Slots /\ table[c].slot \in chats
      <4>1. c \in OccupiedCells /\ c \in OccupiedCells' /\ table[c].chat
        BY <1>5 DEF ChatCells
      <4>2. table'[c].chat <=> table'[c].slot \in chats'
        BY <2>1, <4>1 DEF LookupsSettled
      <4> QED
        BY <1>2, <2>1, <4>1, <4>2 DEF CellsOwnSlots
    <3> QED
      BY <3>1
  <2>5. time \in [C -> Nat]
    BY <2>2, <2>4
  <2>6. chatOrder' = t
    BY <1>2 DEF ChatsOnCard
  <2>7. ChatCells' = C
    BY <1>2, <1>5 DEF ChatCells
  <2> HIDE DEF C, time, t
  <2>8. /\ t \in Seq(C) /\ Once(t) /\ (\A c \in C : \E k \in 1 .. Len(t) : t[k] = c)
        /\ Latest(time, t)
    <3>1. t = BuiltChats(C, time)
      BY DEF t
    <3>2. C \in SUBSET (0 .. TableSize) /\ TableSize \in Nat
      BY <2>3
    <3> HIDE DEF t
    <3>3. ChatListing(t, C, time)
      BY <2>5, <3>1, <3>2, BuiltChatsIs
    <3> QED
      BY <3>3 DEF ChatListing
  <2>9. \A k \in 1 .. Len(t) : t[k] \in C
    BY <2>8, ElementOfSeq
  <2>10. t \in Seq(OccupiedCells)
    <3>1. Len(t) \in Nat /\ t \in [1 .. Len(t) -> C]
      BY <2>8, LenProperties
    <3>2. t \in [1 .. Len(t) -> OccupiedCells]
      BY <2>3, <3>1
    <3> QED
      BY <3>1, <3>2, FunctionIsSeq
  <2>11. ASSUME inOrder', NEW j \in 1 .. Len(t), NEW k \in 1 .. Len(t), j < k
         PROVE  latest[table[t[j]].slot] > latest[table[t[k]].slot]
    <3>1. t[j] \in C /\ t[k] \in C /\ t[j] # t[k]
      BY <2>8, <2>9, <2>11 DEF Once
    <3>2. table[t[j]].slot # table[t[k]].slot
      BY <2>1, <2>3, <3>1 DEF CellsOwnSlots
    <3>3. latest[table[t[j]].slot] # latest[table[t[k]].slot]
      BY <1>2, <2>4, <2>11, <3>1, <3>2
    <3>4. /\ time[t[j]] = latest[table[t[j]].slot] /\ time[t[k]] = latest[table[t[k]].slot]
      BY <3>1 DEF time
    <3>5. time[t[j]] > time[t[k]] \/ time[t[j]] = time[t[k]]
      BY <2>8, <2>11 DEF Latest
    <3> QED
      BY <3>3, <3>4, <3>5
  <2>12. ChatsRanked'
    <3>1. \A j, k \in 1 .. Len(t) :
             j < k /\ inOrder' => latest[table[t[j]].slot] > latest[table[t[k]].slot]
      BY <2>11
    <3> QED
      BY <1>2, <2>6, <2>7, <2>8, <2>9, <3>1 DEF ChatsRanked
  <2>13. inOrder' \in BOOLEAN
    BY <1>2
  <2> QED
    BY <1>2, <1>5, <2>2, <2>6, <2>8, <2>10, <2>12, <2>13 DEF OrderInv
<1> QED
  BY <1>7, <1>8, <1>9 DEF ListsInv
-----------------------------------------------------------------------------
(* Steps of a database that runs and has had no write fail.                *)
LEMMA SettledStep ==
    ASSUME TableInv', Settled'
    PROVE  OneRead' /\ OffInv'
  BY OneReadNext DEF Settled, OffInv

LEMMA SettledWhen ==
    ASSUME TableInv, ~Failing, op.kind \in {"idle", "message", "remove"}
    PROVE  Settled /\ LookupsSettled /\ CellsOwnSlots
  BY LookupsAre, CellsAre DEF Settled, Running

(* The chat order stays as it is.                                          *)
LEMMA OrderStays ==
    ASSUME OrderInv, Settled, UNCHANGED <<chatOrder, latest, inOrder>>,
           OccupiedCells \subseteq OccupiedCells',
           \A c \in OccupiedCells : table'[c].slot = table[c].slot,
           ChatCells' \subseteq ChatCells, ChatCells \cup Leaving \subseteq ChatCells' \cup Leaving'
    PROVE  OrderInv'
<1>1. /\ latest \in [Slots -> Nat] /\ inOrder \in BOOLEAN
      /\ chatOrder \in Seq(OccupiedCells) /\ Once(chatOrder) /\ ChatsRanked
  BY DEF OrderInv
<1>2. \A k \in 1 .. Len(chatOrder) : chatOrder[k] \in OccupiedCells
  BY <1>1, ElementOfSeq
<1>3. chatOrder \in Seq(OccupiedCells')
  <2>1. Len(chatOrder) \in Nat /\ chatOrder \in [1 .. Len(chatOrder) -> OccupiedCells]
    BY <1>1, LenProperties
  <2>2. chatOrder \in [1 .. Len(chatOrder) -> OccupiedCells']
    BY <2>1
  <2> QED
    BY <2>1, <2>2, FunctionIsSeq
<1>4. \A c \in ChatCells' : \E k \in 1 .. Len(chatOrder) : chatOrder[k] = c
  BY <1>1 DEF ChatsRanked
<1>5. \A k \in 1 .. Len(chatOrder) : chatOrder[k] \in ChatCells' \cup Leaving'
  BY <1>1 DEF ChatsRanked
<1>6. inOrder => \A j, k \in 1 .. Len(chatOrder) :
         j < k => latest[table'[chatOrder[j]].slot] > latest[table'[chatOrder[k]].slot]
  BY <1>1, <1>2 DEF ChatsRanked
<1>7. ChatsRanked'
  BY <1>4, <1>5, <1>6 DEF ChatsRanked
<1> QED
  BY <1>1, <1>3, <1>7 DEF OrderInv

(* Nothing changes in the hash table, and the index is put together again. *)
LEMMA SameTableStep ==
    ASSUME DbInv, Settled, Settled', TableInv', UNCHANGED <<table, contacts>>,
           UNCHANGED <<chatOrder, latest, inOrder>>, op.kind # "remove", op'.kind # "remove",
           CallInv', UnlistedInv', Listing(nameIndex', Read, ListedCells')
    PROVE  ListsInv'
<1>1. Read' = Read /\ OccupiedCells' = OccupiedCells /\ ChatCells' = ChatCells
      /\ Leaving = {} /\ Leaving' = {}
  BY DEF Read, OccupiedCells, ChatCells, Leaving
<1>2. OneRead' /\ OffInv'
  BY SettledStep
<1>3. OrderInv'
  BY <1>1, DbParts, OrderStays
<1>4. IndexInv'
  BY <1>1, IndexFromListing
<1> QED
  BY <1>2, <1>3, <1>4 DEF ListsInv

(* A message to a phone that has a contact.                                *)
LEMMA MessageToContactKeeps ==
    ASSUME DbInv, TableInv', NEW p \in Phones, MessageAdd(p), MessageToContact(p)
    PROVE  ListsInv'
<1>1. TableInv /\ CallInv /\ IndexInv /\ UnlistedInv
  BY DbParts
<1>2. /\ op = Idle /\ ~Failing /\ table' = table /\ contacts' = contacts /\ doubt' = doubt
      /\ \E i \in Attempts : op' = Messaging(p, Probe(p, i))
  BY DEF MessageToContact, ram, card
<1>3. op.kind = "idle" /\ op'.kind = "message"
  BY <1>2, ProbeInTable, OpFacts
<1>4. Settled /\ Settled' /\ ~Failing'
  BY <1>2, <1>3 DEF Settled, Running, Failing
<1>5. calling = NoContact
  BY <1>1, <1>3, NoneInCall
<1>6. calling' = NoContact
  <2>1. CASE UNCHANGED calling
    BY <1>5, <2>1
  <2>2. CASE MessageToNewContact(p)
    <3>1. LookupsSettled
      BY <1>1, <1>4, LookupsAre
    <3>2. PICK i \in Attempts, u \in Garbage : Found(p, i, u)
      BY DEF MessageToContact
    <3>3. PICK j \in Attempts, v \in Garbage : FindsFree(p, j, v)
      BY <2>2 DEF MessageToNewContact
    <3>4. u = FALSE /\ v = FALSE
      BY <3>1, <3>2, <3>3 DEF LookupsSettled
    <3> QED
      BY <3>2, <3>3, <3>4 DEF FindsFree, IsFound
  <2> QED
    BY <2>1, <2>2 DEF MessageAdd
<1>7. UNCHANGED <<nameIndex, chatOrder, latest, unlisted, inOrder>>
  BY DEF MessageAdd
<1>8. CallInv' /\ UnlistedInv'
  BY <1>1, <1>2, <1>3, <1>4, <1>6, <1>7 DEF CallInv, UnlistedInv
<1>9. Listing(nameIndex', Read, ListedCells')
  <2>1. ListedCells' = ListedCells
    BY <1>2, <1>5, <1>6, <1>7 DEF ListedCells, Listed, InCall, OccupiedCells
  <2> QED
    BY <1>1, <1>4, <1>7, <2>1 DEF IndexInv
<1> QED
  BY <1>2, <1>3, <1>4, <1>7, <1>8, <1>9, SameTableStep

(* No message sector is left.                                              *)
LEMMA NoSectorKeeps ==
    ASSUME DbInv, TableInv', MessageNotAdded, ~Failing'
    PROVE  ListsInv'
<1>1. TableInv /\ CallInv /\ IndexInv /\ UnlistedInv
  BY DbParts
<1>2. NoMessageSector
  BY DEF MessageNotAdded, WriteMessageFails, ChatWriteFails, Failing
<1>3. /\ op.kind = "message" /\ op' = Idle /\ table' = table /\ contacts' = contacts
      /\ doubt' = doubt
  BY <1>2 DEF NoMessageSector, ram, card
<1>4. /\ unlisted' = IF calling = NoContact THEN unlisted ELSE unlisted \cup {table[op.cell].slot}
      /\ calling' = NoContact /\ UNCHANGED <<nameIndex, chatOrder, latest, inOrder>>
  BY DEF MessageNotAdded
<1>5. ~Failing /\ Settled /\ Settled' /\ op'.kind = "idle"
  BY <1>3, OpFacts DEF Settled, Running, Failing
<1>6. LookupsSettled /\ CellsOwnSlots /\ op.cell \in OccupiedCells
  BY <1>1, <1>3, <1>5, LookupsAre, CellsAre, InvParts DEF OpInv
<1>7. CallInv'
  BY <1>3, <1>4, IdleNext
<1>8. UnlistedInv'
  <2>1. table[op.cell].slot \in Slots /\ contacts[table[op.cell].slot] \in Contacts
    BY <1>6 DEF LookupsSettled, CellsOwnSlots
  <2> QED
    BY <1>1, <1>3, <1>4, <1>5, <2>1 DEF UnlistedInv
<1>9. ListedCells' = ListedCells
  <2>1. OccupiedCells' = OccupiedCells /\ InCall' = {}
    BY <1>3, <1>4 DEF OccupiedCells, InCall
  <2>2. CASE calling = NoContact
    BY <1>3, <1>4, <2>1, <2>2 DEF ListedCells, Listed, InCall
  <2>3. CASE calling # NoContact
    <3>1. calling.cell = op.cell
      BY <1>1, <1>5, <2>3 DEF CallInv
    <3>2. \A c \in OccupiedCells : Listed(c)' <=> Listed(c) /\ c # op.cell
      BY <1>3, <1>4, <1>6, <2>3 DEF Listed, CellsOwnSlots
    <3> QED
      BY <2>1, <2>3, <3>1, <3>2 DEF ListedCells, InCall
  <2> QED
    BY <2>2, <2>3
<1>10. Listing(nameIndex', Read, ListedCells')
  BY <1>1, <1>4, <1>5, <1>9 DEF IndexInv
<1> QED
  BY <1>3, <1>4, <1>5, <1>7, <1>8, <1>10, SameTableStep

(* A call that is refused, and the old entry goes back.                    *)
LEMMA CallRefusedKeeps ==
    ASSUME DbInv, TableInv', NEW p \in Phones, CallRefused(p)
    PROVE  ListsInv'
<1>1. TableInv /\ OneRead /\ CallInv /\ IndexInv /\ UnlistedInv
  BY DbParts
<1>2. /\ op = Idle /\ op' = op /\ table' = table /\ contacts' = contacts /\ doubt' = doubt
      /\ UNCHANGED vars /\ PutBack(p)
  BY DEF CallRefused, vars, ram, card
<1>3. CASE Failing
  <2>1. StepFails
    BY <1>1, <1>2, <1>3 DEF StepFails, OneRead, Failing
  <2> QED
    BY <1>2, <2>1, PutBackFails
<1>4. CASE ~Failing
  <2>1. op.kind = "idle" /\ op'.kind = "idle" /\ Settled /\ Settled' /\ ~Failing'
    BY <1>2, <1>4, OpFacts DEF Settled, Running, Failing
  <2>2. PICK cell \in Cells :
           /\ FindOccupied(p, cell) /\ Removed(nameIndex, Read[cell], Read).ok
           /\ nameIndex' = Inserted(Removed(nameIndex, Read[cell], Read).index, Read[cell], cell, Read').index
           /\ UNCHANGED <<chatOrder, calling, latest, unlisted, inOrder>>
    BY <1>2 DEF PutBack
  <2>3. cell \in OccupiedCells
    BY <1>1, <2>2, FoundOccupied
  <2>4. Read' = Read /\ calling' = NoContact /\ calling = NoContact
    BY <1>1, <1>2, <2>1, <2>2, NoneInCall DEF Read
  <2>5. CallInv' /\ UnlistedInv'
    <3>1. unlisted' = unlisted /\ contacts' = contacts /\ ~Failing
      BY <1>2, <1>4, <2>2
    <3>2. CallInv'
      BY <2>1, <2>4 DEF CallInv
    <3> QED
      BY <1>1, <3>1, <3>2 DEF UnlistedInv
  <2>6. ListedCells' = ListedCells
    BY <1>2, <2>2, <2>4 DEF ListedCells, Listed, InCall, OccupiedCells
  <2>7. Listing(nameIndex', Read, ListedCells')
    <3> DEFINE old == Removed(nameIndex, Read[cell], Read).index
    <3>1. Holds(Read, OccupiedCells) /\ Listing(nameIndex, Read, ListedCells)
          /\ ListedCells \in SUBSET OccupiedCells
      BY <1>1, <2>1, CellsHold DEF IndexInv, ListedCells
    <3>2. cell \in ListedCells /\ Listing(old, Read, ListedCells \ {cell})
      BY <2>2, <2>3, <3>1, RemovedListed
    <3>3. nameIndex' = Inserted(old, Read[cell], cell, Read).index
      BY <2>2, <2>4
    <3>4. /\ IsFiniteSet(OccupiedCells) /\ Cardinality(OccupiedCells) \in Nat
          /\ Cardinality(OccupiedCells) <= IndexCapacity
      <4>1. CellsOwnSlots
        BY <1>1, CellsAre
      <4> QED
        BY <4>1, Sizes, ListsHaveRoom, IndexAssumption DEF CellsOwnSlots
    <3> HIDE DEF old
    <3>5. Listing(Inserted(old, Read[cell], cell, Read).index, Read, (ListedCells \ {cell}) \cup {cell})
      <4>1. ListedCells \ {cell} \in SUBSET OccupiedCells /\ cell \notin ListedCells \ {cell}
        BY <3>1
      <4> QED
        BY <2>3, <3>1, <3>2, <3>4, <4>1, IndexTakes
    <3>6. (ListedCells \ {cell}) \cup {cell} = ListedCells
      BY <3>2
    <3> QED
      BY <2>6, <3>3, <3>5, <3>6
  <2> QED
    BY <1>2, <2>1, <2>2, <2>5, <2>7, SameTableStep
<1> QED
  BY <1>3, <1>4
-----------------------------------------------------------------------------
(* What a new contact's entry leaves as it was.                            *)
LEMMA EnteringIs ==
    ASSUME DbInv, TableInv', op = Idle, op'.kind \in {"idle", "message"},
           NEW p \in Phones, NEW n \in Names, NEW x, Entering(x, p, n),
           UNCHANGED <<chatOrder, latest, unlisted, inOrder>>
    PROVE  /\ OneRead' /\ UnlistedInv' /\ OffInv' /\ OrderInv'
           /\ Listing(nameIndex, Read', ListedCells) /\ ListedCells \in SUBSET OccupiedCells
           /\ Listed(x)' /\ {c \in OccupiedCells' : Listed(c)'} = ListedCells \cup {x}
<1>1. TableInv /\ CallInv /\ IndexInv /\ UnlistedInv /\ OrderInv
  BY DbParts
<1>2. /\ x \in Cells \ OccupiedCells /\ OccupiedCells' = OccupiedCells \cup {x}
      /\ Settled /\ Settled' /\ Read'[x] = Named(p, n)
      /\ \A c \in OccupiedCells : Read'[c] = Read[c] /\ table'[c] = table[c]
      /\ table'[x].chat = FALSE /\ contacts[table'[x].slot] = Free
      /\ \A s \in Slots : contacts[s] \in Contacts => contacts'[s] \in Contacts
  BY DEF Entering
<1>3. OneRead' /\ OffInv' /\ ~Failing
  BY <1>2, SettledStep DEF Settled
<1>4. UnlistedInv'
  BY <1>1, <1>2, <1>3 DEF UnlistedInv
<1>5. calling = NoContact /\ InCall = {} /\ Leaving = {}
      /\ ListedCells = {c \in OccupiedCells : Listed(c)}
  BY <1>1, NoneInCall, OpFacts
<1>6. OrderInv'
  <2>1. ChatCells' = ChatCells
    BY <1>2 DEF ChatCells
  <2>2. Leaving' = {}
    BY DEF Leaving
  <2> QED
    BY <1>1, <1>2, <1>5, <2>1, <2>2, OrderStays
<1>7. Listing(nameIndex, Read', ListedCells)
  <2>1. Listing(nameIndex, Read, ListedCells)
    BY <1>1, <1>2 DEF IndexInv
  <2>2. \A c \in ListedCells : Read'[c] = Read[c]
    BY <1>2 DEF ListedCells
  <2> DEFINE h == Read  g == Read'
  <2>3. Listing(nameIndex, h, ListedCells) /\ \A c \in ListedCells : g[c] = h[c]
    BY <2>1, <2>2
  <2> HIDE DEF h, g
  <2>4. Listing(nameIndex, g, ListedCells)
    BY <2>3, ListingKept
  <2> QED
    BY <2>4 DEF g
<1>8. Listed(x)'
  <2>1. unlisted' = unlisted /\ \A s \in unlisted : contacts[s] # Free
    BY <1>1, <1>3, ContactAssumption DEF UnlistedInv
  <2> QED
    BY <1>2, <2>1 DEF Listed
<1>9. {c \in OccupiedCells' : Listed(c)'} = ListedCells \cup {x}
  <2>1. \A c \in OccupiedCells : Listed(c)' <=> Listed(c)
    BY <1>2 DEF Listed
  <2> QED
    BY <1>2, <1>5, <1>8, <2>1
<1> QED
  BY <1>3, <1>4, <1>5, <1>6, <1>7, <1>8, <1>9

(* database_contact_add: the new contact is entered into the index.        *)
LEMMA ContactAddKeeps ==
    ASSUME DbInv, TableInv', NEW p \in Phones, NEW n \in Names, ContactAdd(p, n)
    PROVE  ListsInv'
<1>1. /\ op = Idle /\ op' = op /\ calling' = calling
      /\ UNCHANGED <<chatOrder, latest, unlisted, inOrder>>
      /\ nameIndex' = Entered(nameIndex, p, n).index
  BY DEF ContactAdd, InsertContact
<1>2. op'.kind \in {"idle", "message"} /\ TableInv /\ CallInv
  BY <1>1, OpFacts, DbParts
<1>3. PICK u \in Garbage, i \in Attempts, s \in freeSlots :
         FindsFree(p, i, u) /\ Written(Holding(s, p, n)) /\ Enter(p, i, s)
  BY DEF ContactAdd, InsertContact
<1> DEFINE x == Probe(p, i)
<1>4. Entering(x, p, n)
  BY <1>1, <1>2, <1>3, EnterIs
<1> HIDE DEF x
<1>5. /\ OneRead' /\ UnlistedInv' /\ OffInv' /\ OrderInv'
      /\ Listing(nameIndex, Read', ListedCells) /\ ListedCells \in SUBSET OccupiedCells
      /\ {c \in OccupiedCells' : Listed(c)'} = ListedCells \cup {x}
  BY <1>1, <1>2, <1>4, EnteringIs
<1>6. calling' = NoContact
  BY <1>1, <1>2, NoneInCall, OpFacts
<1>7. CallInv'
  BY <1>1, <1>6, IdleNext
<1>8. /\ x \notin OccupiedCells /\ OccupiedCells' = OccupiedCells \cup {x}
      /\ Settled' /\ CellOf(p)' = x /\ Read'[x] = Named(p, n)
  BY <1>4 DEF Entering
<1>9. IndexInv'
  <2> DEFINE h == Read'  X == OccupiedCells'
  <2>1. CellsOwnSlots' /\ Holds(h, X)
    BY <1>8, CellsAreNext, CellsHoldNext
  <2>2. IsFiniteSet(X) /\ Cardinality(X) \in Nat /\ Cardinality(X) <= IndexCapacity
    BY <2>1, Sizes, ListsHaveRoom, IndexAssumption DEF CellsOwnSlots
  <2>3. nameIndex' = Inserted(nameIndex, h[x], x, h).index
    BY <1>1, <1>8 DEF Entered
  <2>4. ListedCells \in SUBSET X /\ x \in X /\ x \notin ListedCells
    BY <1>5, <1>8
  <2>5. Listing(nameIndex, h, ListedCells)
    BY <1>5
  <2>6. ListedCells' = ListedCells \cup {x}
    BY <1>5, <1>6 DEF ListedCells, InCall
  <2> HIDE DEF h, X
  <2>7. Listing(Inserted(nameIndex, h[x], x, h).index, h, ListedCells \cup {x})
    BY <2>1, <2>2, <2>4, <2>5, IndexTakes
  <2>8. Listing(nameIndex', Read', ListedCells')
    BY <2>3, <2>6, <2>7 DEF h
  <2> QED
    BY <1>8, <2>8, IndexFromListing
<1> QED
  BY <1>5, <1>7, <1>9 DEF ListsInv

(* A message to a phone that has no contact yet.                           *)
LEMMA MessageToNewContactKeeps ==
    ASSUME DbInv, TableInv', NEW p \in Phones, MessageAdd(p), MessageToNewContact(p)
    PROVE  ListsInv'
<1>1. TableInv /\ CallInv /\ IndexInv
  BY DbParts
<1>2. PICK u \in Garbage, i \in Attempts, s \in freeSlots :
         /\ FindsFree(p, i, u) /\ Written(Holding(s, p, Unnamed)) /\ Enter(p, i, s)
         /\ op' = Messaging(p, Probe(p, i))
  BY DEF MessageToNewContact
<1>3. /\ op = Idle /\ UNCHANGED <<nameIndex, chatOrder, latest, unlisted, inOrder>>
      /\ Unnamed \in Names
  BY ContactAssumption DEF MessageAdd, MessageToNewContact
<1> DEFINE x == Probe(p, i)
<1>4. op' = Messaging(p, x) /\ op'.kind = "message" /\ op'.phone = p /\ op'.cell = x
  BY <1>2, ProbeInTable, OpFacts
<1>5. Entering(x, p, Unnamed)
  BY <1>1, <1>2, <1>3, <1>4, EnterIs
<1>6. calling' = [contact |-> Named(p, Unnamed), cell |-> CellOf(p)']
  <2>1. ASSUME MessageToContact(p) PROVE FALSE
    <3>1. LookupsSettled
      BY <1>1, <1>5, LookupsAre DEF Entering
    <3>2. PICK j \in Attempts, v \in Garbage : Found(p, j, v)
      BY <2>1 DEF MessageToContact
    <3>3. u = FALSE /\ v = FALSE
      BY <1>2, <3>1, <3>2 DEF LookupsSettled
    <3> QED
      BY <1>2, <3>2, <3>3 DEF FindsFree, IsFound
  <2> QED
    BY <2>1 DEF MessageAdd
<1> HIDE DEF x
<1>7. /\ OneRead' /\ UnlistedInv' /\ OffInv' /\ OrderInv'
      /\ Listing(nameIndex, Read', ListedCells) /\ ListedCells \in SUBSET OccupiedCells
      /\ Listed(x)' /\ {c \in OccupiedCells' : Listed(c)'} = ListedCells \cup {x}
  BY <1>3, <1>4, <1>5, EnteringIs
<1>8. /\ x \in Cells \ OccupiedCells /\ OccupiedCells' = OccupiedCells \cup {x}
      /\ Settled' /\ CellOf(p)' = x /\ Read'[x] = Named(p, Unnamed)
  BY <1>5 DEF Entering
<1>9. calling'.contact = Named(p, Unnamed) /\ calling'.cell = x
      /\ calling' \in [contact : Contacts, cell : OccupiedCells']
      /\ calling' \in [contact : Contacts, cell : Cells]
  BY <1>3, <1>6, <1>8, ContactsAre
<1>10. calling' # NoContact
  BY <1>9, ContactsAre
<1>11. CallInv'
  <2>1. \A k \in 1 .. Len(nameIndex') : nameIndex'[k].cell # calling'.cell
    <3>1. nameIndex' = nameIndex /\ nameIndex \in Seq(IndexEntry(OccupiedCells))
      BY <1>1, <1>3 DEF IndexInv
    <3>2. ASSUME NEW k \in 1 .. Len(nameIndex) PROVE nameIndex[k].cell \in OccupiedCells
      <4>1. nameIndex[k] \in IndexEntry(OccupiedCells)
        BY <3>1, ElementOfSeq
      <4> QED
        BY <4>1 DEF IndexEntry
    <3> QED
      BY <1>8, <1>9, <3>1, <3>2
  <2>2. /\ calling'.cell = op'.cell /\ calling'.contact = Read'[op'.cell] /\ Listed(op.cell)'
        /\ calling'.contact = Named(op'.phone, Unnamed)
    <3>1. Listed(op.cell)'
      BY <1>4, <1>7 DEF Listed
    <3> QED
      BY <1>4, <1>8, <1>9, <3>1
  <2> QED
    BY <1>4, <1>9, <1>10, <2>1, <2>2 DEF CallInv
<1>12. IndexInv'
  <2>1. ListedCells' = ListedCells
    <3>1. InCall' = {x}
      BY <1>9, <1>10 DEF InCall
    <3>2. ListedCells' = (ListedCells \cup {x}) \ {x}
      BY <1>7, <3>1 DEF ListedCells
    <3> QED
      BY <1>7, <1>8, <3>2
  <2>2. Listing(nameIndex', Read', ListedCells')
    BY <1>3, <1>7, <2>1
  <2> QED
    BY <1>8, <2>2, IndexFromListing
<1> QED
  BY <1>7, <1>11, <1>12 DEF ListsInv
-----------------------------------------------------------------------------
(* The chat order.  A sequence that has each of its elements once is no    *)
(* longer than their number.                                               *)
LEMMA OnceFits ==
    ASSUME NEW X, IsFiniteSet(X), NEW s \in Seq(X), Once(s)
    PROVE  Len(s) \in Nat /\ Len(s) <= Cardinality(X)
<1>1. Len(s) \in Nat /\ s \in [1 .. Len(s) -> X]
  BY LenProperties
<1>2. s \in Injection(1 .. Len(s), X)
  BY <1>1 DEF Injection, IsInjective, Once
<1>3. Cardinality(1 .. Len(s)) <= Cardinality(X)
  BY <1>2, FS_Injection
<1>4. Cardinality(1 .. Len(s)) = Len(s)
  BY <1>1, FS_Interval
<1> QED
  BY <1>1, <1>3, <1>4

(* A chat leaves the order, and its latest message is forgotten.           *)
LEMMA ChatTakenOut ==
    ASSUME OrderInv, Settled, CellsOwnSlots, NEW c \in OccupiedCells,
           latest' = Ranked([latest EXCEPT ![table[c].slot] = 0]),
           chatOrder' = ChatRemoved(chatOrder, c), inOrder' = inOrder,
           OccupiedCells \ {c} \subseteq OccupiedCells',
           \A d \in OccupiedCells \ {c} : table'[d].slot = table[d].slot,
           ChatCells' = ChatCells \ {c}, Leaving \subseteq {c}
    PROVE  OrderInv'
<1> DEFINE s == chatOrder  t == chatOrder'  s0 == table[c].slot
           time == [latest EXCEPT ![s0] = 0]  r == latest'
<1>1. /\ latest \in [Slots -> Nat] /\ inOrder \in BOOLEAN
      /\ s \in Seq(OccupiedCells) /\ Once(s) /\ ChatsRanked
  BY DEF OrderInv
<1>2. s0 \in Slots /\ time \in [Slots -> Nat] /\ r = Ranked(time)
      /\ \A x \in Slots : x # s0 => time[x] = latest[x]
  BY <1>1 DEF CellsOwnSlots
<1>3. t = ChatRemoved(s, c)
  OBVIOUS
<1>4. \A k \in 1 .. Len(s) : s[k] \in OccupiedCells
  BY <1>1, ElementOfSeq
<1> HIDE DEF s, t, s0, time, r
<1>5. r \in [Slots -> Nat] /\ \A x, y \in Slots : time[x] > time[y] => r[x] > r[y]
  BY <1>2, RankedIs
<1>6. /\ t \in Seq(OccupiedCells \ {c}) /\ Once(t) /\ InTheOrderOf(t, s)
      /\ \A k \in 1 .. Len(s) : s[k] # c => \E j \in 1 .. Len(t) : t[j] = s[k]
  <2>1. Without(t, s, OccupiedCells, c)
    BY <1>1, <1>3, ChatRemovedIs
  <2> QED
    BY <2>1 DEF Without
<1>7. Len(t) \in Nat /\ t \in [1 .. Len(t) -> OccupiedCells \ {c}]
  BY <1>6, LenProperties
<1>8. \A k \in 1 .. Len(t) : t[k] \in OccupiedCells \ {c}
  BY <1>7
<1>9. t \in Seq(OccupiedCells')
  <2>1. t \in [1 .. Len(t) -> OccupiedCells']
    BY <1>7
  <2> QED
    BY <1>7, <2>1, FunctionIsSeq
<1>10. PICK old \in [1 .. Len(t) -> 1 .. Len(s)] :
          /\ \A k \in 1 .. Len(t) : t[k] = s[old[k]]
          /\ \A j, k \in 1 .. Len(t) : j < k => old[j] < old[k]
  BY <1>6 DEF InTheOrderOf
<1>11. \A d \in ChatCells' : \E k \in 1 .. Len(t) : t[k] = d
  <2>1. ASSUME NEW d \in ChatCells' PROVE \E k \in 1 .. Len(t) : t[k] = d
    <3>1. d \in ChatCells /\ d # c
      OBVIOUS
    <3>2. PICK k \in 1 .. Len(s) : s[k] = d
      BY <1>1, <3>1 DEF ChatsRanked, s
    <3> QED
      BY <1>6, <3>1, <3>2
  <2> QED
    BY <2>1
<1>12. \A k \in 1 .. Len(t) : t[k] \in ChatCells'
  <2>1. ASSUME NEW k \in 1 .. Len(t) PROVE t[k] \in ChatCells'
    <3>1. old[k] \in 1 .. Len(s) /\ t[k] = s[old[k]] /\ t[k] # c
      BY <1>8, <1>10
    <3>2. s[old[k]] \in ChatCells \cup Leaving
      BY <1>1, <3>1 DEF ChatsRanked, s
    <3> QED
      BY <3>1, <3>2
  <2> QED
    BY <2>1
<1>13. ASSUME inOrder, NEW j \in 1 .. Len(t), NEW k \in 1 .. Len(t), j < k
       PROVE  r[table'[t[j]].slot] > r[table'[t[k]].slot]
  <2> DEFINE a == t[j]  b == t[k]
  <2>1. old[j] \in 1 .. Len(s) /\ old[k] \in 1 .. Len(s) /\ old[j] < old[k]
        /\ a = s[old[j]] /\ b = s[old[k]]
    BY <1>10, <1>13
  <2>2. latest[table[a].slot] > latest[table[b].slot]
    BY <1>1, <1>13, <2>1 DEF ChatsRanked, s
  <2>3. a \in OccupiedCells \ {c} /\ b \in OccupiedCells \ {c}
    BY <1>8
  <2> HIDE DEF a, b
  <2>4. /\ table[a].slot \in Slots /\ table[a].slot # s0 /\ table[b].slot \in Slots /\ table[b].slot # s0
        /\ table'[a].slot = table[a].slot /\ table'[b].slot = table[b].slot
    BY <2>3 DEF CellsOwnSlots, s0
  <2>5. time[table[a].slot] > time[table[b].slot]
    BY <1>2, <2>2, <2>4
  <2>6. r[table'[a].slot] > r[table'[b].slot]
    BY <1>5, <2>4, <2>5
  <2> QED
    BY <2>6 DEF a, b
<1>14. ChatsRanked'
  BY <1>11, <1>12, <1>13 DEF ChatsRanked, t, r
<1> QED
  BY <1>1, <1>5, <1>6, <1>9, <1>14 DEF OrderInv, t, r

(* A chat gets a message, which is no earlier than any before it or takes  *)
(* the order of the times away.                                            *)
LEMMA ChatTouched ==
    ASSUME OrderInv, CellsOwnSlots, NEW c \in OccupiedCells, Marking(c, TRUE), NEW t0 \in Times,
           chatOrder' = Touched(chatOrder, c), Timed(table[c].slot, t0),
           op.kind # "remove"
    PROVE  OrderInv'
<1> DEFINE s == chatOrder  t == chatOrder'  s0 == table[c].slot
           times == [x \in Slots |-> 2 * latest[x]]
           time == [times EXCEPT ![s0] = t0]  r == latest'  rest == ChatRemoved(s, c)
<1>1. /\ c \in OccupiedCells /\ OccupiedCells' = OccupiedCells /\ Settled
      /\ \A d \in OccupiedCells : table'[d].slot = table[d].slot
      /\ \A d \in OccupiedCells : d # c => table'[d].chat = table[d].chat
      /\ table'[c].chat = TRUE
  BY DEF Marking
<1>2. /\ latest \in [Slots -> Nat] /\ inOrder \in BOOLEAN
      /\ s \in Seq(OccupiedCells) /\ Once(s) /\ ChatsRanked
  BY <1>1 DEF OrderInv
<1>3. /\ s0 \in Slots /\ times \in [Slots -> Nat] /\ time \in [Slots -> Nat] /\ r = Ranked(time)
      /\ time[s0] = t0 /\ t0 \in Nat
      /\ \A x \in Slots : x # s0 => time[x] = 2 * latest[x] /\ latest[x] \in Nat
      /\ inOrder' = (inOrder /\ \A x \in Slots : times[x] < t0)
  <2>1. s0 \in Slots
    BY <1>1 DEF CellsOwnSlots
  <2>2. \A x \in Slots : latest[x] \in Nat /\ 2 * latest[x] \in Nat
    BY <1>2
  <2>3. t0 \in Nat
    BY Sizes DEF Times
  <2> QED
    BY <2>1, <2>2, <2>3 DEF Timed
<1>4. t = Touched(s, c) /\ rest = ChatRemoved(s, c) /\ ChatCells' = ChatCells \cup {c}
  BY <1>1 DEF ChatCells
<1>5. \A k \in 1 .. Len(s) : s[k] \in OccupiedCells
  BY <1>2, ElementOfSeq
<1> HIDE DEF s, t, s0, times, time, r, rest
<1>6. r \in [Slots -> Nat] /\ \A x, y \in Slots : time[x] > time[y] => r[x] > r[y]
  BY <1>3, RankedIs
<1>7. /\ rest \in Seq(OccupiedCells \ {c}) /\ Once(rest) /\ InTheOrderOf(rest, s)
      /\ \A k \in 1 .. Len(s) : s[k] # c => \E j \in 1 .. Len(rest) : rest[j] = s[k]
  <2>1. Without(rest, s, OccupiedCells, c)
    BY <1>2, <1>4, ChatRemovedIs
  <2> QED
    BY <2>1 DEF Without
<1>8. RankOf(s, c) = 0 => Len(s) < ChatCapacity
  <2> SUFFICES ASSUME RankOf(s, c) = 0 PROVE Len(s) < ChatCapacity
    OBVIOUS
  <2>1. \A k \in 1 .. Len(s) : s[k] # c
    BY <1>2, RankOfIs
  <2> DEFINE X == OccupiedCells \ {c}
  <2>2. IsFiniteSet(OccupiedCells) /\ Cardinality(OccupiedCells) \in Nat
        /\ Cardinality(OccupiedCells) <= NumSlots
    BY DEF CellsOwnSlots
  <2>3. IsFiniteSet(X) /\ Cardinality(X) = Cardinality(OccupiedCells) - 1
    BY <1>1, <2>2, FS_RemoveElement
  <2>4. s \in Seq(X)
    <3>1. Len(s) \in Nat /\ s \in [1 .. Len(s) -> OccupiedCells]
      BY <1>2, LenProperties
    <3>2. s \in [1 .. Len(s) -> X]
      BY <1>5, <2>1, <3>1
    <3> QED
      BY <3>1, <3>2, FunctionIsSeq
  <2> HIDE DEF X
  <2>5. Len(s) \in Nat /\ Len(s) <= Cardinality(X)
    BY <1>2, <2>3, <2>4, OnceFits
  <2> QED
    BY <2>2, <2>3, <2>5, Sizes, ListsHaveRoom
<1>9. /\ t \in Seq(OccupiedCells) /\ Once(t) /\ Len(t) = Len(rest) + 1 /\ Len(rest) \in Nat
      /\ t[1] = c /\ \A k \in 1 .. Len(rest) : t[k + 1] = rest[k] /\ rest[k] # c
  <2>1. WithFirst(t, rest, OccupiedCells, c)
    BY <1>1, <1>2, <1>4, <1>8, TouchedIs
  <2> QED
    BY <2>1 DEF WithFirst
<1>10. \A k \in 1 .. Len(rest) : rest[k] \in OccupiedCells \ {c}
  <2>1. rest \in [1 .. Len(rest) -> OccupiedCells \ {c}]
    BY <1>7, LenProperties
  <2> QED
    BY <2>1
<1>11. PICK old \in [1 .. Len(rest) -> 1 .. Len(s)] :
          /\ \A k \in 1 .. Len(rest) : rest[k] = s[old[k]]
          /\ \A j, k \in 1 .. Len(rest) : j < k => old[j] < old[k]
  BY <1>7 DEF InTheOrderOf
<1>12. ASSUME NEW k \in 1 .. Len(t)
       PROVE  k = 1 \/ (k - 1 \in 1 .. Len(rest) /\ t[k] = rest[k - 1])
  <2>1. CASE k # 1
    <3> DEFINE q == k - 1
    <3>1. q \in 1 .. Len(rest) /\ q + 1 = k
      BY <1>9, <2>1
    <3>2. t[q + 1] = rest[q]
      BY <1>9, <3>1
    <3> QED
      BY <3>1, <3>2
  <2> QED
    BY <2>1
<1>13. \A d \in ChatCells' : \E k \in 1 .. Len(t) : t[k] = d
  <2>1. ASSUME NEW d \in ChatCells', d # c PROVE \E k \in 1 .. Len(t) : t[k] = d
    <3>1. d \in ChatCells
      BY <1>4, <2>1
    <3>2. PICK k \in 1 .. Len(s) : s[k] = d
      BY <1>2, <3>1 DEF ChatsRanked, s
    <3>3. PICK j \in 1 .. Len(rest) : rest[j] = d
      BY <1>7, <2>1, <3>2
    <3>4. j + 1 \in 1 .. Len(t) /\ t[j + 1] = d
      BY <1>9, <3>3
    <3> QED
      BY <3>4
  <2>2. 1 \in 1 .. Len(t) /\ t[1] = c
    BY <1>9
  <2> QED
    BY <2>1, <2>2
<1>14. \A k \in 1 .. Len(t) : t[k] \in ChatCells'
  <2>1. ASSUME NEW q \in 1 .. Len(rest) PROVE rest[q] \in ChatCells'
    <3>1. old[q] \in 1 .. Len(s) /\ rest[q] = s[old[q]]
      BY <1>11
    <3>2. s[old[q]] \in ChatCells
      BY <1>2, <3>1 DEF ChatsRanked, Leaving, s
    <3> QED
      BY <1>4, <3>1, <3>2
  <2> QED
    BY <1>4, <1>9, <1>12, <2>1
<1>15. ASSUME inOrder', NEW j \in 1 .. Len(t), NEW k \in 1 .. Len(t), j < k
       PROVE  r[table'[t[j]].slot] > r[table'[t[k]].slot]
  <2> DEFINE a == t[j]  b == t[k]
  <2>1. inOrder /\ \A x \in Slots : times[x] < t0
    BY <1>3, <1>15
  <2>2. k - 1 \in 1 .. Len(rest) /\ b = rest[k - 1] /\ b \in OccupiedCells \ {c}
    <3>1. k # 1
      BY <1>15
    <3>2. k - 1 \in 1 .. Len(rest) /\ b = rest[k - 1]
      BY <1>12, <3>1
    <3> QED
      BY <1>10, <3>2
  <2>3. /\ table[b].slot \in Slots /\ table[b].slot # s0 /\ table'[b].slot = table[b].slot
        /\ time[table[b].slot] = 2 * latest[table[b].slot] /\ latest[table[b].slot] \in Nat
    BY <1>1, <1>3, <2>2 DEF CellsOwnSlots, s0
  <2>4. CASE j = 1
    <3>1. a = c /\ table'[a].slot = s0
      BY <1>1, <1>9, <2>4 DEF s0
    <3>2. times[table[b].slot] = 2 * latest[table[b].slot]
      BY <2>3 DEF times
    <3>3. time[s0] > time[table[b].slot]
      BY <1>3, <2>1, <2>3, <3>2
    <3>4. r[s0] > r[table[b].slot]
      BY <1>3, <1>6, <2>3, <3>3
    <3> QED
      BY <2>3, <3>1, <3>4
  <2>5. CASE j # 1
    <3>1. j - 1 \in 1 .. Len(rest) /\ a = rest[j - 1] /\ a \in OccupiedCells \ {c}
      <4>1. j - 1 \in 1 .. Len(rest) /\ a = rest[j - 1]
        BY <1>12, <2>5
      <4> QED
        BY <1>10, <4>1
    <3>2. /\ old[j - 1] \in 1 .. Len(s) /\ old[k - 1] \in 1 .. Len(s) /\ old[j - 1] < old[k - 1]
          /\ a = s[old[j - 1]] /\ b = s[old[k - 1]]
      <4>1. j - 1 < k - 1
        BY <1>15
      <4> QED
        BY <1>11, <2>2, <3>1, <4>1
    <3> HIDE DEF a, b
    <3>3. latest[table[a].slot] > latest[table[b].slot]
      BY <1>2, <2>1, <3>2 DEF ChatsRanked, s
    <3>4. /\ table[a].slot \in Slots /\ table[a].slot # s0 /\ table'[a].slot = table[a].slot
          /\ time[table[a].slot] = 2 * latest[table[a].slot] /\ latest[table[a].slot] \in Nat
      <4>1. table[a].slot \in Slots /\ table[a].slot # s0
        BY <1>1, <3>1 DEF CellsOwnSlots, s0
      <4> QED
        BY <1>1, <1>3, <3>1, <4>1
    <3>5. time[table[a].slot] > time[table[b].slot]
      BY <2>3, <3>3, <3>4
    <3>6. r[table'[a].slot] > r[table'[b].slot]
      BY <1>6, <2>3, <3>4, <3>5
    <3> QED
      BY <3>6 DEF a, b
  <2> QED
    BY <2>4, <2>5
<1>16. ChatsRanked'
  <2>1. inOrder' => \A j, k \in 1 .. Len(t) : j < k => r[table'[t[j]].slot] > r[table'[t[k]].slot]
    BY <1>15
  <2> QED
    BY <1>13, <1>14, <2>1 DEF ChatsRanked, t, r
<1>17. inOrder' \in BOOLEAN
  BY <1>3
<1> QED
  BY <1>1, <1>6, <1>9, <1>16, <1>17 DEF OrderInv, t, r

(* A chat's contact gets another cell.                                     *)
LEMMA ChatMoved ==
    ASSUME OrderInv, NEW c \in OccupiedCells, NEW d \in Cells, NEW q, NEW n, Moving(c, d, q, n),
           chatOrder' = ChatReplaced(chatOrder, c, d), latest' = latest, inOrder' = inOrder,
           op.kind # "remove"
    PROVE  OrderInv'
<1> DEFINE s == chatOrder  t == chatOrder'  Y == OccupiedCells'
<1>1. /\ c \in OccupiedCells /\ d \notin OccupiedCells \ {c} /\ d \in Y
      /\ Y = (OccupiedCells \ {c}) \cup {d} /\ Settled
      /\ \A e \in OccupiedCells \ {c} : table'[e] = table[e]
      /\ table'[d].slot = table[c].slot /\ table'[d].chat = table[c].chat
  BY DEF Moving
<1>2. /\ latest \in [Slots -> Nat] /\ inOrder \in BOOLEAN
      /\ s \in Seq(OccupiedCells) /\ Once(s) /\ ChatsRanked
  BY <1>1 DEF OrderInv
<1>3. \A k \in 1 .. Len(s) : s[k] \in OccupiedCells
  BY <1>2, ElementOfSeq
<1>4. \A e \in OccupiedCells \ {c} : e \in ChatCells' <=> e \in ChatCells
  BY <1>1 DEF ChatCells
<1>5. (d \in ChatCells' <=> c \in ChatCells) /\ ChatCells' \subseteq Y
  BY <1>1 DEF ChatCells
<1>6. t = ChatReplaced(s, c, d)
  OBVIOUS
<1>7. OccupiedCells \ {c} \in SUBSET Y
  BY <1>1
<1> HIDE DEF s, t, Y
<1>8. /\ t \in Seq(Y) /\ Once(t) /\ Len(t) = Len(s)
      /\ \A k \in 1 .. Len(s) : t[k] = IF s[k] = c THEN d ELSE s[k]
  <2>1. s \in Seq(OccupiedCells) /\ Once(s) /\ d \in Y /\ d \notin OccupiedCells \ {c}
    BY <1>1, <1>2
  <2>2. WithInstead(t, s, Y, c, d)
    BY <1>6, <1>7, <2>1, ChatReplacedIs
  <2> QED
    BY <2>2 DEF WithInstead
<1>9. \A k \in 1 .. Len(t) : table'[t[k]].slot = table[s[k]].slot
  BY <1>1, <1>3, <1>8
<1>10. \A k \in 1 .. Len(t) : t[k] \in ChatCells'
  <2>1. ASSUME NEW k \in 1 .. Len(t) PROVE t[k] \in ChatCells'
    <3>1. s[k] \in ChatCells
      BY <1>2, <1>8 DEF ChatsRanked, Leaving, s
    <3> QED
      BY <1>3, <1>4, <1>5, <1>8, <3>1
  <2> QED
    BY <2>1
<1>11. \A e \in ChatCells' : \E k \in 1 .. Len(t) : t[k] = e
  <2>1. ASSUME NEW e \in ChatCells' PROVE \E k \in 1 .. Len(t) : t[k] = e
    <3> DEFINE f == IF e = d THEN c ELSE e
    <3>1. f \in ChatCells /\ (e # d => e # c)
      BY <1>1, <1>4, <1>5
    <3>2. PICK k \in 1 .. Len(s) : s[k] = f
      BY <1>2, <3>1 DEF ChatsRanked, s
    <3>3. t[k] = e
      BY <1>8, <3>1, <3>2
    <3> QED
      BY <1>8, <3>3
  <2> QED
    BY <2>1
<1>12. inOrder => \A j, k \in 1 .. Len(t) :
          j < k => latest[table'[t[j]].slot] > latest[table'[t[k]].slot]
  BY <1>2, <1>8, <1>9 DEF ChatsRanked, s
<1>13. ChatsRanked'
  BY <1>10, <1>11, <1>12 DEF ChatsRanked, t
<1> QED
  BY <1>2, <1>8, <1>13 DEF OrderInv, t, Y
-----------------------------------------------------------------------------
(* A listing says the same to whoever reads the same contacts.             *)
LEMMA MarkedListing ==
    ASSUME IndexInv, NEW c \in OccupiedCells, NEW b, Marking(c, b)
    PROVE  /\ Listing(nameIndex, Read, ListedCells) /\ ListedCells \in SUBSET OccupiedCells
           /\ Listing(nameIndex, Read', ListedCells)
<1> DEFINE h == Read  g == Read'
<1>1. Listing(nameIndex, h, ListedCells)
  BY DEF IndexInv, Marking
<1>2. \A d \in ListedCells : g[d] = h[d]
  BY DEF Marking, ListedCells
<1> HIDE DEF h, g
<1>3. Listing(nameIndex, g, ListedCells)
  BY <1>1, <1>2, ListingKept
<1> QED
  BY <1>1, <1>3 DEF h, g, ListedCells

(* The contacts that are not listed still are contacts.                    *)
LEMMA MarkingUnlisted ==
    ASSUME UnlistedInv, Settled, Settled', contacts' = contacts, unlisted' = unlisted
    PROVE  UnlistedInv'
  BY DEF UnlistedInv, Settled

(* The message is written.                                                 *)
LEMMA MessageAddedKeeps ==
    ASSUME DbInv, TableInv', NEW p \in Phones, NEW t0 \in Times, MessageAdded(p, t0)
    PROVE  ListsInv'
<1> DEFINE c == op.cell
<1>1. TableInv /\ CallInv /\ IndexInv /\ UnlistedInv /\ OrderInv
  BY DbParts
<1>2. /\ op.kind = "message" /\ op.phone = p /\ ~Failing /\ op' = Idle
      /\ table' = [table EXCEPT ![c].chat = TRUE] /\ contacts' = contacts /\ doubt' = doubt
      /\ nameIndex' = IF calling = NoContact THEN nameIndex ELSE Entered(nameIndex, p, Unnamed).index
      /\ chatOrder' = Touched(chatOrder, CellOf(p)')
      /\ Timed(table[c].slot, t0) /\ calling' = NoContact /\ unlisted' = unlisted
  BY DEF MessageAdded, WriteMessage
<1>3. op'.kind \in {"idle", "remove"} /\ op.kind # "remove"
  BY <1>2, OpFacts
<1>4. Settled /\ LookupsSettled /\ CellsOwnSlots
  BY <1>1, <1>2, SettledWhen
<1>5. c \in OccupiedCells /\ durable[table[c].slot].phone = p
  BY <1>1, <1>2, InvParts DEF OpInv
<1> HIDE DEF c
<1>6. Marking(c, TRUE)
  BY <1>1, <1>2, <1>3, <1>4, <1>5, MarkIs
<1>7. /\ Settled' /\ OccupiedCells' = OccupiedCells
      /\ \A d \in OccupiedCells : Read'[d] = Read[d] /\ table'[d].slot = table[d].slot
  BY <1>6 DEF Marking
<1>8. OneRead' /\ OffInv' /\ CallInv' /\ UnlistedInv'
  BY <1>1, <1>2, <1>4, <1>7, SettledStep, IdleNext, MarkingUnlisted
<1>9. CellOf(p)' = c
  <2>1. LookupsSettled'
    BY <1>7, LookupsAreNext
  <2>2. Read[c] = durable[table[c].slot]
    BY <1>4, <1>5 DEF LookupsSettled, CellsOwnSlots
  <2>3. c \in OccupiedCells' /\ Read'[c].phone = p
    BY <1>5, <1>7, <2>2
  <2> QED
    BY <2>1, <2>3 DEF LookupsSettled
<1>10. OrderInv'
  <2>1. chatOrder' = Touched(chatOrder, c)
    BY <1>2, <1>9
  <2> QED
    BY <1>1, <1>2, <1>3, <1>4, <1>5, <1>6, <2>1, ChatTouched
<1>11. /\ Listing(nameIndex, Read', ListedCells) /\ ListedCells \in SUBSET OccupiedCells
  BY <1>1, <1>5, <1>6, MarkedListing
<1>12. \A d \in OccupiedCells : Listed(d)' <=> Listed(d)
  BY <1>2, <1>7 DEF Listed
<1>13. CASE calling = NoContact
  <2>1. ListedCells' = ListedCells
    BY <1>2, <1>7, <1>12, <1>13 DEF ListedCells, InCall
  <2>2. Listing(nameIndex', Read', ListedCells')
    BY <1>2, <1>11, <1>13, <2>1
  <2> QED
    BY <1>7, <1>8, <1>10, <2>2, IndexFromListing DEF ListsInv
<1>14. CASE calling # NoContact
  <2>1. calling.cell = c /\ calling.contact = Read[c] /\ calling.contact = Named(p, Unnamed) /\ Listed(c)
    BY <1>1, <1>2, <1>14 DEF CallInv, c
  <2>2. c \notin ListedCells /\ ListedCells' = ListedCells \cup {c}
    BY <1>2, <1>5, <1>7, <1>12, <1>14, <2>1 DEF ListedCells, InCall
  <2> DEFINE h == Read'  X == OccupiedCells
  <2>3. nameIndex' = Inserted(nameIndex, h[c], c, h).index
    BY <1>2, <1>5, <1>7, <1>9, <1>14, <2>1 DEF Entered
  <2>4. Holds(h, X)
    BY <1>7, CellsHoldNext
  <2>5. IsFiniteSet(X) /\ Cardinality(X) \in Nat /\ Cardinality(X) <= IndexCapacity
    BY <1>4, Sizes, ListsHaveRoom, IndexAssumption DEF CellsOwnSlots
  <2>6. Listing(nameIndex, h, ListedCells) /\ ListedCells \in SUBSET X /\ c \in X
    BY <1>5, <1>11
  <2> HIDE DEF h, X
  <2>7. Listing(Inserted(nameIndex, h[c], c, h).index, h, ListedCells \cup {c})
    BY <2>2, <2>4, <2>5, <2>6, IndexTakes
  <2>8. Listing(nameIndex', Read', ListedCells')
    BY <2>2, <2>3, <2>7 DEF h
  <2> QED
    BY <1>7, <1>8, <1>10, <2>8, IndexFromListing DEF ListsInv
<1> QED
  BY <1>13, <1>14

(* A chat is removed.                                                      *)
LEMMA MessageRemoveChatKeeps ==
    ASSUME DbInv, TableInv', NEW p \in Phones, MessageRemoveChat(p)
    PROVE  ListsInv'
<1>1. TableInv /\ CallInv /\ IndexInv /\ UnlistedInv /\ OrderInv
  BY DbParts
<1>2. /\ op = Idle /\ op' = op /\ ~Failing /\ contacts' = contacts /\ doubt' = doubt
      /\ chatOrder' = ChatRemoved(chatOrder, CellOf(p))
      /\ latest' = Ranked([latest EXCEPT ![table[CellOf(p)].slot] = 0])
      /\ nameIndex' = nameIndex /\ calling' = calling /\ unlisted' = unlisted /\ inOrder' = inOrder
  BY DEF MessageRemoveChat, RemoveChat
<1>3. op.kind = "idle" /\ op'.kind \in {"idle", "remove"} /\ Settled /\ LookupsSettled /\ CellsOwnSlots
  BY <1>1, <1>2, SettledWhen, OpFacts
<1>4. PICK u \in Garbage, i \in Attempts :
         Found(p, i, u) /\ table' = [table EXCEPT ![Probe(p, i)].chat = FALSE]
  BY DEF MessageRemoveChat, RemoveChat
<1> DEFINE c == CellOf(p)
<1>5. c = Probe(p, i) /\ c \in OccupiedCells
  <2>1. FindOccupied(p, Probe(p, i))
    BY <1>4 DEF FindOccupied
  <2> QED
    BY <1>1, <1>3, <2>1, FoundOccupied
<1> HIDE DEF c
<1>6. Marking(c, FALSE)
  <2>1. table' = [table EXCEPT ![c].chat = FALSE]
    BY <1>4, <1>5
  <2> QED
    BY <1>1, <1>2, <1>3, <1>5, <2>1, MarkIs
<1>7. /\ Settled' /\ OccupiedCells' = OccupiedCells /\ table'[c].chat = FALSE
      /\ \A d \in OccupiedCells : Read'[d] = Read[d] /\ table'[d].slot = table[d].slot
      /\ \A d \in OccupiedCells : d # c => table'[d].chat = table[d].chat
  BY <1>6 DEF Marking
<1>8. calling = NoContact /\ calling' = NoContact /\ op' = Idle /\ Leaving = {}
  BY <1>1, <1>2, <1>3, NoneInCall
<1>9. OneRead' /\ OffInv' /\ CallInv' /\ UnlistedInv'
  BY <1>1, <1>2, <1>3, <1>7, <1>8, SettledStep, IdleNext, MarkingUnlisted
<1>10. OrderInv'
  <2>1. /\ latest' = Ranked([latest EXCEPT ![table[c].slot] = 0])
        /\ chatOrder' = ChatRemoved(chatOrder, c)
    BY <1>2 DEF c
  <2>2. ChatCells' = ChatCells \ {c}
    BY <1>5, <1>7 DEF ChatCells
  <2>3. /\ OccupiedCells \ {c} \subseteq OccupiedCells' /\ Leaving \subseteq {c}
        /\ \A d \in OccupiedCells \ {c} : table'[d].slot = table[d].slot
    BY <1>7, <1>8
  <2> QED
    BY <1>1, <1>2, <1>3, <1>5, <2>1, <2>2, <2>3, ChatTakenOut
<1>11. IndexInv'
  <2>1. ListedCells' = ListedCells
    BY <1>2, <1>7, <1>8 DEF ListedCells, InCall, Listed
  <2>2. Listing(nameIndex', Read', ListedCells')
    BY <1>1, <1>2, <1>5, <1>6, <2>1, MarkedListing
  <2> QED
    BY <1>7, <2>2, IndexFromListing
<1> QED
  BY <1>9, <1>10, <1>11 DEF ListsInv

(* A removal begins.                                                       *)
LEMMA RemovalBegins ==
    ASSUME DbInv, TableInv', NEW p \in Phones, ContactRemove(p), BeginRemove(p)
    PROVE  ListsInv'
<1>1. TableInv /\ CallInv /\ IndexInv /\ UnlistedInv /\ OrderInv
  BY DbParts
<1>2. /\ op = Idle /\ ~Failing /\ contacts' = contacts /\ doubt' = doubt
      /\ UNCHANGED <<chatOrder, latest, unlisted, inOrder>>
  BY DEF ContactRemove, BeginRemove
<1>3. op.kind = "idle" /\ Settled /\ LookupsSettled /\ CellsOwnSlots
  BY <1>1, <1>2, SettledWhen, OpFacts
<1>4. PICK u \in Garbage, i \in Attempts :
         /\ Found(p, i, u) /\ table' = [table EXCEPT ![Probe(p, i)].chat = FALSE]
         /\ op' = Removing(p, Probe(p, i))
  BY DEF BeginRemove
<1>5. PICK cell \in Cells :
         /\ FindOccupied(p, cell) /\ Removed(nameIndex, Read[cell], Read).ok
         /\ nameIndex' = Removed(nameIndex, Read[cell], Read).index
         /\ calling' = [contact |-> Read[cell], cell |-> cell]
  BY DEF ContactRemove
<1> DEFINE c == Probe(p, i)
<1>6. c = cell /\ c \in OccupiedCells /\ op'.kind = "remove" /\ op'.cell = c
  <2>1. c = CellOf(p) /\ c \in OccupiedCells
    BY <1>3, <1>4 DEF LookupsSettled
  <2>2. cell = CellOf(p)
    BY <1>1, <1>3, <1>5, FoundOccupied
  <2>3. c \in Cells
    BY ProbeInTable
  <2> QED
    BY <1>4, <2>1, <2>2, <2>3, OpFacts
<1> HIDE DEF c
<1>7. Marking(c, FALSE)
  <2>1. table' = [table EXCEPT ![c].chat = FALSE]
    BY <1>4 DEF c
  <2> QED
    BY <1>1, <1>2, <1>3, <1>6, <2>1, MarkIs
<1>8. /\ Settled' /\ OccupiedCells' = OccupiedCells /\ table'[c].chat = FALSE
      /\ \A d \in OccupiedCells : Read'[d] = Read[d] /\ table'[d].slot = table[d].slot
      /\ \A d \in OccupiedCells : d # c => table'[d].chat = table[d].chat
  BY <1>7 DEF Marking
<1>9. OneRead' /\ OffInv' /\ UnlistedInv'
  BY <1>1, <1>2, <1>3, <1>8, SettledStep, MarkingUnlisted
<1>10. calling = NoContact /\ InCall = {} /\ Leaving = {} /\ Leaving' = {c}
  BY <1>1, <1>3, <1>6, NoneInCall DEF Leaving
<1>11. OrderInv'
  <2>1. ChatCells' = ChatCells \ {c}
    BY <1>6, <1>8 DEF ChatCells
  <2>2. /\ OccupiedCells \subseteq OccupiedCells'
        /\ \A d \in OccupiedCells : table'[d].slot = table[d].slot
        /\ ChatCells' \subseteq ChatCells /\ ChatCells \cup Leaving \subseteq ChatCells' \cup Leaving'
    BY <1>8, <1>10, <2>1
  <2> QED
    BY <1>1, <1>2, <1>3, <2>2, OrderStays
<1>12. /\ c \in ListedCells /\ Listing(nameIndex', Read, ListedCells \ {c})
  <2>1. Holds(Read, OccupiedCells)
    BY <1>1, <1>3, CellsHold
  <2>2. /\ Listing(nameIndex, Read, ListedCells) /\ ListedCells \in SUBSET OccupiedCells
    BY <1>1, <1>6, <1>7, MarkedListing
  <2>3. Removed(nameIndex, Read[c], Read).ok /\ nameIndex' = Removed(nameIndex, Read[c], Read).index
    BY <1>5, <1>6
  <2> QED
    BY <1>6, <2>1, <2>2, <2>3, RemovedListed
<1>13. calling' # NoContact /\ calling'.cell = c /\ calling'.contact = Read[c]
       /\ calling' \in [contact : Contacts, cell : OccupiedCells']
  <2>1. Read[c] \in Contacts /\ calling' = [contact |-> Read[c], cell |-> c] /\ c \in Cells
    BY <1>3, <1>5, <1>6 DEF LookupsSettled
  <2>2. calling' \in [contact : Contacts, cell : Cells]
    BY <2>1
  <2>3. calling' # NoContact
    BY <2>2, ContactsAre
  <2> QED
    BY <1>6, <1>8, <2>1, <2>3
<1>14. IndexInv'
  <2> DEFINE h == Read  g == Read'  L == ListedCells \ {c}
  <2>1. Listing(nameIndex', h, L) /\ \A d \in L : g[d] = h[d]
    BY <1>8, <1>12 DEF ListedCells
  <2>2. ListedCells' = L
    BY <1>2, <1>8, <1>10, <1>13 DEF ListedCells, InCall, Listed
  <2> HIDE DEF h, g, L
  <2>3. Listing(nameIndex', g, L)
    BY <2>1, ListingKept
  <2>4. Listing(nameIndex', Read', ListedCells')
    BY <2>2, <2>3 DEF g
  <2> QED
    BY <1>8, <2>4, IndexFromListing
<1>15. CallInv'
  <2>1. \A k \in 1 .. Len(nameIndex') : nameIndex'[k].cell # c
    <3> DEFINE h == Read  L == ListedCells \ {c}  s == nameIndex'
    <3>1. Listing(s, h, L)
      BY <1>12
    <3> HIDE DEF h, L, s
    <3>2. \A k \in 1 .. Len(s) : s[k].cell \in L
      BY <3>1, ListingIs
    <3> QED
      BY <3>2 DEF L, s
  <2>2. Listed(op.cell)'
    <3>1. Listed(c)
      BY <1>12 DEF ListedCells
    <3> QED
      BY <1>2, <1>6, <1>8, <3>1 DEF Listed
  <2>3. calling'.contact = Read'[op'.cell]
    BY <1>6, <1>8, <1>13
  <2> QED
    BY <1>6, <1>13, <2>1, <2>2, <2>3 DEF CallInv
<1> QED
  BY <1>9, <1>11, <1>14, <1>15 DEF ListsInv
-----------------------------------------------------------------------------
(* A contact has left the hash table.                                      *)
LEMMA ContactRemovedKeeps ==
    ASSUME DbInv, TableInv', ContactRemoved
    PROVE  ListsInv'
<1> DEFINE c == op.cell
<1>1. TableInv /\ CallInv /\ IndexInv /\ UnlistedInv /\ OrderInv
  BY DbParts
<1>2. /\ RemoveContact /\ calling' = NoContact /\ chatOrder' = ChatRemoved(chatOrder, calling.cell)
      /\ latest' = Ranked([latest EXCEPT ![table[c].slot] = 0])
      /\ nameIndex' = nameIndex /\ unlisted' = unlisted /\ inOrder' = inOrder
  BY DEF ContactRemoved
<1>3. op.kind = "remove" /\ ~Failing
  BY <1>2 DEF RemoveContact, Written
<1>4. Freeing(c) /\ op' = Idle
  BY <1>1, <1>2, FreeIs
<1>5. Settled /\ LookupsSettled /\ CellsOwnSlots
  BY <1>1, <1>3, SettledWhen
<1>6. calling # NoContact /\ calling.cell = c /\ Listed(c)
  BY <1>1, <1>3 DEF CallInv
<1>7. c \notin ChatCells
  <2>1. ~table[op.cell].chat
    BY <1>1, <1>3, InvParts DEF OpInv
  <2> QED
    BY <2>1 DEF ChatCells
<1>8. Leaving = {c}
  BY <1>3 DEF Leaving
<1> HIDE DEF c
<1>9. /\ c \in OccupiedCells /\ OccupiedCells' = OccupiedCells \ {c} /\ Settled'
      /\ \A d \in OccupiedCells \ {c} : Read'[d] = Read[d] /\ table'[d] = table[d]
      /\ \A s \in Slots : s # table[c].slot => contacts'[s] = contacts[s]
  BY <1>4 DEF Freeing
<1>10. OneRead' /\ OffInv' /\ CallInv'
  BY <1>2, <1>4, <1>9, SettledStep, IdleNext
<1>11. UnlistedInv'
  BY <1>1, <1>2, <1>3, <1>6, <1>9 DEF UnlistedInv, Listed
<1>12. OrderInv'
  <2>1. chatOrder' = ChatRemoved(chatOrder, c)
    BY <1>2, <1>6
  <2>2. ChatCells' = ChatCells \ {c}
    BY <1>7, <1>9 DEF ChatCells
  <2>3. /\ OccupiedCells \ {c} \subseteq OccupiedCells' /\ Leaving \subseteq {c}
        /\ \A d \in OccupiedCells \ {c} : table'[d].slot = table[d].slot
    BY <1>8, <1>9
  <2> QED
    BY <1>1, <1>2, <1>5, <1>9, <2>1, <2>2, <2>3, ChatTakenOut
<1>13. IndexInv'
  <2> DEFINE h == Read  g == Read'
  <2>1. ListedCells' = ListedCells
    <3>1. \A d \in OccupiedCells' : Listed(d)' <=> Listed(d)
      BY <1>2, <1>9 DEF Listed
    <3> QED
      BY <1>2, <1>6, <1>9, <3>1 DEF ListedCells, InCall
  <2>2. Listing(nameIndex, h, ListedCells)
    BY <1>1, <1>5 DEF IndexInv
  <2>3. \A d \in ListedCells : g[d] = h[d]
    BY <1>6, <1>9 DEF ListedCells, InCall
  <2> HIDE DEF h, g
  <2>4. Listing(nameIndex, g, ListedCells)
    BY <2>2, <2>3, ListingKept
  <2>5. Listing(nameIndex', Read', ListedCells')
    BY <1>2, <2>1, <2>4 DEF g
  <2> QED
    BY <1>9, <2>5, IndexFromListing
<1> QED
  BY <1>10, <1>11, <1>12, <1>13 DEF ListsInv

(* A contact has changed.                                                  *)
LEMMA ContactUpdateKeeps ==
    ASSUME DbInv, TableInv', NEW p \in Phones, NEW q \in Phones, NEW n \in Names,
           ContactUpdate(p, q, n)
    PROVE  ListsInv'
<1> DEFINE c == CellOf(p)  old == Removed(nameIndex, Read[c], Read)
<1>1. TableInv /\ CallInv /\ IndexInv /\ UnlistedInv /\ OrderInv
  BY DbParts
<1>2. /\ IF p = q THEN UpdateContact(p, n) ELSE UpdatePhone(p, q, n)
      /\ old.ok /\ nameIndex' = Entered(old.index, q, n).index
      /\ chatOrder' = ChatReplaced(chatOrder, c, CellOf(q)')
      /\ calling' = calling /\ latest' = latest /\ unlisted' = unlisted /\ inOrder' = inOrder
  BY DEF ContactUpdate
<1>3. op = Idle /\ op' = op
  BY <1>2 DEF UpdateContact, UpdatePhone
<1>4. PICK d \in Cells : Moving(c, d, q, n)
  BY <1>1, <1>2, UpdateIs
<1>5. op.kind = "idle" /\ op.kind # "remove"
  BY <1>3, OpFacts
<1>6. calling = NoContact /\ InCall = {} /\ ListedCells = {e \in OccupiedCells : Listed(e)}
  BY <1>1, <1>5, NoneInCall
<1> HIDE DEF c
<1>7. /\ c \in OccupiedCells /\ d \notin OccupiedCells \ {c}
      /\ OccupiedCells' = (OccupiedCells \ {c}) \cup {d}
      /\ Settled /\ Settled' /\ CellOf(q)' = d /\ Read'[d] = Named(q, n)
      /\ \A e \in OccupiedCells \ {c} : Read'[e] = Read[e] /\ table'[e] = table[e]
      /\ table'[d].slot = table[c].slot
      /\ \A s \in Slots : contacts[s] \in Contacts => contacts'[s] \in Contacts
  BY <1>4 DEF Moving
<1>8. OneRead' /\ OffInv' /\ CallInv'
  BY <1>2, <1>3, <1>6, <1>7, SettledStep, IdleNext
<1>9. UnlistedInv'
  BY <1>1, <1>2, <1>7 DEF UnlistedInv, Settled
<1>10. OrderInv'
  <2>1. chatOrder' = ChatReplaced(chatOrder, c, d)
    BY <1>2, <1>7
  <2> QED
    BY <1>1, <1>2, <1>4, <1>5, <1>7, <2>1, ChatMoved
<1>11. c \in ListedCells /\ Listing(old.index, Read, ListedCells \ {c})
  <2>1. Holds(Read, OccupiedCells) /\ Listing(nameIndex, Read, ListedCells)
    BY <1>1, <1>7, CellsHold DEF IndexInv
  <2>2. ListedCells \in SUBSET OccupiedCells
    BY DEF ListedCells
  <2>3. Removed(nameIndex, Read[c], Read).ok
    BY <1>2
  <2> HIDE DEF old
  <2>4. c \in ListedCells /\ Listing(Removed(nameIndex, Read[c], Read).index, Read, ListedCells \ {c})
    BY <1>7, <2>1, <2>2, <2>3, RemovedListed
  <2> QED
    BY <2>4 DEF old
<1> DEFINE rest == old.index
<1> HIDE DEF old
<1>12. nameIndex' = Entered(rest, q, n).index
  BY <1>2
<1> HIDE DEF rest
<1>13. IndexInv'
  <2> DEFINE h == Read  g == Read'  L == ListedCells \ {c}  X == OccupiedCells'
  <2>1. ListedCells' = L \cup {d}
    <3>1. \A e \in OccupiedCells \ {c} : Listed(e)' <=> Listed(e)
      BY <1>2, <1>7 DEF Listed
    <3>2. Listed(d)'
      BY <1>2, <1>7, <1>11 DEF Listed, ListedCells
    <3>3. InCall' = {}
      BY <1>2, <1>6 DEF InCall
    <3>4. ListedCells' = {e \in OccupiedCells' : Listed(e)'}
      BY <3>3 DEF ListedCells
    <3> QED
      BY <1>6, <1>7, <3>1, <3>2, <3>4
  <2>2. Listing(rest, h, L) /\ \A e \in L : g[e] = h[e]
    BY <1>7, <1>11 DEF ListedCells, rest
  <2>3. CellsOwnSlots' /\ Holds(g, X)
    BY <1>7, CellsAreNext, CellsHoldNext
  <2>4. IsFiniteSet(X) /\ Cardinality(X) \in Nat /\ Cardinality(X) <= IndexCapacity
    BY <2>3, Sizes, ListsHaveRoom, IndexAssumption DEF CellsOwnSlots
  <2>5. nameIndex' = Inserted(rest, g[d], d, g).index
    BY <1>7, <1>12 DEF Entered
  <2>6. L \in SUBSET X /\ d \in X /\ d \notin L
    BY <1>7 DEF ListedCells
  <2> HIDE DEF h, g, L, X
  <2>7. Listing(rest, g, L)
    BY <2>2, ListingKept
  <2>8. Listing(Inserted(rest, g[d], d, g).index, g, L \cup {d})
    BY <2>3, <2>4, <2>6, <2>7, IndexTakes
  <2>9. Listing(nameIndex', Read', ListedCells')
    BY <2>1, <2>5, <2>8 DEF g
  <2> QED
    BY <1>7, <2>9, IndexFromListing
<1> QED
  BY <1>8, <1>9, <1>10, <1>13 DEF ListsInv

(* Every step.                                                             *)
LEMMA DbCallsKeep ==
    ASSUME DbInv, TableInv', NEW p \in Phones, DbCalls(p)
    PROVE  ListsInv'
<1>1. ASSUME MessageAdd(p) PROVE ListsInv'
  <2>1. MessageToContact(p) \/ MessageToNewContact(p)
    BY <1>1 DEF MessageAdd
  <2> QED
    BY <1>1, <2>1, MessageToContactKeeps, MessageToNewContactKeeps
<1>2. ASSUME MessageAddFails(p) \/ MessageRemoveChatFails(p) PROVE ListsInv'
  BY <1>2, QuietFails
<1>3. ASSUME MessageRemoveChat(p) PROVE ListsInv'
  BY <1>3, MessageRemoveChatKeeps
<1>4. ASSUME NEW t \in Times, MessageAdded(p, t) PROVE ListsInv'
  BY <1>4, MessageAddedKeeps
<1>5. ASSUME ContactRemove(p) PROVE ListsInv'
  <2>1. BeginRemove(p) \/ BeginRemoveFails(p)
    BY <1>5 DEF ContactRemove
  <2> QED
    BY <1>5, <2>1, RemovalBegins, RemovalBeginsFailing
<1>6. ASSUME CallRefused(p) PROVE ListsInv'
  BY <1>6, CallRefusedKeeps
<1>7. ASSUME NEW n \in NamesGiven[p], ContactAdd(p, n) \/ ContactAddFails(p, n) PROVE ListsInv'
  <2>1. n \in Names
    BY NamesGivenAssumption
  <2> QED
    BY <1>7, <2>1, ContactAddKeeps, QuietFails
<1>8. ASSUME NEW n \in NamesGiven[p], NEW q \in Phones,
             ContactUpdate(q, p, n) \/ ContactUpdateFails(q, p, n)
      PROVE  ListsInv'
  <2>1. n \in Names
    BY NamesGivenAssumption
  <2> QED
    BY <1>8, <2>1, ContactUpdateKeeps, ContactUpdateFailsKeeps
<1> QED
  BY <1>1, <1>2, <1>3, <1>4, <1>5, <1>6, <1>7, <1>8 DEF DbCalls
-----------------------------------------------------------------------------
(* A new database.                                                         *)
LEMMA InitDb == ASSUME DbInit PROVE DbInv
<1>1. /\ Init /\ nameIndex = <<>> /\ chatOrder = <<>> /\ calling = NoContact
      /\ latest = [s \in Slots |-> 0] /\ unlisted = {} /\ inOrder = TRUE
  BY DEF DbInit
<1>2. TableInv
  BY <1>1, InitInv
<1>3. OccupiedCells = {} /\ op = Idle /\ ~Failing
  BY <1>1, EntryFacts DEF Init, OccupiedCells, Failing
<1>4. op.kind = "idle" /\ Settled
  BY <1>3, OpFacts DEF Settled, Running
<1>5. OneRead
  BY <1>2, <1>3, OneReadIs
<1>6. CallInv /\ UnlistedInv
  BY <1>1, <1>4 DEF CallInv, UnlistedInv
<1>7. OffInv
  BY <1>1 DEF OffInv
<1>8. IndexInv
  <2>1. nameIndex \in Seq(IndexEntry(OccupiedCells)) /\ Len(nameIndex) = 0
    BY <1>1
  <2>2. OncePerCell(nameIndex)
    BY <2>1 DEF OncePerCell
  <2>3. ListedCells = {}
    BY <1>3 DEF ListedCells
  <2>4. Listing(nameIndex, Read, {})
    BY <1>1, <2>1 DEF Listing
  <2> QED
    BY <2>1, <2>2, <2>3, <2>4 DEF IndexInv
<1>9. OrderInv
  <2>1. chatOrder \in Seq(OccupiedCells) /\ Len(chatOrder) = 0
    BY <1>1
  <2>2. ChatCells = {}
    BY <1>3 DEF ChatCells
  <2>3. Once(chatOrder) /\ ChatsRanked
    BY <2>1, <2>2 DEF Once, ChatsRanked
  <2> QED
    BY <1>1, <2>1, <2>3 DEF OrderInv
<1> QED
  BY <1>2, <1>5, <1>6, <1>7, <1>8, <1>9 DEF DbInv, ListsInv

(* A step that changes nothing.                                            *)
LEMMA SameDatabase == ASSUME DbInv, UNCHANGED allVars PROVE DbInv'
<1>1. /\ table' = table /\ freeSlots' = freeSlots /\ numElems' = numElems
      /\ contacts' = contacts /\ durable' = durable /\ chats' = chats
      /\ op' = op /\ doubt' = doubt
      /\ nameIndex' = nameIndex /\ chatOrder' = chatOrder /\ calling' = calling
      /\ latest' = latest /\ unlisted' = unlisted /\ inOrder' = inOrder
  BY DEF allVars, vars, dbVars, ram, card
<1>2. TableInv'
  BY NextInv DEF DbInv, allVars
<1>3. /\ OccupiedCells' = OccupiedCells /\ Read' = Read /\ (Failing' <=> Failing)
      /\ (Running' <=> Running)
  BY <1>1 DEF OccupiedCells, Read, Failing, Running
<1>4. /\ (Settled' <=> Settled) /\ InCall' = InCall /\ Leaving' = Leaving
      /\ ChatCells' = ChatCells /\ ListedCells' = ListedCells
  BY <1>1, <1>3 DEF Settled, InCall, Leaving, ChatCells, ListedCells, Listed
<1>5. OneRead' /\ UnlistedInv' /\ OffInv'
  BY <1>1, <1>3, DbParts DEF OneRead, UnlistedInv, OffInv
<1>6. CallInv'
  BY <1>1, <1>3, DbParts DEF CallInv, Listed
<1>7. IndexInv'
  <2> DEFINE h == Read
  <2>1. /\ nameIndex \in Seq(IndexEntry(OccupiedCells)) /\ OncePerCell(nameIndex)
        /\ Settled => Listing(nameIndex, h, ListedCells)
    BY DbParts DEF IndexInv
  <2>2. Read' = h
    BY <1>3
  <2> HIDE DEF h
  <2> QED
    BY <1>1, <1>3, <1>4, <2>1, <2>2 DEF IndexInv
<1>8. OrderInv'
  BY <1>1, <1>3, <1>4, DbParts DEF OrderInv, ChatsRanked
<1> QED
  BY <1>2, <1>5, <1>6, <1>7, <1>8 DEF DbInv, ListsInv

(* Every step of the database keeps the invariant.                         *)
LEMMA DbStepKeeps == ASSUME DbInv, [DbNext]_allVars PROVE DbInv'
<1>1. TableInv'
  BY DbStepIsTableStep, NextInv DEF DbInv
<1>2. ASSUME NEW p \in Phones, DbCalls(p) PROVE ListsInv'
  BY <1>1, <1>2, DbCallsKeep
<1>3. ASSUME MessageNotAdded PROVE ListsInv'
  BY <1>1, <1>3, MessageFails, NoSectorKeeps
<1>4. ASSUME ContactRemoved \/ ContactRemoveFails PROVE ListsInv'
  BY <1>1, <1>4, ContactRemovedKeeps, ContactRemoveFailsKeeps
<1>5. ASSUME DbPowerCut \/ Mounting \/ DbMounted PROVE ListsInv'
  BY <1>1, <1>5, DbPowerCutKeeps, MountingKeeps, DbMountedKeeps
<1>6. DbNext => DbInv'
  BY <1>1, <1>2, <1>3, <1>4, <1>5 DEF DbNext, DbInv
<1>7. UNCHANGED allVars => DbInv'
  BY SameDatabase
<1> QED
  BY <1>6, <1>7

(* The hash table, the name index and the chat order stay consistent with  *)
(* each other through every call, whatever fails, is cut or is booted.     *)
THEOREM DatabaseInvariant == DbSpec => []DbInv
<1>1. DbInit => DbInv
  BY InitDb
<1>2. DbInv /\ [DbNext]_allVars => DbInv'
  BY DbStepKeeps
<1> QED
  BY <1>1, <1>2, PTL DEF DbSpec

(* The database's calls are the hash table's, whatever they do to the two  *)
(* lists: so its contacts are the phone book too (PhoneBook).              *)
THEOREM DatabaseIsPhoneBook == DbSpec => IsPhoneBook
<1>1. DbInit => Init
  BY DEF DbInit
<1>2. [DbNext]_allVars => [Next]_vars
  BY DbStepIsTableStep
<1>3. DbSpec => Spec
  BY <1>1, <1>2, PTL DEF DbSpec, Spec
<1> QED
  BY <1>3, HashTableIsPhoneBook, PTL
-----------------------------------------------------------------------------
(* Between calls of a database that has had no write fail.                 *)
LEMMA BetweenCalls ==
    ASSUME DbInv, op = Idle, ~Failing
    PROVE  /\ Settled /\ LookupsSettled /\ CellsOwnSlots
           /\ ListedCells = {c \in OccupiedCells : Listed(c)} /\ Leaving = {}
           /\ Holds(Read, OccupiedCells) /\ Holds(Read, ListedCells)
           /\ Listing(nameIndex, Read, ListedCells)
<1>1. TableInv /\ CallInv /\ IndexInv
  BY DbParts
<1>2. op.kind = "idle"
  BY OpFacts
<1>3. Settled /\ LookupsSettled /\ CellsOwnSlots
  BY <1>1, <1>2, SettledWhen
<1>4. ListedCells = {c \in OccupiedCells : Listed(c)} /\ Leaving = {}
  BY <1>1, <1>2, NoneInCall
<1>5. Holds(Read, OccupiedCells)
  BY <1>1, <1>3, CellsHold
<1>6. Holds(Read, ListedCells)
  BY <1>5 DEF Holds, ListedCells
<1>7. Listing(nameIndex, Read, ListedCells)
  BY <1>1, <1>3 DEF IndexInv
<1> QED
  BY <1>3, <1>4, <1>5, <1>6, <1>7

(* Every contact once, in alphabetical order, as a boot would arrange them *)
(* (database_contact_list), but for those that only the next boot lists.   *)
THEOREM NamesAreListed == DbSpec => []NamesListed
<1>1. DbInv => NamesListed
  <2> SUFFICES ASSUME DbInv, op = Idle, ~Failing
               PROVE  nameIndex = BuiltNames({c \in OccupiedCells : Listed(c)}, Read)
    BY DEF NamesListed
  <2> DEFINE h == Read  L == ListedCells
  <2>1. L = {c \in OccupiedCells : Listed(c)} /\ Holds(h, L) /\ Listing(nameIndex, h, L)
    BY BetweenCalls
  <2>2. L \in SUBSET (0 .. TableSize) /\ TableSize \in Nat
    BY Sizes DEF ListedCells, OccupiedCells, Cells
  <2>3. nameIndex = BuiltNames(L, h)
    <3> HIDE DEF h, L
    <3>1. Listing(BuiltNames(L, h), h, L)
      BY <2>1, <2>2, BuiltIs
    <3> QED
      BY <2>1, <3>1, OneListing
  <2> QED
    BY <2>1, <2>3
<1> QED
  BY <1>1, DatabaseInvariant, PTL

(* Every chat once; and if no message was earlier than one before it, the  *)
(* most recent first, as a boot would arrange them (database_chat_list).   *)
THEOREM ChatsAreListed == DbSpec => []ChatsListed
<1>1. DbInv => ChatsListed
  <2> SUFFICES ASSUME DbInv, op = Idle, ~Failing
               PROVE  /\ {chatOrder[k] : k \in DOMAIN chatOrder} = ChatCells
                      /\ Len(chatOrder) = Cardinality(ChatCells)
                      /\ inOrder => chatOrder = ChatsOnCard
    BY DEF ChatsListed
  <2> DEFINE s == chatOrder  C == ChatCells  T == 1 .. Len(s)
             time == [c \in C |-> latest[table[c].slot]]
  <2>1. /\ s \in Seq(OccupiedCells) /\ Once(s) /\ latest \in [Slots -> Nat]
        /\ \A c \in C : \E k \in T : s[k] = c
        /\ \A k \in T : s[k] \in C
        /\ inOrder => \A j, k \in T : j < k => latest[table[s[j]].slot] > latest[table[s[k]].slot]
    BY BetweenCalls, DbParts DEF OrderInv, ChatsRanked
  <2>2. C \in SUBSET OccupiedCells /\ CellsOwnSlots /\ C \in SUBSET (0 .. TableSize) /\ TableSize \in Nat
    BY BetweenCalls, Sizes DEF ChatCells, OccupiedCells, Cells
  <2>3. \A c \in C : table[c].slot \in Slots
    BY <2>2 DEF CellsOwnSlots
  <2>4. time \in [C -> Nat] /\ \A c \in C : time[c] = latest[table[c].slot]
    BY <2>1, <2>3
  <2>5. ChatsOnCard = BuiltChats(C, time)
    BY DEF ChatsOnCard
  <2> HIDE DEF s, C, time
  <2>6. Len(s) \in Nat /\ DOMAIN s = T /\ s \in [T -> C]
    <3>1. Len(s) \in Nat /\ s \in [T -> OccupiedCells]
      BY <2>1, LenProperties
    <3> QED
      BY <2>1, <3>1
  <2>7. {s[k] : k \in DOMAIN s} = C
    BY <2>1, <2>6
  <2>8. Len(s) = Cardinality(C)
    <3>1. \A j, k \in T : s[j] = s[k] => j = k
      BY <2>1 DEF Once
    <3>2. IsFiniteSet(T) /\ Cardinality(T) = Len(s)
      <4>1. IsFiniteSet(1 .. Len(s)) /\ Cardinality(1 .. Len(s)) = IF 1 > Len(s) THEN 0 ELSE Len(s) - 1 + 1
        BY <2>6, FS_Interval
      <4>2. Len(s) \in Nat /\ (Len(s) - 1) + 1 = Len(s) /\ (1 > Len(s) => Len(s) = 0)
        BY <2>6
      <4> QED
        BY <4>1, <4>2
    <3>3. s \in [T -> C] /\ \A c \in C : \E k \in T : s[k] = c
      BY <2>1, <2>6
    <3> HIDE DEF T
    <3>4. Cardinality(C) = Cardinality(T)
      BY <3>1, <3>2, <3>3, SameSize
    <3> QED
      BY <3>2, <3>4
  <2>9. ASSUME inOrder PROVE s = ChatsOnCard
    <3> DEFINE t == BuiltChats(C, time)  n == Len(s)  r == [c \in C |-> 0 - time[c]]
    <3>1. /\ t \in Seq(C) /\ Len(t) = n /\ Once(t)
          /\ \A c \in C : \E k \in 1 .. Len(t) : t[k] = c
          /\ Latest(time, t)
      <4>1. t = BuiltChats(C, time)
        OBVIOUS
      <4> HIDE DEF t
      <4>2. ChatListing(t, C, time)
        BY <2>2, <2>4, <4>1, BuiltChatsIs
      <4> QED
        BY <2>8, <4>2 DEF ChatListing
    <3>2. ChatsOnCard = t
      BY <2>5
    <3> HIDE DEF t, n
    <3>3. \A k \in 1 .. n : s[k] \in C /\ t[k] \in C
      BY <2>1, <3>1, ElementOfSeq DEF n
    <3>4. \A c \in C : r[c] = 0 - time[c] /\ time[c] \in Nat /\ r[c] \in Int
      BY <2>4
    <3> HIDE DEF r
    <3>5. n \in Nat
      BY <2>6 DEF n
    <3>6. ASSUME NEW j \in 1 .. n, NEW k \in 1 .. n, j < k PROVE time[s[j]] > time[s[k]]
      BY <2>1, <2>4, <2>9, <3>3, <3>6 DEF n
    <3>7. ASSUME NEW j \in 1 .. n, NEW k \in 1 .. n, s[j] # s[k] PROVE time[s[j]] # time[s[k]]
      <4>1. j < k \/ k < j
        BY <3>5, <3>7
      <4>2. time[s[j]] \in Nat /\ time[s[k]] \in Nat
        BY <3>3, <3>4
      <4> QED
        BY <3>6, <4>1, <4>2
    <3>8. Increases(n, r, s)
      <4>1. ASSUME NEW j \in 1 .. n, NEW k \in 1 .. n, j < k PROVE r[s[j]] < r[s[k]]
        <5>1. time[s[j]] > time[s[k]]
          BY <3>6, <4>1
        <5> QED
          BY <3>3, <3>4, <5>1
      <4> QED
        BY <3>3, <3>4, <4>1 DEF Increases
    <3>9. Increases(n, r, t)
      <4>1. ASSUME NEW j \in 1 .. n, NEW k \in 1 .. n, j < k PROVE r[t[j]] < r[t[k]]
        <5>1. t[j] # t[k]
          BY <3>1, <4>1 DEF Once
        <5>2. PICK x \in 1 .. n : s[x] = t[j]
          BY <2>1, <3>3 DEF n
        <5>3. PICK y \in 1 .. n : s[y] = t[k]
          BY <2>1, <3>3 DEF n
        <5>4. time[t[j]] # time[t[k]]
          BY <3>7, <5>1, <5>2, <5>3
        <5>5. time[t[j]] > time[t[k]]
          BY <3>1, <4>1, <5>4 DEF Latest
        <5> QED
          BY <3>3, <3>4, <5>5
      <4> QED
        BY <3>3, <3>4, <4>1 DEF Increases
    <3>10. Within(n, s, t) /\ Within(n, t, s)
      BY <2>1, <3>1, <3>3 DEF Within, n
    <3>11. \A k \in 1 .. n : s[k] = t[k]
      BY <3>5, <3>8, <3>9, <3>10, OneOrder
    <3>12. s \in Seq(C)
      BY <2>6, FunctionIsSeq
    <3>13. s = t
      BY <3>1, <3>11, <3>12, SeqEqual DEF n
    <3> QED
      BY <3>2, <3>13
  <2> QED
    BY <2>7, <2>8, <2>9 DEF s, C
<1> QED
  BY <1>1, DatabaseInvariant, PTL

(* Whatever has failed, neither list has an entry twice, or one that is    *)
(* not a contact's.                                                        *)
THEOREM ListingsStayLive == DbSpec => []ListingsAreLive
<1>1. DbInv => ListingsAreLive
  <2> SUFFICES ASSUME DbInv PROVE ListingsAreLive
    OBVIOUS
  <2>1. /\ chatOrder \in Seq(OccupiedCells) /\ Once(chatOrder)
        /\ nameIndex \in Seq(IndexEntry(OccupiedCells)) /\ OncePerCell(nameIndex)
    BY DbParts DEF OrderInv, IndexInv
  <2>2. DOMAIN chatOrder = 1 .. Len(chatOrder) /\ DOMAIN nameIndex = 1 .. Len(nameIndex)
    BY <2>1, LenProperties
  <2>3. \A k \in 1 .. Len(chatOrder) : chatOrder[k] \in OccupiedCells
    BY <2>1, ElementOfSeq
  <2>4. ASSUME NEW k \in 1 .. Len(nameIndex) PROVE nameIndex[k].cell \in OccupiedCells
    <3>1. nameIndex[k] \in IndexEntry(OccupiedCells)
      BY <2>1, ElementOfSeq
    <3> QED
      BY <3>1 DEF IndexEntry
  <2>5. IsInjective(chatOrder) /\ Range(chatOrder) \subseteq OccupiedCells
    BY <2>1, <2>2, <2>3 DEF IsInjective, Range, Once
  <2>6. IsInjective([k \in DOMAIN nameIndex |-> nameIndex[k].cell])
    BY <2>1, <2>2 DEF IsInjective, OncePerCell
  <2> QED
    BY <2>2, <2>4, <2>5, <2>6 DEF ListingsAreLive
<1> QED
  BY <1>1, DatabaseInvariant, PTL

(* The index takes every contact that the hash table would take, and gives *)
(* back every one it lists: database_contact_add never has to remove the   *)
(* contact again, and no update or removal of a listed contact is refused  *)
(* for the index's sake.                                                   *)
THEOREM IndexAcceptsAll == DbSpec => []IndexAccepts
<1>1. ASSUME DbInv, op = Idle, ~Failing, NEW p \in Phones, IsFound(p, FALSE), Listed(CellOf(p))
      PROVE  Removed(nameIndex, Read[CellOf(p)], Read).ok
  <2> DEFINE c == CellOf(p)  h == Read  L == ListedCells
  <2>1. PICK i \in Attempts : Found(p, i, FALSE)
    BY <1>1 DEF IsFound
  <2>2. FindOccupied(p, Probe(p, i))
    BY <1>1, <2>1, BetweenCalls DEF FindOccupied, LookupsSettled
  <2>3. c \in OccupiedCells
    BY <1>1, <2>2, BetweenCalls, FoundOccupied, DbParts
  <2>4. Holds(h, L) /\ Listing(nameIndex, h, L) /\ c \in L
    BY <1>1, <2>3, BetweenCalls
  <2> HIDE DEF c, h, L
  <2>5. Removed(nameIndex, h[c], h).ok
    BY <2>4, RemovedIs
  <2> QED
    BY <2>5 DEF c, h
<1>2. ASSUME DbInv, op = Idle, ~Failing, NEW p \in Phones, ~IsFound(p, FALSE), freeSlots # {},
             NEW n \in Names
      PROVE  Inserted(nameIndex, Named(p, n), 0, Read).ok
  <2> DEFINE x == Named(p, n)  h == Read  L == ListedCells  at == Find(nameIndex, x, h)
  <2>1. /\ Holds(h, L) /\ Listing(nameIndex, h, L) /\ L \in SUBSET OccupiedCells
        /\ LookupsSettled /\ CellsOwnSlots
    BY <1>2, BetweenCalls DEF ListedCells
  <2>2. x \in Contact /\ x.phone = p
    BY ContactsAre
  <2>3. \A c \in L : h[c].phone # p
    BY <1>2, <2>1 DEF LookupsSettled
  <2>4. Cardinality(OccupiedCells) < NumSlots
    <3>1. PICK s \in Slots : contacts[s] = Free
      BY <1>2, <2>1 DEF LookupsSettled
    <3>2. \A c \in OccupiedCells : table[c].slot # s
      BY <2>1, <3>1, ContactAssumption DEF LookupsSettled, CellsOwnSlots
    <3> QED
      BY <2>1, <3>2 DEF CellsOwnSlots
  <2>5. IsFiniteSet(OccupiedCells) /\ Cardinality(OccupiedCells) \in Nat
    BY <2>1 DEF CellsOwnSlots
  <2> HIDE DEF x, h, L, at
  <2>6. Len(nameIndex) < IndexCapacity
    <3>1. Cardinality(L) = Len(nameIndex) /\ IsFiniteSet(L)
      BY <2>1, ListingSize
    <3>2. Cardinality(L) <= Cardinality(OccupiedCells) /\ Cardinality(L) \in Nat
      BY <2>1, <2>5, <3>1, FS_Subset, FS_CardinalityType
    <3> QED
      BY <2>4, <2>5, <3>1, <3>2, Sizes, ListsHaveRoom, IndexAssumption
  <2>7. /\ at.ok /\ at.lo \in 0 .. Len(nameIndex)
        /\ at.match => /\ at.lo < Len(nameIndex)
                       /\ ~ Precedes(x, h[nameIndex[at.lo + 1].cell])
                       /\ ~ Precedes(h[nameIndex[at.lo + 1].cell], x)
    BY <2>1, <2>2, FindIs DEF at
  <2>8. ~ at.match
    <3> SUFFICES ASSUME at.match PROVE FALSE
      OBVIOUS
    <3> DEFINE k == at.lo + 1  d == h[nameIndex[k].cell]
    <3>1. k \in 1 .. Len(nameIndex)
      <4>1. Len(nameIndex) \in Nat
        BY <2>1, ListingIs
      <4> QED
        BY <2>7, <4>1
    <3>2. ~ Precedes(x, d) /\ ~ Precedes(d, x)
      BY <2>7
    <3> HIDE DEF k
    <3>3. nameIndex[k].cell \in L
      BY <2>1, <3>1, ListingIs
    <3>4. d \in Contact /\ d.phone # p
      BY <2>1, <2>3, <3>3 DEF Holds
    <3> HIDE DEF d
    <3> QED
      BY <2>2, <3>2, <3>4, PrecedesOrder
  <2>9. Inserted(nameIndex, x, 0, h).ok
    BY <2>6, <2>7, <2>8 DEF Inserted, at
  <2> QED
    BY <2>9 DEF x, h
<1>3. DbInv => IndexAccepts
  BY <1>1, <1>2 DEF IndexAccepts
<1> QED
  BY <1>3, DatabaseInvariant, PTL
=============================================================================
