-------------------------- MODULE RecursionLemmas --------------------------
(***************************************************************************)
(* Induction without an operator parameter.  The theorems of the library   *)
(* on induction and on recursive functions take the formula, or the step,  *)
(* as an operator; here the one is the set of the numbers for which it     *)
(* holds and the other a function, and nothing has to be instantiated.     *)
(***************************************************************************)
EXTENDS Scan, SequencesExt, SequenceTheorems, FiniteSetTheorems, WellFoundedInduction, TLAPS

(* A set of natural numbers that is not empty has a least element.         *)
LEMMA LeastNatural ==
    ASSUME NEW S, S \subseteq Nat, S # {}
    PROVE  \E m \in S : \A n \in S : m <= n
<1> DEFINE R == {p \in Nat \X Nat : p[1] < p[2]}
<1>1. IsWellFoundedOn(R, Nat)
  BY NatLessThanWellFounded DEF OpToRel
<1>2. PICK m \in S : \A n \in S : <<n, m>> \notin R
  <2> HIDE DEF R
  <2> QED BY <1>1, WFMin
<1>3. ASSUME NEW n \in S PROVE m <= n
  <2>1. <<n, m>> \in Nat \X Nat
    OBVIOUS
  <2>2. ~ (n < m)
    BY <1>2, <2>1
  <2> QED
    BY <2>2
<1> QED
  BY <1>3

(* A set that has the first number of an interval, and with each number of *)
(* it the next one, has all of it.                                         *)
LEMMA IntervalInduction ==
    ASSUME NEW m \in Nat, NEW n \in Nat, NEW S,
           m \in S, \A k \in m .. n - 1 : k \in S => k + 1 \in S
    PROVE  m .. n \subseteq S
<1> DEFINE missing == {k \in m .. n : k \notin S}
<1> SUFFICES ASSUME missing # {} PROVE FALSE
  OBVIOUS
<1>1. missing \subseteq Nat
  OBVIOUS
<1>2. PICK k \in missing : \A j \in missing : k <= j
  <2> HIDE DEF missing
  <2> QED BY <1>1, LeastNatural
<1>3. k \in m .. n /\ k # m /\ k \notin S
  OBVIOUS
<1>4. k - 1 \in m .. n - 1 /\ k - 1 \in S
  BY <1>2, <1>3
<1>5. (k - 1) + 1 \in S
  BY <1>4
<1> QED
  BY <1>3, <1>5

(* g is the function on m .. n that starts with v and goes on by step.      *)
Iterates(g, m, n, V, v, step) ==
    /\ g \in [m .. n -> V]
    /\ g[m] = v
    /\ \A k \in m + 1 .. n : g[k] = step[k][g[k - 1]]

(* There is such a function.                                               *)
LEMMA RecursionExists ==
    ASSUME NEW m \in Nat, NEW n \in Nat, m <= n, NEW V, NEW v \in V,
           NEW step \in [m .. n -> [V -> V]]
    PROVE  \E g : Iterates(g, m, n, V, v, step)
<1> DEFINE Upto(g, h) == \A k \in m .. h : g[k] = IF k = m THEN v ELSE step[k][g[k - 1]]
           S == {h \in m .. n : \E g \in [m .. n -> V] : Upto(g, h)}
<1>1. m \in S
  <2>1. [k \in m .. n |-> v] \in [m .. n -> V] /\ Upto([k \in m .. n |-> v], m)
    OBVIOUS
  <2>2. m \in m .. n
    OBVIOUS
  <2> QED
    BY <2>1, <2>2
<1>2. ASSUME NEW h \in m .. n - 1, h \in S PROVE h + 1 \in S
  <2>1. PICK g \in [m .. n -> V] : Upto(g, h)
    BY <1>2
  <2> DEFINE f == [g EXCEPT ![h + 1] = step[h + 1][g[h]]]
  <2>2. h + 1 \in m .. n /\ h \in m .. n /\ h + 1 # m
    OBVIOUS
  <2>3. f \in [m .. n -> V]
    BY <2>2
  <2>4. ASSUME NEW k \in m .. h + 1 PROVE f[k] = IF k = m THEN v ELSE step[k][f[k - 1]]
    <3>1. CASE k = h + 1
      BY <2>2, <3>1
    <3>2. CASE k # h + 1
      <4>1. k \in m .. h /\ k \in m .. n /\ f[k] = g[k]
        BY <2>2, <3>2
      <4>2. k # m => k - 1 \in m .. n /\ k - 1 # h + 1
        BY <4>1
      <4>3. k # m => f[k - 1] = g[k - 1]
        BY <4>2
      <4> QED
        BY <2>1, <4>1, <4>3
    <3> QED
      BY <3>1, <3>2
  <2>5. Upto(f, h + 1)
    BY <2>4
  <2> HIDE DEF f
  <2> QED
    BY <2>2, <2>3, <2>5
<1>3. n \in S
  <2>1. m .. n \subseteq S
    <3> HIDE DEF S
    <3> QED BY <1>1, <1>2, IntervalInduction
  <2>2. n \in m .. n
    OBVIOUS
  <2> QED
    BY <2>1, <2>2
<1>4. PICK g \in [m .. n -> V] : Upto(g, n)
  BY <1>3
<1>5. m \in m .. n /\ \A k \in m + 1 .. n : k \in m .. n /\ k # m
  OBVIOUS
<1> QED
  BY <1>4, <1>5 DEF Iterates

-----------------------------------------------------------------------------
(* A function on 1 .. n is a sequence.                                     *)
LEMMA FunctionIsSeq ==
    ASSUME NEW X, NEW n \in Nat, NEW s \in [1 .. n -> X]
    PROVE  s \in Seq(X) /\ Len(s) = n
<1>1. s \in Seq(X)
  BY SeqDef
<1>2. DOMAIN s = 1 .. n /\ DOMAIN s = 1 .. Len(s) /\ Len(s) \in Nat
  BY <1>1, LenProperties
<1> QED
  BY <1>1, <1>2

(* Where the members of two sequences are, when they are joined.           *)
LEMMA Joined ==
    ASSUME NEW X, NEW s \in Seq(X), NEW t \in Seq(X)
    PROVE  /\ s \o t \in Seq(X)
           /\ Len(s \o t) = Len(s) + Len(t)
           /\ \A p \in 1 .. Len(s) : (s \o t)[p] = s[p]
           /\ \A q \in 1 .. Len(t) : (s \o t)[Len(s) + q] = t[q]
<1>1. Len(s) \in Nat /\ Len(t) \in Nat
  OBVIOUS
<1>2. \A p \in 1 .. Len(s) : p \in 1 .. Len(s) + Len(t) /\ p <= Len(s)
  BY <1>1
<1>3. \A q \in 1 .. Len(t) :
         /\ Len(s) + q \in 1 .. Len(s) + Len(t)
         /\ ~ (Len(s) + q <= Len(s)) /\ (Len(s) + q) - Len(s) = q
  BY <1>1
<1> QED
  BY <1>2, <1>3, ConcatProperties

(* f has the first lists of seqs laid end to end, and then the next.       *)
Flattens(f, X, n, seqs) ==
    /\ f \in [1 .. n -> Seq(X)]
    /\ f[1] = seqs[1]
    /\ \A k \in 2 .. n : f[k] = f[k - 1] \o seqs[k]
    /\ FlattenSeq(seqs) = f[n]

(* What FlattenSeq does, list by list.                                     *)
LEMMA FlattenSteps ==
    ASSUME NEW X, NEW n \in Nat, n > 0, NEW seqs \in [1 .. n -> Seq(X)]
    PROVE  \E f : Flattens(f, X, n, seqs)
<1> DEFINE Body(g) == [i \in 1 .. n |-> IF i = 1 THEN seqs[i] ELSE g[i - 1] \o seqs[i]]
           flatten == CHOOSE g : g = Body(g)
           step == [k \in 1 .. n |-> [s \in Seq(X) |-> s \o seqs[k]]]
<1>1. 1 <= n /\ 1 \in 1 .. n /\ n \in 1 .. n /\ seqs[1] \in Seq(X) /\ Len(seqs) = n
  BY FunctionIsSeq
<1>2. step \in [1 .. n -> [Seq(X) -> Seq(X)]]
  <2>1. \A k \in 1 .. n, s \in Seq(X) : s \o seqs[k] \in Seq(X)
    BY ConcatProperties
  <2> QED
    BY <2>1
<1>3. PICK h \in [1 .. n -> Seq(X)] :
          h[1] = seqs[1] /\ \A k \in 1 + 1 .. n : h[k] = step[k][h[k - 1]]
  <2> DEFINE V == Seq(X)  v == seqs[1]
  <2>1. v \in V /\ step \in [1 .. n -> [V -> V]] /\ 1 \in Nat
    BY <1>1, <1>2
  <2>2. \E h : Iterates(h, 1, n, V, v, step)
    <3> HIDE DEF step, V, v
    <3> QED BY <1>1, <2>1, RecursionExists
  <2> QED
    BY <2>2 DEF Iterates
<1>4. ASSUME NEW k \in 1 .. n, k # 1
      PROVE  k - 1 \in 1 .. n /\ step[k][h[k - 1]] = h[k - 1] \o seqs[k]
  <2>1. k - 1 \in 1 .. n
    BY <1>1, <1>4
  <2> QED
    BY <2>1
<1>5. h = Body(h)
  <2>1. ASSUME NEW k \in 1 .. n PROVE h[k] = IF k = 1 THEN seqs[k] ELSE h[k - 1] \o seqs[k]
    <3>1. CASE k = 1
      BY <1>3, <3>1
    <3>2. CASE k # 1
      <4>1. k \in 1 + 1 .. n
        BY <1>1, <3>2
      <4> QED
        BY <1>3, <1>4, <3>2, <4>1
    <3> QED
      BY <3>1, <3>2
  <2>2. h = [k \in 1 .. n |-> h[k]]
    OBVIOUS
  <2> QED
    BY <2>1, <2>2
<1>6. flatten = Body(flatten)
  BY <1>5
<1>7. FlattenSeq(seqs) = flatten[n]
  BY <1>1 DEF FlattenSeq
<1> HIDE DEF flatten
<1>8. \A k \in 1 .. n : flatten[k] = IF k = 1 THEN seqs[k] ELSE flatten[k - 1] \o seqs[k]
  BY <1>6
<1>9. \A k \in 2 .. n : k \in 1 .. n /\ k # 1
  BY <1>1
<1> DEFINE S == {k \in 1 .. n : flatten[k] \in Seq(X)}
<1>10. 1 \in S
  BY <1>1, <1>8
<1>11. ASSUME NEW k \in 1 .. n - 1, k \in S PROVE k + 1 \in S
  <2>1. k + 1 \in 1 .. n /\ k + 1 # 1 /\ (k + 1) - 1 = k
    BY <1>1
  <2>2. flatten[k + 1] = flatten[k] \o seqs[k + 1] /\ flatten[k] \in Seq(X)
    BY <1>8, <1>11, <2>1
  <2>3. flatten[k] \o seqs[k + 1] \in Seq(X)
    BY <2>1, <2>2, ConcatProperties
  <2> QED
    BY <2>1, <2>2, <2>3
<1>12. 1 .. n \subseteq S
  <2> HIDE DEF S
  <2> QED BY <1>1, <1>10, <1>11, IntervalInduction
<1>13. flatten \in [1 .. n -> Seq(X)]
  BY <1>6, <1>12
<1> QED
  BY <1>1, <1>7, <1>8, <1>9, <1>13 DEF Flattens

(* Multiplication keeps the order.                                         *)
LEMMA TimesGrows ==
    ASSUME NEW i \in Nat, NEW j \in Nat, NEW c \in Nat, i <= j
    PROVE  i * c \in Nat /\ j * c \in Nat /\ i * c <= j * c
<1>1. PICK d \in Nat : j = i + d
  <2>1. j - i \in Nat /\ j = i + (j - i)
    OBVIOUS
  <2> QED
    BY <2>1
<1>2. j * c = i * c + d * c /\ d * c \in Nat /\ i * c \in Nat
  BY <1>1
<1> QED
  BY <1>2

(* Division by a number that is not known.                                 *)
LEMMA DivisionOf ==
    ASSUME NEW v \in Nat, NEW c \in Nat, c > 0
    PROVE  v \div c \in Nat /\ v % c \in 0 .. c - 1 /\ v = (v \div c) * c + (v % c)
  OBVIOUS

LEMMA DivisionIs ==
    ASSUME NEW k \in Nat, NEW c \in Nat, NEW q \in 0 .. c - 1
    PROVE  (k * c + q) \div c = k /\ (k * c + q) % c = q
  OBVIOUS

LEMMA DivisionOrder ==
    ASSUME NEW v \in Nat, NEW w \in Nat, v < w, NEW c \in Nat, c > 0
    PROVE  v \div c < w \div c \/ (v \div c = w \div c /\ v % c < w % c)
<1> DEFINE d == v \div c  q == v % c  e == w \div c  p == w % c
<1>1. /\ d \in Nat /\ q \in 0 .. c - 1 /\ v = d * c + q
      /\ e \in Nat /\ p \in 0 .. c - 1 /\ w = e * c + p
  BY DivisionOf
<1> HIDE DEF d, q, e, p
<1>2. ASSUME e < d PROVE FALSE
  <2> DEFINE f == e + 1
  <2>1. f \in Nat /\ f <= d
    BY <1>1, <1>2
  <2> HIDE DEF f
  <2>2. f * c <= d * c /\ f * c \in Nat /\ d * c \in Nat
    BY <1>1, <2>1, TimesGrows
  <2>3. f * c = e * c + c /\ e * c \in Nat
    BY <1>1, TimesGrows DEF f
  <2> DEFINE fc == f * c  dc == d * c  ec == e * c
  <2>4. /\ fc <= dc /\ fc = ec + c /\ v = dc + q /\ w = ec + p
        /\ fc \in Nat /\ dc \in Nat /\ ec \in Nat
    BY <1>1, <2>2, <2>3
  <2> HIDE DEF fc, dc, ec
  <2> QED
    BY <1>1, <2>4
<1>3. ASSUME e = d PROVE q < p
  <2> DEFINE ec == e * c
  <2>1. v = ec + q /\ w = ec + p /\ ec \in Nat
    BY <1>1, <1>3, TimesGrows
  <2> HIDE DEF ec
  <2> QED
    BY <1>1, <2>1
<1>4. d < e \/ (d = e /\ q < p)
  BY <1>1, <1>2, <1>3
<1> QED
  BY <1>4 DEF d, q, e, p

(* A part of a list.                                                       *)
LEMMA SubSeqIs ==
    ASSUME NEW X, NEW s \in Seq(X), NEW m \in 1 .. Len(s) + 1, NEW n \in m - 1 .. Len(s)
    PROVE  /\ SubSeq(s, m, n) \in Seq(X) /\ Len(SubSeq(s, m, n)) = n - m + 1
           /\ \A i \in 1 .. n - m + 1 : SubSeq(s, m, n)[i] = s[m + (i - 1)]
<1>1. Len(s) \in Nat /\ m \in Int /\ n \in Int
  BY LenProperties
<1>2. \A i \in m .. n : s[i] \in X
  BY <1>1, ElementOfSeq
<1>3. /\ SubSeq(s, m, n) \in Seq(X)
      /\ Len(SubSeq(s, m, n)) = IF m <= n THEN n - m + 1 ELSE 0
      /\ \A i \in 1 .. n - m + 1 : SubSeq(s, m, n)[i] = s[m + i - 1]
  BY <1>1, <1>2, SubSeqProperties
<1>4. \A i \in 1 .. n - m + 1 : m + i - 1 = m + (i - 1)
  BY <1>1
<1> QED
  BY <1>1, <1>3, <1>4

(* A list and m more, those of c members each, laid end to end.            *)
LaidOut(all, X, m, c, seqs) ==
    /\ Len(seqs[1]) \in Nat /\ all \in Seq(X)
    /\ Len(all) = Len(seqs[1]) + m * c
    /\ \A p \in 1 .. Len(seqs[1]) : all[p] = seqs[1][p]
    /\ \A k \in 1 .. m, q \in 1 .. c :
          /\ Len(seqs[1]) + (k - 1) * c + q \in 1 .. Len(all)
          /\ all[Len(seqs[1]) + (k - 1) * c + q] = seqs[k + 1][q]

LEMMA FlattenPages ==
    ASSUME NEW X, NEW m \in Nat, NEW c \in Nat, NEW seqs \in [1 .. m + 1 -> Seq(X)],
           \A k \in 2 .. m + 1 : Len(seqs[k]) = c
    PROVE  LaidOut(FlattenSeq(seqs), X, m, c, seqs)
<1> DEFINE a == Len(seqs[1])
<1>1. PICK f \in [1 .. m + 1 -> Seq(X)] :
              /\ f[1] = seqs[1]
              /\ \A k \in 2 .. m + 1 : f[k] = f[k - 1] \o seqs[k]
              /\ FlattenSeq(seqs) = f[m + 1]
  <2> DEFINE n == m + 1
  <2>1. n \in Nat /\ n > 0 /\ seqs \in [1 .. n -> Seq(X)]
    OBVIOUS
  <2>2. \E f : Flattens(f, X, n, seqs)
    <3> HIDE DEF n
    <3> QED BY <2>1, FlattenSteps
  <2> QED
    BY <2>2 DEF Flattens
<1>2. /\ a \in Nat /\ 1 \in 1 .. m + 1 /\ m + 1 \in 1 .. m + 1
      /\ \A k \in 1 .. m + 1 : seqs[k] \in Seq(X)
  OBVIOUS
<1> DEFINE Laid(n) == /\ Len(f[n]) = a + (n - 1) * c
                      /\ \A p \in 1 .. a : f[n][p] = seqs[1][p]
                      /\ \A k \in 1 .. n - 1, q \in 1 .. c :
                            /\ a + (k - 1) * c + q \in 1 .. a + (n - 1) * c
                            /\ f[n][a + (k - 1) * c + q] = seqs[k + 1][q]
           S == {n \in 1 .. m + 1 : Laid(n)}
<1>3. 1 \in S
  BY <1>1, <1>2
<1>4. ASSUME NEW n \in 1 .. (m + 1) - 1, n \in S PROVE n + 1 \in S
  <2>1. n \in 1 .. m + 1 /\ n + 1 \in 2 .. m + 1 /\ n + 1 \in 1 .. m + 1 /\ (n + 1) - 1 = n
    BY <1>4
  <2>2. Laid(n)
    BY <1>4
  <2>3. /\ f[n] \in Seq(X) /\ seqs[n + 1] \in Seq(X) /\ Len(seqs[n + 1]) = c
        /\ f[n + 1] = f[n] \o seqs[n + 1]
    BY <1>1, <1>2, <2>1
  <2> DEFINE b == (n - 1) * c
  <2>4. b \in Nat /\ n * c = b + c
    <3>1. n - 1 \in Nat /\ n * c = (n - 1) * c + c
      BY <2>1
    <3> QED
      BY <3>1, TimesGrows
  <2>5. Len(f[n]) = a + b
    BY <2>2
  <2>6. /\ Len(f[n + 1]) = Len(f[n]) + c
        /\ \A p \in 1 .. Len(f[n]) : f[n + 1][p] = f[n][p]
        /\ \A q \in 1 .. c : f[n + 1][Len(f[n]) + q] = seqs[n + 1][q]
    <3> DEFINE s == f[n]  t == seqs[n + 1]
    <3>1. s \in Seq(X) /\ t \in Seq(X) /\ Len(t) = c /\ f[n + 1] = s \o t
      BY <2>3
    <3>2. /\ Len(s \o t) = Len(s) + c
          /\ \A p \in 1 .. Len(s) : (s \o t)[p] = s[p]
          /\ \A q \in 1 .. c : (s \o t)[Len(s) + q] = t[q]
      <4>1. /\ Len(s \o t) = Len(s) + Len(t)
            /\ \A p \in 1 .. Len(s) : (s \o t)[p] = s[p]
            /\ \A q \in 1 .. Len(t) : (s \o t)[Len(s) + q] = t[q]
        <5>1. s \in Seq(X) /\ t \in Seq(X)
          BY <3>1
        <5> HIDE DEF s, t
        <5> QED BY <5>1, Joined
      <4> HIDE DEF s, t
      <4> QED BY <3>1, <4>1
    <3> QED
      BY <3>1, <3>2
  <2>7. Len(f[n + 1]) = a + ((n + 1) - 1) * c
    <3> HIDE DEF b, a
    <3> QED BY <2>1, <2>4, <2>5, <2>6, <1>2
  <2>8. \A p \in 1 .. a : f[n + 1][p] = seqs[1][p]
    <3>1. \A p \in 1 .. a : p \in 1 .. Len(f[n])
      <4> HIDE DEF b, a
      <4> QED BY <2>4, <2>5, <1>2
    <3> QED
      BY <2>2, <2>6, <3>1
  <2>9. ASSUME NEW k \in 1 .. (n + 1) - 1, NEW q \in 1 .. c
        PROVE  /\ a + (k - 1) * c + q \in 1 .. a + ((n + 1) - 1) * c
               /\ f[n + 1][a + (k - 1) * c + q] = seqs[k + 1][q]
    <3>1. CASE k = n
      <4>1. a + (k - 1) * c + q = Len(f[n]) + q
        BY <2>5, <3>1
      <4>2. Len(f[n]) + q \in 1 .. a + n * c
        <5> HIDE DEF b, a
        <5> QED BY <2>4, <2>5, <1>2
      <4> QED
        BY <2>1, <2>6, <3>1, <4>1, <4>2
    <3>2. CASE k # n
      <4>1. k \in 1 .. n - 1
        BY <2>1, <3>2
      <4> DEFINE at == a + (k - 1) * c + q
      <4>2. at \in 1 .. a + b /\ f[n][at] = seqs[k + 1][q]
        BY <2>2, <4>1
      <4>3. f[n + 1][at] = f[n][at]
        <5> HIDE DEF at, b
        <5> QED BY <2>6, <2>5, <4>2
      <4>4. at \in 1 .. a + n * c
        <5> HIDE DEF at, b, a
        <5> QED BY <2>4, <4>2, <1>2
      <4> QED
        BY <2>1, <4>2, <4>3, <4>4
    <3> QED
      BY <3>1, <3>2
  <2>10. Laid(n + 1)
    BY <2>7, <2>8, <2>9
  <2> QED
    BY <2>1, <2>10
<1>5. Laid(m + 1)
  <2> HIDE DEF Laid
  <2>1. \A n \in 1 .. (m + 1) - 1 : n \in S => n + 1 \in S
    BY <1>4
  <2>2. 1 .. m + 1 \subseteq S
    <3> DEFINE l == m + 1
    <3>1. l \in Nat /\ 1 \in Nat /\ \A n \in 1 .. l - 1 : n \in S => n + 1 \in S
      BY <2>1
    <3>2. 1 .. l \subseteq S
      <4> HIDE DEF S, l
      <4> QED BY <1>3, <3>1, IntervalInduction
    <3> QED
      BY <3>2
  <2> QED
    BY <1>2, <2>2
<1>6. f[m + 1] \in Seq(X) /\ (m + 1) - 1 = m
  BY <1>2
<1>7. LaidOut(f[m + 1], X, m, c, seqs)
  BY <1>2, <1>5, <1>6 DEF LaidOut
<1> QED
  BY <1>1, <1>7

-----------------------------------------------------------------------------
(* A set of the first numbers has as many as its last one says.            *)
LEMMA FirstNumbers ==
    ASSUME NEW n \in Nat, NEW S \in SUBSET (1 .. n),
           \A k \in 1 .. n - 1 : k + 1 \in S => k \in S
    PROVE  Cardinality(S) \in 0 .. n /\ S = 1 .. Cardinality(S)
<1> DEFINE missing == (1 .. n) \ S
<1>1. PICK m \in 0 .. n : S = 1 .. m
  <2>1. CASE missing = {}
    <3>1. S = 1 .. n
      BY <2>1, Zenon
    <3>2. n \in 0 .. n
      OBVIOUS
    <3> QED
      BY <3>1, <3>2
  <2>2. CASE missing # {}
    <3>1. PICK k \in missing : \A j \in missing : k <= j
      <4>1. missing \subseteq Nat
        OBVIOUS
      <4> HIDE DEF missing
      <4> QED BY <2>2, <4>1, LeastNatural
    <3>2. k \in 1 .. n /\ k \notin S /\ \A j \in 1 .. k - 1 : j \in S
      BY <3>1
    <3> DEFINE After == {j \in k .. n : j \notin S}
    <3>3. k \in After
      BY <3>2
    <3>4. ASSUME NEW j \in k .. n - 1, j \in After PROVE j + 1 \in After
      BY <3>2, <3>4
    <3>5. k .. n \subseteq After
      <4>1. k \in Nat /\ n \in Nat /\ \A j \in k .. n - 1 : j \in After => j + 1 \in After
        BY <3>2, <3>4
      <4> HIDE DEF After
      <4> QED BY <3>3, <4>1, IntervalInduction
    <3>6. S = 1 .. k - 1
      <4>1. \A j \in S : j \in 1 .. n /\ j \notin k .. n
        BY <3>5
      <4>2. \A j \in S : j \in 1 .. k - 1
        BY <3>2, <4>1
      <4> QED
        BY <3>2, <4>2
    <3> QED
      BY <3>2, <3>6
  <2> QED
    BY <2>1, <2>2
<1>2. Cardinality(1 .. m) = m
  BY FS_Interval
<1> QED
  BY <1>1, <1>2

(* Two lists of the same numbers that both increase are the same.          *)
Within(n, f, g) == \A p \in 1 .. n : \E q \in 1 .. n : f[p] = g[q]

Increases(n, r, f) ==
    /\ \A p \in 1 .. n : r[f[p]] \in Int
    /\ \A p, q \in 1 .. n : p < q => r[f[p]] < r[f[q]]

LEMMA OneOrder ==
    ASSUME NEW n \in Nat, NEW r, NEW f, NEW g, Increases(n, r, f), Increases(n, r, g),
           Within(n, f, g), Within(n, g, f)
    PROVE  \A p \in 1 .. n : f[p] = g[p]
<1> DEFINE differ == {p \in 1 .. n : f[p] # g[p]}
<1> SUFFICES ASSUME differ # {} PROVE FALSE
  OBVIOUS
<1>1. PICK k \in differ : \A j \in differ : k <= j
  <2>1. differ \subseteq Nat
    OBVIOUS
  <2> HIDE DEF differ
  <2> QED BY <2>1, LeastNatural
<1>2. k \in 1 .. n /\ f[k] # g[k] /\ \A j \in 1 .. n : j < k => f[j] = g[j]
  <2>1. k \in 1 .. n /\ f[k] # g[k]
    OBVIOUS
  <2>2. ASSUME NEW j \in 1 .. n, j < k, f[j] # g[j] PROVE FALSE
    <3>1. k <= j
      BY <1>1, <2>2
    <3> QED
      BY <2>1, <2>2, <3>1
  <2> QED
    BY <2>1, <2>2
<1>3. PICK q \in 1 .. n : f[k] = g[q]
  BY <1>2 DEF Within
<1>4. PICK p \in 1 .. n : g[k] = f[p]
  BY <1>2 DEF Within
<1> DEFINE a == r[f[k]]  b == r[g[k]]
<1>5. a \in Int /\ b \in Int /\ k \in Int /\ q \in Int /\ p \in Int
  BY <1>2 DEF Increases
<1>6. r[g[q]] = a /\ r[f[p]] = b
  BY <1>3, <1>4
<1>7. q = k \/ q < k \/ k < q
  BY <1>5
<1>8. q # k
  BY <1>2, <1>3
<1>9. ASSUME q < k PROVE FALSE
  <2>1. f[q] = g[q] /\ r[f[q]] < a
    BY <1>2, <1>9 DEF Increases
  <2>2. a < a
    BY <2>1, <1>6
  <2> HIDE DEF a
  <2> QED
    BY <1>5, <2>2
<1>10. b < a
  BY <1>2, <1>6, <1>7, <1>8, <1>9 DEF Increases
<1>11. p = k \/ p < k \/ k < p
  BY <1>5
<1>12. p # k
  BY <1>2, <1>4
<1>13. ASSUME p < k PROVE FALSE
  <2>1. f[p] = g[p] /\ r[g[p]] < b
    BY <1>2, <1>13 DEF Increases
  <2>2. b < b
    BY <2>1, <1>6
  <2> HIDE DEF b
  <2> QED
    BY <1>5, <2>2
<1>14. a < b
  BY <1>2, <1>6, <1>11, <1>12, <1>13 DEF Increases
<1> HIDE DEF a, b
<1> QED
  BY <1>5, <1>10, <1>14

(* A function that is one-to-one and onto keeps the size.                  *)
LEMMA SameSize ==
    ASSUME NEW T, NEW U, IsFiniteSet(T), NEW f \in [T -> U],
           \A x, y \in T : f[x] = f[y] => x = y,
           \A u \in U : \E x \in T : f[x] = u
    PROVE  IsFiniteSet(U) /\ Cardinality(U) = Cardinality(T)
<1>1. f \in Bijection(T, U)
  BY DEF Bijection, Injection, Surjection, IsInjective
<1>2. ExistsBijection(T, U)
  BY <1>1 DEF ExistsBijection
<1> QED
  BY <1>2, FS_Bijection
-----------------------------------------------------------------------------
(* The numbers of a set, in order: how many are before each of them.       *)
LEMMA NumberRanks ==
    ASSUME NEW n \in Nat, NEW S \in SUBSET (0 .. n)
    PROVE  /\ IsFiniteSet(S) /\ Cardinality(S) \in Nat
           /\ \A x \in S : Cardinality({a \in S : a < x}) \in 0 .. Cardinality(S) - 1
           /\ \A x, y \in S : x < y => Cardinality({a \in S : a < x}) < Cardinality({a \in S : a < y})
<1> DEFINE below(x) == {a \in S : a < x}
<1>1. IsFiniteSet(S) /\ Cardinality(S) \in Nat
  <2>1. IsFiniteSet(0 .. n)
    BY FS_Interval
  <2> QED
    BY <2>1, FS_Subset, FS_CardinalityType
<1>2. ASSUME NEW x \in S, NEW T \in SUBSET S, below(x) \subseteq T, x \in T
      PROVE  Cardinality(below(x)) \in Nat /\ Cardinality(below(x)) < Cardinality(T)
  <2>1. below(x) \in SUBSET S /\ x \notin below(x)
    OBVIOUS
  <2>2. IsFiniteSet(below(x)) /\ IsFiniteSet(T)
    BY <1>1, <2>1, FS_Subset
  <2>3. Cardinality(below(x)) \in Nat /\ Cardinality(T) \in Nat
    BY <2>2, FS_CardinalityType
  <2>4. IsFiniteSet(below(x) \cup {x}) /\ Cardinality(below(x) \cup {x}) = Cardinality(below(x)) + 1
    <3> HIDE DEF below
    <3> QED BY <2>1, <2>2, FS_AddElement
  <2>5. below(x) \cup {x} \in SUBSET T
    BY <1>2
  <2>6. Cardinality(below(x) \cup {x}) <= Cardinality(T)
    <3> HIDE DEF below
    <3> QED BY <2>2, <2>5, FS_Subset
  <2> QED
    BY <2>3, <2>4, <2>6
<1>3. ASSUME NEW x \in S PROVE Cardinality(below(x)) \in 0 .. Cardinality(S) - 1
  <2>1. Cardinality(below(x)) \in Nat /\ Cardinality(below(x)) < Cardinality(S)
    BY <1>2
  <2> QED
    BY <1>1, <2>1
<1>4. ASSUME NEW x \in S, NEW y \in S, x < y PROVE Cardinality(below(x)) < Cardinality(below(y))
  <2>1. below(y) \in SUBSET S /\ below(x) \subseteq below(y) /\ x \in below(y)
    <3>1. \A a \in S : a \in Int
      OBVIOUS
    <3>2. \A a \in S : a < x => a < y
      BY <1>4, <3>1
    <3> QED
      BY <1>4, <3>2
  <2> HIDE DEF below
  <2> QED
    BY <1>2, <2>1
<1> QED
  BY <1>1, <1>3, <1>4

LEMMA EveryRank ==
    ASSUME NEW n \in Nat, NEW S \in SUBSET (0 .. n), NEW k \in 0 .. Cardinality(S) - 1
    PROVE  \E x \in S : Cardinality({a \in S : a < x}) = k
<1> DEFINE rank == [x \in S |-> Cardinality({a \in S : a < x})]
           T == 0 .. Cardinality(S) - 1
<1>1. /\ IsFiniteSet(S) /\ Cardinality(S) \in Nat
      /\ \A x \in S : rank[x] \in T
      /\ \A x, y \in S : x < y => rank[x] < rank[y]
  BY NumberRanks
<1>2. rank \in [S -> T]
  BY <1>1
<1>3. ASSUME NEW x \in S, NEW y \in S, rank[x] = rank[y] PROVE x = y
  <2>1. x \in Int /\ y \in Int
    OBVIOUS
  <2>2. rank[x] \in Int /\ rank[y] \in Int
    BY <1>1
  <2> HIDE DEF rank
  <2>3. ~ (x < y) /\ ~ (y < x)
    BY <1>1, <1>3, <2>2
  <2> QED
    BY <2>1, <2>3
<1>4. IsFiniteSet(T) /\ Cardinality(T) = Cardinality(S)
  BY <1>1, FS_Interval
<1>5. rank \in Injection(S, T)
  <2> HIDE DEF rank, T
  <2> QED BY <1>2, <1>3 DEF Injection, IsInjective
<1>6. rank \in Surjection(S, T)
  <2> HIDE DEF rank, T
  <2> QED BY <1>4, <1>5, FS_Injection
<1>7. \A t \in T : \E x \in S : rank[x] = t
  <2> HIDE DEF rank, T
  <2> QED BY <1>6 DEF Surjection
<1> QED
  BY <1>7

(* Ascending has each of them once, in order.                              *)
LEMMA AscendingIs ==
    ASSUME NEW n \in Nat, NEW S \in SUBSET (0 .. n)
    PROVE  /\ Ascending(S) \in Seq(S) /\ Len(Ascending(S)) = Cardinality(S) /\ Cardinality(S) \in Nat
           /\ \A p, q \in 1 .. Cardinality(S) : p < q => Ascending(S)[p] < Ascending(S)[q]
           /\ \A x \in S : \E p \in 1 .. Cardinality(S) : Ascending(S)[p] = x
<1> DEFINE c == Cardinality(S)
           rank(x) == Cardinality({a \in S : a < x})
           nth(k) == CHOOSE b \in S : rank(b) = k
<1>1. /\ c \in Nat
      /\ \A x \in S : rank(x) \in 0 .. c - 1
      /\ \A x, y \in S : x < y => rank(x) < rank(y)
  BY NumberRanks
<1>2. \A k \in 0 .. c - 1 : \E x \in S : rank(x) = k
  BY EveryRank
<1>3. \A k \in 0 .. c - 1 : nth(k) \in S /\ rank(nth(k)) = k
  BY <1>2
<1> DEFINE s == Ascending(S)
<1>4. s = [p \in 1 .. c |-> nth(p - 1)]
  BY DEF Ascending
<1>5. \A p \in 1 .. c : s[p] \in S /\ rank(s[p]) = p - 1
  <2>1. \A p \in 1 .. c : p - 1 \in 0 .. c - 1
    BY <1>1
  <2> HIDE DEF rank, c, nth
  <2> QED
    BY <1>3, <1>4, <2>1
<1> HIDE DEF rank, s, c, nth
<1>6. s \in Seq(S) /\ Len(s) = c
  <2>1. s \in [1 .. c -> S]
    BY <1>4, <1>5
  <2> QED
    BY <1>1, <2>1, FunctionIsSeq
<1>7. ASSUME NEW x \in S, NEW y \in S PROVE x < y \/ y < x \/ x = y
  <2>1. x \in 0 .. n /\ y \in 0 .. n
    OBVIOUS
  <2> QED
    BY <2>1
<1>8. \A p, q \in 1 .. c : p < q => s[p] < s[q]
  <2> TAKE p, q \in 1 .. c
  <2> HAVE p < q
  <2>1. s[p] \in S /\ s[q] \in S
    BY <1>5
  <2>2. s[q] < s[p] => rank(s[q]) < rank(s[p])
    BY <1>1, <2>1
  <2>3. rank(s[p]) = p - 1 /\ rank(s[q]) = q - 1 /\ p \in Int /\ q \in Int
    BY <1>1, <1>5
  <2>4. ~ (rank(s[q]) < rank(s[p])) /\ rank(s[p]) # rank(s[q])
    BY <2>3
  <2> QED
    BY <1>7, <2>1, <2>2, <2>4
<1>9. ASSUME NEW x \in S PROVE \E p \in 1 .. c : s[p] = x
  <2>1. rank(x) \in 0 .. c - 1
    BY <1>1
  <2>2. rank(x) + 1 \in 1 .. c /\ (rank(x) + 1) - 1 = rank(x)
    BY <1>1, <2>1
  <2>3. PICK p \in 1 .. c : p - 1 = rank(x)
    BY <2>2
  <2>4. rank(s[p]) = rank(x) /\ s[p] \in S
    BY <1>5, <2>3
  <2>5. /\ s[p] < x => rank(s[p]) < rank(x)
        /\ x < s[p] => rank(x) < rank(s[p])
    BY <1>1, <2>4
  <2>6. ~ (rank(s[p]) < rank(x)) /\ ~ (rank(x) < rank(s[p]))
    <3>1. rank(x) \in Int
      BY <2>1
    <3> QED
      BY <2>4, <3>1
  <2> QED
    BY <1>7, <2>4, <2>5, <2>6
<1> QED
  BY <1>1, <1>6, <1>8, <1>9 DEF s, c

-----------------------------------------------------------------------------
(* A list with one more member, and with one less.                         *)
Spliced(s, i, x, t) ==
    \A k \in 1 .. Len(s) + 1 : t[k] = IF k < i THEN s[k] ELSE IF k = i THEN x ELSE s[k - 1]

LEMMA InsertedAt ==
    ASSUME NEW X, NEW s \in Seq(X), NEW x \in X, NEW i \in 1 .. Len(s) + 1
    PROVE  /\ InsertAt(s, i, x) \in Seq(X) /\ Len(InsertAt(s, i, x)) = Len(s) + 1 /\ Len(s) \in Nat
           /\ Spliced(s, i, x, InsertAt(s, i, x))
<1> DEFINE a == SubSeq(s, 1, i - 1)  b == SubSeq(s, i, Len(s))  m == << x >>
<1>1. Len(s) \in Nat
  BY LenProperties
<1>2. /\ a \in Seq(X) /\ Len(a) = i - 1 /\ \A k \in 1 .. i - 1 : a[k] = s[k]
      /\ b \in Seq(X) /\ Len(b) = Len(s) - i + 1
      /\ \A k \in 1 .. Len(s) - i + 1 : b[k] = s[i + (k - 1)]
  <2>1. /\ 1 \in 1 .. Len(s) + 1 /\ i - 1 \in 1 - 1 .. Len(s) /\ Len(s) \in i - 1 .. Len(s)
        /\ (i - 1) - 1 + 1 = i - 1 /\ \A k \in 1 .. i - 1 : 1 + (k - 1) = k
    BY <1>1
  <2>2. /\ a \in Seq(X) /\ Len(a) = (i - 1) - 1 + 1
        /\ \A k \in 1 .. (i - 1) - 1 + 1 : a[k] = s[1 + (k - 1)]
    BY <2>1, SubSeqIs
  <2>3. /\ b \in Seq(X) /\ Len(b) = Len(s) - i + 1
        /\ \A k \in 1 .. Len(s) - i + 1 : b[k] = s[i + (k - 1)]
    BY <2>1, SubSeqIs
  <2> HIDE DEF a, b
  <2> QED
    BY <2>1, <2>2, <2>3
<1>3. m \in Seq(X) /\ Len(m) = 1 /\ m[1] = x
  OBVIOUS
<1>4. InsertAt(s, i, x) = (a \o m) \o b
  BY DEF InsertAt
<1> HIDE DEF a, b, m
<1>5. /\ a \o m \in Seq(X) /\ Len(a \o m) = i
      /\ \A k \in 1 .. i - 1 : (a \o m)[k] = s[k]
      /\ (a \o m)[i] = x
  <2>1. /\ a \o m \in Seq(X) /\ Len(a \o m) = Len(a) + Len(m)
        /\ \A k \in 1 .. Len(a) : (a \o m)[k] = a[k]
        /\ \A k \in 1 .. Len(m) : (a \o m)[Len(a) + k] = m[k]
    <3>1. a \in Seq(X) /\ m \in Seq(X)
      BY <1>2, <1>3
    <3> QED
      BY <3>1, Joined
  <2>2. Len(a) + 1 = i /\ 1 \in 1 .. Len(m) /\ Len(a) = i - 1
    BY <1>2, <1>3
  <2>3. (a \o m)[Len(a) + 1] = m[1]
    BY <2>1, <2>2
  <2> QED
    BY <1>2, <1>3, <2>1, <2>2, <2>3
<1> DEFINE c == a \o m  all == c \o b
<1> HIDE DEF c
<1>6. /\ all \in Seq(X) /\ Len(all) = Len(c) + Len(b)
      /\ \A k \in 1 .. Len(c) : all[k] = c[k]
      /\ \A k \in 1 .. Len(b) : all[Len(c) + k] = b[k]
  <2>1. b \in Seq(X) /\ c \in Seq(X)
    BY <1>2, <1>5 DEF c
  <2> QED
    BY <2>1, Joined
<1>7. c \in Seq(X) /\ Len(c) = i /\ (\A k \in 1 .. i - 1 : c[k] = s[k]) /\ c[i] = x
  BY <1>5 DEF c
<1>8. InsertAt(s, i, x) = all
  BY <1>4 DEF c
<1> HIDE DEF all
<1>9. Len(all) = Len(s) + 1
  BY <1>1, <1>2, <1>6, <1>7
<1>10. ASSUME NEW k \in 1 .. Len(s) + 1
       PROVE  all[k] = IF k < i THEN s[k] ELSE IF k = i THEN x ELSE s[k - 1]
  <2>1. CASE k <= i
    <3>1. all[k] = c[k]
      BY <1>6, <1>7, <2>1
    <3>2. k < i => k \in 1 .. i - 1
      OBVIOUS
    <3> QED
      BY <1>7, <2>1, <3>1, <3>2
  <2>2. CASE k > i
    <3> DEFINE q == k - i
    <3>1. q \in 1 .. Len(b) /\ q \in 1 .. Len(s) - i + 1 /\ i + q = k /\ i + (q - 1) = k - 1
      BY <1>1, <1>2, <2>2
    <3> HIDE DEF q
    <3>2. all[i + q] = b[q] /\ b[q] = s[i + (q - 1)]
      BY <1>2, <1>6, <1>7, <3>1
    <3>3. ~ (k < i) /\ k # i
      BY <2>2
    <3> QED
      BY <3>1, <3>2, <3>3
  <2> QED
    BY <1>1, <2>1, <2>2
<1> QED
  BY <1>1, <1>6, <1>8, <1>9, <1>10 DEF Spliced

LEMMA RemovedAt ==
    ASSUME NEW X, NEW s \in Seq(X), NEW i \in 1 .. Len(s)
    PROVE  /\ RemoveAt(s, i) \in Seq(X) /\ Len(RemoveAt(s, i)) = Len(s) - 1 /\ Len(s) \in Nat
           /\ \A k \in 1 .. Len(s) - 1 : RemoveAt(s, i)[k] = IF k < i THEN s[k] ELSE s[k + 1]
<1> DEFINE a == SubSeq(s, 1, i - 1)  b == SubSeq(s, i + 1, Len(s))
<1>1. Len(s) \in Nat
  BY LenProperties
<1>2. /\ a \in Seq(X) /\ Len(a) = i - 1 /\ \A k \in 1 .. i - 1 : a[k] = s[k]
      /\ b \in Seq(X) /\ Len(b) = Len(s) - i
      /\ \A k \in 1 .. Len(s) - i : b[k] = s[i + k]
  <2>1. /\ 1 \in 1 .. Len(s) + 1 /\ i - 1 \in 1 - 1 .. Len(s)
        /\ i + 1 \in 1 .. Len(s) + 1 /\ Len(s) \in (i + 1) - 1 .. Len(s)
        /\ (i - 1) - 1 + 1 = i - 1 /\ \A k \in 1 .. i - 1 : 1 + (k - 1) = k
        /\ Len(s) - (i + 1) + 1 = Len(s) - i /\ \A k \in 1 .. Len(s) - i : (i + 1) + (k - 1) = i + k
    BY <1>1
  <2> DEFINE j == i - 1
  <2>2. /\ a \in Seq(X) /\ Len(a) = (i - 1) - 1 + 1
        /\ \A k \in 1 .. (i - 1) - 1 + 1 : a[k] = s[1 + (k - 1)]
    <3>1. 1 \in 1 .. Len(s) + 1 /\ j \in 1 - 1 .. Len(s) /\ a = SubSeq(s, 1, j)
      BY <2>1
    <3> HIDE DEF a, j
    <3>2. /\ a \in Seq(X) /\ Len(a) = j - 1 + 1
          /\ \A k \in 1 .. j - 1 + 1 : a[k] = s[1 + (k - 1)]
      BY <3>1, SubSeqIs
    <3> QED
      BY <3>2 DEF j
  <2>3. /\ b \in Seq(X) /\ Len(b) = Len(s) - (i + 1) + 1
        /\ \A k \in 1 .. Len(s) - (i + 1) + 1 : b[k] = s[(i + 1) + (k - 1)]
    <3> DEFINE h == i + 1  n == Len(s)
    <3>1. h \in 1 .. Len(s) + 1 /\ n \in h - 1 .. Len(s) /\ b = SubSeq(s, h, n)
      BY <2>1
    <3> HIDE DEF b, h, n
    <3>2. /\ b \in Seq(X) /\ Len(b) = n - h + 1
          /\ \A k \in 1 .. n - h + 1 : b[k] = s[h + (k - 1)]
      BY <3>1, SubSeqIs
    <3> QED
      BY <3>2 DEF h, n
  <2> HIDE DEF a, b
  <2> QED
    BY <2>1, <2>2, <2>3
<1>3. RemoveAt(s, i) = a \o b
  BY DEF RemoveAt
<1> HIDE DEF a, b
<1> DEFINE all == a \o b
<1>4. /\ all \in Seq(X) /\ Len(all) = Len(a) + Len(b)
      /\ \A k \in 1 .. Len(a) : all[k] = a[k]
      /\ \A k \in 1 .. Len(b) : all[Len(a) + k] = b[k]
  <2>1. a \in Seq(X) /\ b \in Seq(X)
    BY <1>2
  <2> QED
    BY <2>1, Joined
<1>5. RemoveAt(s, i) = all
  BY <1>3
<1> HIDE DEF all
<1>6. Len(all) = Len(s) - 1
  BY <1>1, <1>2, <1>4
<1>7. ASSUME NEW k \in 1 .. Len(s) - 1 PROVE all[k] = IF k < i THEN s[k] ELSE s[k + 1]
  <2>1. CASE k < i
    <3>1. k \in 1 .. Len(a) /\ k \in 1 .. i - 1
      BY <1>2, <2>1
    <3> QED
      BY <1>2, <1>4, <2>1, <3>1
  <2>2. CASE k >= i
    <3> DEFINE q == (k - i) + 1
    <3>1. q \in 1 .. Len(b) /\ q \in 1 .. Len(s) - i /\ Len(a) + q = k /\ i + q = k + 1
      BY <1>1, <1>2, <2>2
    <3> HIDE DEF q
    <3>2. all[Len(a) + q] = b[q] /\ b[q] = s[i + q]
      BY <1>2, <1>4, <3>1
    <3>3. ~ (k < i)
      BY <2>2
    <3> QED
      BY <3>1, <3>2, <3>3
  <2> QED
    BY <1>1, <2>1, <2>2
<1> QED
  BY <1>1, <1>4, <1>5, <1>6, <1>7
============================================================================
