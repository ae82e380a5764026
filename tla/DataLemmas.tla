----------------------------- MODULE DataLemmas -----------------------------
(***************************************************************************)
(* What the proofs need of the data: induction over the natural numbers,   *)
(* sequences, the sum and the join of a sequence, and what is picked from  *)
(* one.                                                                    *)
(*                                                                         *)
(* Induction is stated for a set instead of a predicate, so that what is   *)
(* proved by it is a first-order fact.  A recursive function of the models *)
(* is reasoned about with it: the numbers at which it has the value it     *)
(* should have are a set that contains 0 and with each number the next.    *)
(***************************************************************************)
EXTENDS SeqParts, FiniteSetTheorems, WellFoundedInduction, TLAPS

\* A set with 0 and the successor of each of its members has every number: the
\* numbers outside it have no least one.
LEMMA NatSetInduction ==
  ASSUME NEW S, 0 \in S, \A n \in Nat : n \in S => n + 1 \in S
  PROVE  \A n \in Nat : n \in S
<1> SUFFICES ASSUME Nat \ S # {} PROVE FALSE
  OBVIOUS
<1> DEFINE R == OpToRel(<, Nat)
<1>1. \E x \in Nat \ S : \A y \in Nat \ S : ~(<<y, x>> \in R)
  <2>1. IsWellFoundedOn(R, Nat)
    BY NatLessThanWellFounded
  <2>2. Nat \ S \subseteq Nat
    OBVIOUS
  <2> HIDE DEF R
  <2> QED
    BY <2>1, <2>2, WFMin
<1>2. \A x, y \in Nat : y < x => <<y, x>> \in R
  BY DEF OpToRel
<1> HIDE DEF R
<1>3. PICK x \in Nat \ S : \A y \in Nat \ S : ~(y < x)
  BY <1>1, <1>2
<1>4. x # 0
  BY <1>3
<1>5. x - 1 \in Nat /\ x - 1 < x /\ (x - 1) + 1 = x
  BY <1>4
<1> QED
  BY <1>3, <1>5

\* The sums of the beginnings of a sequence of n numbers.
PartialSums(n, w, f) ==
    /\ f \in [0 .. n -> Nat] /\ f[0] = 0
    /\ \A i \in 1 .. n : f[i] = f[i - 1] + w[i]

\* Numbers have partial sums.
LEMMA PartialSumsExist ==
  ASSUME NEW n \in Nat, NEW w \in [1 .. n -> Nat] PROVE \E f : PartialSums(n, w, f)
<1> DEFINE S == {m \in Nat : m <= n => \E f : PartialSums(m, w, f)}
<1>1. 0 \in S
  <2>1. PartialSums(0, w, [i \in 0 .. 0 |-> 0])
    BY DEF PartialSums
  <2> QED BY <2>1
<1>2. ASSUME NEW m \in Nat, m \in S PROVE m + 1 \in S
  <2>1. CASE m + 1 <= n
    <3>1. PICK f : PartialSums(m, w, f)
      BY <1>2, <2>1
    <3>2. PICK g : g = [i \in 0 .. m + 1 |-> IF i = m + 1 THEN f[m] + w[m + 1] ELSE f[i]]
      OBVIOUS
    <3>3. f[m] + w[m + 1] \in Nat
      BY <2>1, <3>1 DEF PartialSums
    <3>4. g \in [0 .. m + 1 -> Nat] /\ g[0] = 0
      BY <3>1, <3>2, <3>3 DEF PartialSums
    <3>5. ASSUME NEW i \in 1 .. m + 1 PROVE g[i] = g[i - 1] + w[i]
      <4>1. CASE i = m + 1
        BY <3>1, <3>2, <4>1 DEF PartialSums
      <4>2. CASE i # m + 1
        BY <3>1, <3>2, <4>2 DEF PartialSums
      <4> QED BY <4>1, <4>2
    <3>6. PartialSums(m + 1, w, g)
      BY <3>4, <3>5 DEF PartialSums
    <3> QED BY <3>6
  <2> QED BY <2>1
<1> HIDE DEF S
<1>3. n \in S
  BY <1>1, <1>2, NatSetInduction
<1> QED BY <1>3 DEF S

-----------------------------------------------------------------------------
(* Sequences.                                                              *)

\* The length and the elements of a concatenation.
LEMMA ConcatFacts ==
  ASSUME NEW S, NEW s \in Seq(S), NEW t \in Seq(S)
  PROVE  /\ s \o t \in Seq(S) /\ Len(s \o t) = Len(s) + Len(t)
         /\ Len(s) \in Nat /\ Len(t) \in Nat
         /\ \A i \in 1 .. Len(s) : (s \o t)[i] = s[i]
         /\ \A i \in 1 .. Len(t) : (s \o t)[Len(s) + i] = t[i]
OBVIOUS

\* The same of a sequence that is such a concatenation.
LEMMA ConcatOf ==
  ASSUME NEW S, NEW s \in Seq(S), NEW t \in Seq(S), NEW u, u = s \o t
  PROVE  /\ u \in Seq(S) /\ Len(u) = Len(s) + Len(t)
         /\ Len(s) \in Nat /\ Len(t) \in Nat /\ DOMAIN s = 1 .. Len(s)
         /\ DOMAIN t = 1 .. Len(t) /\ DOMAIN u = 1 .. (Len(s) + Len(t))
         /\ \A i \in 1 .. Len(s) : u[i] = s[i]
         /\ \A i \in 1 .. Len(t) : u[Len(s) + i] = t[i]
<1>1. u \in Seq(S) /\ Len(u) = Len(s) + Len(t)
  OBVIOUS
<1>2. DOMAIN u = 1 .. (Len(s) + Len(t))
  BY <1>1
<1> QED BY <1>1, <1>2

\* Two sequences of one length are equal when their elements are.
LEMMA SameSeq ==
  ASSUME NEW S, NEW s \in Seq(S), NEW t \in Seq(S), Len(s) = Len(t),
         \A i \in 1 .. Len(s) : s[i] = t[i]
  PROVE  s = t
OBVIOUS

\* Concatenation is associative.
LEMMA ConcatAssoc ==
  ASSUME NEW S, NEW s \in Seq(S), NEW t \in Seq(S), NEW u \in Seq(S)
  PROVE  (s \o t) \o u = s \o (t \o u)
OBVIOUS

Associates(s, t, u) == (s \o t) \o u = s \o (t \o u)

\* The same, for a prover that does not unfold it.
LEMMA ConcatAssociates ==
  ASSUME NEW S, NEW s \in Seq(S), NEW t \in Seq(S), NEW u \in Seq(S)
  PROVE  Associates(s, t, u)
BY DEF Associates

Regrouped(s, t, u, v) == (s \o (t \o u)) \o v = (s \o t) \o (u \o v)

\* The same for four sequences.
LEMMA Regroup ==
  ASSUME NEW S, NEW s \in Seq(S), NEW t \in Seq(S), NEW u \in Seq(S), NEW v \in Seq(S)
  PROVE  Regrouped(s, t, u, v)
<1>1. s \o t \in Seq(S) /\ t \o u \in Seq(S) /\ u \o v \in Seq(S)
  OBVIOUS
<1>2. Associates(s, t, u) /\ Associates(s \o t, u, v)
  BY <1>1, ConcatAssociates
<1>3. (s \o (t \o u)) \o v = ((s \o t) \o u) \o v
  BY <1>2 DEF Associates
<1> QED BY <1>2, <1>3, Zenon DEF Associates, Regrouped

\* The empty sequence changes nothing.
LEMMA EmptyConcat ==
  ASSUME NEW S, NEW s \in Seq(S) PROVE s \o << >> = s /\ << >> \o s = s
OBVIOUS

\* One element appended: the others stay where they are.
LEMMA AppendOne ==
  ASSUME NEW S, NEW s \in Seq(S), NEW x \in S
  PROVE  /\ s \o <<x>> \in Seq(S) /\ Len(s \o <<x>>) = Len(s) + 1
         /\ (s \o <<x>>)[Len(s) + 1] = x /\ \A i \in 1 .. Len(s) : (s \o <<x>>)[i] = s[i]
OBVIOUS

\* The head and the tail of a sequence that has an element.
LEMMA HeadTail ==
  ASSUME NEW S, NEW s \in Seq(S), s # << >>
  PROVE  /\ Head(s) \in S /\ Tail(s) \in Seq(S) /\ Len(s) \in Nat \ {0}
         /\ Len(Tail(s)) = Len(s) - 1 /\ Head(s) = s[1]
         /\ \A i \in 1 .. Len(s) - 1 : Tail(s)[i] = s[i + 1]
OBVIOUS

-----------------------------------------------------------------------------
(* The sum of a sequence of numbers.                                       *)

\* f holds the sums of the beginnings of s.
IsSum(s, f) ==
    /\ f \in [0 .. Len(s) -> Int]
    /\ f[0] = 0
    /\ \A i \in 1 .. Len(s) : f[i] = f[i - 1] + s[i]

\* Every sequence of numbers has partial sums, which is what SumOf chooses
\* from.
LEMMA SumExists == ASSUME NEW s \in Seq(Nat) PROVE \E f : IsSum(s, f)
<1>1. Len(s) \in Nat /\ s \in [1 .. Len(s) -> Nat]
  OBVIOUS
<1>2. PICK f : PartialSums(Len(s), s, f)
  BY <1>1, PartialSumsExist
<1>3. IsSum(s, f)
  BY <1>1, <1>2 DEF PartialSums, IsSum
<1> QED BY <1>3

\* Whatever adds up like a sum is the sum.
LEMMA SumIs == ASSUME NEW s \in Seq(Nat), NEW f, IsSum(s, f) PROVE SumOf(s) = f[Len(s)]
<1> DEFINE upTo == CHOOSE upTo : upTo = [i \in 0 .. Len(s) |-> IF i = 0 THEN 0 ELSE upTo[i - 1] + s[i]]
<1>1. Len(s) \in Nat /\ f \in [0 .. Len(s) -> Int]
  BY DEF IsSum
<1>2. f = [i \in 0 .. Len(s) |-> IF i = 0 THEN 0 ELSE f[i - 1] + s[i]]
  <2>1. \A i \in 0 .. Len(s) : f[i] = IF i = 0 THEN 0 ELSE f[i - 1] + s[i]
    BY <1>1 DEF IsSum
  <2> QED BY <1>1, <2>1
<1>3. upTo = [i \in 0 .. Len(s) |-> IF i = 0 THEN 0 ELSE upTo[i - 1] + s[i]]
  BY <1>2
<1>4. SumOf(s) = upTo[Len(s)]
  BY DEF SumOf
<1> HIDE DEF upTo
<1> DEFINE S == {n \in Nat : n <= Len(s) => upTo[n] = f[n]}
<1>5. \A i \in 0 .. Len(s) : upTo[i] = IF i = 0 THEN 0 ELSE upTo[i - 1] + s[i]
  BY <1>3
<1>6. 0 \in S
  BY <1>1, <1>5 DEF IsSum
<1>7. ASSUME NEW n \in Nat, n \in S PROVE n + 1 \in S
  <2>1. CASE n + 1 <= Len(s)
    <3>1. upTo[n + 1] = upTo[n] + s[n + 1]
      BY <1>1, <1>5, <2>1
    <3>2. f[n + 1] = f[n] + s[n + 1]
      BY <1>1, <2>1 DEF IsSum
    <3>3. upTo[n] = f[n]
      BY <1>1, <1>7, <2>1
    <3>4. upTo[n + 1] = f[n + 1]
      BY <3>1, <3>2, <3>3
    <3> QED BY <3>4
  <2> QED BY <2>1
<1> HIDE DEF S
<1>8. Len(s) \in S
  BY <1>1, <1>6, <1>7, NatSetInduction
<1> QED BY <1>1, <1>4, <1>8 DEF S

\* The sum of one number.
LEMMA SumOfOne == ASSUME NEW k \in Nat PROVE SumOf(<<k>>) = k
<1>1. PICK f : f = [i \in 0 .. 1 |-> IF i = 0 THEN 0 ELSE k]
  OBVIOUS
<1>2. <<k>> \in Seq(Nat) /\ Len(<<k>>) = 1 /\ <<k>>[1] = k
  OBVIOUS
<1>3. IsSum(<<k>>, f)
  BY <1>1, <1>2 DEF IsSum
<1> QED BY <1>1, <1>2, <1>3, SumIs

\* A credit is taken.
LEMMA SumOfTail ==
  ASSUME NEW s \in Seq(Nat), s # << >>
  PROVE  SumOf(s) \in Int /\ SumOf(Tail(s)) \in Int /\ SumOf(s) = Head(s) + SumOf(Tail(s))
<1>1. PICK f : IsSum(s, f)
  BY SumExists
<1>2. /\ Head(s) \in Nat /\ Tail(s) \in Seq(Nat) /\ Len(s) \in Nat \ {0}
      /\ Len(Tail(s)) = Len(s) - 1 /\ Head(s) = s[1]
      /\ \A i \in 1 .. Len(s) - 1 : Tail(s)[i] = s[i + 1]
  BY HeadTail
<1>3. PICK t \in Seq(Nat), k \in Nat : t = Tail(s) /\ k = Head(s)
  BY <1>2
<1>4. PICK g : g = [i \in 0 .. Len(t) |-> f[i + 1] - k]
  OBVIOUS
<1>5. f \in [0 .. Len(s) -> Int] /\ f[0] = 0 /\ \A i \in 1 .. Len(s) : f[i] = f[i - 1] + s[i]
  BY <1>1 DEF IsSum
<1>6. Len(t) \in Nat /\ Len(s) = Len(t) + 1 /\ s[1] = k
  BY <1>2, <1>3
<1>7. f[1] = k
  <2>1. f[1] = f[1 - 1] + s[1]
    BY <1>5, <1>6
  <2>2. 1 - 1 = 0
    OBVIOUS
  <2> QED BY <1>3, <1>5, <1>6, <2>1, <2>2
<1>8. ASSUME NEW i \in 0 .. Len(t) PROVE f[i + 1] \in Int /\ g[i] = f[i + 1] - k /\ g[i] \in Int
  <2>1. i + 1 \in 0 .. Len(s)
    BY <1>6
  <2>2. f[i + 1] \in Int
    BY <1>5, <2>1
  <2>3. g[i] = f[i + 1] - k
    BY <1>4
  <2>4. \A a \in Int : a - k \in Int
    BY <1>3
  <2> QED BY <2>2, <2>3, <2>4
<1>9. ASSUME NEW i \in 1 .. Len(t) PROVE g[i] = g[i - 1] + t[i]
  <2>1. f[i + 1] = f[(i + 1) - 1] + s[i + 1] /\ s[i + 1] = t[i]
    BY <1>2, <1>3, <1>5, <1>6
  <2>2. (i + 1) - 1 = i /\ (i - 1) + 1 = i /\ i - 1 \in 0 .. Len(t) /\ i \in 0 .. Len(t)
    BY <1>6
  <2>3. g[i] = f[i + 1] - k /\ g[i - 1] = f[i] - k /\ f[i] \in Int /\ f[i + 1] \in Int
    BY <1>8, <2>2
  <2>4. t[i] \in Nat
    BY <1>3
  <2>5. ASSUME NEW a \in Int, NEW b \in Int, NEW c \in Nat, a = b + c PROVE a - k = (b - k) + c
    BY <1>3, <2>5
  <2> QED BY SMTT(60), <2>1, <2>2, <2>3, <2>4, <2>5
<1>10. g \in [0 .. Len(t) -> Int] /\ g[0] = 0
  <2>1. \A i \in 0 .. Len(t) : g[i] \in Int
    BY <1>8
  <2>2. 0 \in 0 .. Len(t) /\ 0 + 1 = 1
    BY <1>6
  <2>3. g[0] = f[1] - k
    BY <1>8, <2>2
  <2> QED BY <1>3, <1>4, <1>7, <2>1, <2>3
<1>11. IsSum(t, g)
  BY <1>9, <1>10 DEF IsSum
<1>12. SumOf(t) = g[Len(t)] /\ SumOf(s) = f[Len(s)]
  BY <1>1, <1>11, SumIs
<1>13. g[Len(t)] = f[Len(s)] - k /\ f[Len(s)] \in Int
  BY <1>6, <1>8
<1> QED BY <1>3, <1>12, <1>13

\* Credits are sent.
LEMMA SumOfMore ==
  ASSUME NEW s \in Seq(Nat), NEW n \in Nat
  PROVE  SumOf(s) \in Int /\ SumOf(s \o [i \in 1 .. n |-> 1]) = SumOf(s) + n
<1>1. PICK f : IsSum(s, f)
  BY SumExists
<1>2. PICK t : t = s \o [i \in 1 .. n |-> 1]
  OBVIOUS
<1>3. /\ t \in Seq(Nat) /\ Len(t) = Len(s) + n /\ Len(s) \in Nat
      /\ \A i \in 1 .. Len(s) : t[i] = s[i]
      /\ \A i \in Len(s) + 1 .. Len(s) + n : t[i] = 1
  BY <1>2
<1>4. PICK g : g = [i \in 0 .. Len(t) |-> IF i <= Len(s) THEN f[i] ELSE f[Len(s)] + (i - Len(s))]
  OBVIOUS
<1>5. f \in [0 .. Len(s) -> Int] /\ f[0] = 0 /\ f[Len(s)] \in Int
  BY SMTT(60), <1>1, <1>3 DEF IsSum
<1>6. g \in [0 .. Len(t) -> Int] /\ g[0] = 0 /\ g[Len(t)] = f[Len(s)] + n
  BY <1>3, <1>4, <1>5
<1>7. ASSUME NEW i \in 1 .. Len(t) PROVE g[i] = g[i - 1] + t[i]
  <2>1. CASE i <= Len(s)
    BY <2>1, <1>1, <1>3, <1>4, <1>5 DEF IsSum
  <2>2. CASE ~(i <= Len(s))
    <3>1. i \in Len(s) + 1 .. Len(s) + n /\ i \in 0 .. Len(t) /\ i - 1 \in 0 .. Len(t)
      BY <2>2, <1>3
    <3>2. t[i] = 1 /\ g[i] = f[Len(s)] + (i - Len(s))
      BY <1>3, <1>4, <3>1
    <3>3. g[i - 1] = f[Len(s)] + ((i - 1) - Len(s))
      <4>1. CASE i = Len(s) + 1
        <5>1. i - 1 = Len(s) /\ (i - 1) - Len(s) = 0
          BY <4>1, <1>3
        <5>2. g[Len(s)] = f[Len(s)]
          BY <1>3, <1>4
        <5> QED BY <1>5, <5>1, <5>2
      <4>2. CASE i # Len(s) + 1
        <5>1. ~(i - 1 <= Len(s))
          BY <4>2, <1>3, <3>1
        <5> QED BY <1>4, <3>1, <5>1
      <4> QED BY <4>1, <4>2
    <3> QED BY <1>3, <1>5, <3>1, <3>2, <3>3
  <2> QED BY <2>1, <2>2
<1>8. IsSum(t, g)
  BY <1>6, <1>7 DEF IsSum
<1> QED BY <1>1, <1>2, <1>3, <1>5, <1>6, <1>8, SumIs

\* A sum of natural numbers is one.
LEMMA SumIsNat == ASSUME NEW s \in Seq(Nat) PROVE SumOf(s) \in Nat
<1>1. PICK f : IsSum(s, f)
  BY SumExists
<1> DEFINE S == {n \in Nat : n <= Len(s) => f[n] \in Nat}
<1>2. Len(s) \in Nat /\ \A i \in 1 .. Len(s) : s[i] \in Nat
  OBVIOUS
<1>3. 0 \in S
  BY <1>1 DEF IsSum
<1>4. ASSUME NEW n \in Nat, n \in S PROVE n + 1 \in S
  <2>1. CASE n + 1 <= Len(s)
    <3>1. n + 1 \in 1 .. Len(s) /\ (n + 1) - 1 = n /\ f[n] \in Nat
      BY <1>2, <1>4, <2>1
    <3>2. f[n + 1] = f[n] + s[n + 1] /\ s[n + 1] \in Nat
      BY <1>1, <1>2, <3>1 DEF IsSum
    <3>3. f[n + 1] \in Nat
      BY <3>1, <3>2
    <3> QED BY <3>3
  <2> QED BY <2>1
<1> HIDE DEF S
<1>5. Len(s) \in S
  BY <1>2, <1>3, <1>4, NatSetInduction
<1>6. f[Len(s)] \in Nat
  BY <1>2, <1>5 DEF S
<1> QED BY <1>1, <1>6, SumIs

\* The sum of no numbers.
LEMMA SumOfNone == SumOf(<< >>) = 0
<1>1. PICK f : f = [i \in 0 .. 0 |-> 0]
  OBVIOUS
<1>2. << >> \in Seq(Nat) /\ Len(<< >>) = 0
  OBVIOUS
<1>3. IsSum(<< >>, f)
  BY <1>1, <1>2 DEF IsSum
<1> QED BY <1>1, <1>2, <1>3, SumIs

\* A number more at the end.
LEMMA SumOfAppend ==
  ASSUME NEW s \in Seq(Nat), NEW k \in Nat
  PROVE  s \o <<k>> \in Seq(Nat) /\ SumOf(s \o <<k>>) = SumOf(s) + k
<1>1. PICK f : IsSum(s, f)
  BY SumExists
<1>0. PICK n \in Nat : n = Len(s)
  OBVIOUS
<1>2. PICK t : t = s \o <<k>> /\ n = Len(s)
  BY <1>0
<1>3. /\ t \in Seq(Nat) /\ Len(t) = n + 1 /\ t[n + 1] = k
      /\ \A i \in 1 .. n : t[i] = s[i]
  BY <1>2
<1>4. f \in [0 .. n -> Int] /\ f[0] = 0 /\ f[n] \in Int
  BY <1>1, <1>2 DEF IsSum
<1>5. PICK g : g = [i \in 0 .. n + 1 |-> IF i = n + 1 THEN f[n] + k ELSE f[i]]
  OBVIOUS
<1>6. g \in [0 .. n + 1 -> Int] /\ g[0] = 0 /\ g[n + 1] = f[n] + k
  BY <1>4, <1>5
<1>7. ASSUME NEW i \in 1 .. n + 1 PROVE g[i] = g[i - 1] + t[i]
  <2>1. CASE i = n + 1
    BY <2>1, <1>3, <1>4, <1>5
  <2>2. CASE i # n + 1
    <3>1. i \in 1 .. n /\ i - 1 \in 0 .. n /\ g[i] = f[i] /\ g[i - 1] = f[i - 1]
      BY <1>5, <2>2
    <3> QED BY <1>1, <1>2, <1>3, <3>1 DEF IsSum
  <2> QED BY <2>1, <2>2
<1>8. IsSum(t, g)
  BY <1>3, <1>6, <1>7 DEF IsSum
<1>9. SumOf(t) = g[n + 1] /\ SumOf(s) = f[n]
  BY <1>1, <1>2, <1>3, <1>8, SumIs
<1> QED BY <1>2, <1>3, <1>6, <1>9

\* One number, and zeros.
LEMMA SumOfSingle ==
  ASSUME NEW n \in Nat, NEW p \in 1 .. n, NEW k \in Nat
  PROVE  SumOf([i \in 1 .. n |-> IF i = p THEN k ELSE 0]) = k
<1>1. PICK s : s = [i \in 1 .. n |-> IF i = p THEN k ELSE 0]
  OBVIOUS
<1>2. s \in Seq(Nat) /\ Len(s) = n
  BY <1>1
<1>3. PICK f : f = [i \in 0 .. n |-> IF p <= i THEN k ELSE 0]
  OBVIOUS
<1>4. f \in [0 .. n -> Int] /\ f[0] = 0 /\ f[n] = k
  BY <1>3
<1>5. ASSUME NEW i \in 1 .. n PROVE f[i] = f[i - 1] + s[i]
  <2>1. i \in 0 .. n /\ i - 1 \in 0 .. n /\ i \in Int /\ p \in Int
    OBVIOUS
  <2>2. CASE i = p
    BY <1>1, <1>3, <2>1, <2>2
  <2>3. CASE i < p
    BY <1>1, <1>3, <2>1, <2>3
  <2>4. CASE p < i
    BY <1>1, <1>3, <2>1, <2>4
  <2> QED BY <2>1, <2>2, <2>3, <2>4
<1>6. IsSum(s, f)
  BY <1>2, <1>4, <1>5 DEF IsSum
<1> QED BY <1>1, <1>2, <1>4, <1>6, SumIs

-----------------------------------------------------------------------------
(* Sequences joined to one.                                                *)

\* u runs through the values of a fold with the operation cat over w.
Folds(n, e, cat, w, u) ==
    /\ DOMAIN u = 0 .. n
    /\ u[0] = e
    /\ \A i \in 1 .. n : u[i] = cat[<<u[i - 1], w[i]>>]

\* The partial results of a fold exist.
LEMMA FoldExists ==
  ASSUME NEW Q, NEW e \in Q, NEW cat \in [Q \X Q -> Q], NEW n \in Nat, NEW w \in [1 .. n -> Q]
  PROVE  \E u \in [0 .. n -> Q] : Folds(n, e, cat, w, u)
<1> DEFINE Upto(m) == \E u \in [0 .. m -> Q] : Folds(m, e, cat, w, u)
           T == {m \in Nat : m <= n => Upto(m)}
<1>2. 0 \in T
  <2>1. PICK u : u = [i \in 0 .. 0 |-> e]
    OBVIOUS
  <2>2. u \in [0 .. 0 -> Q] /\ Folds(0, e, cat, w, u)
    BY <2>1 DEF Folds
  <2>3. Upto(0)
    BY <2>2
  <2> QED BY <2>3
<1>3. ASSUME NEW m \in Nat, m \in T, m + 1 <= n PROVE Upto(m + 1)
  <2>1. Upto(m)
    BY <1>3
  <2>2. PICK u \in [0 .. m -> Q] : Folds(m, e, cat, w, u)
    BY <2>1
  <2>3. w[m + 1] \in Q /\ u[m] \in Q
    BY <1>3
  <2>4. PICK x \in Q : x = cat[<<u[m], w[m + 1]>>]
    BY <2>3
  <2>5. PICK g : g = [i \in 0 .. m + 1 |-> IF i = m + 1 THEN x ELSE u[i]]
    OBVIOUS
  <2>6. g \in [0 .. m + 1 -> Q] /\ g[0] = e
    BY <2>2, <2>4, <2>5 DEF Folds
  <2>7. ASSUME NEW i \in 1 .. m + 1 PROVE g[i] = cat[<<g[i - 1], w[i]>>]
    <3>1. CASE i = m + 1
      <4>1. g[i] = x /\ g[i - 1] = u[m]
        BY <2>5, <3>1
      <4> QED BY <2>4, <3>1, <4>1
    <3>2. CASE i # m + 1
      <4>1. i \in 1 .. m
        BY <3>2
      <4>2. g[i] = u[i] /\ g[i - 1] = u[i - 1]
        BY <2>5, <4>1
      <4>3. u[i] = cat[<<u[i - 1], w[i]>>]
        BY <2>2, <4>1 DEF Folds
      <4> QED BY <4>2, <4>3
    <3> QED BY <3>1, <3>2
  <2>8. Folds(m + 1, e, cat, w, g)
    BY <2>6, <2>7 DEF Folds
  <2> QED BY <2>6, <2>8
<1> HIDE DEF Upto
<1>4. ASSUME NEW m \in Nat, m \in T PROVE m + 1 \in T
  BY <1>3, <1>4
<1> HIDE DEF T
<1>5. n \in T
  BY <1>2, <1>4, NatSetInduction
<1>6. Upto(n)
  BY <1>5 DEF T
<1> QED BY <1>6 DEF Upto

\* Two ways to fold the same sequence agree.
LEMMA FoldIsOne ==
  ASSUME NEW e, NEW cat, NEW n \in Nat, NEW w, NEW u, NEW v,
         Folds(n, e, cat, w, u), Folds(n, e, cat, w, v)
  PROVE  u[n] = v[n]
<1> DEFINE T == {m \in Nat : m <= n => u[m] = v[m]}
<1>1. 0 \in T
  BY DEF Folds
<1>2. ASSUME NEW m \in Nat, m \in T, m + 1 <= n PROVE u[m + 1] = v[m + 1]
  <2>1. m + 1 \in 1 .. n /\ (m + 1) - 1 = m /\ u[m] = v[m]
    BY <1>2
  <2>2. u[m + 1] = cat[<<u[m], w[m + 1]>>] /\ v[m + 1] = cat[<<v[m], w[m + 1]>>]
    BY <2>1 DEF Folds
  <2> QED BY <2>1, <2>2
<1>3. ASSUME NEW m \in Nat, m \in T PROVE m + 1 \in T
  BY <1>2, <1>3
<1> HIDE DEF T
<1>4. n \in T
  BY <1>1, <1>3, NatSetInduction
<1> QED BY <1>4 DEF T

CatOn(S) == [st \in Seq(S) \X Seq(S) |-> st[1] \o st[2]]

\* Concatenation as a function on the sequences over S.
LEMMA CatOnIs ==
  ASSUME NEW S
  PROVE  /\ CatOn(S) \in [Seq(S) \X Seq(S) -> Seq(S)]
         /\ \A s, t \in Seq(S) : CatOn(S)[<<s, t>>] = s \o t
<1>1. \A st \in Seq(S) \X Seq(S) : st[1] \o st[2] \in Seq(S)
  OBVIOUS
<1>2. CatOn(S) \in [Seq(S) \X Seq(S) -> Seq(S)]
  BY <1>1 DEF CatOn
<1>3. ASSUME NEW s \in Seq(S), NEW t \in Seq(S) PROVE CatOn(S)[<<s, t>>] = s \o t
  BY DEF CatOn
<1> QED BY <1>2, <1>3

\* Joined(ss) is the last of the partial concatenations of ss.
LEMMA JoinedUnfolds ==
  ASSUME NEW S, NEW ss \in Seq(Seq(S))
  PROVE  \E u \in [0 .. Len(ss) -> Seq(S)] :
            Folds(Len(ss), << >>, CatOn(S), ss, u) /\ Joined(ss) = u[Len(ss)]
<1>1. PICK n \in Nat : n = Len(ss)
  OBVIOUS
<1>2. PICK Q : Q = Seq(S) /\ << >> \in Q
  <2>1. << >> \in Seq(S)
    OBVIOUS
  <2> QED BY <2>1
<1>3. ss \in [1 .. n -> Q]
  BY <1>1, <1>2
<1>4. PICK cat \in [Q \X Q -> Q] : cat = CatOn(S) /\ \A s, t \in Q : cat[<<s, t>>] = s \o t
  <2>1. /\ CatOn(S) \in [Seq(S) \X Seq(S) -> Seq(S)]
        /\ \A s, t \in Seq(S) : CatOn(S)[<<s, t>>] = s \o t
    BY CatOnIs
  <2>2. /\ CatOn(S) \in [Q \X Q -> Q]
        /\ \A s, t \in Q : CatOn(S)[<<s, t>>] = s \o t
    BY <1>2, <2>1
  <2> QED BY <2>2
<1>5. PICK u \in [0 .. n -> Q] : Folds(n, << >>, cat, ss, u)
  BY <1>2, <1>3, FoldExists
<1>6. ASSUME NEW i \in 1 .. n PROVE u[i] = u[i - 1] \o ss[i]
  <2>1. u[i - 1] \in Q /\ ss[i] \in Q
    BY <1>3
  <2>2. u[i] = cat[<<u[i - 1], ss[i]>>]
    BY <1>5 DEF Folds
  <2> QED BY <1>4, <2>1, <2>2
<1> DEFINE Eq(f) == f = [i \in 0 .. n |-> IF i = 0 THEN << >> ELSE f[i - 1] \o ss[i]]
           upTo == CHOOSE f : Eq(f)
<1>7. Eq(u)
  <2>1. \A i \in 0 .. n : u[i] = IF i = 0 THEN << >> ELSE u[i - 1] \o ss[i]
    <3> SUFFICES ASSUME NEW i \in 0 .. n PROVE u[i] = IF i = 0 THEN << >> ELSE u[i - 1] \o ss[i]
      OBVIOUS
    <3>1. CASE i = 0
      BY <3>1, <1>5 DEF Folds
    <3>2. CASE i # 0
      <4>1. i \in 1 .. n
        BY <3>2
      <4> QED BY <3>2, <4>1, <1>6
    <3> QED BY <3>1, <3>2
  <2> QED BY <2>1
<1>8. Eq(upTo)
  BY <1>7
<1>9. Joined(ss) = upTo[n]
  BY <1>1 DEF Joined
<1> HIDE DEF upTo
<1>10. upTo[0] = << >> /\ \A i \in 1 .. n : upTo[i] = upTo[i - 1] \o ss[i]
  <2>1. \A i \in 0 .. n : upTo[i] = IF i = 0 THEN << >> ELSE upTo[i - 1] \o ss[i]
    BY <1>8
  <2>2. ASSUME NEW i \in 1 .. n PROVE upTo[i] = upTo[i - 1] \o ss[i]
    <3>1. i \in 0 .. n /\ i # 0
      OBVIOUS
    <3> QED BY <2>1, <3>1
  <2>3. upTo[0] = << >>
    <3>1. 0 \in 0 .. n
      OBVIOUS
    <3> QED BY <2>1, <3>1
  <2> QED BY <2>2, <2>3
<1> DEFINE T == {m \in Nat : m <= n => upTo[m] = u[m]}
<1>11. 0 \in T
  BY <1>5, <1>10 DEF Folds
<1>12. ASSUME NEW m \in Nat, m \in T, m + 1 <= n PROVE upTo[m + 1] = u[m + 1]
  <2>1. m + 1 \in 1 .. n /\ (m + 1) - 1 = m /\ upTo[m] = u[m]
    BY <1>12
  <2>2. upTo[m + 1] = upTo[m] \o ss[m + 1]
    BY <2>1, <1>10
  <2>3. u[m + 1] = u[m] \o ss[m + 1]
    BY <2>1, <1>6
  <2> QED BY <2>1, <2>2, <2>3
<1>13. ASSUME NEW m \in Nat, m \in T PROVE m + 1 \in T
  BY <1>12, <1>13
<1> HIDE DEF T
<1>14. n \in T
  BY <1>11, <1>13, NatSetInduction
<1>15. upTo[n] = u[n]
  BY <1>14 DEF T
<1> QED BY <1>1, <1>2, <1>4, <1>5, <1>9, <1>15

\* ... whichever partial concatenations are taken.
LEMMA JoinedIs ==
  ASSUME NEW S, NEW ss \in Seq(Seq(S)), NEW u, Folds(Len(ss), << >>, CatOn(S), ss, u)
  PROVE  Joined(ss) = u[Len(ss)]
<1>1. PICK v \in [0 .. Len(ss) -> Seq(S)] :
         Folds(Len(ss), << >>, CatOn(S), ss, v) /\ Joined(ss) = v[Len(ss)]
  BY JoinedUnfolds
<1>2. Len(ss) \in Nat
  OBVIOUS
<1>3. u[Len(ss)] = v[Len(ss)]
  BY <1>1, <1>2, FoldIsOne
<1> QED BY <1>1, <1>3

\* Groups joined are a sequence over the same set.
LEMMA JoinedIsSeq == ASSUME NEW S, NEW ss \in Seq(Seq(S)) PROVE Joined(ss) \in Seq(S)
<1>1. PICK v \in [0 .. Len(ss) -> Seq(S)] : Joined(ss) = v[Len(ss)]
  BY JoinedUnfolds
<1>2. Len(ss) \in 0 .. Len(ss)
  OBVIOUS
<1> QED BY <1>1, <1>2

\* No groups join to nothing.
LEMMA JoinedEmpty == Joined(<< >>) = << >>
<1>1. PICK ss \in Seq(Seq(Nat)) : ss = << >>
  <2>1. << >> \in Seq(Seq(Nat))
    OBVIOUS
  <2> QED BY <2>1
<1>2. PICK v \in [0 .. Len(ss) -> Seq(Nat)] :
         Folds(Len(ss), << >>, CatOn(Nat), ss, v) /\ Joined(ss) = v[Len(ss)]
  BY JoinedUnfolds
<1>3. Len(ss) = 0
  BY <1>1
<1> QED BY <1>1, <1>2, <1>3 DEF Folds

\* A sequence more at the end.
LEMMA JoinedAppend ==
  ASSUME NEW S, NEW ss \in Seq(Seq(S)), NEW g \in Seq(S)
  PROVE  Joined(ss \o <<g>>) = Joined(ss) \o g
<1>0. PICK n \in Nat : n = Len(ss)
  OBVIOUS
<1>1. PICK Q : n = Len(ss) /\ Q = Seq(S)
  BY <1>0
<1>2. PICK tt : tt = ss \o <<g>>
  OBVIOUS
<1>3. /\ tt \in Seq(Seq(S)) /\ Len(tt) = n + 1 /\ tt[n + 1] = g
      /\ \A i \in 1 .. n : tt[i] = ss[i]
  BY <1>1, <1>2
<1>4. PICK u \in [0 .. n -> Q] : Folds(n, << >>, CatOn(S), ss, u) /\ Joined(ss) = u[n]
  BY <1>1, JoinedUnfolds
<1>5. PICK v \in [0 .. n + 1 -> Q] :
         Folds(n + 1, << >>, CatOn(S), tt, v) /\ Joined(tt) = v[n + 1]
  BY <1>1, <1>3, JoinedUnfolds
<1>6. Folds(n, << >>, CatOn(S), ss, [i \in 0 .. n |-> v[i]])
  <2>1. PICK w : w = [i \in 0 .. n |-> v[i]]
    OBVIOUS
  <2>2. v[0] = << >> /\ \A i \in 1 .. n + 1 : v[i] = CatOn(S)[<<v[i - 1], tt[i]>>]
    BY <1>5 DEF Folds
  <2>3. ASSUME NEW i \in 1 .. n PROVE w[i] = CatOn(S)[<<w[i - 1], ss[i]>>]
    <3>1. w[i] = v[i] /\ w[i - 1] = v[i - 1] /\ tt[i] = ss[i] /\ i \in 1 .. n + 1
      BY <2>1, <1>3
    <3> QED BY <2>2, <3>1
  <2>4. w[0] = << >> /\ DOMAIN w = 0 .. n
    BY <2>1, <2>2
  <2> QED BY <2>1, <2>3, <2>4 DEF Folds
<1>7. v[n] = u[n]
  BY <1>4, <1>6, FoldIsOne
<1>8. v[n + 1] = v[n] \o g
  <2>1. n + 1 \in 1 .. n + 1 /\ (n + 1) - 1 = n
    OBVIOUS
  <2>2. v[n + 1] = CatOn(S)[<<v[n], g>>]
    BY <1>3, <1>5, <2>1 DEF Folds
  <2>3. v[n] \in Seq(S)
    BY <1>1, <1>5
  <2> QED BY <2>2, <2>3, CatOnIs
<1> QED BY <1>2, <1>4, <1>5, <1>7, <1>8

\* Sequences of sequences are easier for the provers when Seq(S) is a set Q of
\* which they know no more than they need.
IsSeqSet(Q, S) == Q = Seq(S)

\* A prefix of one element more is the prefix and that element.
LEMMA LastOfPrefix ==
  ASSUME NEW Q, NEW ss \in Seq(Q), NEW k \in Nat, k + 1 <= Len(ss)
  PROVE  /\ ss[k + 1] \in Q
         /\ SubSeq(ss, 1, k) \in Seq(Q)
         /\ SubSeq(ss, 1, k + 1) = SubSeq(ss, 1, k) \o <<ss[k + 1]>>
OBVIOUS

\* The join of the first k sequences.
JoinedTo(ss, k) == Joined(SubSeq(ss, 1, k))

\* The groups joined up to k, and one step further.
LEMMA JoinedToIs ==
  ASSUME NEW S, NEW Q, IsSeqSet(Q, S), NEW ss \in Seq(Q)
  PROVE  /\ JoinedTo(ss, 0) = << >>
         /\ JoinedTo(ss, Len(ss)) = Joined(ss)
         /\ \A k \in 0 .. Len(ss) : JoinedTo(ss, k) \in Q
         /\ \A k \in Nat : k + 1 <= Len(ss) =>
               ss[k + 1] \in Q /\ JoinedTo(ss, k + 1) = JoinedTo(ss, k) \o ss[k + 1]
<1>2. Len(ss) \in Nat
  OBVIOUS
<1>3. SubSeq(ss, 1, 0) = << >> /\ SubSeq(ss, 1, Len(ss)) = ss
  BY <1>2
<1>4. \A k \in 0 .. Len(ss) : SubSeq(ss, 1, k) \in Seq(Q)
  BY <1>2
<1>6. \A k \in 0 .. Len(ss) : JoinedTo(ss, k) \in Q
  BY <1>4, JoinedIsSeq DEF JoinedTo, IsSeqSet
<1>7. ASSUME NEW k \in Nat, k + 1 <= Len(ss)
      PROVE  ss[k + 1] \in Q /\ JoinedTo(ss, k + 1) = JoinedTo(ss, k) \o ss[k + 1]
  <2>0. /\ ss[k + 1] \in Q
        /\ SubSeq(ss, 1, k) \in Seq(Q)
        /\ SubSeq(ss, 1, k + 1) = SubSeq(ss, 1, k) \o <<ss[k + 1]>>
    BY <1>7, LastOfPrefix
  <2>1. PICK a \in Seq(Q), x \in Q :
          a = SubSeq(ss, 1, k) /\ x = ss[k + 1] /\ SubSeq(ss, 1, k + 1) = a \o <<x>>
    BY <2>0, Zenon
  <2>2. Joined(a \o <<x>>) = Joined(a) \o x
    BY JoinedAppend DEF IsSeqSet
  <2> QED BY <2>1, <2>2 DEF JoinedTo
<1>8. JoinedTo(ss, 0) = << >> /\ JoinedTo(ss, Len(ss)) = Joined(ss)
  BY <1>3, JoinedEmpty DEF JoinedTo
<1> QED BY <1>6, <1>7, <1>8

\* One group joined is that group.
LEMMA JoinedOne == ASSUME NEW S, NEW g \in Seq(S) PROVE Joined(<<g>>) = g
<1>1. PICK e \in Seq(Seq(S)) : e = << >>
  <2>1. << >> \in Seq(Seq(S))
    OBVIOUS
  <2> QED BY <2>1
<1>2. Joined(e \o <<g>>) = Joined(e) \o g
  BY JoinedAppend
<1>3. e \o <<g>> = <<g>> /\ << >> \o g = g
  BY <1>1
<1> QED BY <1>1, <1>2, <1>3, JoinedEmpty

Cat(s, t) == s \o t

\* The laws of concatenation, for a set of sequences named by Q.
LEMMA CatIs ==
  ASSUME NEW S, NEW Q, IsSeqSet(Q, S)
  PROVE  /\ << >> \in Q
         /\ \A s, t \in Q : Cat(s, t) \in Q
         /\ \A s \in Q : Cat(s, << >>) = s /\ Cat(<< >>, s) = s
         /\ \A s, t, u \in Q : Cat(Cat(s, t), u) = Cat(s, Cat(t, u))
<1>1. << >> \in Seq(S)
  OBVIOUS
<1>2. \A s, t \in Seq(S) : s \o t \in Seq(S)
  OBVIOUS
<1>3. \A s \in Seq(S) : s \o << >> = s /\ << >> \o s = s
  BY EmptyConcat
<1>4. \A s, t, u \in Seq(S) : (s \o t) \o u = s \o (t \o u)
  BY ConcatAssoc
<1> QED BY <1>1, <1>2, <1>3, <1>4 DEF IsSeqSet, Cat

\* The step of JoinedTo, in terms of Cat.
LEMMA JoinedToCat ==
  ASSUME NEW S, NEW Q, IsSeqSet(Q, S), NEW ss \in Seq(Q), NEW k \in Nat, k + 1 <= Len(ss)
  PROVE  /\ ss[k + 1] \in Q /\ JoinedTo(ss, k) \in Q
         /\ JoinedTo(ss, k + 1) = Cat(JoinedTo(ss, k), ss[k + 1])
<1>1. k \in 0 .. Len(ss)
  OBVIOUS
<1> QED BY <1>1, JoinedToIs DEF Cat

\* The first sequence is taken.
LEMMA JoinedHeadTail ==
  ASSUME NEW S, NEW Q, IsSeqSet(Q, S), NEW n \in Nat,
         NEW h \in Q, NEW tt \in Seq(Q), NEW ss \in Seq(Q), Len(ss) = n + 1, Len(tt) = n,
         ss[1] = h, \A i \in 1 .. n : ss[i + 1] = tt[i]
  PROVE  Joined(tt) \in Q /\ Joined(ss) = Cat(h, Joined(tt))
<1>5. JoinedTo(ss, 0) = << >> /\ JoinedTo(ss, n + 1) = Joined(ss)
  BY JoinedToIs
<1>6. JoinedTo(tt, 0) = << >> /\ JoinedTo(tt, n) = Joined(tt) /\ JoinedTo(tt, n) \in Q
  BY JoinedToIs
<1> DEFINE P(k) == JoinedTo(ss, k + 1) = Cat(h, JoinedTo(tt, k))
<1>7. P(0)
  <2>1. JoinedTo(ss, 0 + 1) = Cat(JoinedTo(ss, 0), ss[0 + 1])
    BY JoinedToCat
  <2>2. Cat(<< >>, h) = h /\ Cat(h, << >>) = h
    BY CatIs
  <2> QED BY <1>5, <1>6, <2>1, <2>2
<1>8. ASSUME NEW k \in Nat, P(k), k + 1 <= n PROVE P(k + 1)
  <2>1. k + 1 \in Nat /\ (k + 1) + 1 <= n + 1 /\ k + 1 \in 1 .. n
    BY <1>8
  <2>2. JoinedTo(ss, (k + 1) + 1) = Cat(JoinedTo(ss, k + 1), ss[(k + 1) + 1])
    BY <2>1, JoinedToCat
  <2>3. ss[(k + 1) + 1] = tt[k + 1]
    BY <2>1
  <2>4. /\ tt[k + 1] \in Q /\ JoinedTo(tt, k) \in Q
        /\ JoinedTo(tt, k + 1) = Cat(JoinedTo(tt, k), tt[k + 1])
    BY <1>8, JoinedToCat
  <2>5. Cat(Cat(h, JoinedTo(tt, k)), tt[k + 1]) = Cat(h, Cat(JoinedTo(tt, k), tt[k + 1]))
    <3>1. PICK a \in Q, b \in Q : a = JoinedTo(tt, k) /\ b = tt[k + 1]
      BY <2>4, Zenon
    <3>2. Cat(Cat(h, a), b) = Cat(h, Cat(a, b))
      BY CatIs
    <3> QED BY <3>1, <3>2, Zenon
  <2> QED BY <1>8, <2>2, <2>3, <2>4, <2>5
<1> HIDE DEF P
<1> DEFINE T == {k \in Nat : k <= n => P(k)}
<1>9. 0 \in T /\ \A k \in Nat : k \in T => k + 1 \in T
  BY <1>7, <1>8
<1> HIDE DEF T
<1>10. n \in T
  BY <1>9, NatSetInduction
<1>11. P(n)
  BY <1>10 DEF T
<1> QED BY <1>5, <1>6, <1>11 DEF P

\* The first group comes first, in terms of Cat.
LEMMA JoinedHeadOf ==
  ASSUME NEW S, NEW Q, IsSeqSet(Q, S), NEW ss \in Seq(Q), ss # << >>
  PROVE  /\ Head(ss) \in Q /\ Joined(Tail(ss)) \in Q
         /\ Joined(ss) = Cat(Head(ss), Joined(Tail(ss)))
<1>1. PICK h \in Q, tt \in Seq(Q), m \in Nat \ {0} :
         /\ h = Head(ss) /\ tt = Tail(ss) /\ m = Len(ss)
         /\ Len(tt) = Len(ss) - 1 /\ h = ss[1]
         /\ \A i \in 1 .. Len(ss) - 1 : tt[i] = ss[i + 1]
  <2>1. /\ Head(ss) \in Q /\ Tail(ss) \in Seq(Q) /\ Len(ss) \in Nat \ {0}
        /\ Len(Tail(ss)) = Len(ss) - 1 /\ Head(ss) = ss[1]
        /\ \A i \in 1 .. Len(ss) - 1 : Tail(ss)[i] = ss[i + 1]
    BY HeadTail
  <2> QED BY <2>1, Zenon
<1>2. PICK n \in Nat : n = m - 1 /\ n + 1 = m
  <2>1. m - 1 \in Nat /\ (m - 1) + 1 = m
    OBVIOUS
  <2> QED BY <2>1, Zenon
<1>3. /\ Len(ss) = n + 1 /\ Len(tt) = n /\ ss[1] = h
      /\ \A i \in 1 .. n : ss[i + 1] = tt[i]
  BY <1>1, <1>2, Zenon
<1>4. Joined(tt) \in Q /\ Joined(ss) = Cat(h, Joined(tt))
  BY <1>3, JoinedHeadTail
<1> QED BY <1>1, <1>4

\* The first group comes first: what a port delivers is the front of what is on
\* the wire.
LEMMA JoinedHead ==
  ASSUME NEW S, NEW ss \in Seq(Seq(S)), ss # << >>
  PROVE  /\ Head(ss) \in Seq(S) /\ Joined(Tail(ss)) \in Seq(S)
         /\ Joined(ss) = Head(ss) \o Joined(Tail(ss))
<1>1. IsSeqSet(Seq(S), S)
  BY Zenon DEF IsSeqSet
<1>2. /\ Head(ss) \in Seq(S) /\ Joined(Tail(ss)) \in Seq(S)
      /\ Joined(ss) = Cat(Head(ss), Joined(Tail(ss)))
  BY <1>1, JoinedHeadOf, Zenon
<1> QED BY <1>2, Zenon DEF Cat

-----------------------------------------------------------------------------
(* What is picked from a sequence.                                         *)

\* The numbers up to k that are in P.
UpTo(P, k) == {i \in P : i <= k}

\* The positions of P up to k + 1 are those up to k, and k + 1 when it is in P.
LEMMA UpToNext ==
  ASSUME NEW n \in Nat, NEW P \in SUBSET (1 .. n), NEW k \in Nat, k + 1 <= n
  PROVE  /\ IsFiniteSet(UpTo(P, k)) /\ Cardinality(UpTo(P, k)) \in Nat
         /\ Cardinality(UpTo(P, k + 1)) =
               Cardinality(UpTo(P, k)) + (IF k + 1 \in P THEN 1 ELSE 0)
<1>0. \A i \in P : i \in 1 .. n /\ i \in Int
  OBVIOUS
<1>1. IsFiniteSet(1 .. n)
  BY FS_Interval
<1>2. UpTo(P, k) \subseteq 1 .. n
  BY DEF UpTo
<1>3. IsFiniteSet(UpTo(P, k))
  BY <1>1, <1>2, FS_Subset
<1>4. Cardinality(UpTo(P, k)) \in Nat
  BY <1>3, FS_CardinalityType
<1>5. k + 1 \notin UpTo(P, k) /\ \A i \in P : i <= k + 1 <=> i <= k \/ i = k + 1
  BY <1>0 DEF UpTo
<1>6. CASE k + 1 \in P
  <2>1. UpTo(P, k + 1) = UpTo(P, k) \cup {k + 1}
    BY <1>5, <1>6, Zenon DEF UpTo
  <2>2. Cardinality(UpTo(P, k) \cup {k + 1}) = Cardinality(UpTo(P, k)) + 1
    BY <1>3, <1>5, FS_AddElement
  <2> QED BY <1>3, <1>4, <1>6, <2>1, <2>2
<1>7. CASE k + 1 \notin P
  <2>1. UpTo(P, k + 1) = UpTo(P, k)
    BY <1>5, <1>7, Zenon DEF UpTo
  <2> QED BY <1>3, <1>4, <1>7, <2>1
<1> QED BY <1>6, <1>7

\* The elements picked at the positions of P: as many as there are positions.
LEMMA PickAtIs ==
  ASSUME NEW S, NEW s \in Seq(S), NEW P \in SUBSET (1 .. Len(s))
  PROVE  /\ PickAt(s, P) \in Seq(S) /\ Len(PickAt(s, P)) = Cardinality(P)
         /\ IsFiniteSet(P) /\ Cardinality(P) \in Nat
<1>1. PICK n \in Nat : n = Len(s)
  OBVIOUS
<1>0. P \in SUBSET (1 .. n) /\ \A i \in P : ~(i <= 0) /\ i <= n
  BY <1>1
<1>2. PICK Q : IsSeqSet(Q, S)
  BY DEF IsSeqSet
<1>3. PICK w : w = [i \in 1 .. n |-> IF i \in P THEN <<s[i]>> ELSE << >>]
  OBVIOUS
<1>4. \A i \in 1 .. n : <<s[i]>> \in Seq(S) /\ Len(<<s[i]>>) = 1
  BY <1>1
<1>5. << >> \in Seq(S) /\ Len(<< >>) = 0
  OBVIOUS
<1>6. \A i \in 1 .. n : w[i] \in Q /\ Len(w[i]) = IF i \in P THEN 1 ELSE 0
  BY <1>2, <1>3, <1>4, <1>5 DEF IsSeqSet
<1>7. w \in Seq(Q) /\ Len(w) = n
  BY <1>3, <1>6
<1>8. PickAt(s, P) = Joined(w)
  BY <1>1, <1>3 DEF PickAt
<1>9. /\ JoinedTo(w, 0) = << >> /\ JoinedTo(w, n) = Joined(w)
      /\ \A k \in 0 .. n : JoinedTo(w, k) \in Q
      /\ \A k \in Nat : k + 1 <= n => JoinedTo(w, k + 1) = JoinedTo(w, k) \o w[k + 1]
  BY <1>2, <1>7, JoinedToIs
<1> DEFINE T == {k \in Nat : k <= n => Len(JoinedTo(w, k)) = Cardinality(UpTo(P, k))}
<1>10. 0 \in T
  <2>1. UpTo(P, 0) = {}
    BY <1>0, Zenon DEF UpTo
  <2>2. Cardinality(UpTo(P, 0)) = 0
    BY <2>1, FS_EmptySet
  <2> QED BY <1>5, <1>9, <2>2
<1>11. ASSUME NEW k \in Nat, k \in T PROVE k + 1 \in T
  <2> SUFFICES ASSUME k + 1 <= n
               PROVE  Len(JoinedTo(w, k + 1)) = Cardinality(UpTo(P, k + 1))
    OBVIOUS
  <2>1. k \in 0 .. n /\ k + 1 \in 1 .. n /\ Len(JoinedTo(w, k)) = Cardinality(UpTo(P, k))
    BY <1>11
  <2>2. PICK a \in Seq(S), b \in Seq(S) : a = JoinedTo(w, k) /\ b = w[k + 1]
    BY <1>2, <1>6, <1>9, <2>1 DEF IsSeqSet
  <2>3. Len(a \o b) = Len(a) + Len(b)
    OBVIOUS
  <2>4. Len(b) = IF k + 1 \in P THEN 1 ELSE 0
    BY <1>6, <2>1, <2>2
  <2>5. Cardinality(UpTo(P, k + 1)) =
           Cardinality(UpTo(P, k)) + (IF k + 1 \in P THEN 1 ELSE 0)
    BY <1>0, UpToNext
  <2>6. JoinedTo(w, k + 1) = a \o b
    BY <1>9, <2>2
  <2> QED BY <2>1, <2>2, <2>3, <2>4, <2>5, <2>6
<1> HIDE DEF T
<1>12. n \in T
  BY <1>10, <1>11, NatSetInduction
<1>13. UpTo(P, n) = P
  BY <1>0 DEF UpTo
<1>14. Len(Joined(w)) = Cardinality(P)
  BY <1>9, <1>12, <1>13 DEF T
<1>15. Joined(w) \in Seq(S)
  BY <1>2, <1>9 DEF IsSeqSet
<1>16. IsFiniteSet(P) /\ Cardinality(P) \in Nat
  <2>1. IsFiniteSet(1 .. n)
    BY FS_Interval
  <2>2. IsFiniteSet(P)
    BY <1>0, <2>1, FS_Subset
  <2> QED BY <2>2, FS_CardinalityType
<1> QED BY <1>8, <1>14, <1>15, <1>16

\* How long a join is when a sequence joins it at the end or leaves at the front.
LEMMA LenJoined ==
  ASSUME NEW S, NEW ss \in Seq(Seq(S)), NEW g \in Seq(S)
  PROVE  /\ Len(Joined(ss)) \in Nat /\ Len(g) \in Nat
         /\ Len(Joined(ss \o <<g>>)) = Len(Joined(ss)) + Len(g)
<1>1. PICK a \in Seq(S) : a = Joined(ss)
  BY JoinedIsSeq, Zenon
<1>2. Joined(ss \o <<g>>) = a \o g
  BY <1>1, JoinedAppend, Zenon
<1>3. Len(a \o g) = Len(a) + Len(g) /\ Len(a) \in Nat /\ Len(g) \in Nat
  BY ConcatFacts
<1> QED BY <1>1, <1>2, <1>3, Zenon

\* The length of the groups that are left when the first is taken.
LEMMA LenJoinedTail ==
  ASSUME NEW S, NEW ss \in Seq(Seq(S)), ss # << >>
  PROVE  /\ Head(ss) \in Seq(S) /\ Len(Head(ss)) \in Nat /\ Len(Joined(Tail(ss))) \in Nat
         /\ Len(Joined(ss)) = Len(Head(ss)) + Len(Joined(Tail(ss)))
<1>1. PICK h \in Seq(S), t \in Seq(S) :
         h = Head(ss) /\ t = Joined(Tail(ss)) /\ Joined(ss) = h \o t
  BY JoinedHead, Zenon
<1>2. Len(h \o t) = Len(h) + Len(t) /\ Len(h) \in Nat /\ Len(t) \in Nat
  BY ConcatFacts
<1> QED BY <1>1, <1>2, Zenon

-----------------------------------------------------------------------------
(* Sequences of increasing numbers.                                        *)

Increasing(s) == \A i, j \in DOMAIN s : i < j => s[i] < s[j]

\* Greater numbers at the end.
LEMMA IncreasingMore ==
  ASSUME NEW n \in Nat, NEW s \in Seq(Nat), Increasing(s),
         \A i \in 1 .. Len(s) : s[i] \in 1 .. n,
         NEW g \in Seq(Nat), \A i \in 1 .. Len(g) : g[i] = n + i
  PROVE  Increasing(s \o g)
<1>1. PICK t : t = s \o g
  OBVIOUS
<1>2. /\ t \in Seq(Nat) /\ Len(t) = Len(s) + Len(g)
      /\ \A i \in 1 .. Len(s) : t[i] = s[i]
      /\ \A i \in 1 .. Len(g) : t[Len(s) + i] = g[i]
  BY <1>1, ConcatOf
<1>3. PICK l \in Nat, m \in Nat :
        /\ l = Len(s) /\ m = Len(g)
        /\ DOMAIN s = 1 .. l /\ DOMAIN t = 1 .. (l + m)
  <2>1. DOMAIN t = 1 .. Len(t)
    BY <1>2
  <2> QED BY <1>2, <2>1
<1>4. /\ \A i \in 1 .. l : t[i] = s[i] /\ s[i] \in 1 .. n
      /\ \A i \in 1 .. m : t[l + i] = n + i
  BY <1>2, <1>3
<1>5. ASSUME NEW i \in 1 .. (l + m), NEW j \in 1 .. (l + m), i < j PROVE t[i] < t[j]
  <2>1. CASE j \in 1 .. l
    <3>1. i \in 1 .. l
      BY <1>5, <2>1
    <3>2. s[i] < s[j]
      BY <1>3, <1>5, <2>1, <3>1, Zenon DEF Increasing
    <3> QED BY <1>4, <2>1, <3>1, <3>2
  <2>2. CASE j \notin 1 .. l
    <3>1. PICK jj \in 1 .. m : j = l + jj
      BY <2>2
    <3>2. t[j] = n + jj
      BY <1>4, <3>1
    <3>3. CASE i \in 1 .. l
      <4>1. t[i] = s[i] /\ s[i] \in 1 .. n
        BY <1>4, <3>3, Zenon
      <4> QED BY <3>1, <3>2, <4>1
    <3>4. CASE i \notin 1 .. l
      <4>1. PICK ii \in 1 .. m : i = l + ii
        BY <3>4
      <4>2. t[i] = n + ii
        BY <1>4, <4>1
      <4> QED BY <1>5, <3>1, <3>2, <4>1, <4>2
    <3> QED BY <3>3, <3>4
  <2> QED BY <2>1, <2>2
<1> QED BY <1>1, <1>3, <1>5, Zenon DEF Increasing

\* A bounded set of numbers has a greatest one.
LEMMA GreatestOf ==
  ASSUME NEW n \in Nat, NEW S \in SUBSET (0 .. n), S # {}
  PROVE  \E x \in S : \A y \in S : x >= y
<1> DEFINE T == {m \in Nat : (\E x \in S : x <= m) =>
                               \E x \in S : \A y \in S : y <= m => x >= y}
<1>0. \A x \in S : x \in 0 .. n
  OBVIOUS
<1>1. 0 \in T
  BY <1>0
<1>2. ASSUME NEW m \in Nat, m \in T PROVE m + 1 \in T
  <2>1. CASE m + 1 \in S
    BY <1>0, <2>1
  <2>2. CASE m + 1 \notin S
    <3>1. \A y \in S : y <= m + 1 <=> y <= m
      BY <1>0, <2>2
    <3> QED BY <1>2, <3>1
  <2> QED BY <2>1, <2>2
<1> HIDE DEF T
<1>3. n \in T
  BY <1>1, <1>2, NatSetInduction
<1>4. (\E x \in S : x <= n) => \E x \in S : \A y \in S : y <= n => x >= y
  BY <1>3 DEF T
<1>5. \A x \in S : x <= n
  BY <1>0
<1>6. \E x \in S : x <= n
  BY <1>5, Zenon
<1> QED BY <1>4, <1>5, <1>6, Zenon

-----------------------------------------------------------------------------
(* The beginning of a sequence is taken.                                   *)

\* A sequence is its first m elements and then the others.
LEMMA SplitFacts ==
  ASSUME NEW S, NEW s \in Seq(S), NEW m \in Nat, m <= Len(s)
  PROVE  /\ SubSeq(s, 1, m) \in Seq(S) /\ SubSeq(s, m + 1, Len(s)) \in Seq(S)
         /\ Len(SubSeq(s, 1, m)) = m /\ Len(SubSeq(s, m + 1, Len(s))) = Len(s) - m
         /\ s = SubSeq(s, 1, m) \o SubSeq(s, m + 1, Len(s))
<1>1. PICK a \in Seq(S), b \in Seq(S), l \in Nat :
        a = SubSeq(s, 1, m) /\ b = SubSeq(s, m + 1, Len(s)) /\ l = Len(s)
  <2>1. SubSeq(s, 1, m) \in Seq(S)
    OBVIOUS
  <2>2. SubSeq(s, m + 1, Len(s)) \in Seq(S)
    OBVIOUS
  <2>3. Len(s) \in Nat
    OBVIOUS
  <2> QED BY <2>1, <2>2, <2>3, Zenon
<1>2. /\ Len(a) = m /\ \A i \in 1 .. m : a[i] = s[i]
  BY <1>1
<1>3. /\ Len(b) = l - m /\ \A i \in 1 .. l - m : b[i] = s[m + i]
  BY <1>1
<1>4. PICK t : t = a \o b
  OBVIOUS
<1>5. /\ t \in Seq(S) /\ Len(t) = Len(a) + Len(b)
      /\ \A i \in 1 .. Len(a) : t[i] = a[i]
      /\ \A i \in 1 .. Len(b) : t[Len(a) + i] = b[i]
  BY <1>4, ConcatOf
<1>6. t \in Seq(S) /\ Len(t) = l
  BY <1>1, <1>2, <1>3, <1>5
<1>7. ASSUME NEW i \in 1 .. l PROVE t[i] = s[i]
  <2>1. CASE i <= m
    BY <1>2, <1>5, <2>1
  <2>2. CASE i > m
    <3>1. PICK j \in 1 .. l - m : i = m + j
      BY <1>1, <2>2
    <3>2. t[m + j] = b[j] /\ b[j] = s[m + j]
      BY <1>2, <1>3, <1>5
    <3> QED BY <3>1, <3>2, Zenon
  <2> QED BY <2>1, <2>2
<1>8. t = s
  BY <1>1, <1>6, <1>7, SameSeq
<1>9. Len(a) = m /\ Len(b) = l - m /\ s = a \o b
  BY <1>2, <1>3, <1>4, <1>8, Zenon
<1> QED BY <1>1, <1>9, Zenon

Splits(S, s, m) ==
    /\ SubSeq(s, 1, m) \in Seq(S) /\ SubSeq(s, m + 1, Len(s)) \in Seq(S)
    /\ Len(SubSeq(s, 1, m)) = m /\ Len(SubSeq(s, m + 1, Len(s))) = Len(s) - m
    /\ s = SubSeq(s, 1, m) \o SubSeq(s, m + 1, Len(s))

\* The same, for a prover that does not unfold it.
LEMMA SplitIs ==
  ASSUME NEW S, NEW s \in Seq(S), NEW m \in Nat, m <= Len(s)
  PROVE  Splits(S, s, m)
BY SplitFacts, Zenon DEF Splits

-----------------------------------------------------------------------------
(* Numbers of a set, counted.                                              *)

\* Some numbers and the m next ones.
LEMMA CountMore ==
  ASSUME NEW n \in Nat, NEW m \in Nat, NEW P \in SUBSET (1 .. n)
  PROVE  /\ Cardinality(P \cup ((n + 1) .. (n + m))) = Cardinality(P) + m
         /\ IsFiniteSet(P) /\ Cardinality(P) \in Nat
<1>1. IsFiniteSet(1 .. n) /\ IsFiniteSet((n + 1) .. (n + m))
      /\ Cardinality((n + 1) .. (n + m)) = IF n + 1 > n + m THEN 0 ELSE (n + m) - (n + 1) + 1
  BY FS_Interval
<1>2. IsFiniteSet(P) /\ Cardinality(P) \in Nat
  BY <1>1, FS_Subset, FS_CardinalityType
<1>3. P \cap ((n + 1) .. (n + m)) = {}
  OBVIOUS
<1>4. PICK T : T = (n + 1) .. (n + m) /\ IsFiniteSet(T) /\ P \cap T = {}
  BY <1>1, <1>3
<1>5. Cardinality(P \cup T) = Cardinality(P) + Cardinality(T) - Cardinality(P \cap T)
  BY <1>2, <1>4, FS_Union, Zenon
<1>6. Cardinality(P \cap T) = 0
  BY <1>4, FS_EmptySet, Zenon
<1>7. Cardinality(T) = m
  BY <1>1, <1>4
<1> QED BY <1>2, <1>4, <1>5, <1>6, <1>7

\* Numbers less k.
Shifted(P, Q, k, l) ==
    /\ \A i \in P : i \in (k + 1) .. (k + l)
    /\ \A i \in Q : i \in 1 .. l
    /\ \A i \in 1 .. l : i \in Q <=> i + k \in P

\* Positions that are shifted and renumbered without a gap are as many as
\* before.
LEMMA CountShift ==
  ASSUME NEW k \in Nat, NEW l \in Nat, NEW P, NEW Q, Shifted(P, Q, k, l)
  PROVE  Cardinality(Q) = Cardinality(P)
<1>0. /\ \A i \in P : i \in (k + 1) .. (k + l)
      /\ \A i \in Q : i \in 1 .. l
      /\ \A i \in 1 .. l : i \in Q <=> i + k \in P
  BY DEF Shifted
<1>1. IsFiniteSet(P)
  <2>1. P \in SUBSET ((k + 1) .. (k + l)) /\ IsFiniteSet((k + 1) .. (k + l))
    BY <1>0, FS_Interval
  <2> QED BY <2>1, FS_Subset
<1>2. PICK f : f = [i \in P |-> i - k]
  OBVIOUS
<1>3. f \in Bijection(P, Q)
  <2>1. \A i \in P : i - k \in Q
    BY <1>0
  <2>2. f \in [P -> Q]
    BY <1>2, <2>1
  <2>3. \A i, j \in P : f[i] = f[j] => i = j
    BY <1>0, <1>2
  <2>4. \A i \in Q : i + k \in P /\ f[i + k] = i
    BY <1>0, <1>2
  <2> QED BY <2>2, <2>3, <2>4 DEF Bijection, Injection, Surjection, IsInjective
<1>4. ExistsBijection(P, Q)
  BY <1>3 DEF ExistsBijection
<1> QED BY <1>1, <1>4, FS_Bijection

\* The first m numbers of a set are not more than m.
LEMMA CountFirst ==
  ASSUME NEW n \in Nat, NEW P \in SUBSET (1 .. n), NEW m \in Nat, NEW F,
         F = {k \in P : Cardinality({j \in P : j <= k}) <= m}
  PROVE  Cardinality(F) <= m /\ F \in SUBSET P
<1>1. CASE F = {}
  <2>1. Cardinality({}) = 0
    BY FS_EmptySet, Zenon
  <2>2. Cardinality(F) = 0 /\ 0 <= m
    <3>1. Cardinality(F) = 0
      BY <1>1, <2>1, Zenon
    <3>2. 0 <= m
      OBVIOUS
    <3> QED BY <3>1, <3>2
  <2>3. F \in SUBSET P
    OBVIOUS
  <2> QED BY <2>2, <2>3
<1>2. CASE F # {}
  <2>1. F \in SUBSET (0 .. n)
    <3>1. F \subseteq P /\ P \subseteq 0 .. n
      <4>1. 1 .. n \subseteq 0 .. n
        OBVIOUS
      <4> QED BY <4>1, Zenon
    <3> QED BY <3>1, Zenon
  <2>2. PICK x \in F : \A y \in F : x >= y
    BY <1>2, <2>1, GreatestOf
  <2>3. PICK U : U = {j \in P : j <= x}
    OBVIOUS
  <2>4. F \subseteq U /\ U \in SUBSET (1 .. n) /\ Cardinality(U) <= m
    BY <2>2, <2>3
  <2>5. IsFiniteSet(U) /\ Cardinality(U) \in Nat
    BY <2>4, CountMore
  <2>6. IsFiniteSet(F) /\ Cardinality(F) <= Cardinality(U) /\ Cardinality(F) \in Nat
    BY <2>4, <2>5, FS_Subset, FS_CardinalityType
  <2> QED BY <2>4, <2>5, <2>6
<1> QED BY <1>1, <1>2

\* Some of the numbers are taken away.
LEMMA CountLess ==
  ASSUME NEW n \in Nat, NEW P \in SUBSET (1 .. n), NEW F \in SUBSET P
  PROVE  /\ Cardinality(P \ F) + Cardinality(F) = Cardinality(P)
         /\ Cardinality(P \ F) \in Nat /\ Cardinality(F) \in Nat
<1>1. /\ IsFiniteSet(P) /\ IsFiniteSet(F) /\ Cardinality(P) \in Nat /\ Cardinality(F) \in Nat
  BY CountMore
<1>2. P \cap F = F
  OBVIOUS
<1>3. Cardinality(P \ F) = Cardinality(P) - Cardinality(F)
  BY <1>1, <1>2, FS_Difference
<1>4. Cardinality(F) <= Cardinality(P)
  BY <1>1, FS_Subset
<1> QED BY <1>1, <1>3, <1>4

-----------------------------------------------------------------------------
(* Queues whose entries are marked when they are issued.                   *)

Open(entries) == {k \in 1 .. Len(entries) : ~entries[k].is_issued}

\* New entries are open.
LEMMA OpenMore ==
  ASSUME NEW E, NEW s \in Seq(E), NEW g \in Seq(E), \A i \in 1 .. Len(g) : ~g[i].is_issued
  PROVE  Cardinality(Open(s \o g)) = Cardinality(Open(s)) + Len(g)
<1>1. PICK t : t = s \o g
  OBVIOUS
<1>2. /\ t \in Seq(E) /\ Len(t) = Len(s) + Len(g)
      /\ \A i \in 1 .. Len(s) : t[i] = s[i]
      /\ \A i \in 1 .. Len(g) : t[Len(s) + i] = g[i]
  BY <1>1, ConcatOf
<1>3. PICK n \in Nat, m \in Nat : n = Len(s) /\ m = Len(g)
  OBVIOUS
<1>4. PICK P \in SUBSET (1 .. n) : P = Open(s)
  BY <1>3 DEF Open
<1>5. ASSUME NEW k \in 1 .. (n + m)
      PROVE  ~t[k].is_issued <=> k \in P \cup ((n + 1) .. (n + m))
  <2>1. CASE k \in 1 .. n
    <3>1. t[k] = s[k]
      BY <1>2, <1>3, <2>1
    <3>2. k \in P <=> ~s[k].is_issued
      BY <1>3, <1>4, <2>1 DEF Open
    <3>3. k \notin (n + 1) .. (n + m)
      BY <2>1
    <3> QED BY <3>1, <3>2, <3>3, Zenon
  <2>2. CASE k \notin 1 .. n
    <3>1. PICK i \in 1 .. m : k = n + i
      BY <2>2
    <3>2. ~t[k].is_issued
      BY <1>2, <1>3, <3>1
    <3>3. k \in (n + 1) .. (n + m)
      BY <3>1
    <3> QED BY <3>2, <3>3, Zenon
  <2> QED BY <2>1, <2>2
<1>6. Open(t) = P \cup ((n + 1) .. (n + m))
  <2>1. Len(t) = n + m
    BY <1>2, <1>3
  <2>2. \A k \in P \cup ((n + 1) .. (n + m)) : k \in 1 .. (n + m)
    OBVIOUS
  <2> QED BY <1>5, <2>1, <2>2 DEF Open
<1>7. Cardinality(P \cup ((n + 1) .. (n + m))) = Cardinality(P) + m
  BY CountMore
<1> QED BY <1>1, <1>3, <1>4, <1>6, <1>7, Zenon

\* Issued entries leave from the front.
LEMMA OpenDropped ==
  ASSUME NEW E, NEW s \in Seq(E), NEW k \in Nat, k <= Len(s),
         \A i \in 1 .. k : s[i].is_issued
  PROVE  /\ SubSeq(s, k + 1, Len(s)) \in Seq(E)
         /\ Cardinality(Open(SubSeq(s, k + 1, Len(s)))) = Cardinality(Open(s))
<1>1. PICK l \in Nat : Len(s) = k + l
  <2>1. Len(s) - k \in Nat /\ Len(s) = k + (Len(s) - k)
    OBVIOUS
  <2> QED BY <2>1, Zenon
<1>2. PICK t \in Seq(E) : t = SubSeq(s, k + 1, Len(s))
  BY SplitFacts, Zenon
<1>3. Len(t) = l /\ \A i \in 1 .. l : t[i] = s[i + k]
  BY <1>1, <1>2
<1>4. PICK P, Q : P = Open(s) /\ Q = Open(t)
  OBVIOUS
<1>5. /\ \A i \in P : i \in (k + 1) .. (k + l)
      /\ \A i \in Q : i \in 1 .. l
  <2>1. ASSUME NEW i \in P PROVE i \in (k + 1) .. (k + l)
    <3>1. i \in 1 .. (k + l) /\ ~s[i].is_issued
      BY <1>1, <1>4, <2>1 DEF Open
    <3>2. i \notin 1 .. k
      BY <3>1, Zenon
    <3> QED BY <3>1, <3>2
  <2>2. \A i \in Q : i \in 1 .. l
    BY <1>3, <1>4 DEF Open
  <2> QED BY <2>1, <2>2, Zenon
<1>6. \A i \in 1 .. l : i \in Q <=> i + k \in P
  BY <1>1, <1>3, <1>4 DEF Open
<1>7. Cardinality(Q) = Cardinality(P)
  <2>1. Shifted(P, Q, k, l)
    BY <1>5, <1>6, Zenon DEF Shifted
  <2> QED BY <2>1, CountShift
<1> QED BY <1>2, <1>4, <1>7, Zenon

\* Open entries are marked.
LEMMA OpenMarked ==
  ASSUME NEW E, NEW s \in Seq(E), NEW t \in Seq(E), Len(t) = Len(s),
         NEW F \in SUBSET Open(s),
         \A k \in 1 .. Len(s) : ~t[k].is_issued <=> ~s[k].is_issued /\ k \notin F
  PROVE  /\ Cardinality(Open(t)) + Cardinality(F) = Cardinality(Open(s))
         /\ Cardinality(Open(t)) \in Nat /\ Cardinality(F) \in Nat
<1>1. PICK n \in Nat : n = Len(s)
  OBVIOUS
<1>2. PICK P \in SUBSET (1 .. n) : P = Open(s)
  BY <1>1 DEF Open
<1>3. Open(t) = P \ F
  BY <1>1, <1>2 DEF Open
<1>4. F \in SUBSET P
  BY <1>2
<1> QED BY <1>2, <1>3, <1>4, CountLess, Zenon

\* A part of a sequence of increasing numbers.
LEMMA IncreasingRest ==
  ASSUME NEW S, NEW s \in Seq(S), NEW t \in Seq(S), NEW u, u = s \o t, Increasing(u)
  PROVE  Increasing(t)
<1>1. /\ Len(s) \in Nat /\ DOMAIN t = 1 .. Len(t) /\ Len(t) \in Nat
      /\ DOMAIN u = 1 .. (Len(s) + Len(t))
      /\ \A i \in 1 .. Len(t) : u[Len(s) + i] = t[i]
  BY ConcatOf
<1> SUFFICES ASSUME NEW i \in 1 .. Len(t), NEW j \in 1 .. Len(t), i < j PROVE t[i] < t[j]
  BY <1>1 DEF Increasing
<1>2. PICK k \in 1 .. (Len(s) + Len(t)), l \in 1 .. (Len(s) + Len(t)) :
        k = Len(s) + i /\ l = Len(s) + j /\ k < l
  BY <1>1
<1>3. u[k] < u[l]
  BY <1>1, <1>2 DEF Increasing
<1> QED BY <1>1, <1>2, <1>3

\* Four sequences in a line; the first loses its beginning.
InLine(a, b, c, d) == a \o b \o c \o d

\* Concatenation regrouped, for the parts of the line between fetch and
\* dispatch.
LEMMA FiveRegrouped ==
  ASSUME NEW S, NEW Q, IsSeqSet(Q, S), NEW h \in Q, NEW a \in Q, NEW b \in Q, NEW c \in Q,
         NEW d \in Q
  PROVE  /\ Cat(Cat(Cat(a, b), c), d) \in Q
         /\ Cat(Cat(Cat(Cat(h, a), b), c), d) = Cat(h, Cat(Cat(Cat(a, b), c), d))
<1>1. /\ \A s, t \in Q : Cat(s, t) \in Q
      /\ \A s, t, u \in Q : Cat(Cat(s, t), u) = Cat(s, Cat(t, u))
  BY CatIs
<1>2. Cat(a, b) \in Q /\ Cat(Cat(a, b), c) \in Q /\ Cat(Cat(Cat(a, b), c), d) \in Q
  BY <1>1
<1>3. Cat(Cat(h, a), b) = Cat(h, Cat(a, b))
  BY <1>1
<1>4. Cat(Cat(h, Cat(a, b)), c) = Cat(h, Cat(Cat(a, b), c))
  BY <1>1, <1>2
<1>5. Cat(Cat(h, Cat(Cat(a, b), c)), d) = Cat(h, Cat(Cat(Cat(a, b), c), d))
  BY <1>1, <1>2
<1> QED BY <1>2, <1>3, <1>4, <1>5

Lengthened(h, a, b, c, d) == InLine(h \o a, b, c, d) = h \o InLine(a, b, c, d)

\* A group put in front of the line's parts is in front of the line.
LEMMA LineRegrouped ==
  ASSUME NEW S, NEW h \in Seq(S), NEW a \in Seq(S), NEW b \in Seq(S), NEW c \in Seq(S),
         NEW d \in Seq(S)
  PROVE  InLine(a, b, c, d) \in Seq(S) /\ Lengthened(h, a, b, c, d)
<1>1. PICK Q : Q = Seq(S) /\ IsSeqSet(Q, S)
  BY DEF IsSeqSet
<1>2. h \in Q /\ a \in Q /\ b \in Q /\ c \in Q /\ d \in Q
  BY <1>1, Zenon
<1>3. /\ Cat(Cat(Cat(a, b), c), d) \in Q
      /\ Cat(Cat(Cat(Cat(h, a), b), c), d) = Cat(h, Cat(Cat(Cat(a, b), c), d))
  BY <1>1, <1>2, FiveRegrouped
<1> QED BY <1>1, <1>3, Zenon DEF InLine, Cat, Lengthened

\* What is left of an increasing line is increasing when its front entries go.
LEMMA LineDropped ==
  ASSUME NEW S, NEW a \in Seq(S), NEW b \in Seq(S), NEW c \in Seq(S), NEW d \in Seq(S),
         NEW k \in Nat, k <= Len(a), Increasing(InLine(a, b, c, d))
  PROVE  Increasing(InLine(SubSeq(a, k + 1, Len(a)), b, c, d))
<1>1. PICK h \in Seq(S), t \in Seq(S) :
        h = SubSeq(a, 1, k) /\ t = SubSeq(a, k + 1, Len(a)) /\ a = h \o t
  <2>1. /\ SubSeq(a, 1, k) \in Seq(S) /\ SubSeq(a, k + 1, Len(a)) \in Seq(S)
        /\ a = SubSeq(a, 1, k) \o SubSeq(a, k + 1, Len(a))
    BY SplitFacts
  <2> QED BY <2>1, Zenon
<1>2. PICK l \in Seq(S) : l = InLine(t, b, c, d) /\ InLine(h \o t, b, c, d) = h \o l
  <2>1. InLine(t, b, c, d) \in Seq(S) /\ Lengthened(h, t, b, c, d)
    BY LineRegrouped, Zenon
  <2> QED BY <2>1, Zenon DEF Lengthened
<1>4. Increasing(l)
  BY <1>1, <1>2, IncreasingRest
<1> QED BY <1>1, <1>2, <1>4

\* The beginning of the second becomes the end of the first.
LEMMA LineMoved ==
  ASSUME NEW S, NEW a \in Seq(S), NEW g \in Seq(S), NEW b \in Seq(S), NEW c \in Seq(S),
         NEW d \in Seq(S)
  PROVE  InLine(a, g \o b, c, d) = InLine(a \o g, b, c, d)
BY DEF InLine

\* The instructions of a queue's entries.
InstsOf(entries) == [k \in DOMAIN entries |-> entries[k].inst]

\* The instructions of a queue's entries: of what is left of it, and of what is
\* added.
LEMMA InstsOfParts ==
  ASSUME NEW I, NEW E, \A e \in E : e.inst \in I, NEW s \in Seq(E)
  PROVE  /\ InstsOf(s) \in Seq(I) /\ Len(InstsOf(s)) = Len(s)
         /\ \A k \in Nat : k <= Len(s) =>
               InstsOf(SubSeq(s, k + 1, Len(s))) = SubSeq(InstsOf(s), k + 1, Len(s))
         /\ \A g \in Seq(E) : InstsOf(s \o g) = InstsOf(s) \o InstsOf(g)
<1>1. ASSUME NEW q \in Seq(E)
      PROVE  /\ InstsOf(q) \in Seq(I) /\ Len(InstsOf(q)) = Len(q)
             /\ \A k \in 1 .. Len(q) : InstsOf(q)[k] = q[k].inst
  BY DEF InstsOf
<1>2. ASSUME NEW k \in Nat, k <= Len(s)
      PROVE  InstsOf(SubSeq(s, k + 1, Len(s))) = SubSeq(InstsOf(s), k + 1, Len(s))
  <2>1. PICK t \in Seq(E) : t = SubSeq(s, k + 1, Len(s)) /\ Len(t) = Len(s) - k
    BY <1>2, SplitFacts
  <2>2. \A i \in 1 .. Len(t) : t[i] = s[k + i]
    BY <1>2, <2>1
  <2>3. PICK u \in Seq(I) : u = SubSeq(InstsOf(s), k + 1, Len(s)) /\ Len(u) = Len(s) - k
    <3>1. PICK v \in Seq(I) : v = InstsOf(s) /\ Len(v) = Len(s)
      BY <1>1, Zenon
    <3>2. SubSeq(v, k + 1, Len(v)) \in Seq(I) /\ Len(SubSeq(v, k + 1, Len(v))) = Len(v) - k
      BY <1>2, <3>1, SplitFacts
    <3> QED BY <3>1, <3>2, Zenon
  <2>4. \A i \in 1 .. Len(u) : u[i] = InstsOf(s)[k + i]
    BY <1>1, <1>2, <2>3
  <2>5. \A i \in 1 .. Len(u) : k + i \in 1 .. Len(s)
    BY <1>2, <2>3
  <2>6. PICK v \in Seq(I) :
          v = InstsOf(t) /\ Len(v) = Len(t) /\ \A i \in 1 .. Len(t) : v[i] = t[i].inst
    BY <1>1, <2>1, Zenon
  <2>7. \A i \in 1 .. Len(v) : v[i] = u[i]
    BY <1>1, <2>1, <2>2, <2>3, <2>4, <2>5, <2>6
  <2>8. v = u
    BY <2>1, <2>3, <2>6, <2>7, SameSeq
  <2> QED BY <2>1, <2>3, <2>6, <2>8
<1>3. ASSUME NEW g \in Seq(E) PROVE InstsOf(s \o g) = InstsOf(s) \o InstsOf(g)
  <2>1. PICK t \in Seq(E) : t = s \o g
    BY ConcatFacts
  <2>2. PICK a \in Seq(I), b \in Seq(I), u \in Seq(I) :
          a = InstsOf(s) /\ b = InstsOf(g) /\ u = a \o b
    BY <1>1, ConcatFacts
  <2>3. /\ Len(t) = Len(s) + Len(g) /\ Len(s) \in Nat /\ Len(g) \in Nat
        /\ \A i \in 1 .. Len(s) : t[i] = s[i]
        /\ \A i \in 1 .. Len(g) : t[Len(s) + i] = g[i]
    BY <2>1, ConcatOf
  <2>4. /\ Len(u) = Len(s) + Len(g)
        /\ \A i \in 1 .. Len(s) : u[i] = s[i].inst
        /\ \A i \in 1 .. Len(g) : u[Len(s) + i] = g[i].inst
    <3>1. Len(a) = Len(s) /\ Len(b) = Len(g)
      BY <1>1, <2>2
    <3>2. /\ Len(u) = Len(a) + Len(b)
          /\ \A i \in 1 .. Len(a) : u[i] = a[i]
          /\ \A i \in 1 .. Len(b) : u[Len(a) + i] = b[i]
      BY <2>2, ConcatOf
    <3> QED BY <1>1, <2>2, <3>1, <3>2
  <2>5. PICK v \in Seq(I) :
          v = InstsOf(t) /\ Len(v) = Len(t) /\ \A i \in 1 .. Len(t) : v[i] = t[i].inst
    BY <1>1, <2>1, Zenon
  <2>6. ASSUME NEW i \in 1 .. Len(u) PROVE u[i] = v[i]
    <3>1. CASE i \in 1 .. Len(s)
      <4>1. i \in 1 .. Len(t)
        BY <2>3, <3>1
      <4> QED BY <2>3, <2>4, <2>5, <3>1, <4>1, Zenon
    <3>2. CASE i \notin 1 .. Len(s)
      <4>1. /\ i - Len(s) \in 1 .. Len(g) /\ i = Len(s) + (i - Len(s)) /\ i \in 1 .. Len(t)
        BY <2>3, <2>4, <3>2
      <4>2. PICK j \in 1 .. Len(g) : i = Len(s) + j
        BY <4>1, Zenon
      <4> QED BY <2>3, <2>4, <2>5, <4>1, <4>2, Zenon
    <3> QED BY <3>1, <3>2
  <2>7. u = v
    BY <2>3, <2>4, <2>5, <2>6, SameSeq
  <2> QED BY <2>1, <2>2, <2>5, <2>7
<1> QED BY <1>1, <1>2, <1>3

\* The front of an increasing sequence increases.
LEMMA IncreasingFirst ==
  ASSUME NEW S, NEW s \in Seq(S), NEW t \in Seq(S), NEW u, u = s \o t, Increasing(u)
  PROVE  Increasing(s)
<1>1. /\ Len(s) \in Nat /\ Len(t) \in Nat /\ DOMAIN s = 1 .. Len(s)
      /\ DOMAIN u = 1 .. (Len(s) + Len(t)) /\ \A i \in 1 .. Len(s) : u[i] = s[i]
  BY ConcatOf
<1>2. \A i \in 1 .. Len(s) : i \in DOMAIN u
  BY <1>1
<1> QED BY <1>1, <1>2, Zenon DEF Increasing

\* The same of the first part of a line.
LEMMA LineFirst ==
  ASSUME NEW S, NEW a \in Seq(S), NEW b \in Seq(S), NEW c \in Seq(S), NEW d \in Seq(S),
         Increasing(InLine(a, b, c, d))
  PROVE  Increasing(a)
<1>1. PICK ab \in Seq(S) : ab = a \o b
  BY ConcatFacts
<1>2. PICK abc \in Seq(S) : abc = ab \o c
  BY ConcatFacts
<1>3. PICK u : u = abc \o d /\ Increasing(u)
  BY <1>1, <1>2, Zenon DEF InLine
<1>4. Increasing(abc)
  BY <1>3, IncreasingFirst
<1>5. Increasing(ab)
  BY <1>2, <1>4, IncreasingFirst
<1> QED BY <1>1, <1>5, IncreasingFirst

\* What is at different places of an increasing sequence is different.
LEMMA CountAt ==
  ASSUME NEW s \in Seq(Nat), Increasing(s), NEW F \in SUBSET (1 .. Len(s)), NEW T,
         T = {s[k] : k \in F}
  PROVE  /\ Cardinality(T) = Cardinality(F) /\ Cardinality(F) \in Nat
         /\ T = {} <=> Cardinality(F) = 0
<1>1. Len(s) \in Nat /\ DOMAIN s = 1 .. Len(s) /\ \A k \in 1 .. Len(s) : s[k] \in Nat
  OBVIOUS
<1>2. IsFiniteSet(F) /\ Cardinality(F) \in Nat
  <2>1. IsFiniteSet(1 .. Len(s))
    BY <1>1, FS_Interval
  <2>2. IsFiniteSet(F)
    BY <2>1, FS_Subset
  <2> QED BY <2>2, FS_CardinalityType
<1>3. PICK f : f = [k \in F |-> s[k]]
  OBVIOUS
<1>4. \A i, j \in F : f[i] = f[j] => i = j
  <2>1. ASSUME NEW i \in F, NEW j \in F, i < j PROVE f[i] # f[j]
    <3>1. s[i] < s[j] /\ s[i] \in Nat /\ s[j] \in Nat
      BY <1>1, <2>1 DEF Increasing
    <3>2. f[i] = s[i] /\ f[j] = s[j]
      BY <1>3
    <3> QED BY <3>1, <3>2
  <2>2. \A i, j \in F : i < j \/ j < i \/ i = j
    BY <1>1
  <2> QED BY <2>1, <2>2, Zenon
<1>5. f \in Bijection(F, T)
  <2>1. f \in [F -> T] /\ \A x \in T : \E k \in F : f[k] = x
    BY <1>3
  <2> QED BY <1>4, <2>1 DEF Bijection, Injection, Surjection, IsInjective
<1>6. ExistsBijection(F, T)
  BY <1>5 DEF ExistsBijection
<1>7. Cardinality(T) = Cardinality(F)
  BY <1>2, <1>6, FS_Bijection
<1>8. Cardinality(F) = 0 <=> F = {}
  BY <1>2, FS_EmptySet
<1> QED BY <1>2, <1>7, <1>8

-----------------------------------------------------------------------------
(* Values that a sequence has not at all or exactly once.                  *)

Absent(i, s) == \A k \in DOMAIN s : s[k] # i

Single(i, s) == \E k \in DOMAIN s : s[k] = i /\ \A j \in DOMAIN s : s[j] = i => j = k

\* The same at the places of P only.
AbsentAt(i, s, P) == \A k \in P : s[k] # i

SingleAt(i, s, P) == \E k \in P : s[k] = i /\ \A j \in P : s[j] = i => j = k

\* What s has, as far as Absent and Single tell, is what g and t have.
Parts(s, g, t) ==
    \A i : /\ Absent(i, s) <=> Absent(i, g) /\ Absent(i, t)
           /\ Single(i, s) <=> \/ Single(i, g) /\ Absent(i, t)
                               \/ Absent(i, g) /\ Single(i, t)

\* Two sequences that Absent and Single do not tell apart.
Alike(s, t) == \A i : (Absent(i, s) <=> Absent(i, t)) /\ (Single(i, s) <=> Single(i, t))

\* What occurs once occurs.
LEMMA SingleOccurs ==
  ASSUME NEW i, NEW s, Single(i, s) PROVE ~Absent(i, s)
BY DEF Absent, Single

\* The places Q of s and, moved by n, the places R of t are the places P of u.
Laid(u, P, s, Q, t, R, n) ==
    /\ \A k \in Q : k \in P /\ u[k] = s[k]
    /\ \A k \in R : n + k \in P /\ u[n + k] = t[k]
    /\ \A k \in P : k \in Q \/ \E j \in R : k = n + j
    /\ \A k \in R : n + k \notin Q
    /\ \A k, j \in R : n + k = n + j => k = j

PartsAt(u, P, s, Q, t, R) ==
    \A i : /\ AbsentAt(i, u, P) <=> AbsentAt(i, s, Q) /\ AbsentAt(i, t, R)
           /\ SingleAt(i, u, P) <=> \/ SingleAt(i, s, Q) /\ AbsentAt(i, t, R)
                                    \/ AbsentAt(i, s, Q) /\ SingleAt(i, t, R)

\* Then u has there what s and t have.
LEMMA LaidParts ==
  ASSUME NEW u, NEW P, NEW s, NEW Q, NEW t, NEW R, NEW n, Laid(u, P, s, Q, t, R, n)
  PROVE  PartsAt(u, P, s, Q, t, R)
<1> SUFFICES ASSUME NEW i
             PROVE  /\ AbsentAt(i, u, P) <=> AbsentAt(i, s, Q) /\ AbsentAt(i, t, R)
                    /\ SingleAt(i, u, P) <=> \/ SingleAt(i, s, Q) /\ AbsentAt(i, t, R)
                                             \/ AbsentAt(i, s, Q) /\ SingleAt(i, t, R)
  BY DEF PartsAt
<1>4. AbsentAt(i, u, P) <=> AbsentAt(i, s, Q) /\ AbsentAt(i, t, R)
  <2>1. ASSUME AbsentAt(i, u, P) PROVE AbsentAt(i, s, Q) /\ AbsentAt(i, t, R)
    BY <2>1 DEF AbsentAt, Laid
  <2>2. ASSUME AbsentAt(i, s, Q), AbsentAt(i, t, R) PROVE AbsentAt(i, u, P)
    <3> SUFFICES ASSUME NEW k \in P PROVE u[k] # i
      BY DEF AbsentAt
    <3>1. CASE k \in Q
      BY <2>2, <3>1 DEF AbsentAt, Laid
    <3>2. ASSUME NEW j \in R, k = n + j PROVE u[k] # i
      BY <2>2, <3>2 DEF AbsentAt, Laid
    <3> QED BY <3>1, <3>2 DEF Laid
  <2> QED BY <2>1, <2>2
<1>5. ASSUME SingleAt(i, s, Q), AbsentAt(i, t, R) PROVE SingleAt(i, u, P)
  <2>1. PICK k \in Q : s[k] = i /\ \A j \in Q : s[j] = i => j = k
    BY <1>5 DEF SingleAt
  <2>2. k \in P /\ u[k] = i
    BY <2>1 DEF Laid
  <2>3. ASSUME NEW j \in P, u[j] = i PROVE j = k
    <3>1. CASE j \in Q
      BY <2>1, <2>3, <3>1 DEF Laid
    <3>2. ASSUME NEW l \in R, j = n + l PROVE FALSE
      BY <1>5, <2>3, <3>2 DEF Laid, AbsentAt
    <3> QED BY <3>1, <3>2 DEF Laid
  <2> QED BY <2>2, <2>3, Zenon DEF SingleAt
<1>6. ASSUME AbsentAt(i, s, Q), SingleAt(i, t, R) PROVE SingleAt(i, u, P)
  <2>1. PICK k \in R : t[k] = i /\ \A j \in R : t[j] = i => j = k
    BY <1>6 DEF SingleAt
  <2>2. n + k \in P /\ u[n + k] = i
    BY <2>1 DEF Laid
  <2>3. ASSUME NEW j \in P, u[j] = i PROVE j = n + k
    <3>1. CASE j \in Q
      BY <1>6, <2>3, <3>1 DEF Laid, AbsentAt
    <3>2. ASSUME NEW l \in R, j = n + l PROVE l = k
      BY <2>1, <2>3, <3>2 DEF Laid
    <3> QED BY <3>1, <3>2 DEF Laid
  <2> QED BY <2>2, <2>3, Zenon DEF SingleAt
<1>7. ASSUME SingleAt(i, u, P)
      PROVE  \/ SingleAt(i, s, Q) /\ AbsentAt(i, t, R)
             \/ AbsentAt(i, s, Q) /\ SingleAt(i, t, R)
  <2>1. PICK k \in P : u[k] = i /\ \A j \in P : u[j] = i => j = k
    BY <1>7 DEF SingleAt
  <2>2. \A j \in Q : s[j] = i => j = k
    BY <2>1 DEF Laid
  <2>3. \A j \in R : t[j] = i => n + j = k
    BY <2>1 DEF Laid
  <2>4. CASE k \in Q
    <3>1. s[k] = i
      BY <2>1, <2>4 DEF Laid
    <3>2. SingleAt(i, s, Q)
      BY <2>2, <2>4, <3>1, Zenon DEF SingleAt
    <3>3. AbsentAt(i, t, R)
      BY <2>3, <2>4 DEF Laid, AbsentAt
    <3> QED BY <3>2, <3>3
  <2>5. ASSUME NEW j \in R, k = n + j PROVE AbsentAt(i, s, Q) /\ SingleAt(i, t, R)
    <3>1. t[j] = i
      BY <2>1, <2>5 DEF Laid
    <3>2. \A l \in R : t[l] = i => l = j
      BY <2>3, <2>5 DEF Laid
    <3>3. SingleAt(i, t, R)
      BY <3>1, <3>2, Zenon DEF SingleAt
    <3>4. AbsentAt(i, s, Q)
      BY <2>2, <2>5 DEF Laid, AbsentAt
    <3> QED BY <3>3, <3>4
  <2> QED BY <2>1, <2>4, <2>5 DEF Laid
<1> QED BY <1>4, <1>5, <1>6, <1>7

\* Everywhere.
LEMMA Everywhere ==
  ASSUME NEW i, NEW s
  PROVE  (Absent(i, s) <=> AbsentAt(i, s, DOMAIN s)) /\ (Single(i, s) <=> SingleAt(i, s, DOMAIN s))
BY DEF Absent, Single, AbsentAt, SingleAt

\* Two intervals of numbers one after the other.
LEMMA Intervals ==
  ASSUME NEW n \in Nat, NEW m \in Nat
  PROVE  /\ \A k \in 1 .. n : k \in 1 .. (n + m)
         /\ \A k \in 1 .. m : n + k \in 1 .. (n + m) /\ n + k \notin 1 .. n
         /\ \A k \in 1 .. (n + m) : k \in 1 .. n \/ \E j \in 1 .. m : k = n + j
         /\ \A k, j \in 1 .. m : n + k = n + j => k = j
<1>1. ASSUME NEW k \in 1 .. (n + m), k \notin 1 .. n
      PROVE  k - n \in 1 .. m /\ k = n + (k - n)
  BY <1>1
<1>2. \A k \in 1 .. (n + m) : k \in 1 .. n \/ \E j \in 1 .. m : k = n + j
  BY <1>1
<1> QED BY <1>2

\* The first n places of a are those of b, the others those of c.
LEMMA PartsPlaced ==
  ASSUME NEW n \in Nat, NEW m \in Nat, NEW a, NEW b, NEW c,
         NEW P \in SUBSET (1 .. (n + m)), NEW Q \in SUBSET (1 .. n), NEW R \in SUBSET (1 .. m),
         \A k \in 1 .. n : (k \in P <=> k \in Q) /\ a[k] = b[k],
         \A k \in 1 .. m : (n + k \in P <=> k \in R) /\ a[n + k] = c[k]
  PROVE  PartsAt(a, P, b, Q, c, R)
<1>1. /\ \A k \in 1 .. n : k \in 1 .. (n + m)
      /\ \A k \in 1 .. m : n + k \in 1 .. (n + m) /\ n + k \notin 1 .. n
      /\ \A k \in 1 .. (n + m) : k \in 1 .. n \/ \E j \in 1 .. m : k = n + j
      /\ \A k, j \in 1 .. m : n + k = n + j => k = j
  BY Intervals
<1>2. \A k \in P : k \in Q \/ \E j \in R : k = n + j
  <2>1. ASSUME NEW k \in P, k \notin 1 .. n PROVE \E j \in R : k = n + j
    <3>1. PICK j \in 1 .. m : k = n + j
      BY <1>1, <2>1
    <3> QED BY <2>1, <3>1
  <2> QED BY <2>1
<1>3. /\ \A k \in Q : k \in P /\ a[k] = b[k]
      /\ \A k \in R : n + k \in P /\ a[n + k] = c[k]
      /\ \A k \in R : n + k \notin Q
      /\ \A k, j \in R : n + k = n + j => k = j
  BY <1>1
<1>4. Laid(a, P, b, Q, c, R, n)
  BY <1>2, <1>3, Zenon DEF Laid
<1> QED BY <1>4, LaidParts

\* A sequence that is two others, one after the other.
LEMMA ConcatParts ==
  ASSUME NEW S, NEW s \in Seq(S), NEW t \in Seq(S), NEW u, u = s \o t
  PROVE  Parts(u, s, t)
<1>1. /\ Len(s) \in Nat /\ Len(t) \in Nat /\ DOMAIN s = 1 .. Len(s)
      /\ DOMAIN t = 1 .. Len(t) /\ DOMAIN u = 1 .. (Len(s) + Len(t))
      /\ \A k \in 1 .. Len(s) : u[k] = s[k]
      /\ \A k \in 1 .. Len(t) : u[Len(s) + k] = t[k]
  BY ConcatOf
<1>2. PICK n \in Nat, m \in Nat :
         /\ DOMAIN s = 1 .. n /\ DOMAIN t = 1 .. m /\ DOMAIN u = 1 .. (n + m)
         /\ \A k \in 1 .. n : u[k] = s[k]
         /\ \A k \in 1 .. m : u[n + k] = t[k]
  BY <1>1
<1>3. PartsAt(u, 1 .. (n + m), s, 1 .. n, t, 1 .. m)
  <2>1. /\ \A k \in 1 .. n : k \in 1 .. (n + m)
        /\ \A k \in 1 .. m : n + k \in 1 .. (n + m)
    BY Intervals
  <2> QED BY <1>2, <2>1, PartsPlaced, ZenonT(60)
<1> QED BY <1>2, <1>3, Everywhere DEF Parts, PartsAt

\* The empty sequence has nothing.
LEMMA EmptyAbsent == ASSUME NEW i PROVE Absent(i, << >>) /\ ~Single(i, << >>)
BY DEF Absent, Single

\* A sequence of one value.
LEMMA OneSingle ==
  ASSUME NEW i, NEW x
  PROVE  (Absent(i, <<x>>) <=> x # i) /\ (Single(i, <<x>>) <=> x = i)
BY DEF Absent, Single

\* What is among the first n sequences of ss, at all and once.
AbsentAmong(i, ss, n) == \A m \in 1 .. n : Absent(i, ss[m])

SingleAmong(i, ss, n) ==
    \E m \in 1 .. n : Single(i, ss[m]) /\ \A l \in 1 .. n : l # m => Absent(i, ss[l])

\* One sequence more.
LEMMA AmongMore ==
  ASSUME NEW k \in Nat, NEW ss, NEW i
  PROVE  /\ AbsentAmong(i, ss, k + 1) <=> AbsentAmong(i, ss, k) /\ Absent(i, ss[k + 1])
         /\ SingleAmong(i, ss, k + 1) <=>
               \/ SingleAmong(i, ss, k) /\ Absent(i, ss[k + 1])
               \/ AbsentAmong(i, ss, k) /\ Single(i, ss[k + 1])
<1>1. /\ \A m \in 1 .. (k + 1) : m \in 1 .. k \/ m = k + 1
      /\ \A m \in 1 .. k : m \in 1 .. (k + 1) /\ m # k + 1
      /\ k + 1 \in 1 .. (k + 1)
  OBVIOUS
<1>2. AbsentAmong(i, ss, k + 1) <=> AbsentAmong(i, ss, k) /\ Absent(i, ss[k + 1])
  BY <1>1, Zenon DEF AbsentAmong
<1>3. ASSUME SingleAmong(i, ss, k), Absent(i, ss[k + 1]) PROVE SingleAmong(i, ss, k + 1)
  BY <1>1, <1>3 DEF SingleAmong
<1>4. ASSUME AbsentAmong(i, ss, k), Single(i, ss[k + 1]) PROVE SingleAmong(i, ss, k + 1)
  BY <1>1, <1>4 DEF SingleAmong, AbsentAmong
<1>5. ASSUME SingleAmong(i, ss, k + 1)
      PROVE  \/ SingleAmong(i, ss, k) /\ Absent(i, ss[k + 1])
             \/ AbsentAmong(i, ss, k) /\ Single(i, ss[k + 1])
  <2>1. PICK m \in 1 .. (k + 1) :
           Single(i, ss[m]) /\ \A l \in 1 .. (k + 1) : l # m => Absent(i, ss[l])
    BY <1>5 DEF SingleAmong
  <2>2. CASE m = k + 1
    BY <1>1, <2>1, <2>2 DEF AbsentAmong
  <2>3. CASE m \in 1 .. k
    BY <1>1, <2>1, <2>3 DEF SingleAmong
  <2> QED BY <1>1, <2>2, <2>3
<1> QED BY <1>2, <1>3, <1>4, <1>5

\* What a join has is among its sequences.
LEMMA JoinedHas ==
  ASSUME NEW S, NEW ss \in Seq(Seq(S)), NEW i
  PROVE  /\ Absent(i, Joined(ss)) <=> AbsentAmong(i, ss, Len(ss))
         /\ Single(i, Joined(ss)) <=> SingleAmong(i, ss, Len(ss))
<1>1. PICK n \in Nat : n = Len(ss)
  OBVIOUS
<1>2. PICK Q : IsSeqSet(Q, S)
  BY DEF IsSeqSet
<1>3. ss \in Seq(Q)
  BY <1>2 DEF IsSeqSet
<1>4. /\ JoinedTo(ss, 0) = << >> /\ JoinedTo(ss, n) = Joined(ss)
      /\ \A k \in 0 .. n : JoinedTo(ss, k) \in Q
      /\ \A k \in Nat : k + 1 <= n =>
            ss[k + 1] \in Q /\ JoinedTo(ss, k + 1) = JoinedTo(ss, k) \o ss[k + 1]
  BY <1>1, <1>2, <1>3, JoinedToIs
<1> DEFINE T == {k \in Nat : k <= n =>
                   /\ Absent(i, JoinedTo(ss, k)) <=> AbsentAmong(i, ss, k)
                   /\ Single(i, JoinedTo(ss, k)) <=> SingleAmong(i, ss, k)}
<1>5. 0 \in T
  <2>1. AbsentAmong(i, ss, 0) /\ ~SingleAmong(i, ss, 0)
    <3>1. \A m \in 1 .. 0 : FALSE
      OBVIOUS
    <3> QED BY <3>1 DEF AbsentAmong, SingleAmong
  <2> QED BY <1>4, <2>1, EmptyAbsent
<1>6. ASSUME NEW k \in Nat, k \in T PROVE k + 1 \in T
  <2> SUFFICES ASSUME k + 1 <= n
               PROVE  /\ Absent(i, JoinedTo(ss, k + 1)) <=> AbsentAmong(i, ss, k + 1)
                      /\ Single(i, JoinedTo(ss, k + 1)) <=> SingleAmong(i, ss, k + 1)
    OBVIOUS
  <2>1. k \in 0 .. n /\ k <= n
    OBVIOUS
  <2>2. /\ Absent(i, JoinedTo(ss, k)) <=> AbsentAmong(i, ss, k)
        /\ Single(i, JoinedTo(ss, k)) <=> SingleAmong(i, ss, k)
    BY <1>6, <2>1
  <2>0. PICK c : c = JoinedTo(ss, k + 1)
    OBVIOUS
  <2>3. PICK a \in Seq(S), b \in Seq(S) :
          a = JoinedTo(ss, k) /\ b = ss[k + 1] /\ c = a \o b
    BY <1>2, <1>4, <2>0, <2>1 DEF IsSeqSet
  <2>4. Parts(c, a, b)
    BY <2>3, ConcatParts
  <2>5. /\ Absent(i, c) <=> Absent(i, a) /\ Absent(i, b)
        /\ Single(i, c) <=> \/ Single(i, a) /\ Absent(i, b)
                            \/ Absent(i, a) /\ Single(i, b)
    BY <2>4 DEF Parts
  <2>6. /\ AbsentAmong(i, ss, k + 1) <=> AbsentAmong(i, ss, k) /\ Absent(i, ss[k + 1])
        /\ SingleAmong(i, ss, k + 1) <=>
               \/ SingleAmong(i, ss, k) /\ Absent(i, ss[k + 1])
               \/ AbsentAmong(i, ss, k) /\ Single(i, ss[k + 1])
    BY AmongMore
  <2> QED BY <2>0, <2>2, <2>3, <2>5, <2>6
<1> HIDE DEF T
<1>7. n \in T
  BY <1>5, <1>6, NatSetInduction
<1> QED BY <1>1, <1>4, <1>7 DEF T

\* What is picked from s is what s has at those places.
LEMMA PickHas ==
  ASSUME NEW S, NEW s \in Seq(S), NEW P \in SUBSET (1 .. Len(s)), NEW i
  PROVE  /\ Absent(i, PickAt(s, P)) <=> AbsentAt(i, s, P)
         /\ Single(i, PickAt(s, P)) <=> SingleAt(i, s, P)
<1>1. PICK n \in Nat : n = Len(s)
  OBVIOUS
<1>2. PICK w : w = [k \in 1 .. n |-> IF k \in P THEN <<s[k]>> ELSE << >>]
  OBVIOUS
<1>3. w \in Seq(Seq(S)) /\ Len(w) = n
  <2>1. \A k \in 1 .. n : <<s[k]>> \in Seq(S) /\ << >> \in Seq(S)
    BY <1>1
  <2> QED BY <1>2, <2>1
<1>4. PickAt(s, P) = Joined(w)
  BY <1>1, <1>2 DEF PickAt
<1>5. \A k \in 1 .. n : /\ k \in P => w[k] = <<s[k]>>
                        /\ k \notin P => w[k] = << >>
  BY <1>2
<1>6. \A k \in 1 .. n : /\ Absent(i, w[k]) <=> ~(k \in P /\ s[k] = i)
                        /\ Single(i, w[k]) <=> k \in P /\ s[k] = i
  <2> TAKE k \in 1 .. n
  <2>1. /\ Absent(i, <<s[k]>>) <=> s[k] # i
        /\ Single(i, <<s[k]>>) <=> s[k] = i
    BY OneSingle, Zenon
  <2>2. Absent(i, << >>) /\ ~Single(i, << >>)
    BY EmptyAbsent, Zenon
  <2>3. CASE k \in P
    BY <1>5, <2>1, <2>3
  <2>4. CASE k \notin P
    BY <1>5, <2>2, <2>4
  <2> QED BY <2>3, <2>4
<1>7. /\ Absent(i, Joined(w)) <=> AbsentAmong(i, w, n)
      /\ Single(i, Joined(w)) <=> SingleAmong(i, w, n)
  BY <1>3, JoinedHas
<1>8. \A k \in P : k \in 1 .. n
  BY <1>1
<1>9. AbsentAmong(i, w, n) <=> AbsentAt(i, s, P)
  BY <1>6, <1>8, Zenon DEF AbsentAmong, AbsentAt
<1>10. ASSUME SingleAmong(i, w, n) PROVE SingleAt(i, s, P)
  <2>1. PICK m \in 1 .. n : Single(i, w[m]) /\ \A l \in 1 .. n : l # m => Absent(i, w[l])
    BY <1>10 DEF SingleAmong
  <2>2. m \in P /\ s[m] = i
    BY <1>6, <2>1
  <2>3. \A j \in P : s[j] = i => j = m
    BY <1>6, <1>8, <2>1
  <2> QED BY <2>2, <2>3, Zenon DEF SingleAt
<1>11. ASSUME SingleAt(i, s, P) PROVE SingleAmong(i, w, n)
  <2>1. PICK m \in P : s[m] = i /\ \A j \in P : s[j] = i => j = m
    BY <1>11 DEF SingleAt
  <2>2. m \in 1 .. n /\ Single(i, w[m])
    BY <1>6, <1>8, <2>1
  <2>3. \A l \in 1 .. n : l # m => Absent(i, w[l])
    BY <1>6, <2>1
  <2> QED BY <2>2, <2>3, Zenon DEF SingleAmong
<1> QED BY <1>4, <1>7, <1>9, <1>10, <1>11

\* What is picked at places and at others that are apart from them.
LEMMA PickParts ==
  ASSUME NEW S, NEW s \in Seq(S), NEW P \in SUBSET (1 .. Len(s)), NEW F \in SUBSET P,
         NEW G, G = P \ F
  PROVE  Parts(PickAt(s, P), PickAt(s, F), PickAt(s, G))
<1>1. F \in SUBSET (1 .. Len(s)) /\ G \in SUBSET (1 .. Len(s))
  OBVIOUS
<1>2. ASSUME NEW i
      PROVE  /\ AbsentAt(i, s, P) <=> AbsentAt(i, s, F) /\ AbsentAt(i, s, G)
             /\ SingleAt(i, s, P) <=> \/ SingleAt(i, s, F) /\ AbsentAt(i, s, G)
                                      \/ AbsentAt(i, s, F) /\ SingleAt(i, s, G)
  <2>1. \A k : k \in P <=> k \in F \/ k \in G
    OBVIOUS
  <2>2. \A k : ~(k \in F /\ k \in G)
    OBVIOUS
  <2> QED BY <2>1, <2>2 DEF AbsentAt, SingleAt
<1>3. ASSUME NEW i
      PROVE  /\ Absent(i, PickAt(s, P)) <=> AbsentAt(i, s, P)
             /\ Single(i, PickAt(s, P)) <=> SingleAt(i, s, P)
             /\ Absent(i, PickAt(s, F)) <=> AbsentAt(i, s, F)
             /\ Single(i, PickAt(s, F)) <=> SingleAt(i, s, F)
             /\ Absent(i, PickAt(s, G)) <=> AbsentAt(i, s, G)
             /\ Single(i, PickAt(s, G)) <=> SingleAt(i, s, G)
  BY <1>1, PickHas
<1> QED BY <1>2, <1>3 DEF Parts

\* A sequence of values that each occur once is as long as they are many.
LEMMA SinglesCount ==
  ASSUME NEW S, NEW s \in Seq(S), \A i \in S : Absent(i, s) \/ Single(i, s)
  PROVE  Cardinality({s[k] : k \in DOMAIN s}) = Len(s)
<1>1. PICK n \in Nat : n = Len(s) /\ DOMAIN s = 1 .. n /\ \A k \in 1 .. n : s[k] \in S
  OBVIOUS
<1>2. PICK T : T = {s[k] : k \in 1 .. n}
  OBVIOUS
<1>3. PICK f : f = [k \in 1 .. n |-> s[k]]
  OBVIOUS
<1>4. \A j, k \in 1 .. n : f[j] = f[k] => j = k
  <2>1. ASSUME NEW j \in 1 .. n, NEW k \in 1 .. n, s[j] = s[k] PROVE j = k
    <3>1. Absent(s[k], s) \/ Single(s[k], s)
      BY <1>1
    <3>2. ~Absent(s[k], s)
      BY <1>1 DEF Absent
    <3>3. PICK l \in 1 .. n : \A m \in 1 .. n : s[m] = s[k] => m = l
      BY <1>1, <3>1, <3>2 DEF Single
    <3> QED BY <2>1, <3>3
  <2> QED BY <1>3, <2>1
<1>5. f \in [1 .. n -> T] /\ \A x \in T : \E k \in 1 .. n : f[k] = x
  BY <1>2, <1>3
<1>6. f \in Bijection(1 .. n, T)
  BY <1>4, <1>5 DEF Bijection, Injection, Surjection, IsInjective
<1>7. ExistsBijection(1 .. n, T)
  BY <1>6 DEF ExistsBijection
<1>8. IsFiniteSet(1 .. n) /\ Cardinality(1 .. n) = n
  <2>1. IsFiniteSet(1 .. n) /\ Cardinality(1 .. n) = IF 1 > n THEN 0 ELSE n - 1 + 1
    BY FS_Interval
  <2> QED BY <2>1
<1>9. Cardinality(T) = Cardinality(1 .. n)
  BY <1>7, <1>8, FS_Bijection
<1> QED BY <1>1, <1>2, <1>8, <1>9

\* The values of a sequence are in its set, those outside are absent.
LEMMA OutsideAbsent ==
  ASSUME NEW S, NEW s \in Seq(S), NEW i, i \notin S PROVE Absent(i, s)
BY DEF Absent

-----------------------------------------------------------------------------
(* The entries of a queue that are not issued.                             *)

\* The instructions of the open entries.
OpenInsts(entries) == PickAt(InstsOf(entries), Open(entries))

\* Which of them there are.
LEMMA OpenHas ==
  ASSUME NEW I, NEW E, \A e \in E : e.inst \in I, NEW s \in Seq(E), NEW i
  PROVE  /\ Absent(i, OpenInsts(s)) <=> \A k \in Open(s) : s[k].inst # i
         /\ Single(i, OpenInsts(s)) <=>
               \E k \in Open(s) : s[k].inst = i /\ \A j \in Open(s) : s[j].inst = i => j = k
<1>1. InstsOf(s) \in Seq(I) /\ Len(InstsOf(s)) = Len(s)
  BY InstsOfParts
<1>2. Open(s) \in SUBSET (1 .. Len(InstsOf(s)))
  BY <1>1 DEF Open
<1>3. \A k \in Open(s) : InstsOf(s)[k] = s[k].inst
  BY DEF InstsOf, Open
<1>4. PICK t \in Seq(I) : t = InstsOf(s)
  BY <1>1
<1>5. PICK P \in SUBSET (1 .. Len(t)) : P = Open(s)
  BY <1>2, <1>4
<1>6. /\ Absent(i, PickAt(t, P)) <=> AbsentAt(i, t, P)
      /\ Single(i, PickAt(t, P)) <=> SingleAt(i, t, P)
  BY PickHas
<1>7. \A k \in P : t[k] = s[k].inst
  BY <1>3, <1>4, <1>5
<1>8. AbsentAt(i, t, P) <=> \A k \in P : s[k].inst # i
  BY <1>7, Zenon DEF AbsentAt
<1>9. SingleAt(i, t, P) <=>
         \E k \in P : s[k].inst = i /\ \A j \in P : s[j].inst = i => j = k
  BY <1>7 DEF SingleAt
<1> QED BY <1>4, <1>5, <1>6, <1>8, <1>9, Zenon DEF OpenInsts

\* Entries that are open join the queue.
LEMMA OpenAppended ==
  ASSUME NEW I, NEW E, \A e \in E : e.inst \in I, NEW s \in Seq(E), NEW g \in Seq(E),
         \A k \in 1 .. Len(g) : ~g[k].is_issued, NEW u, u = s \o g
  PROVE  Parts(OpenInsts(u), OpenInsts(s), InstsOf(g))
<1>1. /\ u \in Seq(E) /\ Len(s) \in Nat /\ Len(g) \in Nat /\ Len(u) = Len(s) + Len(g)
      /\ \A k \in 1 .. Len(s) : u[k] = s[k]
      /\ \A k \in 1 .. Len(g) : u[Len(s) + k] = g[k]
  BY ConcatOf
<1>2. PICK n \in Nat, m \in Nat : n = Len(s) /\ m = Len(g)
  BY <1>1
<1>3. /\ \A k \in 1 .. n : k \in 1 .. (n + m)
      /\ \A k \in 1 .. m : n + k \in 1 .. (n + m) /\ n + k \notin 1 .. n
      /\ \A k \in 1 .. (n + m) : k \in 1 .. n \/ \E j \in 1 .. m : k = n + j
      /\ \A k, j \in 1 .. m : n + k = n + j => k = j
  BY Intervals
<1>4. /\ InstsOf(u) \in Seq(I) /\ Len(InstsOf(u)) = n + m
      /\ InstsOf(s) \in Seq(I) /\ Len(InstsOf(s)) = n
      /\ InstsOf(g) \in Seq(I) /\ Len(InstsOf(g)) = m
  BY <1>1, <1>2, InstsOfParts, ZenonT(60)
<1>5. /\ \A k \in 1 .. (n + m) : InstsOf(u)[k] = u[k].inst
      /\ \A k \in 1 .. n : InstsOf(s)[k] = s[k].inst
      /\ \A k \in 1 .. m : InstsOf(g)[k] = g[k].inst
  BY <1>1, <1>2 DEF InstsOf
<1>6. /\ Open(u) = {k \in 1 .. (n + m) : ~u[k].is_issued}
      /\ Open(s) = {k \in 1 .. n : ~s[k].is_issued}
  BY <1>1, <1>2 DEF Open
<1>7. /\ \A k \in 1 .. n : u[k] = s[k]
      /\ \A k \in 1 .. m : u[n + k] = g[k] /\ ~g[k].is_issued
  BY <1>1, <1>2
<1>8. PartsAt(InstsOf(u), Open(u), InstsOf(s), Open(s), InstsOf(g), 1 .. m)
  <2>1. \A k \in 1 .. n : /\ k \in Open(u) <=> k \in Open(s)
                          /\ InstsOf(u)[k] = InstsOf(s)[k]
    <3> TAKE k \in 1 .. n
    <3>1. k \in 1 .. (n + m) /\ u[k] = s[k]
      BY <1>3, <1>7, Zenon
    <3>2. InstsOf(u)[k] = u[k].inst /\ InstsOf(s)[k] = s[k].inst
      BY <1>5, <3>1, Zenon
    <3> QED BY <1>6, <3>1, <3>2
  <2>2. \A k \in 1 .. m : /\ n + k \in Open(u) <=> k \in 1 .. m
                          /\ InstsOf(u)[n + k] = InstsOf(g)[k]
    <3> TAKE k \in 1 .. m
    <3>1. n + k \in 1 .. (n + m) /\ u[n + k] = g[k] /\ ~g[k].is_issued
      BY <1>3, <1>7
    <3> QED BY <1>5, <1>6, <3>1
  <2>3. /\ Open(u) \in SUBSET (1 .. (n + m)) /\ Open(s) \in SUBSET (1 .. n)
        /\ 1 .. m \in SUBSET (1 .. m)
    BY <1>6
  <2> HIDE DEF Open, InstsOf
  <2> QED BY <2>1, <2>2, <2>3, PartsPlaced
<1>9. PICK a \in Seq(I), b \in Seq(I), c \in Seq(I) :
         /\ a = InstsOf(u) /\ b = InstsOf(s) /\ c = InstsOf(g)
         /\ Len(a) = n + m /\ Len(b) = n /\ Len(c) = m
  BY <1>4
<1>10. PICK P \in SUBSET (1 .. Len(a)), Q \in SUBSET (1 .. Len(b)) : P = Open(u) /\ Q = Open(s)
  BY <1>6, <1>9
<1>11. PartsAt(a, P, b, Q, c, 1 .. m)
  BY <1>8, <1>9, <1>10
<1>12. ASSUME NEW i
       PROVE  /\ Absent(i, PickAt(a, P)) <=> AbsentAt(i, a, P)
              /\ Single(i, PickAt(a, P)) <=> SingleAt(i, a, P)
              /\ Absent(i, PickAt(b, Q)) <=> AbsentAt(i, b, Q)
              /\ Single(i, PickAt(b, Q)) <=> SingleAt(i, b, Q)
  BY PickHas
<1>13. DOMAIN c = 1 .. m
  BY <1>9
<1>14. ASSUME NEW i
       PROVE  /\ Absent(i, c) <=> AbsentAt(i, c, 1 .. m)
              /\ Single(i, c) <=> SingleAt(i, c, 1 .. m)
  BY <1>13, Everywhere
<1>15. Parts(PickAt(a, P), PickAt(b, Q), c)
  BY <1>11, <1>12, <1>14 DEF Parts, PartsAt
<1> QED BY <1>9, <1>10, <1>15 DEF OpenInsts

\* Entries that are not open leave from the front.
LEMMA OpenLeft ==
  ASSUME NEW I, NEW E, \A e \in E : e.inst \in I, NEW s \in Seq(E), NEW k \in Nat, k <= Len(s),
         \A j \in 1 .. k : s[j].is_issued, NEW t, t = SubSeq(s, k + 1, Len(s))
  PROVE  Alike(OpenInsts(s), OpenInsts(t))
<1>1. PICK m \in Nat : Len(s) = k + m /\ Len(t) = m
  <2>1. Len(s) \in Nat /\ Len(s) - k \in Nat /\ Len(s) = k + (Len(s) - k)
    OBVIOUS
  <2>2. Len(t) = Len(s) - k
    BY SplitFacts
  <2> QED BY <2>1, <2>2
<1>2. t \in Seq(E) /\ InstsOf(s) \in Seq(I) /\ InstsOf(t) \in Seq(I)
  <2>1. t \in Seq(E)
    BY SplitFacts
  <2> QED BY <2>1, InstsOfParts
<1>3. \A j \in 1 .. m : t[j] = s[k + j]
  BY <1>1
<1>4. /\ Len(InstsOf(s)) = k + m /\ Len(InstsOf(t)) = m
      /\ \A j \in 1 .. (k + m) : InstsOf(s)[j] = s[j].inst
      /\ \A j \in 1 .. m : InstsOf(t)[j] = t[j].inst
  <2>1. DOMAIN s = 1 .. (k + m) /\ DOMAIN t = 1 .. m
    BY <1>1, <1>2
  <2>2. Len(InstsOf(s)) = Len(s) /\ Len(InstsOf(t)) = Len(t)
    BY <1>2, InstsOfParts
  <2> QED BY <1>1, <2>1, <2>2 DEF InstsOf
<1>5. /\ Open(s) = {j \in 1 .. (k + m) : ~s[j].is_issued}
      /\ Open(t) = {j \in 1 .. m : ~t[j].is_issued}
  BY <1>1 DEF Open
<1>6. /\ \A j \in 1 .. k : j \in 1 .. (k + m)
      /\ \A j \in 1 .. m : k + j \in 1 .. (k + m)
  BY Intervals
<1>7. PartsAt(InstsOf(s), Open(s), InstsOf(s), {}, InstsOf(t), Open(t))
  <2>1. \A j \in 1 .. k : /\ j \in Open(s) <=> j \in {}
                          /\ InstsOf(s)[j] = InstsOf(s)[j]
    BY <1>5
  <2>2. \A j \in 1 .. m : /\ k + j \in Open(s) <=> j \in Open(t)
                          /\ InstsOf(s)[k + j] = InstsOf(t)[j]
    <3> TAKE j \in 1 .. m
    <3>1. k + j \in 1 .. (k + m) /\ t[j] = s[k + j]
      BY <1>3, <1>6, Zenon
    <3>2. k + j \in Open(s) <=> j \in Open(t)
      BY <1>5, <3>1
    <3>3. InstsOf(s)[k + j] = s[k + j].inst /\ InstsOf(t)[j] = t[j].inst
      BY <1>4, <3>1, Zenon
    <3> QED BY <3>1, <3>2, <3>3
  <2>3. /\ Open(s) \in SUBSET (1 .. (k + m)) /\ {} \in SUBSET (1 .. k)
        /\ Open(t) \in SUBSET (1 .. m)
    BY <1>5
  <2> QED BY <2>1, <2>2, <2>3, PartsPlaced
<1>8. PICK a \in Seq(I), b \in Seq(I) :
         a = InstsOf(s) /\ b = InstsOf(t) /\ Len(a) = k + m /\ Len(b) = m
  BY <1>2, <1>4
<1>9. PICK P \in SUBSET (1 .. Len(a)), Q \in SUBSET (1 .. Len(b)) : P = Open(s) /\ Q = Open(t)
  BY <1>5, <1>8
<1>10. PartsAt(a, P, a, {}, b, Q)
  BY <1>7, <1>8, <1>9
<1>11. \A i : AbsentAt(i, a, {}) /\ ~SingleAt(i, a, {})
  BY DEF AbsentAt, SingleAt
<1>12. ASSUME NEW i
       PROVE  /\ Absent(i, PickAt(a, P)) <=> AbsentAt(i, a, P)
              /\ Single(i, PickAt(a, P)) <=> SingleAt(i, a, P)
              /\ Absent(i, PickAt(b, Q)) <=> AbsentAt(i, b, Q)
              /\ Single(i, PickAt(b, Q)) <=> SingleAt(i, b, Q)
  BY PickHas
<1>13. Alike(PickAt(a, P), PickAt(b, Q))
  BY <1>10, <1>11, <1>12 DEF PartsAt, Alike
<1> QED BY <1>8, <1>9, <1>13 DEF OpenInsts

\* Entries are marked issued: they are taken out.
LEMMA OpenTaken ==
  ASSUME NEW I, NEW E, \A e \in E : e.inst \in I, NEW s \in Seq(E), NEW t \in Seq(E),
         Len(t) = Len(s), \A k \in 1 .. Len(s) : t[k].inst = s[k].inst,
         NEW F \in SUBSET Open(s),
         \A k \in 1 .. Len(s) : ~t[k].is_issued <=> ~s[k].is_issued /\ k \notin F
  PROVE  Parts(OpenInsts(s), PickAt(InstsOf(s), F), OpenInsts(t))
<1>1. InstsOf(s) \in Seq(I) /\ Len(InstsOf(s)) = Len(s) /\ InstsOf(t) = InstsOf(s)
  <2>1. InstsOf(s) \in Seq(I) /\ Len(InstsOf(s)) = Len(s)
    BY InstsOfParts
  <2>2. InstsOf(t) \in Seq(I) /\ Len(InstsOf(t)) = Len(t)
    BY InstsOfParts
  <2>3. \A k \in 1 .. Len(s) : InstsOf(t)[k] = InstsOf(s)[k]
    BY DEF InstsOf
  <2> QED BY <2>1, <2>2, <2>3, SameSeq
<1>2. Open(t) = Open(s) \ F
  BY DEF Open
<1>3. PICK a \in Seq(I) : a = InstsOf(s) /\ Len(a) = Len(s)
  BY <1>1
<1>4. PICK P \in SUBSET (1 .. Len(a)) : P = Open(s)
  BY <1>2, <1>3 DEF Open
<1>6. PICK G \in SUBSET P : G = P \ F
  OBVIOUS
<1>5. Parts(PickAt(a, P), PickAt(a, F), PickAt(a, G))
  BY <1>4, <1>6, PickParts
<1> QED BY <1>1, <1>2, <1>3, <1>4, <1>5, <1>6 DEF OpenInsts
=============================================================================
