-------------------------- MODULE SequentialProofs --------------------------
(***************************************************************************)
(* Proofs about the parts that run by themselves, one after the other:     *)
(* splitting a slice, the HTTP messages, the sorted array, the command     *)
(* line options and the URL coding.  The JSON text is in JsonWriterProofs  *)
(* and JsonTextProofs.                                                     *)
(***************************************************************************)
EXTENDS HttpMessage, SortedArray, CommandLine, UrlCoding,
        SequenceTheorems, FiniteSetTheorems, WellFoundedInduction, TLAPS

(***************************************************************************)
(* What Split returns, for every sequence and every delimiter, and the     *)
(* lemmas on recursive functions and sequences that it rests on.           *)
(*                                                                         *)
(* An induction is one over a set: the numbers that have the property.     *)
(* That the set is all of Nat follows from WFMin, since a number outside   *)
(* it would leave a least one.                                             *)
(***************************************************************************)

(***************************************************************************)
(* What Split returns, for every sequence and every delimiter, and the     *)
(* lemmas on recursive functions and sequences that it rests on.           *)
(*                                                                         *)
(* An induction is one over a set: the numbers that have the property.     *)
(* That the set is all of Nat follows from WFMin, since a number outside   *)
(* it would leave a least one.                                             *)
(***************************************************************************)

LEMMA NatInduct ==
  ASSUME NEW S, 0 \in S, \A n \in Nat : n \in S => n + 1 \in S
  PROVE  Nat \subseteq S
<1> DEFINE R == OpToRel(<, Nat)
<1>1. IsWellFoundedOn(R, Nat)
  BY NatLessThanWellFounded
<1>2. \A x, y \in Nat : y < x => <<y, x>> \in R
  BY DEF OpToRel
<1> HIDE DEF R
<1> SUFFICES ASSUME Nat \ S # {} PROVE FALSE
  OBVIOUS
<1>3. PICK x \in Nat \ S : \A y \in Nat \ S : <<y, x>> \notin R
  <2>1. Nat \ S \subseteq Nat
    OBVIOUS
  <2> QED
    BY <2>1, <1>1, WFMin, Zenon
<1>4. x # 0 /\ x - 1 \in Nat /\ (x - 1) + 1 = x
  OBVIOUS
<1>5. x - 1 \in S
  <2>1. <<x - 1, x>> \in R
    BY <1>2, <1>4
  <2> QED
    BY <2>1, <1>3, <1>4, Zenon
<1> QED
  BY <1>4, <1>5

\* Induction up an interval.
LEMMA IntervalInduct ==
  ASSUME NEW m \in Int, NEW n \in Int, NEW S,
         m \in S, \A i \in m..(n - 1) : i \in S => i + 1 \in S
  PROVE  m..n \subseteq S
<1> DEFINE T == {k \in Nat : m + k <= n => m + k \in S}
<1>1. 0 \in T
  BY m + 0 = m
<1>2. ASSUME NEW k \in Nat, k \in T PROVE k + 1 \in T
  <2> SUFFICES ASSUME m + (k + 1) <= n PROVE m + (k + 1) \in S
    OBVIOUS
  <2>1. m + k \in m..(n - 1) /\ (m + k) + 1 = m + (k + 1)
    OBVIOUS
  <2>2. m + k \in S
    BY <1>2, <2>1
  <2>3. (m + k) + 1 \in S
    BY <2>1, <2>2
  <2> QED
    BY <2>1, <2>3
<1> HIDE DEF T
<1>3. Nat \subseteq T
  BY <1>1, <1>2, NatInduct
<1> USE DEF T
<1> SUFFICES ASSUME NEW i \in m..n PROVE i \in S
  OBVIOUS
<1>4. i - m \in Nat /\ m + (i - m) = i /\ i <= n
  OBVIOUS
<1>5. i - m \in T
  BY <1>3, <1>4
<1> QED
  BY <1>4, <1>5

\* A set of natural numbers has a least one.
LEMMA LeastNumber ==
  ASSUME NEW T \in SUBSET Nat, T # {}
  PROVE  \E x \in T : \A y \in T : x <= y
<1> DEFINE R == OpToRel(<, Nat)
<1>1. IsWellFoundedOn(R, Nat)
  BY NatLessThanWellFounded
<1>2. \A x, y \in Nat : y < x => <<y, x>> \in R
  BY DEF OpToRel
<1> HIDE DEF R
<1>3. PICK x \in T : \A y \in T : <<y, x>> \notin R
  BY <1>1, WFMin, Zenon
<1>4. \A y \in T : x <= y
  <2> SUFFICES ASSUME NEW y \in T, y < x PROVE FALSE
    OBVIOUS
  <2> QED
    BY <1>2, <1>3
<1> QED
  BY <1>4

\* A recursive function: f[m] = c and f[i] = D[i][f[i - 1]].
Runs(f, m, n, c, D) ==
    \A i \in m..n : f[i] = IF i = m THEN c ELSE D[i][f[i - 1]]

LEMMA Recursion ==
  ASSUME NEW V, NEW c \in V, NEW D \in [Int -> [V -> V]], NEW m \in Int, NEW n \in Int
  PROVE  \E f \in [m..n -> V] : Runs(f, m, n, c, D)
<1> USE DEF Runs
<1> DEFINE Upto(g, k) == /\ g \in [m..(m + k) -> V] /\ g[m] = c
                         /\ \A i \in (m + 1)..(m + k) : g[i] = D[i][g[i - 1]]
<1> DEFINE T == {k \in Nat : \E g : Upto(g, k)}
<1>1. 0 \in T
  <2>1. Upto([i \in m..m |-> c], 0)
    BY m + 0 = m
  <2> QED
    BY <2>1, Zenon
<1>2. ASSUME NEW k \in Nat, k \in T PROVE k + 1 \in T
  <2>1. PICK g : Upto(g, k)
    BY <1>2
  <2> DEFINE h == [i \in m..(m + (k + 1)) |->
                       IF i <= m + k THEN g[i] ELSE D[i][g[m + k]]]
  <2>2. h \in [m..(m + (k + 1)) -> V] /\ h[m] = c
    BY <2>1
  <2>3. ASSUME NEW i \in (m + 1)..(m + (k + 1)) PROVE h[i] = D[i][h[i - 1]]
    <3>1. i \in m..(m + (k + 1)) /\ i - 1 \in m..(m + (k + 1)) /\ i - 1 <= m + k
      OBVIOUS
    <3>2. h[i - 1] = g[i - 1]
      BY <3>1
    <3>3. CASE i <= m + k
      <4>1. i \in (m + 1)..(m + k) /\ h[i] = g[i]
        BY <3>1, <3>3
      <4> QED
        BY <2>1, <3>2, <4>1, Zenon
    <3>4. CASE i > m + k
      <4>1. i - 1 = m + k /\ h[i] = D[i][g[m + k]]
        BY <3>1, <3>4
      <4> QED
        BY <3>2, <4>1, Zenon
    <3> QED
      BY <3>3, <3>4
  <2>4. k + 1 \in Nat
    OBVIOUS
  <2> HIDE DEF h
  <2>5. Upto(h, k + 1)
    BY <2>2, <2>3
  <2> QED
    BY <2>4, <2>5, Zenon
<1> HIDE DEF T
<1>3. Nat \subseteq T
  BY <1>1, <1>2, NatInduct
<1>4. CASE n < m
  <2>1. m..n = {}
    BY <1>4
  <2> DEFINE f == [i \in m..n |-> c]
  <2>2. f \in [m..n -> V] /\ \A i \in m..n : f[i] = IF i = m THEN c ELSE D[i][f[i - 1]]
    BY <2>1
  <2> HIDE DEF f
  <2> QED
    BY <2>2, Zenon
<1>5. CASE n >= m
  <2>1. n - m \in Nat /\ m + (n - m) = n
    BY <1>5
  <2>2. PICK f : Upto(f, n - m)
    BY <1>3, <2>1 DEF T
  <2>3. f \in [m..n -> V]
    BY <2>1, <2>2
  <2>4. \A i \in m..n : f[i] = IF i = m THEN c ELSE D[i][f[i - 1]]
    <3> SUFFICES ASSUME NEW i \in m..n, i # m PROVE f[i] = D[i][f[i - 1]]
      BY <2>2
    <3>1. i \in (m + 1)..(m + (n - m))
      BY <2>1
    <3> QED
      BY <3>1, <2>2, Zenon
  <2> QED
    BY <2>3, <2>4, Zenon
<1> QED
  BY <1>4, <1>5

-----------------------------------------------------------------------------
(* FlattenSeq. *)

\* The function FlattenSeq computes.
FlatRun(ss) ==
    CHOOSE f : f = [i \in 1..Len(ss) |-> IF i = 1 THEN ss[i] ELSE f[i - 1] \o ss[i]]

LEMMA FlatRunIs ==
  ASSUME NEW U, \A a, b \in U : a \o b \in U, NEW ss \in Seq(U), ss # <<>>
  PROVE  /\ FlatRun(ss) \in [1..Len(ss) -> U]
         /\ FlatRun(ss)[1] = ss[1]
         /\ \A i \in 2..Len(ss) : FlatRun(ss)[i] = FlatRun(ss)[i - 1] \o ss[i]
<1> DEFINE n == Len(ss)
<1>1. n \in Nat /\ n >= 1 /\ \A i \in 1..n : ss[i] \in U
  OBVIOUS
<1> HIDE DEF n
<1> DEFINE D == [i \in Int |-> [a \in U |-> IF i \in 1..n THEN a \o ss[i] ELSE a]]
<1>2. D \in [Int -> [U -> U]]
  BY <1>1
<1>3. \A i \in 1..n : \A a \in U : D[i][a] = a \o ss[i]
  BY <1>1
<1> HIDE DEF D
<1>4. ss[1] \in U /\ 1 \in Int /\ n \in Int
  BY <1>1
<1>5. PICK f \in [1..n -> U] : Runs(f, 1, n, ss[1], D)
  BY <1>2, <1>4, Recursion, Zenon
<1>6. \A i \in 1..n : i # 1 => D[i][f[i - 1]] = f[i - 1] \o ss[i]
  <2> SUFFICES ASSUME NEW i \in 1..n, i # 1 PROVE D[i][f[i - 1]] = f[i - 1] \o ss[i]
    OBVIOUS
  <2>1. f[i - 1] \in U
    BY <1>1
  <2> QED
    BY <1>3, <2>1
<1>7. f = [i \in 1..n |-> IF i = 1 THEN ss[i] ELSE f[i - 1] \o ss[i]]
  <2>1. \A i \in 1..n : f[i] = IF i = 1 THEN ss[i] ELSE f[i - 1] \o ss[i]
    BY <1>5, <1>6 DEF Runs
  <2> QED
    BY <2>1
<1> DEFINE F == FlatRun(ss)
<1>8. F = [i \in 1..n |-> IF i = 1 THEN ss[i] ELSE F[i - 1] \o ss[i]]
  BY <1>7, Zenon DEF n, FlatRun
<1> HIDE DEF F
<1>9. \A i \in 1..n : F[i] = IF i = 1 THEN ss[i] ELSE F[i - 1] \o ss[i]
  BY <1>8
<1>10. \A i \in 1..n : F[i] \in U
  <2> DEFINE T == {i \in 1..n : F[i] \in U}
  <2>1. 1 \in T
    BY <1>1, <1>9
  <2>2. ASSUME NEW i \in 1..(n - 1), i \in T PROVE i + 1 \in T
    <3>1. i + 1 \in 1..n /\ i + 1 # 1 /\ (i + 1) - 1 = i
      BY <1>1
    <3>2. F[i + 1] = F[i] \o ss[i + 1] /\ ss[i + 1] \in U
      BY <1>1, <1>9, <3>1
    <3> QED
      BY <2>2, <3>1, <3>2
  <2> HIDE DEF T
  <2>3. 1..n \subseteq T
    BY <1>4, <2>1, <2>2, IntervalInduct
  <2> QED
    BY <2>3 DEF T
<1>11. F \in [1..n -> U]
  BY <1>8, <1>10
<1>12. F[1] = ss[1] /\ \A i \in 2..n : F[i] = F[i - 1] \o ss[i]
  <2>1. 1 \in 1..n /\ \A i \in 2..n : i \in 1..n /\ i # 1
    BY <1>1
  <2> QED
    BY <2>1, <1>9, Zenon
<1> QED
  BY <1>11, <1>12, Zenon DEF F, n

\* What is flattened grows by what is appended.
LEMMA FlattenIn ==
  ASSUME NEW U, \A a, b \in U : a \o b \in U,
         <<>> \in U, \A a \in U : <<>> \o a = a, NEW ss \in Seq(U)
  PROVE  /\ FlattenSeq(ss) \in U
         /\ ss = <<>> => FlattenSeq(ss) = <<>>
         /\ \A s \in U : FlattenSeq(Append(ss, s)) = FlattenSeq(ss) \o s
<1>1. \A tt \in Seq(U) :
          FlattenSeq(tt) = IF tt = <<>> THEN <<>> ELSE FlatRun(tt)[Len(tt)]
  BY DEF FlattenSeq, FlatRun
<1>2. ss # <<>> => FlatRun(ss)[Len(ss)] \in U
  <2> SUFFICES ASSUME ss # <<>> PROVE FlatRun(ss)[Len(ss)] \in U
    OBVIOUS
  <2>1. FlatRun(ss) \in [1..Len(ss) -> U]
    BY FlatRunIs
  <2>2. Len(ss) \in 1..Len(ss)
    OBVIOUS
  <2> QED
    BY <2>1, <2>2
<1>3. ASSUME NEW s \in U
      PROVE  FlattenSeq(Append(ss, s)) = FlattenSeq(ss) \o s
  <2> DEFINE tt == Append(ss, s)
             n == Len(ss)
             F == FlatRun(ss)
             G == FlatRun(tt)
  <2>1. /\ tt \in Seq(U) /\ tt # <<>> /\ Len(tt) = n + 1 /\ n \in Nat
        /\ tt[n + 1] = s /\ \A i \in 1..n : tt[i] = ss[i]
    OBVIOUS
  <2>2. /\ G[1] = tt[1]
        /\ \A i \in 2..(n + 1) : G[i] = G[i - 1] \o tt[i]
    BY <2>1, FlatRunIs
  <2>3. FlattenSeq(tt) = G[n + 1]
    BY <1>1, <2>1
  <2> HIDE DEF tt, G
  <2>4. CASE ss = <<>>
    <3>1. n = 0 /\ FlattenSeq(ss) = <<>>
      BY <1>1, <2>4
    <3>2. G[n + 1] = s
      BY <2>1, <2>2, <3>1
    <3> QED
      BY <2>3, <3>1, <3>2 DEF tt
  <2>5. CASE ss # <<>>
    <3>1. /\ F[1] = ss[1]
          /\ \A i \in 2..n : F[i] = F[i - 1] \o ss[i]
      BY <2>5, FlatRunIs, Zenon
    <3>1a. n >= 1
      BY <2>5
    <3>2. FlattenSeq(ss) = F[n]
      BY <1>1, <2>5
    <3> HIDE DEF F, n
    <3> DEFINE T == {i \in 1..n : G[i] = F[i]}
    <3>3. 1 \in T
      BY <2>1, <2>2, <3>1, <3>1a
    <3>4. ASSUME NEW i \in 1..(n - 1), i \in T PROVE i + 1 \in T
      <4>1. i + 1 \in 2..n /\ i + 1 \in 2..(n + 1) /\ (i + 1) - 1 = i /\ i + 1 \in 1..n
        BY <2>1
      <4>2. G[i + 1] = G[i] \o tt[i + 1] /\ F[i + 1] = F[i] \o ss[i + 1] /\ G[i] = F[i]
        BY <2>2, <3>1, <3>4, <4>1
      <4>3. tt[i + 1] = ss[i + 1]
        BY <2>1, <4>1
      <4>4. G[i + 1] = F[i + 1]
        BY <4>2, <4>3
      <4> QED
        BY <4>1, <4>4
    <3> HIDE DEF T
    <3>5. 1..n \subseteq T
      <4>1. 1 \in Int /\ n \in Int
        BY <2>1
      <4> QED
        BY <4>1, <3>3, <3>4, IntervalInduct
    <3>6. G[n] = F[n]
      BY <2>1, <3>1a, <3>5 DEF T
    <3>7. G[n + 1] = G[n] \o tt[n + 1]
      <4>1. n + 1 \in 2..(n + 1) /\ (n + 1) - 1 = n
        BY <2>1, <3>1a
      <4> QED
        BY <2>2, <4>1
    <3> QED
      BY <2>1, <2>3, <3>2, <3>6, <3>7 DEF tt
  <2> QED
    BY <2>4, <2>5
<1> QED
  BY <1>1, <1>2, <1>3

LEMMA Flatten ==
  ASSUME NEW S, NEW ss \in Seq(Seq(S))
  PROVE  /\ FlattenSeq(ss) \in Seq(S)
         /\ ss = <<>> => FlattenSeq(ss) = <<>>
         /\ \A s \in Seq(S) : FlattenSeq(Append(ss, s)) = FlattenSeq(ss) \o s
<1> DEFINE U == Seq(S)
<1>1. /\ \A a, b \in U : a \o b \in U
      /\ <<>> \in U /\ \A a \in U : <<>> \o a = a
  OBVIOUS
<1>2. ss \in Seq(U)
  OBVIOUS
<1> HIDE DEF U
<1>3. /\ FlattenSeq(ss) \in U
      /\ ss = <<>> => FlattenSeq(ss) = <<>>
      /\ \A s \in U : FlattenSeq(Append(ss, s)) = FlattenSeq(ss) \o s
  BY <1>1, <1>2, FlattenIn
<1> QED
  BY <1>3 DEF U

-----------------------------------------------------------------------------
(* Search. *)

\* The first place from it on where the delimiter is, or the end.
FirstAt(end, seq, delim, it) ==
    /\ end \in it..(Len(seq) + 1)
    /\ end <= Len(seq) => /\ end + Len(delim) - 1 <= Len(seq)
                          /\ SubSeq(seq, end, end + Len(delim) - 1) = delim
    /\ \A i \in it..(end - 1) : i + Len(delim) - 1 <= Len(seq) =>
           SubSeq(seq, i, i + Len(delim) - 1) # delim

LEMMA SearchIs ==
  ASSUME NEW S, NEW seq \in Seq(S), NEW delim \in Seq(S), delim # <<>>,
         NEW it \in 1..(Len(seq) + 1)
  PROVE  FirstAt(Search(seq, delim, it), seq, delim, it)
<1> DEFINE n == Len(seq)
           d == Len(delim)
           found == {i \in it..(n - d + 1) : SubSeq(seq, i, i + d - 1) = delim}
           end == Search(seq, delim, it)
<1>1. n \in Nat /\ d \in Nat /\ d >= 1
  OBVIOUS
<1>2. end = IF found = {} THEN n + 1 ELSE CHOOSE i \in found : \A j \in found : i <= j
  BY DEF Search
<1> HIDE DEF n, d, end
<1>3. CASE found = {}
  <2>1. end = n + 1
    BY <1>2, <1>3
  <2>2. \A i \in it..(end - 1) : i + d - 1 <= n => i \in it..(n - d + 1)
    BY <1>1, <2>1 DEF n
  <2>3. it <= n + 1 /\ it \in Nat
    BY <1>1 DEF n
  <2>4. end \in it..(n + 1) /\ ~(end <= n)
    BY <1>1, <2>1, <2>3
  <2>5. \A i \in it..(end - 1) : i + d - 1 <= n => SubSeq(seq, i, i + d - 1) # delim
    BY <1>3, <2>2
  <2> QED
    BY <2>4, <2>5 DEF n, d, end, FirstAt
<1>4. CASE found # {}
  <2>1. found \in SUBSET Nat
    BY <1>1
  <2> HIDE DEF found
  <2>2. \E i \in found : \A j \in found : i <= j
    BY <1>4, <2>1, LeastNumber
  <2>3. end \in found /\ \A j \in found : end <= j
    BY <1>2, <1>4, <2>2
  <2>4. end \in it..(n - d + 1) /\ SubSeq(seq, end, end + d - 1) = delim
    BY <2>3 DEF found
  <2>5. ASSUME NEW i \in it..(end - 1), i + d - 1 <= n
        PROVE  SubSeq(seq, i, i + d - 1) # delim
    <3>1. i \in it..(n - d + 1) /\ i < end
      BY <1>1, <2>4, <2>5
    <3>2. i \notin found
      BY <1>1, <2>3, <2>4, <3>1
    <3> QED
      BY <3>1, <3>2 DEF found
  <2>6. end \in it..(n + 1) /\ end + d - 1 <= n
    BY <1>1, <2>4
  <2> QED
    BY <2>4, <2>5, <2>6 DEF n, d, end, FirstAt
<1> QED
  BY <1>3, <1>4

\* A place where the delimiter is, and is not before, is the one found.
LEMMA FoundAt ==
  ASSUME NEW S, NEW seq \in Seq(S), NEW delim \in Seq(S), delim # <<>>,
         NEW it \in 1..(Len(seq) + 1), NEW at \in it..Len(seq),
         at + Len(delim) - 1 <= Len(seq), SubSeq(seq, at, at + Len(delim) - 1) = delim,
         \A i \in it..(at - 1) : i + Len(delim) - 1 <= Len(seq) =>
             SubSeq(seq, i, i + Len(delim) - 1) # delim
  PROVE  Search(seq, delim, it) = at
<1> DEFINE n == Len(seq)
           d == Len(delim)
           end == Search(seq, delim, it)
<1>1. n \in Nat /\ d \in Nat /\ d >= 1
  OBVIOUS
<1>2. /\ end \in it..(n + 1)
      /\ end <= n => end + d - 1 <= n /\ SubSeq(seq, end, end + d - 1) = delim
      /\ \A i \in it..(end - 1) : i + d - 1 <= n => SubSeq(seq, i, i + d - 1) # delim
  <2>1. FirstAt(Search(seq, delim, it), seq, delim, it)
    BY SearchIs, Zenon
  <2> QED
    BY <2>1 DEF FirstAt
<1> HIDE DEF end
<1>3. ~(end < at)
  <2> SUFFICES ASSUME end < at PROVE FALSE
    OBVIOUS
  <2>1. end \in it..(at - 1) /\ end <= n
    BY <1>1, <1>2
  <2> QED
    BY <1>2, <2>1
<1>4. ~(at < end)
  <2> SUFFICES ASSUME at < end PROVE FALSE
    OBVIOUS
  <2>1. at \in it..(end - 1) /\ at + d - 1 <= n
    BY <1>1, <1>2
  <2> QED
    BY <1>2, <2>1
<1> QED
  BY <1>1, <1>2, <1>3, <1>4 DEF end

\* Nothing is found where the delimiter is not.
LEMMA NotFound ==
  ASSUME NEW S, NEW seq \in Seq(S), NEW delim \in Seq(S), delim # <<>>,
         NEW it \in 1..(Len(seq) + 1),
         \A i \in it..Len(seq) : i + Len(delim) - 1 <= Len(seq) =>
             SubSeq(seq, i, i + Len(delim) - 1) # delim
  PROVE  Search(seq, delim, it) = Len(seq) + 1
<1> DEFINE end == Search(seq, delim, it)
<1>1. /\ end \in it..(Len(seq) + 1)
      /\ end <= Len(seq) => /\ end + Len(delim) - 1 <= Len(seq)
                            /\ SubSeq(seq, end, end + Len(delim) - 1) = delim
  <2>1. FirstAt(Search(seq, delim, it), seq, delim, it)
    BY SearchIs, Zenon
  <2> QED
    BY <2>1 DEF FirstAt
<1> HIDE DEF end
<1>2. ~(end <= Len(seq))
  <2> SUFFICES ASSUME end <= Len(seq) PROVE FALSE
    OBVIOUS
  <2>1. end \in it..Len(seq)
    BY <1>1
  <2> QED
    BY <1>1, <2>1
<1>3. Len(seq) \in Nat
  OBVIOUS
<1> QED
  BY <1>1, <1>2, <1>3 DEF end

\* What it is for a delimiter to occur.
LEMMA OccursIs ==
  ASSUME NEW S, NEW seq \in Seq(S), NEW delim \in Seq(S), delim # <<>>
  PROVE  Occurs(delim, seq) <=>
             \E i \in 1..Len(seq) : /\ i + Len(delim) - 1 <= Len(seq)
                                    /\ SubSeq(seq, i, i + Len(delim) - 1) = delim
<1> DEFINE end == Search(seq, delim, 1)
<1>1. Len(seq) \in Nat /\ Len(delim) \in Nat /\ 1 \in 1..(Len(seq) + 1)
  OBVIOUS
<1>2. /\ end \in 1..(Len(seq) + 1)
      /\ end <= Len(seq) => /\ end + Len(delim) - 1 <= Len(seq)
                            /\ SubSeq(seq, end, end + Len(delim) - 1) = delim
      /\ \A i \in 1..(end - 1) : i + Len(delim) - 1 <= Len(seq) =>
             SubSeq(seq, i, i + Len(delim) - 1) # delim
  <2>1. FirstAt(Search(seq, delim, 1), seq, delim, 1)
    BY <1>1, SearchIs, Zenon
  <2> QED
    BY <2>1 DEF FirstAt
<1>3. Occurs(delim, seq) <=> end <= Len(seq)
  BY DEF Occurs
<1> HIDE DEF end
<1>4. end <= Len(seq) => end \in 1..Len(seq)
  BY <1>1, <1>2
<1>5. ~(end <= Len(seq)) => end - 1 = Len(seq)
  BY <1>1, <1>2
<1> QED
  BY <1>2, <1>3, <1>4, <1>5

-----------------------------------------------------------------------------
(* The iterator. *)

Iterators(S, seq) == [it : 1..(Len(seq) + 1), pieces : Seq(Seq(S))]

\* A step takes the piece up to the delimiter, or to the end.
LEMMA AdvanceIs ==
  ASSUME NEW S, NEW seq \in Seq(S), NEW delim \in Seq(S), delim # <<>>,
         NEW at \in Iterators(S, seq), at.it <= Len(seq)
  PROVE  /\ Search(seq, delim, at.it) \in at.it..(Len(seq) + 1)
         /\ SubSeq(seq, at.it, Search(seq, delim, at.it) - 1) \in Seq(S)
         /\ Advance(seq, delim, at).pieces =
                Append(at.pieces, SubSeq(seq, at.it, Search(seq, delim, at.it) - 1))
         /\ Advance(seq, delim, at).it =
                IF Search(seq, delim, at.it) > Len(seq) THEN Len(seq) + 1
                ELSE Search(seq, delim, at.it) + Len(delim)
         /\ Advance(seq, delim, at) \in Iterators(S, seq)
         /\ Advance(seq, delim, at).it > at.it
<1> DEFINE it == at.it
           end == Search(seq, delim, at.it)
           piece == SubSeq(seq, it, end - 1)
           onward == IF end > Len(seq) THEN end ELSE end + Len(delim)
<1>1. it \in 1..(Len(seq) + 1) /\ at.pieces \in Seq(Seq(S)) /\ Len(seq) \in Nat
  BY DEF Iterators
<1>2. FirstAt(end, seq, delim, it)
  BY <1>1, SearchIs, Zenon
<1>3. Advance(seq, delim, at) = [it |-> onward, pieces |-> Append(at.pieces, piece)]
  BY <1>1 DEF Advance, NextPiece
<1> HIDE DEF end, it
<1>4. end \in it..(Len(seq) + 1) /\ (end <= Len(seq) => end + Len(delim) - 1 <= Len(seq))
  BY <1>2 DEF FirstAt
<1>5. piece \in Seq(S)
  <2>1. \A i \in it..(end - 1) : seq[i] \in S
    BY <1>1, <1>4
  <2> QED
    BY <1>1, <1>4, <2>1, SubSeqProperties
<1>6. onward \in 1..(Len(seq) + 1) /\ onward > it
  <2>1. Len(delim) \in Nat /\ Len(delim) >= 1
    OBVIOUS
  <2> QED
    BY <1>1, <1>4, <2>1 DEF it
<1> HIDE DEF piece, onward
<1>7. Append(at.pieces, piece) \in Seq(Seq(S))
  <2> DEFINE U == Seq(S)
  <2>1. at.pieces \in Seq(U) /\ piece \in U
    BY <1>1, <1>5
  <2> HIDE DEF U
  <2>2. Append(at.pieces, piece) \in Seq(U)
    BY <2>1
  <2> QED
    BY <2>2 DEF U
<1>8. Advance(seq, delim, at) \in Iterators(S, seq)
  BY <1>3, <1>6, <1>7 DEF Iterators
<1>9. Advance(seq, delim, at).it = onward /\ Advance(seq, delim, at).pieces = Append(at.pieces, piece)
  BY <1>3
<1>10. onward = IF end > Len(seq) THEN Len(seq) + 1 ELSE end + Len(delim)
  BY <1>1, <1>4 DEF onward
<1> QED
  BY <1>4, <1>5, <1>6, <1>8, <1>9, <1>10, Zenon DEF end, it, piece

LEMMA IteratorIs ==
  ASSUME NEW S, NEW seq \in Seq(S), NEW delim \in Seq(S), delim # <<>>
  PROVE  /\ Iterator(seq, delim) \in [0..Len(seq) -> Iterators(S, seq)]
         /\ Iterator(seq, delim)[0] = [it |-> 1, pieces |-> <<>>]
         /\ \A i \in 1..Len(seq) :
                Iterator(seq, delim)[i] = Advance(seq, delim, Iterator(seq, delim)[i - 1])
<1> DEFINE V == Iterators(S, seq)
           c == [it |-> 1, pieces |-> <<>>]
           n == Len(seq)
           D == [i \in Int |-> [at \in V |-> Advance(seq, delim, at)]]
           F == Iterator(seq, delim)
<1>1. n \in Nat /\ 0 \in Int /\ n \in Int
  OBVIOUS
<1>2. c \in V
  BY <1>1 DEF Iterators
<1>3. ASSUME NEW at \in V PROVE Advance(seq, delim, at) \in V
  <2>1. at.it \in 1..(n + 1)
    BY DEF Iterators
  <2>2. CASE at.it > n
    BY <2>2 DEF Advance
  <2>3. CASE at.it <= n
    BY <2>3, AdvanceIs
  <2> QED
    BY <1>1, <2>1, <2>2, <2>3
<1> HIDE DEF V
<1>4. D \in [Int -> [V -> V]] /\ \A i \in Int : \A at \in V : D[i][at] = Advance(seq, delim, at)
  BY <1>3
<1> HIDE DEF D
<1>5. F = CHOOSE f : f = [i \in 0..n |-> IF i = 0 THEN c ELSE Advance(seq, delim, f[i - 1])]
  BY Zenon DEF Iterator
<1> HIDE DEF c, n, F
<1>6. PICK f \in [0..n -> V] : Runs(f, 0, n, c, D)
  BY <1>1, <1>2, <1>4, Recursion, Zenon
<1>7. f = [i \in 0..n |-> IF i = 0 THEN c ELSE Advance(seq, delim, f[i - 1])]
  <2>1. ASSUME NEW i \in 0..n
        PROVE  f[i] = IF i = 0 THEN c ELSE Advance(seq, delim, f[i - 1])
    <3>1. i \in Int /\ (i # 0 => i - 1 \in 0..n)
      BY <1>1
    <3>2. i # 0 => D[i][f[i - 1]] = Advance(seq, delim, f[i - 1])
      BY <1>4, <3>1
    <3> QED
      BY <1>6, <3>2 DEF Runs
  <2> QED
    BY <2>1
<1>8. F = [i \in 0..n |-> IF i = 0 THEN c ELSE Advance(seq, delim, F[i - 1])]
  BY <1>5, <1>7, Zenon
<1>9. \A i \in 0..n : F[i] = IF i = 0 THEN c ELSE Advance(seq, delim, F[i - 1])
  BY <1>8
<1>10. 0..n \subseteq {i \in 0..n : F[i] \in V}
  <2> DEFINE T == {i \in 0..n : F[i] \in V}
  <2>1. 0 \in T
    BY <1>1, <1>2, <1>9
  <2>2. ASSUME NEW i \in 0..(n - 1), i \in T PROVE i + 1 \in T
    <3>1. i + 1 \in 0..n /\ i + 1 # 0 /\ (i + 1) - 1 = i
      BY <1>1
    <3>2. F[i + 1] = Advance(seq, delim, F[i])
      BY <1>9, <3>1
    <3> QED
      BY <1>3, <2>2, <3>1, <3>2
  <2> HIDE DEF T
  <2>3. 0..n \subseteq T
    BY <1>1, <2>1, <2>2, IntervalInduct
  <2> QED
    BY <2>3 DEF T
<1>11. F \in [0..n -> V]
  BY <1>8, <1>10
<1>12. F[0] = c /\ \A i \in 1..n : F[i] = Advance(seq, delim, F[i - 1])
  <2>1. 0 \in 0..n /\ \A i \in 1..n : i \in 0..n /\ i # 0
    BY <1>1
  <2> QED
    BY <1>9, <2>1, Zenon
<1> QED
  BY <1>11, <1>12, Zenon DEF F, V, c, n

-----------------------------------------------------------------------------
(* Joined. *)

\* What one more piece adds.
Added(ps, delim, p) == (IF ps = <<>> THEN <<>> ELSE delim) \o p

Grows(U, ps, delim) ==
    /\ Joined(ps, delim) \in U
    /\ ps = <<>> => Joined(ps, delim) = <<>>
    /\ \A p \in U : Joined(Append(ps, p), delim) = Joined(ps, delim) \o Added(ps, delim, p)

LEMMA JoinedIn ==
  ASSUME NEW U, \A a, b \in U : a \o b \in U,
         <<>> \in U, \A a \in U : <<>> \o a = a,
         NEW delim \in U, NEW ps \in Seq(U)
  PROVE  Grows(U, ps, delim)
<1> DEFINE Padded(qs) == [i \in DOMAIN qs |-> (IF i = 1 THEN <<>> ELSE delim) \o qs[i]]
<1>1. ASSUME NEW qs \in Seq(U)
      PROVE  /\ Padded(qs) \in Seq(U)
             /\ Len(Padded(qs)) = Len(qs)
             /\ Joined(qs, delim) = FlattenSeq(Padded(qs))
  <2>1. Len(qs) \in Nat /\ DOMAIN qs = 1..Len(qs) /\ \A i \in 1..Len(qs) : qs[i] \in U
    OBVIOUS
  <2>2. Padded(qs) \in [1..Len(qs) -> U]
    BY <2>1
  <2>3. Padded(qs) \in Seq(U) /\ Len(Padded(qs)) = Len(qs)
    <3> HIDE DEF Padded
    <3> QED
      BY <2>1, <2>2, SeqDef, LenProperties
  <2> QED
    BY <2>3 DEF Joined
<1>2. ASSUME NEW p \in U
      PROVE  Padded(Append(ps, p)) =
                 Append(Padded(ps), Added(ps, delim, p))
  <2> DEFINE qs == Append(ps, p)
             n == Len(ps)
             e == Added(ps, delim, p)
             pp == Padded(ps)
             rs == Append(pp, e)
  <2>1. /\ qs \in Seq(U) /\ Len(qs) = n + 1 /\ n \in Nat /\ DOMAIN qs = 1..(n + 1)
        /\ qs[n + 1] = p /\ (\A i \in 1..n : qs[i] = ps[i]) /\ DOMAIN ps = 1..n
        /\ (ps = <<>> <=> n = 0)
    OBVIOUS
  <2>2. pp \in Seq(U) /\ Len(pp) = n
    BY <1>1
  <2>3. e \in U
    BY DEF Added
  <2>4. \A i \in 1..n : pp[i] = (IF i = 1 THEN <<>> ELSE delim) \o ps[i]
    BY <2>1
  <2> HIDE DEF e, qs, n, pp
  <2>5. /\ rs \in Seq(U) /\ Len(rs) = n + 1 /\ rs[n + 1] = e
        /\ \A i \in 1..n : rs[i] = pp[i]
    BY <2>1, <2>2, <2>3
  <2>6. \A i \in 1..(n + 1) : rs[i] = (IF i = 1 THEN <<>> ELSE delim) \o qs[i]
    <3>1. ASSUME NEW i \in 1..n PROVE rs[i] = (IF i = 1 THEN <<>> ELSE delim) \o qs[i]
      BY <2>1, <2>4, <2>5, Zenon
    <3>2. n + 1 = 1 <=> ps = <<>>
      BY <2>1
    <3>3. rs[n + 1] = (IF n + 1 = 1 THEN <<>> ELSE delim) \o qs[n + 1]
      BY <2>1, <2>5, <3>2 DEF e, Added
    <3>4. \A i \in 1..(n + 1) : i \in 1..n \/ i = n + 1
      BY <2>1
    <3> QED
      BY <3>1, <3>3, <3>4, Zenon
  <2>7. rs = [i \in 1..(n + 1) |-> rs[i]]
    <3> HIDE DEF rs
    <3> QED
      BY <2>1, <2>5
  <2>8. rs = [i \in 1..(n + 1) |-> (IF i = 1 THEN <<>> ELSE delim) \o qs[i]]
    BY <2>6, <2>7
  <2> QED
    BY <2>1, <2>8, Zenon DEF e, qs, pp
<1> HIDE DEF Padded
<1>3. /\ FlattenSeq(Padded(ps)) \in U
      /\ Padded(ps) = <<>> => FlattenSeq(Padded(ps)) = <<>>
      /\ \A s \in U : FlattenSeq(Append(Padded(ps), s)) = FlattenSeq(Padded(ps)) \o s
  BY <1>1, FlattenIn, Zenon
<1>4. ps = <<>> => Padded(ps) = <<>>
  <2>1. Padded(ps) \in Seq(U) /\ Len(Padded(ps)) = Len(ps)
    BY <1>1
  <2>2. \A qs \in Seq(U) : Len(qs) = 0 <=> qs = <<>>
    OBVIOUS
  <2>3. Len(ps) = 0 <=> ps = <<>>
    OBVIOUS
  <2> QED
    BY <2>1, <2>2, <2>3, Zenon
<1>5. ASSUME NEW p \in U
      PROVE  Joined(Append(ps, p), delim) =
                Joined(ps, delim) \o Added(ps, delim, p)
  <2>1. Append(ps, p) \in Seq(U)
    OBVIOUS
  <2>2. Added(ps, delim, p) \in U
    BY DEF Added
  <2> DEFINE e == Added(ps, delim, p)
  <2>3. e \in U /\ Padded(Append(ps, p)) = Append(Padded(ps), e)
    BY <1>2, <2>2, Zenon
  <2> HIDE DEF e
  <2>4. Joined(Append(ps, p), delim) = Joined(ps, delim) \o e
    BY <1>1, <1>3, <2>1, <2>3, Zenon
  <2> QED
    BY <2>4, Zenon DEF e
<1> QED
  BY <1>1, <1>3, <1>4, <1>5, Zenon DEF Grows

LEMMA JoinedIs ==
  ASSUME NEW S, NEW delim \in Seq(S), NEW ps \in Seq(Seq(S))
  PROVE  Grows(Seq(S), ps, delim)
<1> DEFINE U == Seq(S)
<1>1. (\A a, b \in U : a \o b \in U) /\ <<>> \in U /\ (\A a \in U : <<>> \o a = a)
  OBVIOUS
<1>2. ps \in Seq(U) /\ delim \in U
  OBVIOUS
<1> HIDE DEF U
<1>3. Grows(U, ps, delim)
  BY <1>1, <1>2, JoinedIn, Zenon
<1> QED
  BY <1>3, Zenon DEF U

-----------------------------------------------------------------------------
(* Split. *)

LEMMA SubSeqJoins ==
  ASSUME NEW S, NEW seq \in Seq(S), NEW l \in 1..(Len(seq) + 1),
         NEW m \in l..(Len(seq) + 1), NEW n \in (m - 1)..Len(seq)
  PROVE  SubSeq(seq, l, m - 1) \o SubSeq(seq, m, n) = SubSeq(seq, l, n)
OBVIOUS

LEMMA SubSeqWithin ==
  ASSUME NEW S, NEW seq \in Seq(S), NEW m \in 1..(Len(seq) + 1),
         NEW n \in (m - 1)..Len(seq),
         NEW i \in 1..(n - m + 1), NEW j \in i..(n - m + 1)
  PROVE  SubSeq(SubSeq(seq, m, n), i, j) = SubSeq(seq, m + i - 1, m + j - 1)
OBVIOUS

\* What the iterator has passed is what the pieces it gave make when joined.
SplitInv(S, seq, delim, k, at) ==
    /\ at \in Iterators(S, seq)
    /\ at.it > k \/ at.it = Len(seq) + 1
    /\ \A i \in DOMAIN at.pieces : ~Occurs(delim, at.pieces[i])
    /\ at.pieces = <<>> <=> at.it = 1
    /\ at.pieces # <<>> =>
           \/ SubSeq(seq, 1, at.it - 1) = Joined(at.pieces, delim) \o delim
           \/ at.it = Len(seq) + 1 /\ seq = Joined(at.pieces, delim)

\* No delimiter is within the piece that Search ends.
LEMMA PieceIsClean ==
  ASSUME NEW S, NEW seq \in Seq(S), NEW delim \in Seq(S), delim # <<>>,
         NEW it \in 1..(Len(seq) + 1)
  PROVE  ~Occurs(delim, SubSeq(seq, it, Search(seq, delim, it) - 1))
<1> DEFINE end == Search(seq, delim, it)
           piece == SubSeq(seq, it, end - 1)
<1>1. FirstAt(end, seq, delim, it)
  BY SearchIs, Zenon
<1> HIDE DEF end
<1>2. end \in it..(Len(seq) + 1) /\ Len(delim) \in Nat /\ Len(delim) >= 1
  BY <1>1 DEF FirstAt
<1>2a. \A i \in it..(end - 1) : i + Len(delim) - 1 <= Len(seq) =>
           SubSeq(seq, i, i + Len(delim) - 1) # delim
  BY <1>1, Zenon DEF FirstAt
<1>3. piece \in Seq(S) /\ Len(piece) = end - it
  BY <1>2
<1>4. ASSUME NEW i \in 1..Len(piece), i + Len(delim) - 1 <= Len(piece)
      PROVE  SubSeq(piece, i, i + Len(delim) - 1) # delim
  <2> DEFINE j == i + Len(delim) - 1
  <2>1. /\ end - 1 \in (it - 1)..Len(seq)
        /\ i \in 1..((end - 1) - it + 1) /\ j \in i..((end - 1) - it + 1)
    BY <1>2, <1>3, <1>4
  <2>2. SubSeq(piece, i, j) = SubSeq(seq, it + i - 1, it + j - 1)
    <3> HIDE DEF j
    <3> QED
      BY <2>1, SubSeqWithin
  <2>3. /\ it + i - 1 \in it..(end - 1) /\ it + j - 1 = (it + i - 1) + Len(delim) - 1
        /\ (it + i - 1) + Len(delim) - 1 <= Len(seq)
    BY <1>2, <2>1
  <2> QED
    BY <1>2a, <2>2, <2>3
<1> HIDE DEF piece
<1>5. ~Occurs(delim, piece)
  BY <1>3, <1>4, OccursIs, ZenonT(60)
<1> QED
  BY <1>5 DEF piece, end

LEMMA SplitInvStep ==
  ASSUME NEW S, NEW seq \in Seq(S), NEW delim \in Seq(S), delim # <<>>,
         NEW k \in Nat, NEW at, SplitInv(S, seq, delim, k, at)
  PROVE  SplitInv(S, seq, delim, k + 1, Advance(seq, delim, at))
<1> DEFINE n == Len(seq)
           onward == Advance(seq, delim, at)
<1>1. at \in Iterators(S, seq) /\ at.it \in 1..(n + 1) /\ n \in Nat
  BY DEF SplitInv, Iterators
<1>2. CASE at.it > n
  <2>1. onward = at
    BY <1>2 DEF Advance
  <2>2. at.it = n + 1
    BY <1>1, <1>2
  <2> QED
    BY <2>1, <2>2, Zenon DEF SplitInv
<1>3. CASE at.it <= n
  <2> DEFINE end == Search(seq, delim, at.it)
             piece == SubSeq(seq, at.it, end - 1)
             U == Seq(S)
             ps == at.pieces
  <2>1. FirstAt(end, seq, delim, at.it)
    BY <1>1, SearchIs, Zenon
  <2>2. ~Occurs(delim, piece)
    BY <1>1, PieceIsClean, Zenon
  <2>3. /\ end \in at.it..(n + 1) /\ piece \in U
        /\ onward.pieces = Append(ps, piece)
        /\ onward.it = IF end > n THEN n + 1 ELSE end + Len(delim)
        /\ onward \in Iterators(S, seq)
        /\ onward.it > at.it
    BY <1>1, <1>3, AdvanceIs, SMTT(40)
  <2> HIDE DEF onward, end
  <2>4. ps \in Seq(U) /\ delim \in U /\ Len(delim) \in Nat /\ Len(delim) >= 1
    BY <1>1 DEF Iterators
  <2>5. onward.it > k + 1 \/ onward.it = n + 1
    <3>1. at.it > k
      BY <1>1, <1>3 DEF SplitInv
    <3>2. onward.it \in Nat
      BY <2>3 DEF Iterators
    <3> QED
      BY <1>1, <2>3, <3>1, <3>2
  <2>6. \A i \in DOMAIN onward.pieces : ~Occurs(delim, onward.pieces[i])
    <3>1. \A i \in DOMAIN ps : ~Occurs(delim, ps[i])
      BY DEF SplitInv
    <3> HIDE DEF piece, U, ps
    <3>2. \A i \in DOMAIN Append(ps, piece) :
              \/ Append(ps, piece)[i] = piece
              \/ i \in DOMAIN ps /\ Append(ps, piece)[i] = ps[i]
      BY <2>3, <2>4
    <3> QED
      BY <2>2, <2>3, <3>1, <3>2, Zenon
  <2>7. onward.pieces # <<>> /\ onward.it # 1
    <3>1. onward.it > 1
      BY <1>1, <2>3 DEF Iterators
    <3> HIDE DEF piece, U, ps
    <3> QED
      BY <2>3, <2>4, <3>1, SMTT(40)
  <2>8. Joined(onward.pieces, delim) = Joined(ps, delim) \o Added(ps, delim, piece)
    <3>1. at.pieces \in Seq(Seq(S))
      BY <1>1 DEF Iterators
    <3> HIDE DEF piece
    <3>2. Joined(Append(at.pieces, piece), delim) =
              Joined(at.pieces, delim) \o Added(at.pieces, delim, piece)
      BY <2>3, <3>1, JoinedIs, ZenonT(60) DEF Grows
    <3> QED
      BY <2>3, <3>2
  <2>9. Joined(ps, delim) \in U /\ (ps = <<>> => Joined(ps, delim) = <<>>)
    <3>1. at.pieces \in Seq(Seq(S))
      BY <1>1 DEF Iterators
    <3> QED
      BY <3>1, JoinedIs, Zenon DEF Grows
  <2>10. Joined(onward.pieces, delim) = SubSeq(seq, 1, end - 1)
    <3>1. CASE ps = <<>>
      <4>1. at.it = 1
        BY <3>1 DEF SplitInv
      <4>2. Joined(onward.pieces, delim) = <<>> \o (<<>> \o piece)
        BY <2>8, <2>9, <3>1, Zenon DEF Added
      <4>3. <<>> \o (<<>> \o piece) = piece
        <5> HIDE DEF piece
        <5> QED
          BY <2>3
      <4> QED
        BY <4>1, <4>2, <4>3
    <3>2. CASE ps # <<>>
      <4>1. SubSeq(seq, 1, at.it - 1) = Joined(ps, delim) \o delim
        BY <1>1, <1>3, <3>2, SMTT(40) DEF SplitInv
      <4>2. Joined(onward.pieces, delim) = Joined(ps, delim) \o (delim \o piece)
        BY <2>8, <3>2, Zenon DEF Added
      <4>3. Joined(ps, delim) \o (delim \o piece) = (Joined(ps, delim) \o delim) \o piece
        <5> DEFINE J == Joined(ps, delim)
        <5>1. J \in Seq(S) /\ piece \in Seq(S)
          BY <2>3, <2>9
        <5> HIDE DEF J, piece
        <5> QED
          BY <5>1, SMTT(40)
      <4>4. SubSeq(seq, 1, at.it - 1) \o piece = SubSeq(seq, 1, end - 1)
        <5>1. 1 \in 1..(Len(seq) + 1) /\ end - 1 \in (at.it - 1)..Len(seq)
          BY <1>1, <2>3
        <5> QED
          BY <1>1, <5>1, SubSeqJoins
      <4> QED
        BY <4>1, <4>2, <4>3, <4>4
    <3> QED
      BY <3>1, <3>2
  <2>11. \/ SubSeq(seq, 1, onward.it - 1) = Joined(onward.pieces, delim) \o delim
         \/ onward.it = n + 1 /\ seq = Joined(onward.pieces, delim)
    <3>1. CASE end > n
      <4>1. end = n + 1 /\ onward.it = n + 1
        BY <1>1, <2>3, <3>1
      <4>2. SubSeq(seq, 1, end - 1) = seq
        BY <1>1, <4>1
      <4> QED
        BY <2>10, <4>1, <4>2, ZenonT(60)
    <3>2. CASE end <= n
      <4>1. /\ end + Len(delim) - 1 <= n /\ SubSeq(seq, end, end + Len(delim) - 1) = delim
            /\ onward.it = end + Len(delim)
        BY <1>1, <2>1, <2>3, <3>2 DEF FirstAt
      <4>2. SubSeq(seq, 1, end - 1) \o SubSeq(seq, end, end + Len(delim) - 1)
                = SubSeq(seq, 1, end + Len(delim) - 1)
        <5>1. /\ 1 \in 1..(Len(seq) + 1) /\ end \in 1..(Len(seq) + 1)
              /\ end + Len(delim) - 1 \in (end - 1)..Len(seq)
          BY <1>1, <2>3, <2>4, <4>1
        <5> QED
          BY <5>1, SubSeqJoins
      <4> QED
        <5>1. onward.it - 1 = end + Len(delim) - 1
          BY <1>1, <2>3, <2>4, <4>1
        <5>2. SubSeq(seq, 1, onward.it - 1) = SubSeq(seq, 1, end - 1) \o delim
          BY <4>1, <4>2, <5>1, Zenon
        <5> QED
          BY <2>10, <5>2, Zenon
    <3>3. end > n \/ end <= n
      BY <1>1, <2>3
    <3> QED
      BY <3>1, <3>2, <3>3, Zenon
  <2> QED
    BY <2>3, <2>5, <2>6, <2>7, <2>11, Zenon DEF SplitInv, n, onward
<1> QED
  BY <1>1, <1>2, <1>3

\* Split cuts at every delimiter and keeps all the rest, for every sequence and
\* every delimiter that is not empty (slice.h, TIterator).
THEOREM SplitExact ==
  ASSUME NEW S, NEW seq \in Seq(S), NEW delim \in Seq(S), delim # <<>>
  PROVE  IsSplitting(Split(seq, delim), seq, delim)
<1> DEFINE n == Len(seq)
           F == Iterator(seq, delim)
           T == {k \in 0..n : SplitInv(S, seq, delim, k, F[k])}
<1>1. n \in Nat /\ 0 \in Int /\ n \in Int /\ 0 \in 0..n /\ n \in 0..n
  OBVIOUS
<1>2. /\ F[0] = [it |-> 1, pieces |-> <<>>]
      /\ \A i \in 1..n : F[i] = Advance(seq, delim, F[i - 1])
  BY IteratorIs
<1> HIDE DEF F
<1>3. 0 \in T
  <2>1. F[0].it = 1 /\ F[0].pieces = <<>> /\ F[0] \in Iterators(S, seq)
    BY <1>1, <1>2 DEF Iterators
  <2>2. SplitInv(S, seq, delim, 0, F[0])
    BY <2>1 DEF SplitInv
  <2> QED
    BY <1>1, <2>2
<1>4. ASSUME NEW k \in 0..(n - 1), k \in T PROVE k + 1 \in T
  <2>1. k \in Nat /\ k + 1 \in 0..n /\ k + 1 \in 1..n /\ (k + 1) - 1 = k
    BY <1>1
  <2>2. F[k + 1] = Advance(seq, delim, F[k])
    BY <1>2, <2>1
  <2>3. SplitInv(S, seq, delim, k, F[k])
    BY <1>4
  <2>4. SplitInv(S, seq, delim, k + 1, F[k + 1])
    BY <2>1, <2>2, <2>3, SplitInvStep
  <2> QED
    BY <2>1, <2>4
<1> HIDE DEF T, n
<1>5. 0..n \subseteq T
  BY <1>1, <1>3, <1>4, IntervalInduct
<1>6. SplitInv(S, seq, delim, n, F[n])
  BY <1>1, <1>5 DEF T
<1> DEFINE at == F[n]
<1>7. Split(seq, delim) = at.pieces
  BY DEF Split, n, F
<1> HIDE DEF at
<1>8. at.it = n + 1
  <2>1. at.it \in 1..(n + 1)
    BY <1>6 DEF SplitInv, Iterators, n, at
  <2> QED
    BY <1>1, <1>6, <2>1 DEF SplitInv, n, at
<1>9. SubSeq(seq, 1, at.it - 1) = seq
  BY <1>1, <1>8 DEF n
<1>10. at.pieces = <<>> <=> seq = <<>>
  <2>1. seq = <<>> <=> n = 0
    BY DEF n
  <2> QED
    BY <1>1, <1>6, <1>8, <2>1 DEF SplitInv, at
<1>11. at.pieces = <<>> => Joined(at.pieces, delim) = <<>>
  <2>1. <<>> \in Seq(Seq(S))
    OBVIOUS
  <2>2. Joined(<<>>, delim) = <<>>
    BY <2>1, JoinedIs, Zenon DEF Grows
  <2> QED
    BY <2>2
<1> QED
  BY <1>6, <1>7, <1>9, <1>10, <1>11, Zenon DEF IsSplitting, SplitInv, at

-----------------------------------------------------------------------------
(* What is found in a text put together of pieces and delimiters. *)

\* The delimiter does not begin within a piece that it follows.
Clean(piece, delim) ==
    \A i \in 1..Len(piece) : SubSeq(piece \o delim, i, i + Len(delim) - 1) # delim

\* A part of the middle one of three sequences.
SamePart(pre, mid, rest, i, j) ==
    SubSeq(pre \o (mid \o rest), Len(pre) + i, Len(pre) + j) = SubSeq(mid, i, j)

LEMMA SubSeqOfConcat ==
  ASSUME NEW S, NEW pre \in Seq(S), NEW mid \in Seq(S), NEW rest \in Seq(S),
         NEW i \in 1..(Len(mid) + 1), NEW j \in (i - 1)..Len(mid)
  PROVE  SamePart(pre, mid, rest, i, j)
BY SMTT(40) DEF SamePart

LEMMA SubSeqOfTail ==
  ASSUME NEW S, NEW pre \in Seq(S), NEW mid \in Seq(S),
         NEW i \in 1..(Len(mid) + 1), NEW j \in (i - 1)..Len(mid)
  PROVE  SubSeq(pre \o mid, Len(pre) + i, Len(pre) + j) = SubSeq(mid, i, j)
OBVIOUS

Found(seq, delim, it, at) == Search(seq, delim, it) = at

LEMMA SearchPast ==
  ASSUME NEW S, NEW pre \in Seq(S), NEW piece \in Seq(S), NEW delim \in Seq(S),
         delim # <<>>, NEW rest \in Seq(S), Clean(piece, delim)
  PROVE  Found(pre \o ((piece \o delim) \o rest), delim, Len(pre) + 1,
               Len(pre) + Len(piece) + 1)
<1> DEFINE mid == piece \o delim
           seq == pre \o (mid \o rest)
           at  == Len(pre) + Len(piece) + 1
           d   == Len(delim)
<1>1. /\ Len(pre) \in Nat /\ Len(piece) \in Nat /\ d \in Nat /\ d >= 1 /\ Len(rest) \in Nat
      /\ mid \in Seq(S) /\ Len(mid) = Len(piece) + d
  OBVIOUS
<1>2. SubSeq(mid, Len(piece) + 1, Len(piece) + d) = delim
  OBVIOUS
<1>3. \A i \in 1..Len(piece) : SubSeq(mid, i, i + d - 1) # delim
  BY DEF Clean
<1> HIDE DEF mid, d
<1>4. seq \in Seq(S) /\ Len(seq) = Len(pre) + Len(mid) + Len(rest)
  <2>1. mid \o rest \in Seq(S) /\ Len(mid \o rest) = Len(mid) + Len(rest)
    BY <1>1, ConcatProperties
  <2>2. Len(mid) \in Nat
    BY <1>1
  <2> DEFINE tail == mid \o rest
  <2> HIDE DEF tail
  <2>3. pre \o tail \in Seq(S) /\ Len(pre \o tail) = Len(pre) + Len(tail)
    BY <2>1, ConcatProperties DEF tail
  <2>4. Len(pre) + Len(tail) = Len(pre) + Len(mid) + Len(rest)
    BY <1>1, <2>1, <2>2 DEF tail
  <2> QED
    BY <2>3, <2>4 DEF tail
<1>5. SubSeq(seq, at, at + d - 1) = delim
  <2> DEFINE i == Len(piece) + 1
             j == Len(piece) + d
  <2>1. i \in 1..(Len(mid) + 1) /\ j \in (i - 1)..Len(mid)
    BY <1>1
  <2>2. SubSeq(mid, i, j) = delim
    BY <1>2
  <2>3. at = Len(pre) + i /\ at + d - 1 = Len(pre) + j
    BY <1>1
  <2> HIDE DEF i, j
  <2>4. SubSeq(seq, Len(pre) + i, Len(pre) + j) = SubSeq(mid, i, j)
    <3>1. mid \in Seq(S)
      BY <1>1
    <3>2. SamePart(pre, mid, rest, i, j)
      BY <2>1, <3>1, SubSeqOfConcat
    <3> QED
      BY <3>2, Zenon DEF SamePart
  <2> QED
    BY <2>2, <2>3, <2>4, Zenon
<1>6. ASSUME NEW i \in (Len(pre) + 1)..(at - 1)
      PROVE  SubSeq(seq, i, i + d - 1) # delim
  <2> DEFINE k == i - Len(pre)
  <2>1. k \in 1..Len(piece) /\ k \in 1..(Len(mid) + 1) /\ k + d - 1 \in (k - 1)..Len(mid)
    BY <1>1
  <2>2. i = Len(pre) + k /\ i + d - 1 = Len(pre) + (k + d - 1)
    BY <1>1
  <2> HIDE DEF k
  <2>3. SubSeq(seq, Len(pre) + k, Len(pre) + (k + d - 1)) = SubSeq(mid, k, k + d - 1)
    <3>1. mid \in Seq(S)
      BY <1>1
    <3>2. SamePart(pre, mid, rest, k, k + d - 1)
      BY <2>1, <3>1, SubSeqOfConcat
    <3> QED
      BY <3>2, Zenon DEF SamePart
  <2>4. SubSeq(mid, k, k + d - 1) # delim
    BY <1>3, <2>1, Zenon
  <2> QED
    BY <2>2, <2>3, <2>4, Zenon
<1>7. /\ Len(pre) + 1 \in 1..(Len(seq) + 1) /\ at \in (Len(pre) + 1)..Len(seq)
      /\ at + d - 1 <= Len(seq)
  BY <1>1, <1>4
<1> HIDE DEF seq, at
<1>8. Search(seq, delim, Len(pre) + 1) = at
  BY <1>4, <1>5, <1>6, <1>7, FoundAt DEF d
<1> QED
  BY <1>8 DEF seq, at, mid, Found

LEMMA SubSeqOne ==
  ASSUME NEW S, NEW seq \in Seq(S), NEW i \in 1..Len(seq)
  PROVE  SubSeq(seq, i, i) = <<seq[i]>>
<1> DEFINE s == SubSeq(seq, i, i)
<1>1. s \in Seq(S) /\ Len(s) = 1 /\ s[1] = seq[i]
  OBVIOUS
<1> HIDE DEF s
<1>2. s = <<s[1]>>
  BY <1>1
<1> QED
  BY <1>1, <1>2 DEF s

\* What is clean for a delimiter of one symbol, and for one of two different ones.
LEMMA OneOccurs ==
  ASSUME NEW S, NEW seq \in Seq(S), NEW d \in S
  PROVE  Occurs(<<d>>, seq) <=> \E i \in 1..Len(seq) : seq[i] = d
<1>1. <<d>> \in Seq(S) /\ <<d>> # <<>> /\ Len(<<d>>) = 1
  OBVIOUS
<1>2. ASSUME NEW i \in 1..Len(seq)
      PROVE  i + 1 - 1 <= Len(seq) /\ (SubSeq(seq, i, i + 1 - 1) = <<d>> <=> seq[i] = d)
  <2>1. i + 1 - 1 = i
    OBVIOUS
  <2>2. SubSeq(seq, i, i) = <<seq[i]>>
    BY SubSeqOne
  <2> QED
    BY <2>1, <2>2
<1> QED
  BY <1>1, <1>2, OccursIs

LEMMA CleanForOne ==
  ASSUME NEW S, NEW piece \in Seq(S), NEW d \in S, ~Occurs(<<d>>, piece)
  PROVE  Clean(piece, <<d>>)
<1>1. ASSUME NEW i \in 1..Len(piece)
      PROVE  SubSeq(piece \o <<d>>, i, i + Len(<<d>>) - 1) # <<d>>
  <2>1. i + Len(<<d>>) - 1 = i
    OBVIOUS
  <2>2. SubSeq(piece \o <<d>>, i, i) = <<piece[i]>>
    <3> DEFINE mid == piece \o <<d>>
    <3>1. mid \in Seq(S) /\ i \in 1..Len(mid) /\ mid[i] = piece[i]
      OBVIOUS
    <3> HIDE DEF mid
    <3>2. SubSeq(mid, i, i) = <<piece[i]>>
      BY <3>1, SubSeqOne
    <3> QED
      BY <3>2 DEF mid
  <2>3. piece[i] # d
    BY OneOccurs
  <2> QED
    BY <2>1, <2>2, <2>3
<1> QED
  BY <1>1 DEF Clean

LEMMA CleanForTwo ==
  ASSUME NEW S, NEW piece \in Seq(S), NEW c \in S, NEW d \in S, c # d,
         ~Occurs(<<c, d>>, piece)
  PROVE  Clean(piece, <<c, d>>)
<1> DEFINE delim == <<c, d>>
<1>1. delim \in Seq(S) /\ delim # <<>> /\ Len(delim) = 2 /\ delim[1] = c /\ delim[2] = d
  OBVIOUS
<1>2. \A i \in 1..Len(piece) : i + 2 - 1 <= Len(piece) => SubSeq(piece, i, i + 2 - 1) # delim
  <2> HIDE DEF delim
  <2> QED
    BY <1>1, OccursIs DEF delim
<1>3. ASSUME NEW i \in 1..Len(piece), SubSeq(piece \o delim, i, i + 2 - 1) = delim
      PROVE  FALSE
  <2> DEFINE mid == piece \o delim
  <2>1. mid[i] = c /\ mid[i + 1] = d
    <3>1. mid \in Seq(S) /\ i \in 1..Len(mid) /\ i + 1 \in 1..Len(mid) /\ i + 2 - 1 = i + 1
      BY <1>1
    <3> HIDE DEF mid
    <3>2. SubSeq(mid, i, i + 1)[1] = mid[i] /\ SubSeq(mid, i, i + 1)[2] = mid[i + 1]
      BY <3>1
    <3>3. SubSeq(mid, i, i + 1) = delim
      BY <1>3, <3>1 DEF mid
    <3> QED
      BY <1>1, <3>2, <3>3, Zenon
  <2>2. mid[Len(piece) + 1] = c
    BY <1>1
  <2>3. i + 1 <= Len(piece)
    BY <2>1, <2>2
  <2>4. i + 2 - 1 = i + 1 /\ SubSeq(piece, i, i + 1) = SubSeq(mid, i, i + 1)
    BY <2>3
  <2> HIDE DEF delim
  <2> QED
    BY <1>2, <1>3, <2>3, <2>4
<1> QED
  BY <1>1, <1>3 DEF Clean

-----------------------------------------------------------------------------
(* Split gives back the pieces that were put together. *)

\* The iterator after what it has passed.
Passed(pre, ps) == [it |-> Len(pre) + 1, pieces |-> ps]

LEMMA AdvancePast ==
  ASSUME NEW S, NEW pre \in Seq(S), NEW piece \in Seq(S), NEW delim \in Seq(S),
         delim # <<>>, NEW rest \in Seq(S), Clean(piece, delim), NEW ps
  PROVE  Advance(pre \o ((piece \o delim) \o rest), delim, Passed(pre, ps))
             = Passed(pre \o (piece \o delim), Append(ps, piece))
<1> DEFINE mid == piece \o delim
           seq == pre \o (mid \o rest)
           end == Search(seq, delim, Len(pre) + 1)
<1>1. end = Len(pre) + Len(piece) + 1
  BY SearchPast, ZenonT(60) DEF Found
<1>2. /\ Len(pre) \in Nat /\ Len(piece) \in Nat /\ Len(delim) \in Nat /\ Len(delim) >= 1
      /\ Len(rest) \in Nat /\ mid \in Seq(S) /\ Len(mid) = Len(piece) + Len(delim)
      /\ SubSeq(mid, 1, Len(piece)) = piece
  OBVIOUS
<1> HIDE DEF mid
<1>3. Len(seq) = Len(pre) + Len(mid) + Len(rest)
  <2> DEFINE tail == mid \o rest
  <2>1. tail \in Seq(S) /\ Len(tail) = Len(mid) + Len(rest)
    BY <1>2, ConcatProperties
  <2> HIDE DEF tail
  <2>2. Len(pre \o tail) = Len(pre) + Len(tail)
    BY <2>1, ConcatProperties
  <2>3. Len(pre) + Len(tail) = Len(pre) + Len(mid) + Len(rest)
    BY <1>2, <2>1
  <2> QED
    BY <2>2, <2>3 DEF tail
<1>4. Len(pre \o mid) = Len(pre) + Len(mid)
  BY <1>2, ConcatProperties
<1>5. SubSeq(seq, Len(pre) + 1, Len(pre) + Len(piece)) = piece
  <2> DEFINE i == 1
             j == Len(piece)
  <2>1. i \in 1..(Len(mid) + 1) /\ j \in (i - 1)..Len(mid)
    BY <1>2
  <2>2. SubSeq(mid, i, j) = piece
    BY <1>2
  <2> HIDE DEF i, j
  <2>3. SubSeq(seq, Len(pre) + i, Len(pre) + j) = SubSeq(mid, i, j)
    <3>1. mid \in Seq(S)
      BY <1>2
    <3>2. SamePart(pre, mid, rest, i, j)
      BY <2>1, <3>1, SubSeqOfConcat
    <3> QED
      BY <3>2, Zenon DEF SamePart
  <2> QED
    BY <2>2, <2>3 DEF i, j
<1>6. /\ ~(Len(pre) + 1 > Len(seq)) /\ ~(end > Len(seq)) /\ end - 1 = Len(pre) + Len(piece)
      /\ end + Len(delim) = Len(pre \o mid) + 1
  BY <1>1, <1>2, <1>3, <1>4, SMTT(40)
<1> HIDE DEF end, seq
<1>7. Advance(seq, delim, Passed(pre, ps)) =
          [it |-> end + Len(delim), pieces |-> Append(ps, SubSeq(seq, Len(pre) + 1, end - 1))]
  BY <1>6 DEF Advance, NextPiece, Passed, end
<1> QED
  BY <1>5, <1>6, <1>7, Zenon DEF Passed, seq, mid

LEMMA AdvanceLast ==
  ASSUME NEW S, NEW pre \in Seq(S), NEW piece \in Seq(S), piece # <<>>,
         NEW delim \in Seq(S), delim # <<>>, ~Occurs(delim, piece), NEW ps
  PROVE  Advance(pre \o piece, delim, Passed(pre, ps)) = Passed(pre \o piece, Append(ps, piece))
<1> DEFINE seq == pre \o piece
           end == Search(seq, delim, Len(pre) + 1)
           d == Len(delim)
<1>1. /\ Len(pre) \in Nat /\ Len(piece) \in Nat /\ d \in Nat /\ d >= 1
      /\ seq \in Seq(S) /\ Len(seq) = Len(pre) + Len(piece) /\ Len(piece) >= 1
      /\ SubSeq(seq, Len(pre) + 1, Len(seq)) = piece
  OBVIOUS
<1>2. \A i \in 1..Len(piece) : i + d - 1 <= Len(piece) => SubSeq(piece, i, i + d - 1) # delim
  BY OccursIs
<1>3. ASSUME NEW i \in (Len(pre) + 1)..Len(seq), i + d - 1 <= Len(seq)
      PROVE  SubSeq(seq, i, i + d - 1) # delim
  <2> DEFINE k == i - Len(pre)
             l == k + d - 1
  <2>1. /\ k \in 1..Len(piece) /\ k + d - 1 <= Len(piece)
        /\ k \in 1..(Len(piece) + 1) /\ l \in (k - 1)..Len(piece)
    BY <1>1, <1>3
  <2>2. Len(pre) + k = i /\ Len(pre) + l = i + d - 1
    BY <1>1
  <2>3. SubSeq(piece, k, l) # delim
    BY <1>2, <2>1
  <2> HIDE DEF k, l
  <2>4. SubSeq(seq, Len(pre) + k, Len(pre) + l) = SubSeq(piece, k, l)
    BY <2>1, SubSeqOfTail
  <2> QED
    BY <2>2, <2>3, <2>4, Zenon
<1>4. Len(pre) + 1 \in 1..(Len(seq) + 1)
  BY <1>1
<1> HIDE DEF seq, d
<1>5. end = Len(seq) + 1
  <2>1. Search(seq, delim, Len(pre) + 1) = Len(seq) + 1
    BY <1>1, <1>3, <1>4, NotFound DEF d
  <2> QED
    BY <2>1
<1>6. ~(Len(pre) + 1 > Len(seq)) /\ end > Len(seq) /\ end - 1 = Len(seq)
  BY <1>1, <1>5
<1> HIDE DEF end
<1>7. Advance(seq, delim, Passed(pre, ps)) =
          [it |-> end, pieces |-> Append(ps, SubSeq(seq, Len(pre) + 1, end - 1))]
  BY <1>6 DEF Advance, NextPiece, Passed, end
<1> QED
  BY <1>1, <1>5, <1>6, <1>7, Zenon DEF Passed, seq

\* Once the iterator is at the end it stays there.
LEMMA IteratorEnds ==
  ASSUME NEW S, NEW seq \in Seq(S), NEW delim \in Seq(S), delim # <<>>,
         NEW k \in 0..Len(seq), Iterator(seq, delim)[k].it = Len(seq) + 1
  PROVE  Split(seq, delim) = Iterator(seq, delim)[k].pieces
<1> DEFINE n == Len(seq)
           F == Iterator(seq, delim)
           T == {i \in k..n : F[i] = F[k]}
<1>1. n \in Nat /\ k \in Int /\ n \in Int /\ k \in k..n /\ n \in k..n
  OBVIOUS
<1>2. \A i \in 1..n : F[i] = Advance(seq, delim, F[i - 1])
  BY IteratorIs
<1> HIDE DEF F
<1>3. k \in T
  BY <1>1
<1>4. ASSUME NEW i \in k..(n - 1), i \in T PROVE i + 1 \in T
  <2>1. i + 1 \in k..n /\ i + 1 \in 1..n /\ (i + 1) - 1 = i
    BY <1>1
  <2>2. F[i + 1] = Advance(seq, delim, F[k])
    BY <1>2, <1>4, <2>1
  <2>3. F[k].it > Len(seq)
    BY <1>1 DEF F
  <2>4. Advance(seq, delim, F[k]) = F[k]
    BY <2>3 DEF Advance
  <2> QED
    BY <2>1, <2>2, <2>4
<1> HIDE DEF T, n
<1>5. k..n \subseteq T
  BY <1>1, <1>3, <1>4, IntervalInduct
<1>6. F[n] = F[k]
  BY <1>1, <1>5 DEF T
<1> QED
  BY <1>6, Zenon DEF Split, F, n

\* Concatenation is associative.
Grouped(a, b, c) == (a \o b) \o c = a \o (b \o c)

LEMMA Assoc ==
  ASSUME NEW S, NEW a \in Seq(S), NEW b \in Seq(S), NEW c \in Seq(S)
  PROVE  Grouped(a, b, c)
BY SMTT(40) DEF Grouped

LEMMA EmptyConcat ==
  ASSUME NEW S, NEW a \in Seq(S)
  PROVE  a \o <<>> = a /\ <<>> \o a = a
OBVIOUS

Pieces(S) == Seq(Seq(S))

\* What the iterator has passed after the first k pieces.
First(ps, k) == SubSeq(ps, 1, k)
Through(ps, delim, k) == IF k = 0 THEN <<>> ELSE Joined(First(ps, k), delim) \o delim

LEMMA FirstIs ==
  ASSUME NEW U, NEW ps \in Seq(U), NEW k \in 0..Len(ps)
  PROVE  /\ First(ps, k) \in Seq(U) /\ Len(First(ps, k)) = k
         /\ k = 0 <=> First(ps, k) = <<>>
         /\ k = Len(ps) => First(ps, k) = ps
         /\ k < Len(ps) => First(ps, k + 1) = Append(First(ps, k), ps[k + 1])
<1>1. First(ps, k) \in Seq(U) /\ Len(First(ps, k)) = k
  BY DEF First
<1>2. k = 0 <=> First(ps, k) = <<>>
  BY <1>1
<1>3. k = Len(ps) => First(ps, k) = ps
  BY DEF First
<1>4. k < Len(ps) => First(ps, k + 1) = Append(First(ps, k), ps[k + 1])
  BY DEF First
<1> QED
  BY <1>1, <1>2, <1>3, <1>4

JoinsAt(S, delim, ps, k) ==
    /\ Through(ps, delim, k) \in Seq(S) /\ ps[k + 1] \in Seq(S)
    /\ Joined(First(ps, k + 1), delim) = Through(ps, delim, k) \o ps[k + 1]
    /\ Through(ps, delim, k + 1) = Through(ps, delim, k) \o (ps[k + 1] \o delim)

LEMMA JoinedFirst ==
  ASSUME NEW S, NEW delim \in Seq(S), NEW ps \in Pieces(S), NEW k \in 0..(Len(ps) - 1)
  PROVE  JoinsAt(S, delim, ps, k)
<1> DEFINE U == Seq(S)
           p == ps[k + 1]
           f == First(ps, k)
           J == Joined(f, delim)
<1>1. p \in U /\ delim \in U /\ k \in 0..Len(ps) /\ k < Len(ps) /\ k + 1 # 0
  <2>1. ps \in Seq(U)
    BY DEF Pieces
  <2>2. delim \in U
    OBVIOUS
  <2> HIDE DEF U
  <2>3. k \in 0..Len(ps) /\ k < Len(ps) /\ k + 1 # 0 /\ ps[k + 1] \in U
    BY <2>1
  <2> QED
    BY <2>2, <2>3
<1>2. f \in Seq(U) /\ First(ps, k + 1) = Append(f, p) /\ (k = 0 <=> f = <<>>)
  <2>1. ps \in Seq(U)
    BY DEF Pieces
  <2> HIDE DEF U
  <2> QED
    BY <1>1, <2>1, FirstIs
<1> HIDE DEF U, p
<1> HIDE DEF f
<1>3. /\ J \in U /\ (f = <<>> => J = <<>>)
      /\ Joined(Append(f, p), delim) = J \o Added(f, delim, p)
  <2>1. Grows(U, f, delim)
    <3> USE DEF U
    <3> HIDE DEF f
    <3> QED
      BY <1>1, <1>2, JoinedIs, Zenon
  <2> QED
    BY <1>1, <2>1, Zenon DEF Grows
<1> HIDE DEF J
<1>4. Through(ps, delim, k) = IF k = 0 THEN <<>> ELSE J \o delim
  BY DEF Through, J, f
<1>5. Through(ps, delim, k) \in U
  <2>1. J \o delim \in U
    BY <1>1, <1>3 DEF U
  <2>2. <<>> \in U
    BY DEF U
  <2> QED
    BY <1>4, <2>1, <2>2
<1>6. Joined(First(ps, k + 1), delim) = Through(ps, delim, k) \o p
  <2>1. CASE k = 0
    <3>1. Joined(First(ps, k + 1), delim) = <<>> \o (<<>> \o p)
      BY <1>2, <1>3, <2>1, Zenon DEF Added
    <3>2. <<>> \o (<<>> \o p) = <<>> \o p
      BY <1>1, EmptyConcat DEF U
    <3> QED
      BY <1>4, <2>1, <3>1, <3>2, Zenon
  <2>2. CASE k # 0
    <3>1. Joined(First(ps, k + 1), delim) = J \o (delim \o p)
      BY <1>2, <1>3, <2>2, Zenon DEF Added
    <3>2. J \o (delim \o p) = (J \o delim) \o p
      <4>1. J \in Seq(S) /\ delim \in Seq(S) /\ p \in Seq(S)
        BY <1>1, <1>3 DEF U
      <4>2. Grouped(J, delim, p)
        BY <4>1, Assoc
      <4> QED
        BY <4>2, Zenon DEF Grouped
    <3> QED
      BY <1>4, <2>2, <3>1, <3>2, Zenon
  <2> QED
    BY <2>1, <2>2
<1>7. Through(ps, delim, k + 1) = Through(ps, delim, k) \o (p \o delim)
  <2>1. Through(ps, delim, k + 1) = (Through(ps, delim, k) \o p) \o delim
    BY <1>1, <1>6, Zenon DEF Through
  <2>2. (Through(ps, delim, k) \o p) \o delim = Through(ps, delim, k) \o (p \o delim)
    <3>1. Through(ps, delim, k) \in Seq(S) /\ p \in Seq(S) /\ delim \in Seq(S)
      BY <1>1, <1>5 DEF U
    <3>2. Grouped(Through(ps, delim, k), p, delim)
      BY <3>1, Assoc
    <3> QED
      BY <3>2, Zenon DEF Grouped
  <2> QED
    BY <2>1, <2>2, Zenon
<1> QED
  BY <1>1, <1>5, <1>6, <1>7, Zenon DEF U, p, JoinsAt

\* Every piece but the last is passed in one step.
LEMMA IteratorThrough ==
  ASSUME NEW S, NEW delim \in Seq(S), delim # <<>>, NEW ps \in Pieces(S), ps # <<>>,
         \A i \in 1..(Len(ps) - 1) : Clean(ps[i], delim),
         NEW k \in 0..(Len(ps) - 1), NEW rest \in Seq(S)
  PROVE  /\ k <= Len(Through(ps, delim, k))
         /\ Iterator(Through(ps, delim, k) \o rest, delim)[k]
                = Passed(Through(ps, delim, k), First(ps, k))
<1> DEFINE U == Seq(S)
           n == Len(ps) - 1
           B(j) == Through(ps, delim, j)
           Good(j) == /\ j <= Len(B(j))
                      /\ \A r \in U : Iterator(B(j) \o r, delim)[j] = Passed(B(j), First(ps, j))
           T == {j \in 0..n : Good(j)}
<1>1. n \in Nat /\ 0 \in Int /\ n \in Int /\ 0 \in 0..n /\ ps \in Seq(U) /\ delim \in U /\ <<>> \in U
  BY DEF Pieces
<1>1b. \A a, b, c \in U : (a \o b) \o c = a \o (b \o c)
  BY SMTT(40)
<1>2. \A j \in 0..n : /\ B(j) \in U /\ ps[j + 1] \in U
                      /\ B(j + 1) = B(j) \o (ps[j + 1] \o delim)
  <2> SUFFICES ASSUME NEW j \in 0..n PROVE JoinsAt(S, delim, ps, j)
    BY Zenon DEF JoinsAt
  <2> QED
    BY JoinedFirst, Zenon
<1>3. \A j \in 0..n : j \in 0..Len(ps) /\ j < Len(ps)
  BY DEF n
<1>4. \A i \in 1..n : Clean(ps[i], delim)
  OBVIOUS
<1> HIDE DEF n
<1>5. 0 \in T
  <2>1. B(0) = <<>> /\ First(ps, 0) = <<>> /\ Len(<<>>) = 0
    BY <1>1, <1>3, FirstIs DEF Through
  <2>2. \A r \in U : Iterator(r, delim)[0] = [it |-> 1, pieces |-> <<>>]
    BY IteratorIs
  <2>3. \A r \in U : <<>> \o r = r
    OBVIOUS
  <2>4. Passed(<<>>, <<>>) = [it |-> 1, pieces |-> <<>>]
    BY DEF Passed
  <2>5. 0 <= Len(<<>>)
    BY <2>1
  <2>6. Good(0)
    <3>1. \A r \in U : Iterator(B(0) \o r, delim)[0] = Passed(B(0), First(ps, 0))
      <4> HIDE DEF U
      <4> QED
        BY <2>1, <2>2, <2>3, <2>4, Zenon
    <3> QED
      BY <2>1, <2>5, <3>1, Zenon
  <2> QED
    BY <1>1, <2>6
<1>6. ASSUME NEW j \in 0..(n - 1), j \in T PROVE j + 1 \in T
  <2> DEFINE p == ps[j + 1]
             pre == B(j)
             mid == p \o delim
  <2>1. j \in 0..n /\ j + 1 \in 0..n /\ j + 1 \in 1..n /\ j \in Nat /\ (j + 1) - 1 = j
    BY <1>1
  <2>2. pre \in U /\ p \in U /\ B(j + 1) = pre \o mid /\ Clean(p, delim)
    BY <1>2, <1>4, <2>1
  <2>3. First(ps, j + 1) = Append(First(ps, j), p)
    BY <1>1, <1>3, <2>1, FirstIs, ZenonT(60)
  <2>4. Good(j)
    BY <1>6
  <2> HIDE DEF p, pre
  <2>5. mid \in U /\ Len(mid) >= 1 /\ Len(mid) \in Nat /\ Len(pre) \in Nat
    BY <1>1, <2>2
  <2> HIDE DEF mid
  <2>6. pre \o mid \in U /\ Len(pre \o mid) = Len(pre) + Len(mid)
    BY <2>2, <2>5, ConcatProperties DEF U
  <2>7. j <= Len(pre)
    BY <2>4 DEF pre
  <2>8. j + 1 <= Len(pre \o mid)
    BY <2>1, <2>5, <2>6, <2>7
  <2>9. ASSUME NEW r \in U
        PROVE  Iterator((pre \o mid) \o r, delim)[j + 1] = Passed(pre \o mid, Append(First(ps, j), p))
    <3> DEFINE seq == pre \o (mid \o r)
    <3>1. (pre \o mid) \o r = seq
      <4> HIDE DEF U
      <4> QED
        BY <1>1b, <2>2, <2>5
    <3>2. mid \o r \in U /\ seq \in U
      BY <2>2, <2>5 DEF U
    <3>3. Iterator(seq, delim)[j] = Passed(pre, First(ps, j))
      BY <2>4, <3>2 DEF pre
    <3>4. Advance(seq, delim, Passed(pre, First(ps, j))) = Passed(pre \o mid, Append(First(ps, j), p))
      BY <1>1, <2>2, AdvancePast DEF mid, U
    <3>5. j + 1 \in 1..Len(seq)
      <4>1. Len(seq) = Len(pre \o mid) + Len(r) /\ Len(r) \in Nat
        BY <2>6, <3>1, ConcatProperties DEF U
      <4> HIDE DEF seq
      <4> QED
        BY <2>1, <2>5, <2>6, <2>8, <4>1
    <3> HIDE DEF seq
    <3>6. Iterator(seq, delim)[j + 1] = Advance(seq, delim, Iterator(seq, delim)[(j + 1) - 1])
      BY <1>1, <3>2, <3>5, IteratorIs DEF U
    <3> QED
      BY <2>1, <3>1, <3>3, <3>4, <3>6, Zenon DEF seq
  <2>10. Good(j + 1)
    BY <2>2, <2>3, <2>8, <2>9, Zenon DEF pre
  <2> QED
    BY <2>1, <2>10
<1> HIDE DEF T
<1>7. 0..n \subseteq T
  BY <1>1, <1>5, <1>6, IntervalInduct
<1>8. Good(k)
  BY <1>7 DEF T, n
<1> QED
  BY <1>8

\* Split gives the pieces back that were joined, a last one that is empty excepted
\* (slice.h, TSlice::Next and its iterator).
THEOREM SplitJoined ==
  ASSUME NEW S, NEW delim \in Seq(S), delim # <<>>, NEW ps \in Pieces(S), ps # <<>>,
         \A i \in 1..(Len(ps) - 1) : Clean(ps[i], delim),
         ~Occurs(delim, ps[Len(ps)])
  PROVE  Split(Joined(ps, delim), delim)
             = IF ps[Len(ps)] = <<>> THEN First(ps, Len(ps) - 1) ELSE ps
<1> DEFINE U == Seq(S)
           k == Len(ps) - 1
           p == ps[k + 1]
           pre == Through(ps, delim, k)
           seq == pre \o p
<1>1. k \in Nat /\ k \in 0..(Len(ps) - 1) /\ k + 1 = Len(ps) /\ k \in 0..Len(ps) /\ k < Len(ps)
      /\ Len(ps) \in 0..Len(ps)
  <2>1. ps \in Seq(U)
    BY DEF Pieces
  <2> HIDE DEF U
  <2> QED
    BY <2>1
<1>1a. ps \in Seq(U)
  BY DEF Pieces
<1>2. pre \in U /\ p \in U /\ Joined(First(ps, k + 1), delim) = seq
  <2>1. JoinsAt(S, delim, ps, k)
    BY <1>1, JoinedFirst, ZenonT(60)
  <2> QED
    BY <2>1, Zenon DEF JoinsAt
<1>3. First(ps, k + 1) = ps /\ ps = Append(First(ps, k), p)
  <2> HIDE DEF U
  <2>1. First(ps, Len(ps)) = ps
    BY <1>1, <1>1a, FirstIs
  <2>2. First(ps, k + 1) = Append(First(ps, k), p)
    BY <1>1, <1>1a, FirstIs
  <2> QED
    BY <1>1, <2>1, <2>2, ZenonT(60)
<1>4. /\ k <= Len(pre)
      /\ \A r \in U : Iterator(pre \o r, delim)[k] = Passed(pre, First(ps, k))
  BY <1>1, IteratorThrough
<1>5. ~Occurs(delim, p)
  BY <1>1
<1> HIDE DEF k, p, pre
<1>6. seq \in U /\ Len(seq) = Len(pre) + Len(p) /\ Len(pre) \in Nat /\ Len(p) \in Nat
  BY <1>2, ConcatProperties
<1>7. Iterator(seq, delim)[k] = Passed(pre, First(ps, k))
  BY <1>2, <1>4
<1>8. CASE p = <<>>
  <2>1. Len(p) = 0
    BY <1>8
  <2>2. Passed(pre, First(ps, k)).it = Len(seq) + 1 /\ Passed(pre, First(ps, k)).pieces = First(ps, k)
    BY <1>6, <2>1 DEF Passed
  <2>3. k \in 0..Len(seq)
    BY <1>1, <1>4, <1>6, <2>1
  <2> HIDE DEF seq
  <2>4. Split(seq, delim) = Iterator(seq, delim)[k].pieces
    BY <1>6, <1>7, <2>2, <2>3, IteratorEnds
  <2> QED
    BY <1>1, <1>2, <1>3, <1>7, <1>8, <2>2, <2>4, Zenon DEF p, k
<1>9. CASE p # <<>>
  <2>1. Len(p) >= 1
    BY <1>2, <1>9
  <2>2. Advance(seq, delim, Passed(pre, First(ps, k))) = Passed(seq, Append(First(ps, k), p))
    BY <1>2, <1>5, <1>9, AdvanceLast
  <2>3. Passed(seq, ps).it = Len(seq) + 1 /\ Passed(seq, ps).pieces = ps
    BY DEF Passed
  <2>4. k + 1 \in 0..Len(seq) /\ k + 1 \in 1..Len(seq) /\ (k + 1) - 1 = k
    BY <1>1, <1>4, <1>6, <2>1
  <2> HIDE DEF seq
  <2>5. Iterator(seq, delim)[k + 1] = Advance(seq, delim, Iterator(seq, delim)[(k + 1) - 1])
    BY <1>6, <2>4, IteratorIs
  <2>6. Iterator(seq, delim)[k + 1] = Passed(seq, ps)
    BY <1>3, <1>7, <2>2, <2>4, <2>5, Zenon
  <2>7. Split(seq, delim) = Iterator(seq, delim)[k + 1].pieces
    BY <1>6, <2>3, <2>4, <2>6, IteratorEnds, ZenonT(60)
  <2> QED
    BY <1>1, <1>2, <1>3, <1>9, <2>3, <2>6, <2>7, Zenon DEF p, k
<1> QED
  BY <1>8, <1>9

-----------------------------------------------------------------------------
(* The same from the front. *)

LEMMA FlattenConsIn ==
  ASSUME NEW U, \A a, b \in U : a \o b \in U,
         <<>> \in U, \A a \in U : <<>> \o a = a /\ a \o <<>> = a,
         \A a, b, c \in U : (a \o b) \o c = a \o (b \o c),
         NEW e \in U, NEW ss \in Seq(U)
  PROVE  FlattenSeq(<<e>> \o ss) = e \o FlattenSeq(ss)
<1> DEFINE n == Len(ss)
           f(k) == First(ss, k)
           T == {k \in 0..n : FlattenSeq(<<e>> \o f(k)) = e \o FlattenSeq(f(k))}
<1>1. n \in Nat /\ 0 \in Int /\ n \in Int /\ 0 \in 0..n /\ n \in 0..n
  OBVIOUS
<1>2. ASSUME NEW k \in 0..n
      PROVE  /\ f(k) \in Seq(U) /\ (k = 0 => f(k) = <<>>) /\ (k = n => f(k) = ss)
             /\ k < n => f(k + 1) = Append(f(k), ss[k + 1]) /\ ss[k + 1] \in U
  BY FirstIs
<1>3. ASSUME NEW tt \in Seq(U)
      PROVE  /\ FlattenSeq(tt) \in U
             /\ tt = <<>> => FlattenSeq(tt) = <<>>
             /\ \A s \in U : FlattenSeq(Append(tt, s)) = FlattenSeq(tt) \o s
  BY FlattenIn
<1> HIDE DEF n, f
<1>4. 0 \in T
  <2>1. f(0) = <<>> /\ <<e>> \o <<>> = <<e>> /\ <<e>> = Append(<<>>, e) /\ <<>> \in Seq(U)
    BY <1>1, <1>2
  <2>2. FlattenSeq(<<>>) = <<>> /\ FlattenSeq(Append(<<>>, e)) = FlattenSeq(<<>>) \o e
    BY <1>3, <2>1, Zenon
  <2>2a. FlattenSeq(<<e>>) = <<>> \o e /\ FlattenSeq(f(0)) = <<>>
    BY <2>1, <2>2, Zenon
  <2>3. FlattenSeq(<<e>> \o f(0)) = e \o FlattenSeq(f(0))
    BY <2>1, <2>2a
  <2> QED
    BY <1>1, <2>3
<1>5. ASSUME NEW k \in 0..(n - 1), k \in T PROVE k + 1 \in T
  <2>1. k \in 0..n /\ k + 1 \in 0..n /\ k < n
    BY <1>1
  <2> DEFINE g == f(k)
             x == ss[k + 1]
             h == <<e>> \o g
  <2>2. g \in Seq(U) /\ x \in U /\ f(k + 1) = Append(g, x)
    BY <1>2, <2>1
  <2>3. FlattenSeq(h) = e \o FlattenSeq(g)
    BY <1>5
  <2> HIDE DEF g, x
  <2>4. h \in Seq(U) /\ <<e>> \o Append(g, x) = Append(h, x)
    BY <2>2, SMTT(40)
  <2> HIDE DEF h
  <2>5. /\ FlattenSeq(Append(h, x)) = FlattenSeq(h) \o x
        /\ FlattenSeq(Append(g, x)) = FlattenSeq(g) \o x /\ FlattenSeq(g) \in U
    BY <1>3, <2>2, <2>4
  <2>6. (e \o FlattenSeq(g)) \o x = e \o (FlattenSeq(g) \o x)
    BY <2>2, <2>5
  <2>7. FlattenSeq(<<e>> \o f(k + 1)) = e \o FlattenSeq(f(k + 1))
    BY <2>2, <2>3, <2>4, <2>5, <2>6, Zenon
  <2> QED
    BY <2>1, <2>7
<1> HIDE DEF T
<1>6. 0..n \subseteq T
  BY <1>1, <1>4, <1>5, IntervalInduct
<1>7. FlattenSeq(<<e>> \o f(n)) = e \o FlattenSeq(f(n)) /\ f(n) = ss
  BY <1>1, <1>2, <1>6 DEF T
<1> QED
  BY <1>7

\* Two pieces joined.
JoinsTwo(x, y, delim) == Joined(<<x, y>>, delim) = (x \o delim) \o y

LEMMA JoinedTwo ==
  ASSUME NEW U, \A a, b \in U : a \o b \in U,
         <<>> \in U, \A a \in U : <<>> \o a = a /\ a \o <<>> = a,
         \A a, b, c \in U : (a \o b) \o c = a \o (b \o c),
         NEW delim \in U, NEW x \in U, NEW y \in U
  PROVE  JoinsTwo(x, y, delim)
<1>1. /\ <<>> \in Seq(U) /\ <<x>> \in Seq(U) /\ <<x>> # <<>>
      /\ <<x>> = Append(<<>>, x) /\ <<x, y>> = Append(<<x>>, y)
  OBVIOUS
<1>2. Joined(<<>>, delim) = <<>> /\ Joined(<<x>>, delim) = <<>> \o (<<>> \o x)
  <2>1. Grows(U, <<>>, delim)
    BY <1>1, JoinedIn
  <2> QED
    BY <1>1, <2>1, Zenon DEF Grows, Added
<1>3. Joined(<<x>>, delim) = x
  BY <1>2
<1>4. Joined(<<x, y>>, delim) = x \o (delim \o y)
  <2>1. Grows(U, <<x>>, delim)
    BY <1>1, JoinedIn
  <2> QED
    BY <1>1, <1>3, <2>1, Zenon DEF Grows, Added
<1> QED
  BY <1>4 DEF JoinsTwo

-----------------------------------------------------------------------------
(***************************************************************************)
(* What a reader of messages accepts is what was written, for any          *)
(* messages, any symbols and any lengths of texts.                         *)
(***************************************************************************)

-----------------------------------------------------------------------------
(***************************************************************************)
(* What a reader of messages accepts is what was written, for any          *)
(* messages, any symbols and any lengths of texts.                         *)
(***************************************************************************)

(* Symbols and texts.                                                      *)

LEMMA Symbols ==
  /\ CR \in Symbol /\ LF \in Symbol /\ SP \in Symbol /\ COLON \in Symbol
  /\ NUL \in Symbol /\ StatusCode \in Symbol
  /\ CR # LF /\ CR # SP /\ CR # COLON /\ LF # SP /\ LF # COLON /\ SP # COLON
  /\ SP # StatusCode /\ LF # StatusCode
BY MessageAssumption DEF CR, LF, SP, COLON, NUL, StatusCode

LEMMA Delimiters ==
  /\ <<>> \in Texts
  /\ <<CR>> \in Texts /\ <<LF>> \in Texts /\ <<SP>> \in Texts /\ <<StatusCode>> \in Texts
  /\ <<CR, LF>> \in Texts /\ <<COLON, SP>> \in Texts
  /\ <<LF>> # <<>> /\ <<SP>> # <<>> /\ <<COLON, SP>> # <<>> /\ <<CR, LF>> # <<>>
  /\ LengthHeader \in Texts
<1>1. "Content-Length" \in Symbol /\ LengthHeader = <<"Content-Length">>
  BY MessageAssumption DEF LengthHeader
<1>2. LengthHeader \in Seq(Symbol)
  BY <1>1
<1> QED
  BY <1>2, Symbols DEF Texts

-----------------------------------------------------------------------------
(* Lines. *)

LEMMA GetLineIs ==
  ASSUME NEW text \in Texts
  PROVE  /\ GetLine(text).line \in Texts /\ GetLine(text).rest \in Texts
         /\ GetLine(text).end \in BOOLEAN
         /\ text # <<>> => Len(GetLine(text).rest) < Len(text)
<1> DEFINE end == Search(text, <<LF>>, 1)
<1>1. text \in Seq(Symbol) /\ <<LF>> \in Seq(Symbol) /\ <<LF>> # <<>>
  BY Delimiters DEF Texts
<1>2. Len(text) \in Nat /\ 1 \in 1..(Len(text) + 1)
  BY <1>1
<1>3. FirstAt(end, text, <<LF>>, 1)
  BY <1>1, <1>2, SearchIs, Zenon
<1>4. end \in 1..(Len(text) + 1)
  BY <1>3 DEF FirstAt
<1> HIDE DEF end
<1>5. GetLine(text) = [line |-> SubSeq(text, 1, end - 1),
                       rest |-> SubSeq(text, end + 1, Len(text)), end |-> end > Len(text)]
  BY DEF GetLine, end
<1>6. SubSeq(text, 1, end - 1) \in Seq(Symbol) /\ SubSeq(text, end + 1, Len(text)) \in Seq(Symbol)
  BY <1>1, <1>2, <1>4
<1>7. text # <<>> => Len(SubSeq(text, end + 1, Len(text))) < Len(text)
  BY <1>1, <1>2, <1>4
<1> QED
  BY <1>5, <1>6, <1>7 DEF Texts

\* A line that ends, with more behind it.
LEMMA LineEnded ==
  ASSUME NEW line \in Texts, NEW more \in Texts, ~Occurs(<<LF>>, line)
  PROVE  GetLine(line \o (<<LF>> \o more)) = [line |-> line, rest |-> more, end |-> FALSE]
<1> DEFINE text == line \o (<<LF>> \o more)
           end == Search(text, <<LF>>, 1)
<1>1. line \in Seq(Symbol) /\ more \in Seq(Symbol) /\ LF \in Symbol
  BY Symbols DEF Texts
<1>1a. Len(text) \in Nat
  BY <1>1
<1>2. Clean(line, <<LF>>)
  BY <1>1, CleanForOne
<1>3. end = Len(line) + 1
  <2> DEFINE d == <<LF>>
             e == <<>>
  <2>1. e \in Seq(Symbol) /\ d \in Seq(Symbol) /\ d # <<>> /\ Len(e) = 0
    BY <1>1
  <2>2. text = e \o ((line \o d) \o more)
    BY <1>1
  <2>2a. Clean(line, d)
    BY <1>2
  <2> HIDE DEF text, d, e
  <2>3. Found(e \o ((line \o d) \o more), d, Len(e) + 1, Len(e) + Len(line) + 1)
    BY <1>1, <2>1, <2>2a, SearchPast, Zenon
  <2>4. Len(e) + 1 = 1 /\ Len(e) + Len(line) + 1 = Len(line) + 1
    BY <1>1, <2>1
  <2> QED
    BY <2>2, <2>3, <2>4 DEF d, Found
<1>4. /\ SubSeq(text, 1, (Len(line) + 1) - 1) = line
      /\ SubSeq(text, (Len(line) + 1) + 1, Len(text)) = more
      /\ ~(Len(line) + 1 > Len(text))
  BY <1>1
<1> HIDE DEF text, end
<1>5. GetLine(text) = [line |-> line, rest |-> more, end |-> FALSE]
  <2>1. GetLine(text) = [line |-> SubSeq(text, 1, end - 1),
                         rest |-> SubSeq(text, end + 1, Len(text)), end |-> end > Len(text)]
    BY DEF GetLine, end
  <2>2. (end > Len(text)) = FALSE
    BY <1>3, <1>4
  <2> QED
    BY <1>3, <1>4, <2>1, <2>2, Zenon
<1> QED
  BY <1>5, Zenon DEF text

\* A line that the end of the text cuts off.
LEMMA LineCut ==
  ASSUME NEW text \in Texts, ~Occurs(<<LF>>, text)
  PROVE  GetLine(text) = [line |-> text, rest |-> <<>>, end |-> TRUE]
<1> DEFINE end == Search(text, <<LF>>, 1)
<1>1. text \in Seq(Symbol) /\ LF \in Symbol /\ <<LF>> \in Seq(Symbol) /\ <<LF>> # <<>>
  BY Symbols DEF Texts
<1>2. Len(text) \in Nat /\ 1 \in 1..(Len(text) + 1)
  BY <1>1
<1>3. FirstAt(end, text, <<LF>>, 1)
  BY <1>1, <1>2, SearchIs, Zenon
<1>4. end \in 1..(Len(text) + 1) /\ ~(end <= Len(text))
  BY <1>3 DEF FirstAt, Occurs
<1> HIDE DEF end
<1>5. end = Len(text) + 1
  BY <1>2, <1>4
<1>6. /\ SubSeq(text, 1, (Len(text) + 1) - 1) = text
      /\ SubSeq(text, (Len(text) + 1) + 1, Len(text)) = <<>>
      /\ Len(text) + 1 > Len(text)
  BY <1>1
<1> QED
  BY <1>5, <1>6 DEF GetLine, end

LEMMA PrepareIs ==
  ASSUME NEW line \in Texts
  PROVE  /\ Prepare(line) \in Texts
         /\ line # <<>> /\ line # <<CR>> => Prepare(line) # <<>>
         /\ Prepare(line \o <<CR>>) = line
<1>1. line \in Seq(Symbol) /\ CR \in Symbol
  BY Symbols DEF Texts
<1>2. Prepare(line) \in Texts
  <2>1. line # <<>> => SubSeq(line, 1, Len(line) - 1) \in Seq(Symbol)
    BY <1>1
  <2> QED
    BY <2>1 DEF Prepare, Front, Texts
<1>3. line # <<>> /\ line # <<CR>> => Prepare(line) # <<>>
  <2> SUFFICES ASSUME line # <<>>, line # <<CR>>, line[Len(line)] = CR
               PROVE  SubSeq(line, 1, Len(line) - 1) # <<>>
    BY DEF Prepare, Front, Last
  <2>1. Len(line) # 1
    <3>1. Len(line) = 1 => line = <<line[1]>>
      BY <1>1
    <3> QED
      BY <3>1
  <2>2. Len(line) \in Nat /\ Len(line) >= 2
    BY <1>1, <2>1
  <2>3. Len(SubSeq(line, 1, Len(line) - 1)) >= 1
    BY <1>1, <2>2
  <2> QED
    BY <2>3
<1>4. Prepare(line \o <<CR>>) = line
  <2> DEFINE l == line \o <<CR>>
  <2>1. l # <<>> /\ l[Len(l)] = CR /\ SubSeq(l, 1, Len(l) - 1) = line
    BY <1>1
  <2> HIDE DEF l
  <2>2. Prepare(l) = line
    BY <2>1 DEF Prepare, Front, Last
  <2> QED
    BY <2>2 DEF l
<1> QED
  BY <1>2, <1>3, <1>4

LEMMA SplitIn ==
  ASSUME NEW seq \in Texts, NEW delim \in Texts, delim # <<>>
  PROVE  /\ Split(seq, delim) \in Seq(Texts)
         /\ Split(seq, delim) = <<>> <=> seq = <<>>
<1>1. seq \in Seq(Symbol) /\ delim \in Seq(Symbol)
  BY DEF Texts
<1>2. IsSplitting(Split(seq, delim), seq, delim)
  BY <1>1, SplitExact, Zenon
<1>3. Iterator(seq, delim) \in [0..Len(seq) -> Iterators(Symbol, seq)]
  BY <1>1, IteratorIs
<1>4. Len(seq) \in 0..Len(seq)
  BY <1>1
<1>5. Split(seq, delim) \in Seq(Texts)
  BY <1>3, <1>4 DEF Split, Iterators, Texts
<1> QED
  BY <1>2, <1>5 DEF IsSplitting

-----------------------------------------------------------------------------
(* What a reader is. *)

HeaderSets == UNION {[D -> Texts] : D \in SUBSET Texts}
Objects    == [start : [1..3 -> Texts], headers : HeaderSets, body : Texts]
States     == {"headers", "reading", "failed", "threw"}
Readers    == [object : Objects, text : Texts, end : BOOLEAN, state : States]

LEMMA HeaderSetsIs ==
  \A h : h \in HeaderSets <=> DOMAIN h \in SUBSET Texts /\ h \in [DOMAIN h -> Texts]
BY DEF HeaderSets

LEMMA BlankIs == Blank \in Objects /\ DOMAIN Blank.headers = {} /\ Blank.body = <<>>
<1>1. [name \in {} |-> <<>>] \in HeaderSets /\ DOMAIN [name \in {} |-> <<>>] = {}
  BY HeaderSetsIs
<1> QED
  BY <1>1, Delimiters DEF Blank, Objects

\* new is object with the one header set.
Sets(new, obj, name, value) ==
    /\ new \in Objects
    /\ new.start = obj.start /\ new.body = obj.body
    /\ DOMAIN new.headers = DOMAIN obj.headers \cup {name}
    /\ new.headers[name] = value
    /\ \A h \in DOMAIN obj.headers \ {name} : new.headers[h] = obj.headers[h]

LEMMA WithHeaderIs ==
  ASSUME NEW obj \in Objects, NEW name \in Texts, NEW value \in Texts
  PROVE  Sets(WithHeader(obj, name, value), obj, name, value)
<1> DEFINE hs == [h \in DOMAIN obj.headers \cup {name} |->
                      IF h = name THEN value ELSE obj.headers[h]]
<1>1. obj.headers \in HeaderSets /\ obj.start \in [1..3 -> Texts] /\ obj.body \in Texts
      /\ obj = [start |-> obj.start, headers |-> obj.headers, body |-> obj.body]
  BY DEF Objects
<1>2. /\ DOMAIN hs = DOMAIN obj.headers \cup {name} /\ DOMAIN hs \in SUBSET Texts
      /\ \A h \in DOMAIN hs : hs[h] \in Texts /\ hs[h] = IF h = name THEN value ELSE obj.headers[h]
  BY <1>1, HeaderSetsIs
<1>3. hs \in [DOMAIN hs -> Texts]
  BY <1>2
<1>4. WithHeader(obj, name, value)
          = [start |-> obj.start, headers |-> hs, body |-> obj.body]
  BY <1>1 DEF WithHeader
<1> HIDE DEF hs
<1>5. hs \in HeaderSets
  BY <1>2, <1>3, HeaderSetsIs
<1> QED
  BY <1>1, <1>2, <1>4, <1>5 DEF Objects, Sets

LEMMA FlattenTexts ==
  ASSUME NEW parts \in Seq(Texts)
  PROVE  FlattenSeq(parts) \in Texts
<1>1. /\ \A a, b \in Texts : a \o b \in Texts
      /\ <<>> \in Texts /\ \A a \in Texts : <<>> \o a = a
  BY DEF Texts
<1> QED
  BY <1>1, FlattenIn

LEMMA AfterIs ==
  ASSUME NEW r \in Readers
  PROVE  /\ After(r, GetLine(r.text)) \in Readers
         /\ After(r, GetLine(r.text)).object = r.object
         /\ After(r, GetLine(r.text)).state = r.state
         /\ After(r, GetLine(r.text)).text = GetLine(r.text).rest
         /\ After(r, GetLine(r.text)).end = GetLine(r.text).end
<1>1. r.text \in Texts
  BY DEF Readers
<1>2. GetLine(r.text).rest \in Texts /\ GetLine(r.text).end \in BOOLEAN
  BY <1>1, GetLineIs
<1> QED
  BY <1>2 DEF After, Readers

\* A turn of the loop keeps what it does not set.
LEMMA ReadHeaderIs ==
  ASSUME NEW r \in Readers
  PROVE  /\ ReadHeader(r) \in Readers
         /\ ReadHeader(r).object.start = r.object.start
         /\ ReadHeader(r).object.body = r.object.body
         /\ DOMAIN r.object.headers \subseteq DOMAIN ReadHeader(r).object.headers
<1> DEFINE g     == GetLine(r.text)
           parts == Split(Prepare(g.line), <<COLON, SP>>)
           a     == After(r, g)
<1>1. r.text \in Texts /\ r.object \in Objects
  BY DEF Readers
<1>2. g.line \in Texts
  BY <1>1, GetLineIs
<1>3. a \in Readers /\ a.object = r.object
  BY AfterIs
<1>4. Prepare(g.line) \in Texts
  BY <1>2, PrepareIs
<1>5. parts \in Seq(Texts) /\ (parts = <<>> <=> Prepare(g.line) = <<>>)
  BY <1>4, Delimiters, SplitIn
<1>6. g.line # <<CR>> /\ g.line # <<>> => Prepare(g.line) # <<>>
  BY <1>2, PrepareIs
<1>7. ReadHeader(r) =
          IF r.state # "headers" THEN r
          ELSE IF r.text = <<>>  THEN [r EXCEPT !.end = TRUE, !.state = "failed"]
          ELSE IF g.line = <<CR>> THEN [a EXCEPT !.state = "reading"]
          ELSE IF g.line = <<>>  THEN [a EXCEPT !.state = "threw"]
          ELSE [a EXCEPT !.object = WithHeader(r.object, parts[1], FlattenSeq(Tail(parts)))]
  BY DEF ReadHeader
<1> HIDE DEF g, parts, a
<1> DEFINE w == WithHeader(r.object, parts[1], FlattenSeq(Tail(parts)))
<1>8. parts # <<>> => /\ w \in Objects /\ w.start = r.object.start /\ w.body = r.object.body
                     /\ DOMAIN w.headers = DOMAIN r.object.headers \cup {parts[1]}
  <2> SUFFICES ASSUME parts # <<>>
               PROVE  /\ w \in Objects /\ w.start = r.object.start /\ w.body = r.object.body
                      /\ DOMAIN w.headers = DOMAIN r.object.headers \cup {parts[1]}
    OBVIOUS
  <2>1. parts[1] \in Texts /\ Tail(parts) \in Seq(Texts)
    BY <1>5
  <2>2. FlattenSeq(Tail(parts)) \in Texts
    BY <2>1, FlattenTexts
  <2>3. Sets(w, r.object, parts[1], FlattenSeq(Tail(parts)))
    BY <1>1, <2>1, <2>2, WithHeaderIs, Zenon
  <2> QED
    BY <2>3 DEF Sets
<1> HIDE DEF w
<1>9. CASE r.state # "headers"
  BY <1>7, <1>9
<1>10. CASE r.state = "headers" /\ r.text = <<>>
  BY <1>7, <1>10 DEF Readers, States
<1>11. CASE r.state = "headers" /\ r.text # <<>> /\ g.line = <<CR>>
  BY <1>3, <1>7, <1>11 DEF Readers, States
<1>12. CASE r.state = "headers" /\ r.text # <<>> /\ g.line # <<CR>> /\ g.line = <<>>
  BY <1>3, <1>7, <1>12 DEF Readers, States
<1>13. CASE r.state = "headers" /\ r.text # <<>> /\ g.line # <<CR>> /\ g.line # <<>>
  <2>1. parts # <<>>
    BY <1>5, <1>6, <1>13
  <2>2. ReadHeader(r) = [a EXCEPT !.object = w]
    BY <1>7, <1>13 DEF w
  <2>3. ReadHeader(r).object = w /\ ReadHeader(r) \in Readers
    BY <1>3, <1>8, <2>1, <2>2 DEF Readers
  <2> QED
    BY <1>8, <2>1, <2>3
<1> QED
  BY <1>9, <1>10, <1>11, <1>12, <1>13

-----------------------------------------------------------------------------
(* The loop. *)

LEMMA HeaderLoopIs ==
  ASSUME NEW r \in Readers
  PROVE  /\ HeaderLoop(r) \in [0..(Len(r.text) + 1) -> Readers]
         /\ HeaderLoop(r)[0] = r
         /\ \A i \in 1..(Len(r.text) + 1) : HeaderLoop(r)[i] = ReadHeader(HeaderLoop(r)[i - 1])
<1> DEFINE n == Len(r.text) + 1
           D == [i \in Int |-> [a \in Readers |-> ReadHeader(a)]]
           F == HeaderLoop(r)
<1>1. n \in Nat /\ 0 \in Int /\ n \in Int
  <2>1. r.text \in Seq(Symbol)
    BY DEF Readers, Texts
  <2> QED
    BY <2>1
<1>2. \A a \in Readers : ReadHeader(a) \in Readers
  BY ReadHeaderIs
<1>3. D \in [Int -> [Readers -> Readers]] /\ \A i \in Int : \A a \in Readers : D[i][a] = ReadHeader(a)
  BY <1>2
<1> HIDE DEF D
<1>4. F = CHOOSE f : f = [i \in 0..n |-> IF i = 0 THEN r ELSE ReadHeader(f[i - 1])]
  BY Zenon DEF HeaderLoop
<1> HIDE DEF n, F
<1>5. PICK f \in [0..n -> Readers] : Runs(f, 0, n, r, D)
  BY <1>1, <1>3, Recursion, Zenon
<1>6. f = [i \in 0..n |-> IF i = 0 THEN r ELSE ReadHeader(f[i - 1])]
  <2>1. ASSUME NEW i \in 0..n
        PROVE  f[i] = IF i = 0 THEN r ELSE ReadHeader(f[i - 1])
    <3>1. i \in Int /\ (i # 0 => i - 1 \in 0..n)
      BY <1>1
    <3>2. i # 0 => D[i][f[i - 1]] = ReadHeader(f[i - 1])
      BY <1>3, <3>1
    <3> QED
      BY <1>5, <3>2 DEF Runs
  <2> QED
    BY <2>1
<1>7. F = [i \in 0..n |-> IF i = 0 THEN r ELSE ReadHeader(F[i - 1])]
  BY <1>4, <1>6, Zenon
<1>8. \A i \in 0..n : F[i] = IF i = 0 THEN r ELSE ReadHeader(F[i - 1])
  BY <1>7
<1>9. F \in [0..n -> Readers]
  <2> DEFINE T == {i \in 0..n : F[i] \in Readers}
  <2>1. 0 \in T
    BY <1>1, <1>8
  <2>2. ASSUME NEW i \in 0..(n - 1), i \in T PROVE i + 1 \in T
    <3>1. i + 1 \in 0..n /\ i + 1 # 0 /\ (i + 1) - 1 = i
      BY <1>1
    <3>2. F[i + 1] = ReadHeader(F[i])
      BY <1>8, <3>1
    <3> QED
      BY <1>2, <2>2, <3>1, <3>2
  <2> HIDE DEF T
  <2>3. 0..n \subseteq T
    BY <1>1, <2>1, <2>2, IntervalInduct
  <2>4. \A i \in 0..n : F[i] \in Readers
    BY <2>3 DEF T
  <2> QED
    BY <1>7, <2>4
<1>10. F[0] = r /\ \A i \in 1..n : F[i] = ReadHeader(F[i - 1])
  <2>1. 0 \in 0..n /\ \A i \in 1..n : i \in 0..n /\ i # 0
    BY <1>1
  <2> QED
    BY <1>8, <2>1, Zenon
<1> QED
  BY <1>9, <1>10, Zenon DEF F, n

\* What holds at first and is kept by each turn holds in the end.
LEMMA LoopInduct ==
  ASSUME NEW r \in Readers, NEW I, <<0, r>> \in I,
         \A i \in 0..Len(r.text) : \A a \in Readers : <<i, a>> \in I => <<i + 1, ReadHeader(a)>> \in I
  PROVE  <<Len(r.text) + 1, ReadHeaders(r)>> \in I /\ ReadHeaders(r) \in Readers
<1> DEFINE n == Len(r.text) + 1
           F == HeaderLoop(r)
           T == {i \in 0..n : <<i, F[i]>> \in I}
<1>1. Len(r.text) \in Nat
  <2>1. r.text \in Seq(Symbol)
    BY DEF Readers, Texts
  <2> QED
    BY <2>1
<1>2. n \in Nat /\ 0 \in Int /\ n \in Int /\ n \in 0..n /\ n - 1 = Len(r.text)
  BY <1>1
<1>3. /\ F \in [0..n -> Readers]
      /\ F[0] = r
      /\ \A i \in 1..n : F[i] = ReadHeader(F[i - 1])
  BY HeaderLoopIs
<1>4. ReadHeaders(r) = F[n]
  BY DEF ReadHeaders
<1> HIDE DEF n, F
<1>5. 0 \in T
  BY <1>2, <1>3
<1>6. ASSUME NEW i \in 0..(n - 1), i \in T PROVE i + 1 \in T
  <2>1. i + 1 \in 0..n /\ i + 1 \in 1..n /\ (i + 1) - 1 = i /\ i \in 0..n /\ i \in 0..Len(r.text)
    BY <1>2
  <2>2. F[i + 1] = ReadHeader(F[i]) /\ F[i] \in Readers
    BY <1>3, <2>1
  <2>3. <<i, F[i]>> \in I
    BY <1>6
  <2>4. <<i + 1, ReadHeader(F[i])>> \in I
    BY <2>1, <2>2, <2>3, Zenon
  <2> QED
    BY <2>1, <2>2, <2>4
<1> HIDE DEF T
<1>7. 0..n \subseteq T
  BY <1>2, <1>5, <1>6, IntervalInduct
<1>8. <<n, F[n]>> \in I
  BY <1>2, <1>7 DEF T
<1> QED
  BY <1>2, <1>3, <1>4, <1>8 DEF n

-----------------------------------------------------------------------------
(* The first line and the body. *)

LEMMA StartOfIs ==
  ASSUME NEW obj \in Objects, NEW parts \in Seq(Texts), ~StartThrows(parts)
  PROVE  StartOf(obj, parts) \in [1..3 -> Texts]
<1>1. obj.start[3] \in Texts /\ <<StatusCode>> \in Texts
  BY Delimiters DEF Objects
<1>2. CASE kind = "request"
  <2>1. Len(parts) = 3 /\ StartOf(obj, parts) = parts
    BY <1>2 DEF StartThrows, StartOf
  <2> QED
    BY <2>1, LenProperties
<1>3. CASE kind # "request"
  <2>1. Len(parts) \in {2, 3}
    BY <1>3 DEF StartThrows
  <2>2. parts[1] \in Texts /\ (Len(parts) = 3 => parts[3] \in Texts)
    BY <2>1
  <2> DEFINE last == IF Len(parts) = 3 THEN parts[3] ELSE obj.start[3]
  <2>3. last \in Texts
    BY <1>1, <2>2
  <2>4. StartOf(obj, parts) = <<parts[1], <<StatusCode>>, last>>
    BY <1>3 DEF StartOf
  <2> HIDE DEF last
  <2>5. \A a, b, c \in Texts : <<a, b, c>> \in [1..3 -> Texts]
    OBVIOUS
  <2> QED
    BY <1>1, <2>2, <2>3, <2>4, <2>5
<1> QED
  BY <1>2, <1>3

LEMMA ReadStartIs ==
  ASSUME NEW r \in Readers
  PROVE  /\ ReadStart(r) \in Readers
         /\ ReadStart(r).object.headers = r.object.headers
         /\ ReadStart(r).object.body = r.object.body
<1> DEFINE g     == GetLine(r.text)
           parts == Split(Prepare(g.line), <<SP>>)
           a     == After(r, g)
<1>1. r.text \in Texts /\ r.object \in Objects
  BY DEF Readers
<1>2. a \in Readers /\ a.object = r.object
  BY AfterIs
<1>3. parts \in Seq(Texts)
  BY <1>1, GetLineIs, PrepareIs, Delimiters, SplitIn
<1>4. ReadStart(r) =
          IF g.line = <<>> \/ StartThrows(parts) THEN [a EXCEPT !.state = "threw"]
          ELSE [a EXCEPT !.object = [@ EXCEPT !.start = StartOf(r.object, parts)]]
  BY DEF ReadStart
<1> HIDE DEF g, parts, a
<1>5. CASE g.line = <<>> \/ StartThrows(parts)
  BY <1>2, <1>4, <1>5 DEF Readers, States
<1>6. CASE ~(g.line = <<>> \/ StartThrows(parts))
  <2> DEFINE start  == StartOf(r.object, parts)
             obj    == [r.object EXCEPT !.start = start]
  <2>1. start \in [1..3 -> Texts]
    BY <1>1, <1>3, <1>6, StartOfIs
  <2>2. ReadStart(r) = [a EXCEPT !.object = obj]
    BY <1>2, <1>4, <1>6
  <2> HIDE DEF start
  <2>3. obj \in Objects /\ obj.headers = r.object.headers /\ obj.body = r.object.body
    BY <1>1, <2>1 DEF Objects
  <2> QED
    BY <1>2, <2>2, <2>3 DEF Readers
<1> QED
  BY <1>5, <1>6

\* What read puts into the resized body.
TakenBody(text, n) == [i \in 1..n |-> IF i <= Len(text) THEN text[i] ELSE NUL]

LEMMA TakeIs ==
  ASSUME NEW r \in Readers, NEW n \in Nat
  PROVE  /\ Take(r, n) \in Readers
         /\ Take(r, n).object.start = r.object.start
         /\ Take(r, n).object.headers = r.object.headers
         /\ Take(r, n).object.body = TakenBody(r.text, n)
         /\ Len(Take(r, n).object.body) = n
         /\ Take(r, n).text = SubSeq(r.text, n + 1, Len(r.text))
         /\ Take(r, n).end = (r.end \/ Len(r.text) < n)
         /\ Take(r, n).state = IF r.end \/ Len(r.text) < n THEN "failed" ELSE r.state
<1> DEFINE body   == TakenBody(r.text, n)
           obj    == [r.object EXCEPT !.body = body]
           rest   == SubSeq(r.text, n + 1, Len(r.text))
           fail   == r.end \/ Len(r.text) < n
           state  == IF fail THEN "failed" ELSE r.state
<1>1. r.text \in Seq(Symbol) /\ r.object \in Objects /\ r.end \in BOOLEAN /\ r.state \in States
  BY DEF Readers, Texts
<1>2. body \in Seq(Symbol) /\ Len(body) = n /\ rest \in Seq(Symbol)
  BY <1>1, Symbols DEF TakenBody
<1>3. fail \in BOOLEAN /\ state \in States
  BY <1>1 DEF States
<1>4. Take(r, n) = [object |-> obj, text |-> rest, end |-> fail, state |-> state]
  <2>1. Take(r, n) = [r EXCEPT !.object.body = body, !.text = rest, !.end = fail, !.state = state]
    BY Zenon DEF Take, TakenBody
  <2> HIDE DEF body, rest, fail, state
  <2> QED
    BY <2>1 DEF Readers
<1> HIDE DEF body, rest, fail, state
<1>5. obj \in Objects /\ obj.start = r.object.start /\ obj.headers = r.object.headers
      /\ obj.body = body
  BY <1>1, <1>2 DEF Objects, Texts
<1> HIDE DEF obj
<1>6. Take(r, n) \in Readers
  BY <1>2, <1>3, <1>4, <1>5 DEF Readers, Texts
<1>7. /\ Take(r, n).object = obj /\ Take(r, n).text = rest
      /\ Take(r, n).end = fail /\ Take(r, n).state = state
  BY <1>4
<1> QED
  BY <1>2, <1>5, <1>6, <1>7, Zenon DEF body, rest, fail, state

LEMMA LengthIs ==
  ASSUME NEW value, IsLength(value)
  PROVE  Length(value) \in Nat /\ Head(value) = Number(Length(value))
<1>1. PICK n \in 0..(Len(Decimals) - 1) : Head(value) = Number(n)
  BY DEF IsLength
<1>2. Length(value) \in 0..(Len(Decimals) - 1) /\ Head(value) = Number(Length(value))
  BY <1>1 DEF Length
<1> QED
  BY <1>2

\* A body is as long as its header says, when the reading goes on.
LEMMA ReadBodyIs ==
  ASSUME NEW r \in Readers,
         LengthHeader \notin DOMAIN r.object.headers => r.object.body = <<>>
  PROVE  /\ ReadBody(r) \in Readers
         /\ ReadBody(r).state \in {"headers", "reading"} => Measured(ReadBody(r).object)
<1>1. CASE r.state = "threw" \/ LengthHeader \notin DOMAIN r.object.headers
  <2>1. ReadBody(r) = r
    BY <1>1 DEF ReadBody
  <2> QED
    BY <1>1, <2>1 DEF Measured
<1> DEFINE value == r.object.headers[LengthHeader]
           n     == Length(value)
<1>2. CASE ~(r.state = "threw" \/ LengthHeader \notin DOMAIN r.object.headers) /\ IsLength(value)
  <2>1. ReadBody(r) = Take(r, n)
    BY <1>2 DEF ReadBody
  <2>2. n \in Nat
    BY <1>2, LengthIs
  <2>3. /\ Take(r, n) \in Readers
        /\ Take(r, n).object.headers = r.object.headers
        /\ Len(Take(r, n).object.body) = n
    BY <2>2, TakeIs
  <2> QED
    BY <1>2, <2>1, <2>3 DEF Measured
<1>3. CASE ~(r.state = "threw" \/ LengthHeader \notin DOMAIN r.object.headers) /\ ~IsLength(value)
  <2>1. ReadBody(r) = [r EXCEPT !.state = "threw"]
    BY <1>3 DEF ReadBody
  <2>2. ReadBody(r) \in Readers /\ ReadBody(r).state = "threw"
    BY <2>1 DEF Readers, States
  <2> QED
    BY <2>2
<1> QED
  BY <1>1, <1>2, <1>3

\* The loop keeps the first line and the body, and only adds headers.
LEMMA ReadHeadersIs ==
  ASSUME NEW r \in Readers
  PROVE  /\ ReadHeaders(r) \in Readers
         /\ ReadHeaders(r).object.start = r.object.start
         /\ ReadHeaders(r).object.body = r.object.body
         /\ DOMAIN r.object.headers \subseteq DOMAIN ReadHeaders(r).object.headers
<1> DEFINE Keeps(a) == /\ a.object.start = r.object.start
                       /\ a.object.body = r.object.body
                       /\ DOMAIN r.object.headers \subseteq DOMAIN a.object.headers
           I == {x \in Nat \X Readers : Keeps(x[2])}
<1>1. Len(r.text) \in Nat
  <2>1. r.text \in Seq(Symbol)
    BY DEF Readers, Texts
  <2> QED
    BY <2>1
<1>2. <<0, r>> \in I
  OBVIOUS
<1>3. ASSUME NEW i \in 0..Len(r.text), NEW a \in Readers, <<i, a>> \in I
      PROVE  <<i + 1, ReadHeader(a)>> \in I
  <2>1. i + 1 \in Nat
    BY <1>1
  <2>2. Keeps(a)
    BY <1>3
  <2>3. ReadHeader(a) \in Readers /\ Keeps(ReadHeader(a))
    BY <2>2, ReadHeaderIs
  <2> QED
    BY <2>1, <2>3
<1> HIDE DEF I
<1>4. <<Len(r.text) + 1, ReadHeaders(r)>> \in I /\ ReadHeaders(r) \in Readers
  BY <1>2, <1>3, LoopInduct
<1> QED
  BY <1>4 DEF I

Begun(text, obj) == [object |-> obj, text |-> text, end |-> FALSE, state |-> "headers"]

\* Whatever there is to read, into an object whose body is measured.
LEMMA ReadingIs ==
  ASSUME NEW text \in Texts, NEW obj \in Objects,
         LengthHeader \notin DOMAIN obj.headers => obj.body = <<>>
  PROVE  /\ Reading(text, obj) \in Readers
         /\ Reading(text, obj).state \in {"headers", "reading"} =>
                Measured(Reading(text, obj).object)
<1> DEFINE r == Begun(text, obj)
           s == ReadStart(r)
           h == ReadHeaders(s)
<1>1. r \in Readers /\ r.object = obj
  BY DEF Begun, Readers, States
<1>2. Reading(text, obj) = ReadBody(h)
  BY DEF Reading, Begun
<1> HIDE DEF r
<1>3. /\ s \in Readers
      /\ s.object.headers = obj.headers
      /\ s.object.body = obj.body
  BY <1>1, ReadStartIs
<1> HIDE DEF s
<1>4. /\ h \in Readers
      /\ h.object.body = obj.body
      /\ DOMAIN obj.headers \subseteq DOMAIN h.object.headers
  BY <1>3, ReadHeadersIs
<1> HIDE DEF h
<1> QED
  BY <1>2, <1>4, ReadBodyIs

-----------------------------------------------------------------------------
(* The texts that are written. *)

LEMMA TextsClosed ==
  /\ \A a, b \in Texts : a \o b \in Texts
  /\ \A a \in Texts : <<>> \o a = a /\ a \o <<>> = a
  /\ \A a, b, c \in Texts : (a \o b) \o c = a \o (b \o c)
BY DEF Texts

LEMMA MessagesAreObjects ==
  ASSUME NEW m \in Requests \cup Responses
  PROVE  /\ m \in Objects /\ IsFiniteSet(DOMAIN m.headers)
         /\ DOMAIN m.headers \subseteq Texts
         /\ \A name \in DOMAIN m.headers : m.headers[name] \in Texts
         /\ m.start \in [1..3 -> Texts] /\ m.body \in Texts
         /\ Len(m.body) < Len(Decimals)
<1>1. IsMessage(m) /\ Len(m.body) < Len(Decimals)
  BY MessageAssumption
<1>2. /\ m \in [start : [1..3 -> Texts], headers : [DOMAIN m.headers -> Texts], body : Texts]
      /\ DOMAIN m.headers \subseteq Texts /\ IsFiniteSet(DOMAIN m.headers)
  BY <1>1 DEF IsMessage
<1>3. m.headers \in HeaderSets
  BY <1>2, HeaderSetsIs
<1> QED
  BY <1>1, <1>2, <1>3 DEF Objects

\* The map's order is one of all its names.
LEMMA OrderIs ==
  ASSUME NEW D, IsFiniteSet(D), NEW order \in SetToSeqs(D)
  PROVE  /\ order \in Seq(D)
         /\ \A name \in D : \E i \in 1..Len(order) : order[i] = name
         /\ \A i, j \in 1..Len(order) : i # j => order[i] # order[j]
<1> DEFINE n == Cardinality(D)
<1>1. n \in Nat
  BY FS_CardinalityType
<1>2. order \in [1..n -> D] /\ \A i, j \in 1..n : i # j => order[i] # order[j]
  BY DEF SetToSeqs
<1>3. order \in Injection(1..n, D)
  BY <1>2 DEF Injection, IsInjective
<1>4. Cardinality(1..n) = n
  <2>1. 1 \in Int /\ n \in Int
    BY <1>1
  <2>2. Cardinality(1..n) = IF 1 > n THEN 0 ELSE n - 1 + 1
    BY <2>1, FS_Interval
  <2> HIDE DEF n
  <2> QED
    BY <1>1, <2>2
<1>5. order \in Surjection(1..n, D)
  BY <1>3, <1>4, FS_Injection
<1>6. \A name \in D : \E i \in 1..n : order[i] = name
  BY <1>5 DEF Surjection
<1> HIDE DEF n
<1>7. order \in Seq(D) /\ Len(order) = n
  BY <1>1, <1>2
<1> QED
  BY <1>2, <1>6, <1>7

HeaderLine(m, name) == ((name \o <<COLON, SP>>) \o m.headers[name]) \o <<CR, LF>>
LinesOf(m, order) == [i \in DOMAIN order |-> HeaderLine(m, order[i])]
StartLine(m) == Joined(m.start, <<SP>>)

LEMMA TextIs ==
  ASSUME NEW m \in Requests \cup Responses, NEW order \in SetToSeqs(DOMAIN m.headers)
  PROVE  /\ StartLine(m) \in Texts
         /\ \A name \in DOMAIN m.headers : HeaderLine(m, name) \in Texts
         /\ LinesOf(m, order) \in Seq(Texts) /\ Len(LinesOf(m, order)) = Len(order)
         /\ FlattenSeq(LinesOf(m, order)) \in Texts
         /\ Text(m, order) =
                (((StartLine(m) \o <<CR, LF>>) \o FlattenSeq(LinesOf(m, order))) \o <<CR, LF>>) \o m.body
         /\ Text(m, order) \in Texts
<1>1. /\ m.start \in [1..3 -> Texts] /\ m.body \in Texts /\ IsFiniteSet(DOMAIN m.headers)
      /\ \A name \in DOMAIN m.headers : name \in Texts /\ m.headers[name] \in Texts
  BY MessagesAreObjects
<1>2. StartLine(m) \in Texts
  <2>1. m.start \in Seq(Texts)
    <3>1. 3 \in Nat /\ Seq(Texts) = UNION {[1..n -> Texts] : n \in Nat}
      BY SeqDef
    <3> QED
      BY <1>1, <3>1
  <2>2. Grows(Texts, m.start, <<SP>>)
    BY <2>1, TextsClosed, Delimiters, JoinedIn
  <2> QED
    BY <2>2 DEF Grows, StartLine
<1>3. \A name \in DOMAIN m.headers : HeaderLine(m, name) \in Texts
  BY <1>1, TextsClosed, Delimiters DEF HeaderLine
<1>4. LinesOf(m, order) \in Seq(Texts) /\ Len(LinesOf(m, order)) = Len(order)
  <2>1. order \in Seq(DOMAIN m.headers)
    BY <1>1, OrderIs
  <2> QED
    BY <1>3, <2>1 DEF LinesOf
<1>5. FlattenSeq(LinesOf(m, order)) \in Texts
  BY <1>4, FlattenTexts
<1>6. Text(m, order) =
          (((StartLine(m) \o <<CR, LF>>) \o FlattenSeq(LinesOf(m, order))) \o <<CR, LF>>) \o m.body
  BY DEF Text, HeaderLines, LinesOf, HeaderLine, StartLine
<1>7. Text(m, order) \in Texts
  BY <1>1, <1>2, <1>5, <1>6, TextsClosed, Delimiters
<1> QED
  BY <1>2, <1>3, <1>4, <1>5, <1>6, <1>7

-----------------------------------------------------------------------------
(* Types; what Split does to every text on a connection. *)

Written == IF kind = "request" THEN Requests ELSE Responses

TypeOK ==
    /\ kind \in {"request", "response"} /\ reuse \in BOOLEAN
    /\ sent \in Seq(Written) /\ stream \in Texts
    /\ over \in BOOLEAN /\ cut \in BOOLEAN
    /\ object \in Objects /\ got \in Seq(Objects) /\ reader \in States

\* A reader that goes on has an object whose body is measured, and so have the
\* messages it accepted.
MeasuredInv ==
    /\ reader = "reading" => Measured(object)
    /\ \A i \in DOMAIN got : Measured(got[i])

\* The object that the next operator>> reads into.
Target == IF reuse THEN object ELSE Blank

LEMMA TargetIs ==
  ASSUME TypeOK, MeasuredInv, reader = "reading"
  PROVE  /\ Target \in Objects
         /\ LengthHeader \notin DOMAIN Target.headers => Target.body = <<>>
<1>1. CASE reuse
  BY <1>1 DEF Target, TypeOK, MeasuredInv, Measured
<1>2. CASE ~reuse
  BY <1>2, BlankIs DEF Target
<1> QED
  BY <1>1, <1>2

LEMMA TypeStep ==
  ASSUME TypeOK, MeasuredInv, [Next]_vars
  PROVE  TypeOK' /\ MeasuredInv'
<1> USE DEF TypeOK
<1>1. ASSUME NEW message \in Written, Write(message)
      PROVE  TypeOK' /\ MeasuredInv'
  <2>1. message \in Requests \cup Responses /\ Written' = Written
    BY <1>1 DEF Write, Written
  <2>2. PICK order \in SetToSeqs(DOMAIN message.headers) : stream' = stream \o Text(message, order)
    BY <1>1 DEF Write
  <2>3. stream' \in Texts
    BY <2>1, <2>2, TextIs, TextsClosed
  <2>4. sent' \in Seq(Written)
    BY <1>1 DEF Write
  <2> QED
    BY <1>1, <2>1, <2>3, <2>4 DEF Write, MeasuredInv, Measured
<1>2. CASE Close
  BY <1>2 DEF Close, Written, MeasuredInv, Measured
<1>3. ASSUME NEW bytes \in 0..(Len(stream) - 1), Break(bytes)
      PROVE  TypeOK' /\ MeasuredInv'
  <2>1. SubSeq(stream, 1, bytes) \in Texts
    BY DEF Texts
  <2> QED
    BY <1>3, <2>1 DEF Break, Written, MeasuredInv, Measured
<1>4. CASE Read
  <2> DEFINE r == Reading(stream, Target)
  <2>1. r \in Readers /\ (r.state \in {"headers", "reading"} => Measured(r.object))
    BY <1>4, TargetIs, ReadingIs DEF Read
  <2>2. /\ stream' = r.text /\ object' = r.object /\ reader' = r.state
        /\ got' = IF r.state = "reading" THEN Append(got, r.object) ELSE got
        /\ UNCHANGED writer
    BY <1>4 DEF Read, Target
  <2> HIDE DEF r
  <2>3. got' \in Seq(Objects)
    BY <2>1, <2>2 DEF Readers
  <2>4. \A i \in DOMAIN got' : Measured(got'[i])
    <3>1. \A i \in DOMAIN got : Measured(got[i])
      BY DEF MeasuredInv
    <3> QED
      BY <2>1, <2>2, <3>1 DEF Readers
  <2>5. TypeOK'
    BY <2>1, <2>2, <2>3 DEF Readers, writer, Written
  <2> QED
    BY <2>1, <2>2, <2>4, <2>5 DEF MeasuredInv, Measured
<1>5. CASE UNCHANGED vars
  BY <1>5 DEF vars, Written, MeasuredInv, Measured
<1> QED
  BY <1>1, <1>2, <1>3, <1>4, <1>5 DEF Next, Written

LEMMA TypeInit == ASSUME Init PROVE TypeOK /\ MeasuredInv
<1>1. Measured(Blank)
  BY BlankIs DEF Measured
<1>2. got = <<>> /\ DOMAIN got = {} /\ object = Blank
  BY DEF Init
<1>3. TypeOK
  <2>1. Blank \in Objects /\ <<>> \in Texts
    BY BlankIs, Delimiters
  <2>2. <<>> \in Seq(Written) /\ <<>> \in Seq(Objects) /\ "reading" \in States
    BY DEF States
  <2> QED
    BY <2>1, <2>2, Zenon DEF Init, TypeOK
<1>4. MeasuredInv
  BY <1>1, <1>2 DEF MeasuredInv
<1> QED
  BY <1>3, <1>4

\* The state has its types, and bodies fit their headers (operator>>).
THEOREM TypeCorrect == Spec => [](TypeOK /\ MeasuredInv)
<1>1. Init => TypeOK /\ MeasuredInv
  BY TypeInit
<1>2. TypeOK /\ MeasuredInv /\ [Next]_vars => (TypeOK /\ MeasuredInv)'
  BY TypeStep
<1> QED
  BY <1>1, <1>2, PTL DEF Spec

\* Split is exact for every text that a connection carries: SplitIsExact of the
\* run, for all symbols and messages.
THEOREM SplitsExactly == Spec => []SplitIsExact
<1>1. TypeOK => SplitIsExact
  <2> SUFFICES ASSUME TypeOK, NEW delim \in {<<SP>>, <<COLON, SP>>, <<CR, LF>>}
               PROVE  IsSplitting(Split(stream, delim), stream, delim)
    BY DEF SplitIsExact
  <2>1. stream \in Seq(Symbol) /\ delim \in Seq(Symbol) /\ delim # <<>>
    BY Delimiters DEF TypeOK, Texts
  <2> QED
    BY <2>1, SplitExact, Zenon
<1> QED
  BY <1>1, TypeCorrect, PTL

-----------------------------------------------------------------------------
(* A text t that arrives of a text t \o z that was written. *)

LEMMA OccursInConcat ==
  ASSUME NEW a \in Texts, NEW b \in Texts, NEW d \in Symbol
  PROVE  Occurs(<<d>>, a \o b) <=> Occurs(<<d>>, a) \/ Occurs(<<d>>, b)
<1>1. a \in Seq(Symbol) /\ b \in Seq(Symbol) /\ a \o b \in Seq(Symbol)
  BY DEF Texts
<1>2. /\ Occurs(<<d>>, a) <=> \E i \in 1..Len(a) : a[i] = d
      /\ Occurs(<<d>>, b) <=> \E i \in 1..Len(b) : b[i] = d
      /\ Occurs(<<d>>, a \o b) <=> \E i \in 1..Len(a \o b) : (a \o b)[i] = d
  BY <1>1, OneOccurs, ZenonT(60)
<1>3. \A i \in 1..Len(a) : i \in 1..Len(a \o b) /\ (a \o b)[i] = a[i]
  BY <1>1
<1>4. \A i \in 1..Len(b) : Len(a) + i \in 1..Len(a \o b) /\ (a \o b)[Len(a) + i] = b[i]
  BY <1>1
<1>5. \A i \in 1..Len(a \o b) : \/ i \in 1..Len(a) /\ (a \o b)[i] = a[i]
                                \/ i - Len(a) \in 1..Len(b) /\ (a \o b)[i] = b[i - Len(a)]
  BY <1>1
<1> QED
  BY <1>2, <1>3, <1>4, <1>5

LEMMA NoLineEnd ==
  /\ ~Occurs(<<LF>>, <<CR>>) /\ ~Occurs(<<LF>>, <<SP>>) /\ ~Occurs(<<LF>>, <<COLON, SP>>)
  /\ ~Occurs(<<LF>>, <<>>)
<1>1. \A seq \in Seq(Symbol) : Occurs(<<LF>>, seq) <=> \E i \in 1..Len(seq) : seq[i] = LF
  BY Symbols, OneOccurs
<1>2. /\ <<CR>> \in Seq(Symbol) /\ Len(<<CR>>) = 1 /\ <<CR>>[1] # LF
      /\ <<SP>> \in Seq(Symbol) /\ Len(<<SP>>) = 1 /\ <<SP>>[1] # LF
      /\ <<>> \in Seq(Symbol) /\ Len(<<>>) = 0
  BY Symbols
<1>3. <<COLON, SP>> \in Seq(Symbol) /\ \A i \in 1..Len(<<COLON, SP>>) : <<COLON, SP>>[i] # LF
  BY Symbols
<1>4. \A i : i \in 1..1 => i = 1
  OBVIOUS
<1>5. \A i : i \notin 1..0
  OBVIOUS
<1> QED
  BY <1>1, <1>2, <1>3, <1>4, <1>5

LEMMA PrefixHasNoLineEnd ==
  ASSUME NEW line \in Texts, ~Occurs(<<LF>>, line), NEW n \in 0..Len(line)
  PROVE  SubSeq(line, 1, n) \in Texts /\ ~Occurs(<<LF>>, SubSeq(line, 1, n))
<1>1. line \in Seq(Symbol) /\ LF \in Symbol
  BY Symbols DEF Texts
<1> DEFINE s == SubSeq(line, 1, n)
<1>2. s \in Seq(Symbol) /\ \A i \in 1..Len(s) : i \in 1..Len(line) /\ s[i] = line[i]
  BY <1>1
<1> HIDE DEF s
<1>3. ~Occurs(<<LF>>, s)
  BY <1>1, <1>2, OneOccurs
<1> QED
  BY <1>2, <1>3 DEF s, Texts

\* The symbols of a concatenation.
TwoParts(w, a, b) ==
    /\ w \in Texts /\ Len(w) = Len(a) + Len(b)
    /\ \A i \in 1..Len(a) : w[i] = a[i]
    /\ \A i \in 1..Len(b) : w[Len(a) + i] = b[i]

LEMMA TwoPartsIs == ASSUME NEW a \in Texts, NEW b \in Texts PROVE TwoParts(a \o b, a, b)
<1>1. a \in Seq(Symbol) /\ b \in Seq(Symbol)
  BY DEF Texts
<1>2. a \o b \in Texts /\ Len(a \o b) = Len(a) + Len(b)
  BY <1>1 DEF Texts
<1>3. \A i \in 1..Len(a) : (a \o b)[i] = a[i]
  BY <1>1
<1>4. \A i \in 1..Len(b) : (a \o b)[Len(a) + i] = b[i]
  BY <1>1
<1> QED
  BY <1>2, <1>3, <1>4 DEF TwoParts

LinePart(w, a, b) ==
    /\ w \in Texts /\ Len(w) = Len(a) + 1 + Len(b)
    /\ \A i \in 1..Len(a) : w[i] = a[i]
    /\ w[Len(a) + 1] = LF
    /\ \A i \in 1..Len(b) : w[Len(a) + 1 + i] = b[i]

LEMMA LinePartIs ==
  ASSUME NEW a \in Texts, NEW b \in Texts PROVE LinePart(a \o (<<LF>> \o b), a, b)
<1> DEFINE l    == <<LF>>
           tail == l \o b
           w    == a \o tail
<1>1. l \in Texts /\ Len(l) = 1 /\ l[1] = LF
  BY Delimiters
<1> HIDE DEF l
<1>2. TwoParts(tail, l, b)
  BY <1>1, TwoPartsIs
<1>3. tail \in Texts
  BY <1>2 DEF TwoParts
<1> HIDE DEF tail
<1>4. TwoParts(w, a, tail)
  BY <1>3, TwoPartsIs
<1> HIDE DEF w
<1>5. Len(a) \in Nat /\ Len(b) \in Nat
  BY DEF Texts
<1>6. Len(tail) = 1 + Len(b) /\ tail[1] = LF /\ \A i \in 1..Len(b) : tail[1 + i] = b[i]
  BY <1>1, <1>2 DEF TwoParts
<1>7. w \in Texts /\ Len(w) = Len(a) + 1 + Len(b) /\ \A i \in 1..Len(a) : w[i] = a[i]
  BY <1>4, <1>5, <1>6 DEF TwoParts
<1>8. w[Len(a) + 1] = LF
  BY <1>4, <1>5, <1>6 DEF TwoParts
<1>9. ASSUME NEW i \in 1..Len(b) PROVE w[Len(a) + 1 + i] = b[i]
  <2>1. 1 + i \in 1..Len(tail) /\ Len(a) + 1 + i = Len(a) + (1 + i)
    BY <1>5, <1>6
  <2>2. w[Len(a) + (1 + i)] = tail[1 + i]
    BY <1>4, <2>1 DEF TwoParts
  <2> QED
    BY <1>6, <2>1, <2>2
<1>10. LinePart(w, a, b)
  BY <1>7, <1>8, <1>9 DEF LinePart
<1> QED
  BY <1>10 DEF w, tail, l

\* Either the line has arrived with its end, or a part of it and nothing else.
Whole(t, z, line, more) ==
    \E t2 \in Texts : t = line \o (<<LF>> \o t2) /\ t2 \o z = more /\ Len(t2) < Len(t)

Part(t, z, line) ==
    \E n \in 0..Len(line) : t = SubSeq(line, 1, n) /\ z # <<>>

\* A place behind the first of two parts is a place of the second.
LEMMA PastAPart ==
  ASSUME NEW a \in Nat, NEW b \in Nat, NEW k \in Nat, NEW c \in Nat, NEW i \in 1..(b + c),
         b = a - k, i > b
  PROVE  i - b \in 1..c /\ b + (i - b) = i /\ a + (i - b) = k + i
OBVIOUS

LEMMA WholeOrPart ==
  ASSUME NEW t \in Texts, NEW z \in Texts, NEW line \in Texts, NEW more \in Texts,
         t \o z = line \o (<<LF>> \o more)
  PROVE  Whole(t, z, line, more) \/ Part(t, z, line)
<1> DEFINE w == line \o (<<LF>> \o more)
<1>1. /\ t \in Seq(Symbol) /\ z \in Seq(Symbol) /\ line \in Seq(Symbol) /\ more \in Seq(Symbol)
      /\ <<LF>> \in Seq(Symbol) /\ Len(<<LF>>) = 1
  BY Symbols DEF Texts
<1>2. /\ w \in Seq(Symbol) /\ Len(w) = Len(line) + 1 + Len(more)
      /\ \A i \in 1..Len(line) : w[i] = line[i]
      /\ w[Len(line) + 1] = LF
      /\ \A i \in 1..Len(more) : w[Len(line) + 1 + i] = more[i]
  BY LinePartIs DEF LinePart, Texts
<1>3. /\ Len(w) = Len(t) + Len(z)
      /\ \A i \in 1..Len(t) : w[i] = t[i]
      /\ \A i \in 1..Len(z) : w[Len(t) + i] = z[i]
  <2>1. TwoParts(t \o z, t, z)
    BY TwoPartsIs
  <2>2. t \o z = w
    OBVIOUS
  <2> HIDE DEF w
  <2> QED
    BY <2>1, <2>2 DEF TwoParts
<1> HIDE DEF w
<1>4. Len(t) \in Nat /\ Len(z) \in Nat /\ Len(line) \in Nat /\ Len(more) \in Nat
  BY <1>1, SMTT(40)
<1>5. CASE Len(t) <= Len(line)
  <2>1. Len(t) \in 0..Len(line) /\ Len(z) > 0
    BY <1>2, <1>3, <1>4, <1>5
  <2>2. t = SubSeq(line, 1, Len(t))
    BY <1>1, <1>2, <1>3, <1>4, <1>5
  <2>3. z # <<>>
    BY <1>1, <2>1
  <2> QED
    BY <2>1, <2>2, <2>3 DEF Part
<1>6. CASE Len(t) > Len(line)
  <2> DEFINE t2 == SubSeq(t, Len(line) + 2, Len(t))
             k  == Len(line) + 1
  <2>1. /\ t2 \in Seq(Symbol) /\ Len(t2) = Len(t) - k /\ Len(t2) \in Nat /\ k \in Nat
        /\ \A i \in 1..Len(t2) : t2[i] = t[k + i]
    BY <1>1, <1>4, <1>6
  <2> DEFINE u == line \o (<<LF>> \o t2)
             v == t2 \o z
  <2> HIDE DEF t2
  <2>2. /\ u \in Seq(Symbol) /\ Len(u) = k + Len(t2)
        /\ \A i \in 1..Len(line) : u[i] = line[i]
        /\ u[k] = LF
        /\ \A i \in 1..Len(t2) : u[k + i] = t2[i]
    <3>1. LinePart(u, line, t2)
      BY <1>1, <2>1, LinePartIs DEF Texts
    <3> HIDE DEF u
    <3> QED
      BY <1>4, <2>1, <3>1 DEF LinePart, Texts
  <2>3. /\ v \in Seq(Symbol) /\ Len(v) = Len(t2) + Len(z)
        /\ \A i \in 1..Len(t2) : v[i] = t2[i]
        /\ \A i \in 1..Len(z) : v[Len(t2) + i] = z[i]
    <3>1. TwoParts(v, t2, z)
      BY <1>1, <2>1, TwoPartsIs DEF Texts
    <3> HIDE DEF v
    <3> QED
      BY <3>1 DEF TwoParts, Texts
  <2> HIDE DEF u, v
  <2>4. t = u
    <3>1. Len(t) = Len(u)
      BY <1>4, <2>1, <2>2
    <3>2. \A i \in 1..Len(t) : t[i] = u[i]
      <4> TAKE i \in 1..Len(t)
      <4>1. CASE i <= Len(line)
        BY <1>2, <1>3, <1>4, <2>2, <4>1
      <4>2. CASE i = k
        BY <1>2, <1>3, <1>4, <2>2, <4>2
      <4>3. CASE i > k
        <5>1. i - k \in 1..Len(t2) /\ k + (i - k) = i
          BY <1>4, <2>1, <4>3
        <5>2. t2[i - k] = t[i] /\ u[i] = t2[i - k]
          BY <2>1, <2>2, <5>1
        <5> QED
          BY <5>2
      <4> QED
        BY <1>4, <4>1, <4>2, <4>3
    <3> QED
      BY <1>1, <2>2, <3>1, <3>2, SeqEqual
  <2>5. v = more
    <3>1. Len(v) = Len(more)
      BY <1>2, <1>3, <1>4, <2>1, <2>3
    <3>2. \A i \in 1..Len(v) : v[i] = more[i]
      <4> TAKE i \in 1..Len(v)
      <4>1. i \in 1..Len(more) /\ w[k + i] = more[i]
        BY <1>2, <3>1
      <4>2. CASE i <= Len(t2)
        <5>1. i \in 1..Len(t2) /\ k + i \in 1..Len(t)
          BY <1>4, <2>1, <4>2
        <5> QED
          BY <1>3, <2>1, <2>3, <4>1, <5>1
      <4>3. CASE i > Len(t2)
        <5>0. /\ Len(t) \in Nat /\ Len(z) \in Nat /\ Len(t2) \in Nat /\ k \in Nat
              /\ i \in 1..(Len(t2) + Len(z)) /\ Len(t2) = Len(t) - k /\ i > Len(t2)
          BY <1>4, <2>1, <2>3, <4>3
        <5>1. /\ i - Len(t2) \in 1..Len(z) /\ Len(t2) + (i - Len(t2)) = i
              /\ Len(t) + (i - Len(t2)) = k + i
          BY <5>0, PastAPart
        <5>2. v[i] = z[i - Len(t2)] /\ w[k + i] = z[i - Len(t2)]
          BY <1>3, <2>3, <5>1
        <5> QED
          BY <4>1, <5>2
      <4> QED
        BY <2>1, <4>2, <4>3
    <3> QED
      BY <1>1, <2>3, <3>1, <3>2, SeqEqual
  <2>6. Len(t2) < Len(t)
    BY <1>4, <2>1
  <2>7. t2 \in Texts
    BY <2>1 DEF Texts
  <2> QED
    BY <2>4, <2>5, <2>6, <2>7 DEF Whole, u, v
<1> QED
  BY <1>4, <1>5, <1>6

\* What is read into an object has ended before the message was complete.
Dead(r) == r.state # "reading" /\ r.text = <<>>

LEMMA DeadStays ==
  ASSUME NEW r \in Readers, Dead(r)
  PROVE  Dead(ReadHeader(r))
<1>1. CASE r.state # "headers"
  BY <1>1 DEF ReadHeader
<1>2. CASE r.state = "headers"
  <2>1. ReadHeader(r) = [r EXCEPT !.end = TRUE, !.state = "failed"]
    BY <1>2 DEF ReadHeader, Dead
  <2>2. ReadHeader(r).state = "failed" /\ ReadHeader(r).text = r.text
    BY <2>1 DEF Readers
  <2> QED
    BY <2>2 DEF Dead
<1> QED
  BY <1>1, <1>2

LEMMA EndOfLine ==
  ASSUME NEW a \in Texts, NEW more \in Texts
  PROVE  (a \o <<CR, LF>>) \o more = (a \o <<CR>>) \o (<<LF>> \o more)
<1> DEFINE c == <<CR>>
           l == <<LF>>
           e == <<CR, LF>>
           b == c \o l
<1>1. c \in Texts /\ l \in Texts /\ e \in Texts
  BY Delimiters
<1>2. b = e
  <2>1. /\ Len(c) = 1 /\ c[1] = CR /\ Len(l) = 1 /\ l[1] = LF
        /\ Len(e) = 2 /\ e[1] = CR /\ e[2] = LF
    OBVIOUS
  <2>2. TwoParts(b, c, l)
    BY <1>1, TwoPartsIs
  <2> HIDE DEF c, l, e, b
  <2>3. Len(b) = 2 /\ b[1] = CR /\ b[2] = LF
    BY <2>1, <2>2 DEF TwoParts
  <2>4. b \in Seq(Symbol) /\ e \in Seq(Symbol)
    BY <1>1, <2>2 DEF TwoParts, Texts
  <2>5. Len(b) = Len(e) /\ \A i \in 1..Len(b) : b[i] = e[i]
    BY <2>1, <2>3
  <2> QED
    BY <2>4, <2>5, SeqEqual
<1> HIDE DEF c, l, e
<1>3. (a \o c) \o l = a \o e
  <2>1. (a \o c) \o l = a \o (c \o l)
    BY <1>1, TextsClosed, SMTT(40)
  <2> QED
    BY <1>2, <2>1
<1>4. ((a \o c) \o l) \o more = (a \o c) \o (l \o more)
  <2> DEFINE ac == a \o c
  <2>1. ac \in Texts
    BY <1>1, TextsClosed
  <2> HIDE DEF ac
  <2>2. (ac \o l) \o more = ac \o (l \o more)
    BY <1>1, <2>1, TextsClosed, SMTT(40)
  <2> QED
    BY <2>2 DEF ac
<1> QED
  BY <1>3, <1>4 DEF c, l, e

\* A line that is cut off, and is not a blank one.
LEMMA HeaderCut ==
  ASSUME NEW r \in Readers, r.state = "headers", ~Occurs(<<LF>>, r.text), r.text # <<CR>>
  PROVE  Dead(ReadHeader(r))
<1> DEFINE g == GetLine(r.text)
           parts == Split(Prepare(g.line), <<COLON, SP>>)
           w == WithHeader(r.object, parts[1], FlattenSeq(Tail(parts)))
           a == After(r, g)
<1>1. r.text \in Texts
  BY DEF Readers
<1>2. g.line = r.text /\ g.rest = <<>>
  BY <1>1, LineCut
<1>3. a \in Readers /\ a.text = <<>> /\ a.state = "headers"
  BY <1>2, AfterIs
<1>4. CASE r.text = <<>>
  <2>1. ReadHeader(r) = [r EXCEPT !.end = TRUE, !.state = "failed"]
    BY <1>4 DEF ReadHeader
  <2>2. ReadHeader(r).state = "failed" /\ ReadHeader(r).text = r.text
    BY <2>1 DEF Readers
  <2> QED
    BY <1>4, <2>2 DEF Dead
<1>5. CASE r.text # <<>>
  <2>1. ReadHeader(r) = [a EXCEPT !.object = w]
    BY <1>2, <1>5 DEF ReadHeader
  <2> HIDE DEF a, w
  <2>2. ReadHeader(r).state = "headers" /\ ReadHeader(r).text = <<>>
    BY <1>3, <2>1 DEF Readers
  <2> QED
    BY <2>2 DEF Dead
<1> QED
  BY <1>4, <1>5

\* The line of a header that the format can carry.
HeaderText(name, value) == (name \o <<COLON, SP>>) \o value

PlainHeader(name, value) ==
    /\ name \in Texts /\ value \in Texts
    /\ \A delim \in {<<COLON, SP>>, <<LF>>} : ~Occurs(delim, name) /\ ~Occurs(delim, value)
    /\ name # <<>> => Head(name) # CR

LEMMA HeaderTextIs ==
  ASSUME NEW name, NEW value, PlainHeader(name, value)
  PROVE  /\ HeaderText(name, value) \in Texts /\ HeaderText(name, value) \o <<CR>> \in Texts
         /\ ~Occurs(<<LF>>, HeaderText(name, value) \o <<CR>>)
         /\ HeaderText(name, value) # <<>>
         /\ (HeaderText(name, value) \o <<CR>>)[1] # CR
<1> DEFINE d == <<COLON, SP>>
           c == <<CR>>
           b == name \o d
           h == b \o value
<1>1. /\ name \in Texts /\ value \in Texts /\ d \in Texts /\ c \in Texts /\ LF \in Symbol
      /\ ~Occurs(<<LF>>, name) /\ ~Occurs(<<LF>>, value) /\ ~Occurs(<<LF>>, d)
      /\ ~Occurs(<<LF>>, c)
  BY Delimiters, Symbols, NoLineEnd DEF PlainHeader
<1>2. TwoParts(b, name, d)
  BY <1>1, TwoPartsIs
<1>3. ~Occurs(<<LF>>, b) /\ b \in Texts
  BY <1>1, OccursInConcat, TextsClosed
<1>4. Len(d) = 2 /\ d[1] = COLON
  OBVIOUS
<1> HIDE DEF c, d
<1>5. Len(b) >= 2 /\ b[1] # CR
  <2>1. Len(name) \in Nat
    BY <1>1 DEF Texts
  <2>2. name # <<>> => Len(name) >= 1 /\ name[1] = Head(name)
    BY <1>1 DEF Texts
  <2>3. name = <<>> => Len(name) = 0
    OBVIOUS
  <2>4. 1 \in 1..Len(d)
    BY <1>4
  <2>5. CASE name = <<>>
    <3>1. b[0 + 1] = d[1]
      BY <1>2, <2>3, <2>4, <2>5 DEF TwoParts
    <3> QED
      BY <1>2, <1>4, <2>3, <2>5, <3>1, Symbols DEF TwoParts
  <2>6. CASE name # <<>>
    <3>1. 1 \in 1..Len(name)
      BY <2>1, <2>2, <2>6
    <3>2. b[1] = name[1]
      BY <1>2, <3>1 DEF TwoParts
    <3> QED
      BY <1>2, <1>4, <2>1, <2>2, <2>6, <3>2 DEF TwoParts, PlainHeader
  <2> QED
    BY <2>5, <2>6
<1> HIDE DEF b
<1>6. TwoParts(h, b, value) /\ h \in Texts /\ ~Occurs(<<LF>>, h)
  BY <1>1, <1>3, TwoPartsIs, OccursInConcat, TextsClosed
<1>7. 1 \in 1..Len(b) /\ Len(value) \in Nat /\ Len(b) \in Nat
  BY <1>1, <1>3, <1>5 DEF Texts
<1>8. h[1] = b[1] /\ Len(h) >= 2
  BY <1>5, <1>6, <1>7 DEF TwoParts
<1> HIDE DEF h
<1>9. h # <<>> /\ 1 \in 1..Len(h)
  BY <1>6, <1>8 DEF Texts
<1>10. TwoParts(h \o c, h, c) /\ h \o c \in Texts /\ ~Occurs(<<LF>>, h \o c)
  BY <1>1, <1>6, TwoPartsIs, OccursInConcat, TextsClosed
<1>11. (h \o c)[1] = h[1]
  BY <1>9, <1>10 DEF TwoParts
<1>12. h = HeaderText(name, value)
  BY DEF h, b, d, HeaderText
<1> QED
  BY <1>5, <1>6, <1>8, <1>9, <1>10, <1>11, <1>12 DEF c

\* What Split makes of pieces that were joined.
CutsInto(seq, delim, ps) ==
    IF ps[Len(ps)] = <<>> THEN Split(seq, delim) = First(ps, Len(ps) - 1)
    ELSE Split(seq, delim) = ps

LEMMA SplitTexts ==
  ASSUME NEW delim \in Texts, delim # <<>>, NEW ps \in Seq(Texts), ps # <<>>,
         \A i \in 1..(Len(ps) - 1) : Clean(ps[i], delim),
         ~Occurs(delim, ps[Len(ps)])
  PROVE  CutsInto(Joined(ps, delim), delim, ps)
<1>1. delim \in Seq(Symbol) /\ ps \in Pieces(Symbol)
  BY Zenon DEF Texts, Pieces
<1>2. Split(Joined(ps, delim), delim) = IF ps[Len(ps)] = <<>> THEN First(ps, Len(ps) - 1) ELSE ps
  BY <1>1, SplitJoined, Zenon
<1> QED
  BY <1>2 DEF CutsInto

\* The name and the value that the loop takes of the parts of a line.
NameAndValue(parts, name, value) ==
    parts[1] = name /\ FlattenSeq(Tail(parts)) = value

LEMMA SplitHeader ==
  ASSUME NEW name, NEW value, PlainHeader(name, value)
  PROVE  NameAndValue(Split(HeaderText(name, value), <<COLON, SP>>), name, value)
<1> DEFINE d  == <<COLON, SP>>
           ps == <<name, value>>
           parts == Split(HeaderText(name, value), d)
<1>1. name \in Texts /\ value \in Texts /\ d \in Texts /\ d # <<>>
      /\ ~Occurs(d, name) /\ ~Occurs(d, value)
  BY Delimiters DEF PlainHeader
<1>2. Clean(name, d)
  BY <1>1, Symbols, CleanForTwo DEF Texts
<1> HIDE DEF d, ps
<1>3. Joined(ps, d) = HeaderText(name, value)
  <2>1. Joined(ps, d) = (name \o d) \o value
    <3>1. <<>> \in Texts
      BY Delimiters
    <3>2. JoinsTwo(name, value, d)
      BY <1>1, <3>1, TextsClosed, JoinedTwo, Zenon
    <3> QED
      BY <3>2 DEF JoinsTwo, ps
  <2> QED
    BY <2>1 DEF HeaderText, d
<1>4. /\ ps \in Seq(Texts) /\ ps # <<>> /\ Len(ps) = 2 /\ ps[1] = name /\ ps[2] = value
      /\ First(ps, 1) = <<name>> /\ Tail(ps) = <<value>> /\ Tail(<<name>>) = <<>>
  <2>1. ps \in Seq(Texts) /\ ps # <<>> /\ Len(ps) = 2 /\ ps[1] = name /\ ps[2] = value
    BY <1>1 DEF ps
  <2>2. Tail(ps) = <<value>>
    BY <1>1 DEF ps
  <2>3. Tail(<<name>>) = <<>>
    BY <1>1
  <2>4. First(ps, 1) = <<name>>
    <3>1. First(ps, 1) \in Seq(Texts) /\ Len(First(ps, 1)) = 1
      <4>1. 1 \in 0..Len(ps)
        BY <2>1
      <4> QED
        BY <2>1, <4>1, FirstIs, Zenon
    <3>2. First(ps, 1)[1] = ps[1]
      BY <2>1 DEF First
    <3> QED
      BY <2>1, <3>1, <3>2
  <2> QED
    BY <2>1, <2>2, <2>3, <2>4
<1>5. CutsInto(Joined(ps, d), d, ps)
  <2>1. \A i \in 1..(Len(ps) - 1) : Clean(ps[i], d)
    BY <1>2, <1>4
  <2>2. ~Occurs(d, ps[Len(ps)])
    BY <1>1, <1>4
  <2> QED
    BY <1>1, <1>4, <2>1, <2>2, SplitTexts
<1>6. value = <<>> => parts = <<name>>
  BY <1>3, <1>4, <1>5 DEF CutsInto
<1>7. value # <<>> => parts = ps
  BY <1>3, <1>4, <1>5 DEF CutsInto
<1>8. FlattenSeq(<<>>) = <<>> /\ FlattenSeq(<<value>>) = value
  <2>1. <<>> \in Seq(Texts) /\ Append(<<>>, value) = <<value>>
    BY <1>1
  <2>2. FlattenSeq(<<>>) = <<>> /\ FlattenSeq(Append(<<>>, value)) = FlattenSeq(<<>>) \o value
    <3>1. <<>> \in Texts
      BY Delimiters
    <3>2. \A a \in Texts : <<>> \o a = a
      BY TextsClosed
    <3>3. \A a, b \in Texts : a \o b \in Texts
      BY TextsClosed
    <3>4. FlattenSeq(<<>>) = <<>>
      BY <2>1, <3>1, <3>2, <3>3, FlattenIn, Zenon
    <3>5. \A v \in Texts : FlattenSeq(Append(<<>>, v)) = FlattenSeq(<<>>) \o v
      BY <2>1, <3>1, <3>2, <3>3, FlattenIn, Zenon
    <3> QED
      BY <1>1, <3>4, <3>5
  <2> QED
    BY <1>1, <2>1, <2>2, TextsClosed
<1> HIDE DEF parts
<1>9. NameAndValue(parts, name, value)
  <2>1. CASE value = <<>>
    <3>1. parts[1] = name
      BY <1>6, <2>1
    <3>2. Tail(parts) = <<>>
      BY <1>4, <1>6, <2>1, Zenon
    <3> QED
      BY <1>8, <2>1, <3>1, <3>2, Zenon DEF NameAndValue
  <2>2. CASE value # <<>>
    BY <1>4, <1>7, <1>8, <2>2 DEF NameAndValue
  <2> QED
    BY <2>1, <2>2
<1> QED
  BY <1>9 DEF parts, d

\* A whole line sets its header.
HeaderIsSet(r, s, name, value, t) ==
    /\ s.state = "headers" /\ s.end = FALSE /\ s.text = t
    /\ s.object = WithHeader(r.object, name, value)

LEMMA HeaderWhole ==
  ASSUME NEW r \in Readers, NEW name, NEW value, PlainHeader(name, value), NEW t2 \in Texts,
         r.state = "headers", r.text = (HeaderText(name, value) \o <<CR>>) \o (<<LF>> \o t2)
  PROVE  HeaderIsSet(r, ReadHeader(r), name, value, t2)
<1> DEFINE h == HeaderText(name, value)
           line == h \o <<CR>>
           g == GetLine(r.text)
           parts == Split(Prepare(g.line), <<COLON, SP>>)
           w == WithHeader(r.object, parts[1], FlattenSeq(Tail(parts)))
           a == After(r, g)
<1>1. /\ h \in Texts /\ line \in Texts /\ ~Occurs(<<LF>>, line) /\ h # <<>>
      /\ line[1] # CR
  BY HeaderTextIs
<1>2. Prepare(line) = h
  BY <1>1, PrepareIs
<1>3. line # <<>>
  BY <1>1, Symbols DEF Texts
<1>3a. r.text = line \o (<<LF>> \o t2)
  OBVIOUS
<1> HIDE DEF h, line
<1>4. g.line = line /\ g.rest = t2 /\ g.end = FALSE
  <2>1. GetLine(line \o (<<LF>> \o t2)) = [line |-> line, rest |-> t2, end |-> FALSE]
    BY <1>1, LineEnded, Zenon
  <2>2. g = [line |-> line, rest |-> t2, end |-> FALSE]
    BY <1>3a, <2>1, Zenon
  <2> HIDE DEF g
  <2> QED
    BY <2>2
<1>5. line # <<CR>> /\ r.text # <<>>
  <2>1. line # <<CR>>
    BY <1>1
  <2>2. LinePart(r.text, line, t2)
    BY <1>1, <1>3a, LinePartIs, Zenon
  <2>3. Len(r.text) = Len(line) + 1 + Len(t2) /\ Len(line) \in Nat /\ Len(t2) \in Nat
    BY <1>1, <2>2 DEF LinePart, Texts
  <2> QED
    BY <2>1, <2>3
<1>6. NameAndValue(parts, name, value)
  BY <1>2, <1>4, SplitHeader DEF h
<1>7. a \in Readers /\ a.text = t2 /\ a.state = "headers" /\ a.end = FALSE
  BY <1>4, AfterIs
<1>8. ReadHeader(r) = [a EXCEPT !.object = w]
  BY <1>3, <1>4, <1>5 DEF ReadHeader
<1>9. w = WithHeader(r.object, name, value)
  BY <1>6, Zenon DEF NameAndValue
<1> HIDE DEF a, w
<1> QED
  BY <1>7, <1>8, <1>9 DEF Readers, HeaderIsSet

\* A whole blank line, and one without its end, are where the body begins.
LEMMA BlankLine ==
  ASSUME NEW r \in Readers, NEW t2 \in Texts, r.state = "headers"
  PROVE  /\ r.text = <<CR>> \o (<<LF>> \o t2) =>
                /\ ReadHeader(r).state = "reading" /\ ReadHeader(r).end = FALSE
                /\ ReadHeader(r).text = t2 /\ ReadHeader(r).object = r.object
         /\ r.text = <<CR>> =>
                /\ ReadHeader(r).state = "reading" /\ ReadHeader(r).end = TRUE
                /\ ReadHeader(r).text = <<>> /\ ReadHeader(r).object = r.object
<1> DEFINE c == <<CR>>
           g == GetLine(r.text)
           a == After(r, g)
<1>1. c \in Texts /\ ~Occurs(<<LF>>, c) /\ c # <<>>
  BY Delimiters, NoLineEnd
<1> HIDE DEF c
<1>2. a \in Readers /\ a.object = r.object /\ a.text = g.rest /\ a.end = g.end
  BY AfterIs
<1>3. ASSUME g.line = c, r.text # <<>>
      PROVE  /\ ReadHeader(r).state = "reading" /\ ReadHeader(r).end = g.end
             /\ ReadHeader(r).text = g.rest /\ ReadHeader(r).object = r.object
  <2>1. ReadHeader(r) = [a EXCEPT !.state = "reading"]
    BY <1>3 DEF ReadHeader, c
  <2> HIDE DEF a
  <2> QED
    BY <1>2, <2>1 DEF Readers
<1>4. ASSUME r.text = c \o (<<LF>> \o t2)
      PROVE  g.line = c /\ g.rest = t2 /\ g.end = FALSE /\ r.text # <<>>
  <2>1. GetLine(c \o (<<LF>> \o t2)) = [line |-> c, rest |-> t2, end |-> FALSE]
    BY <1>1, LineEnded, Zenon
  <2>2. g = [line |-> c, rest |-> t2, end |-> FALSE]
    BY <1>4, <2>1, Zenon
  <2>3. LinePart(r.text, c, t2)
    BY <1>1, <1>4, LinePartIs, Zenon
  <2>4. Len(r.text) = Len(c) + 1 + Len(t2) /\ Len(c) \in Nat /\ Len(t2) \in Nat
    BY <1>1, <2>3 DEF LinePart, Texts
  <2> HIDE DEF g
  <2> QED
    BY <2>2, <2>4
<1>5. ASSUME r.text = c
      PROVE  g.line = c /\ g.rest = <<>> /\ g.end = TRUE /\ r.text # <<>>
  <2>1. GetLine(c) = [line |-> c, rest |-> <<>>, end |-> TRUE]
    BY <1>1, LineCut, Zenon
  <2>2. g = [line |-> c, rest |-> <<>>, end |-> TRUE]
    BY <1>5, <2>1, Zenon
  <2> HIDE DEF g
  <2> QED
    BY <1>1, <1>5, <2>2
<1> HIDE DEF g
<1> QED
  BY <1>3, <1>4, <1>5 DEF c

\* A turn of the loop at the line of a header, of which t has arrived.
HeaderTurn(r, s, name, value, more, z) ==
    \/ z # <<>> /\ Dead(s)
    \/ \E t2 \in Texts : /\ t2 \o z = more /\ Len(t2) < Len(r.text)
                         /\ HeaderIsSet(r, s, name, value, t2)

LEMMA HeaderTurnIs ==
  ASSUME NEW r \in Readers, NEW name, NEW value, PlainHeader(name, value),
         NEW more \in Texts, NEW z \in Texts, r.state = "headers",
         r.text \o z = (HeaderText(name, value) \o <<CR, LF>>) \o more
  PROVE  HeaderTurn(r, ReadHeader(r), name, value, more, z)
<1> DEFINE h    == HeaderText(name, value)
           line == h \o <<CR>>
<1>1. h \in Texts /\ line \in Texts /\ ~Occurs(<<LF>>, line) /\ line[1] # CR /\ r.text \in Texts
  BY HeaderTextIs DEF Readers
<1> HIDE DEF h
<1>2. r.text \o z = line \o (<<LF>> \o more)
  <2>1. (h \o <<CR, LF>>) \o more = (h \o <<CR>>) \o (<<LF>> \o more)
    BY <1>1, EndOfLine, Zenon
  <2> QED
    BY <2>1 DEF h
<1>3. line = HeaderText(name, value) \o <<CR>>
  BY DEF h
<1> HIDE DEF line
<1>4. Whole(r.text, z, line, more) \/ Part(r.text, z, line)
  BY <1>1, <1>2, WholeOrPart, Zenon
<1>5. CASE Whole(r.text, z, line, more)
  <2>1. PICK t2 \in Texts : /\ r.text = line \o (<<LF>> \o t2) /\ t2 \o z = more
                            /\ Len(t2) < Len(r.text)
    BY <1>5 DEF Whole
  <2>2. HeaderIsSet(r, ReadHeader(r), name, value, t2)
    BY <1>3, <2>1, HeaderWhole, Zenon
  <2> QED
    BY <2>1, <2>2 DEF HeaderTurn
<1>6. CASE Part(r.text, z, line)
  <2>1. PICK n \in 0..Len(line) : r.text = SubSeq(line, 1, n) /\ z # <<>>
    BY <1>6 DEF Part
  <2>2. ~Occurs(<<LF>>, r.text)
    BY <1>1, <2>1, PrefixHasNoLineEnd
  <2>3. r.text # <<CR>>
    <3>1. n = 0 => SubSeq(line, 1, n) = <<>>
      BY <1>1 DEF Texts
    <3>2. n # 0 => SubSeq(line, 1, n)[1] = line[1]
      BY <1>1 DEF Texts
    <3>3. \A t : t = <<>> \/ t[1] # CR => t # <<CR>>
      OBVIOUS
    <3>4. r.text = <<>> \/ r.text[1] # CR
      BY <1>1, <2>1, <3>1, <3>2, Zenon
    <3> QED
      BY <3>3, <3>4, Zenon
  <2>4. Dead(ReadHeader(r))
    BY <2>2, <2>3, HeaderCut
  <2> QED
    BY <2>1, <2>4 DEF HeaderTurn
<1> QED
  BY <1>4, <1>5, <1>6

\* A turn at the blank line.
BlankTurn(r, s, more, z) ==
    \/ z # <<>> /\ Dead(s)
    \/ /\ s.state = "reading" /\ s.object = r.object
       /\ \/ s.end = FALSE /\ s.text \o z = more
          \/ s.end = TRUE /\ s.text = <<>> /\ z # <<>>

LEMMA BlankTurnIs ==
  ASSUME NEW r \in Readers, NEW more \in Texts, NEW z \in Texts, r.state = "headers",
         r.text \o z = <<CR, LF>> \o more
  PROVE  BlankTurn(r, ReadHeader(r), more, z)
<1> DEFINE c == <<CR>>
<1>1. c \in Texts /\ ~Occurs(<<LF>>, c) /\ r.text \in Texts /\ <<>> \in Texts /\ Len(c) = 1
      /\ c[1] = CR
  BY Delimiters, NoLineEnd DEF Readers
<1>2. r.text \o z = c \o (<<LF>> \o more)
  <2>1. (<<>> \o <<CR, LF>>) \o more = (<<>> \o <<CR>>) \o (<<LF>> \o more)
    BY <1>1, EndOfLine, Zenon
  <2>2. <<>> \o <<CR, LF>> = <<CR, LF>> /\ <<>> \o <<CR>> = <<CR>>
    BY Delimiters, TextsClosed
  <2> QED
    BY <2>1, <2>2, Zenon
<1>3. c = <<CR>>
  OBVIOUS
<1> HIDE DEF c
<1>4. Whole(r.text, z, c, more) \/ Part(r.text, z, c)
  BY <1>1, <1>2, WholeOrPart, Zenon
<1>5. CASE Whole(r.text, z, c, more)
  <2>1. PICK t2 \in Texts : r.text = c \o (<<LF>> \o t2) /\ t2 \o z = more
    BY <1>5 DEF Whole
  <2>2. /\ ReadHeader(r).state = "reading" /\ ReadHeader(r).end = FALSE
        /\ ReadHeader(r).text = t2 /\ ReadHeader(r).object = r.object
    BY <1>3, <2>1, BlankLine, Zenon
  <2> QED
    BY <2>1, <2>2 DEF BlankTurn
<1>6. CASE Part(r.text, z, c)
  <2>1. PICK n \in 0..Len(c) : r.text = SubSeq(c, 1, n) /\ z # <<>>
    BY <1>6 DEF Part
  <2>2. n = 0 \/ n = 1
    BY <1>1
  <2>3. CASE n = 0
    <3>1. r.text = <<>>
      BY <1>1, <2>1, <2>3 DEF Texts
    <3>2. ~Occurs(<<LF>>, <<>>) /\ <<>> # <<CR>>
      BY NoLineEnd
    <3>3. Dead(ReadHeader(r))
      BY <3>1, <3>2, HeaderCut
    <3> QED
      BY <2>1, <3>3 DEF BlankTurn
  <2>4. CASE n = 1
    <3>1. SubSeq(c, 1, 1) = c
      BY <1>1 DEF Texts
    <3>2. r.text = <<CR>>
      BY <1>3, <2>1, <2>4, <3>1
    <3>3. /\ ReadHeader(r).state = "reading" /\ ReadHeader(r).end = TRUE
          /\ ReadHeader(r).text = <<>> /\ ReadHeader(r).object = r.object
      BY <3>2, BlankLine, Zenon
    <3> QED
      BY <2>1, <3>3 DEF BlankTurn
  <2> QED
    BY <2>2, <2>3, <2>4
<1> QED
  BY <1>4, <1>5, <1>6

-----------------------------------------------------------------------------
(* The first line. *)

\* A first line that the format can carry, read into an object.
PlainStart(start) ==
    /\ start \in [1..3 -> Texts]
    /\ \A i \in 1..3 : \A delim \in {<<SP>>, <<LF>>} : ~Occurs(delim, start[i])
    /\ kind = "request" => start[3] # <<>>
    /\ kind # "request" => start[2] = <<StatusCode>>

LEMMA Triples ==
  ASSUME NEW start \in [1..3 -> Texts]
  PROVE  /\ start \in Seq(Texts) /\ Len(start) = 3 /\ start # <<>>
         /\ start = <<start[1], start[2], start[3]>>
<1>1. start \in Seq(Texts)
  <2>1. 3 \in Nat /\ Seq(Texts) = UNION {[1..n -> Texts] : n \in Nat}
    BY SeqDef
  <2> QED
    BY <2>1
<1>2. Len(start) = 3
  BY LenProperties
<1>3. start # <<>>
  BY <1>2
<1>4. start = <<start[1], start[2], start[3]>>
  BY <1>1, <1>2
<1> QED
  BY <1>1, <1>2, <1>3, <1>4

LEMMA StartLineIs ==
  ASSUME NEW start, PlainStart(start)
  PROVE  /\ Joined(start, <<SP>>) \in Texts
         /\ Joined(start, <<SP>>) \o <<CR>> \in Texts
         /\ ~Occurs(<<LF>>, Joined(start, <<SP>>) \o <<CR>>)
         /\ Joined(start, <<SP>>) \o <<CR>> # <<>>
<1> DEFINE U == {a \in Texts : ~Occurs(<<LF>>, a)}
           d == <<SP>>
           c == <<CR>>
           line == Joined(start, d)
<1>1. /\ <<>> \in U /\ d \in U /\ c \in U /\ c \in Texts /\ ~Occurs(<<LF>>, c) /\ Len(c) = 1
      /\ LF \in Symbol
  BY Delimiters, NoLineEnd, Symbols
<1>2. \A a, b \in U : a \o b \in U
  BY <1>1, TextsClosed, OccursInConcat
<1>3. \A a \in U : <<>> \o a = a
  BY TextsClosed
<1>4. start \in Seq(U)
  <2>1. start \in [1..3 -> U]
    BY DEF PlainStart
  <2>2. 3 \in Nat /\ Seq(U) = UNION {[1..n -> U] : n \in Nat}
    BY SeqDef
  <2> HIDE DEF U
  <2> QED
    BY <2>1, <2>2
<1> HIDE DEF d, c
<1>5. Grows(U, start, d)
  <2> HIDE DEF U
  <2> QED
    BY <1>1, <1>2, <1>3, <1>4, JoinedIn
<1>6. line \in U
  BY <1>5 DEF Grows
<1> HIDE DEF line
<1>7. line \o c \in Texts /\ ~Occurs(<<LF>>, line \o c)
  BY <1>1, <1>2, <1>6
<1>8. line \o c # <<>>
  <2>1. TwoParts(line \o c, line, c)
    BY <1>1, <1>6, TwoPartsIs
  <2>2. Len(line) \in Nat
    BY <1>6 DEF Texts
  <2>3. Len(line \o c) # 0
    BY <1>1, <2>1, <2>2 DEF TwoParts
  <2> QED
    BY <2>3
<1> QED
  BY <1>6, <1>7, <1>8 DEF line, c, d

\* What operator>> makes of the parts of the first line.
StartIsRead(obj, parts, start) ==
    ~StartThrows(parts) /\ StartOf(obj, parts) = start

LEMMA StartParts ==
  ASSUME NEW start, PlainStart(start), NEW obj \in Objects,
         start[3] = <<>> => obj.start[3] = <<>>
  PROVE  StartIsRead(obj, Split(Joined(start, <<SP>>), <<SP>>), start)
<1> DEFINE d == <<SP>>
           parts == Split(Joined(start, d), d)
<1>1. /\ start \in Seq(Texts) /\ Len(start) = 3 /\ start # <<>>
      /\ start = <<start[1], start[2], start[3]>>
      /\ \A i \in 1..3 : start[i] \in Texts /\ ~Occurs(d, start[i])
  BY Triples DEF PlainStart
<1>2. d \in Texts /\ d # <<>> /\ SP \in Symbol
  BY Delimiters, Symbols
<1>3. \A i \in 1..3 : Clean(start[i], d)
  BY <1>1, <1>2, CleanForOne DEF Texts
<1> HIDE DEF d
<1>4. CutsInto(Joined(start, d), d, start)
  <2>1. \A i \in 1..(Len(start) - 1) : Clean(start[i], d)
    BY <1>1, <1>3
  <2>2. ~Occurs(d, start[Len(start)])
    BY <1>1
  <2> QED
    BY <1>1, <1>2, <2>1, <2>2, SplitTexts
<1>5. start[3] # <<>> => parts = start
  BY <1>1, <1>4 DEF CutsInto
<1>6. start[3] = <<>> => /\ parts = First(start, 2) /\ Len(parts) = 2
                         /\ parts[1] = start[1] /\ parts[2] = start[2]
  <2>1. 2 \in 0..Len(start) /\ Len(start) - 1 = 2
    BY <1>1
  <2>2. Len(First(start, 2)) = 2
    BY <1>1, <2>1, FirstIs, Zenon
  <2>3. First(start, 2)[1] = start[1] /\ First(start, 2)[2] = start[2]
    BY <1>1 DEF First
  <2>4. start[3] = <<>> => parts = First(start, 2)
    BY <1>1, <1>4, <2>1 DEF CutsInto
  <2> QED
    BY <2>2, <2>3, <2>4
<1> HIDE DEF parts
<1>7. StartIsRead(obj, parts, start)
  <2>1. CASE kind = "request"
    <3>1. parts = start /\ Len(parts) = 3
      BY <1>1, <1>5, <2>1 DEF PlainStart
    <3> QED
      BY <2>1, <3>1 DEF StartIsRead, StartThrows, StartOf
  <2>2. CASE kind # "request"
    <3>1. start[2] = <<StatusCode>>
      BY <2>2 DEF PlainStart
    <3>2. <<StatusCode>> # <<>> /\ Head(<<StatusCode>>) = StatusCode
      OBVIOUS
    <3>3. CASE start[3] # <<>>
      <4>1. Len(parts) = 3 /\ parts[1] = start[1] /\ parts[2] = start[2] /\ parts[3] = start[3]
        BY <1>1, <1>5, <3>3
      <4>2. ~StartThrows(parts)
        BY <2>2, <3>1, <3>2, <4>1 DEF StartThrows
      <4>3. StartOf(obj, parts) = <<start[1], start[2], start[3]>>
        BY <2>2, <3>1, <4>1 DEF StartOf
      <4> QED
        BY <1>1, <4>2, <4>3 DEF StartIsRead
    <3>4. CASE start[3] = <<>>
      <4>1. Len(parts) = 2 /\ parts[1] = start[1] /\ parts[2] = start[2]
        BY <1>6, <3>4
      <4>2. ~StartThrows(parts)
        BY <2>2, <3>1, <3>2, <4>1 DEF StartThrows
      <4>3. StartOf(obj, parts) = <<start[1], start[2], start[3]>>
        BY <2>2, <3>1, <3>4, <4>1 DEF StartOf
      <4> QED
        BY <1>1, <4>2, <4>3 DEF StartIsRead
    <3> QED
      BY <3>3, <3>4
  <2> QED
    BY <2>1, <2>2
<1> QED
  BY <1>7 DEF parts, d

StartTurn(r, s, start, more, z) ==
    \/ z # <<>> /\ Dead(s)
    \/ \E t2 \in Texts : /\ t2 \o z = more
                         /\ s.state = "headers" /\ s.end = FALSE /\ s.text = t2
                         /\ s.object = [r.object EXCEPT !.start = start]

LEMMA StartTurnIs ==
  ASSUME NEW r \in Readers, NEW start, PlainStart(start),
         start[3] = <<>> => r.object.start[3] = <<>>,
         NEW more \in Texts, NEW z \in Texts, r.state = "headers",
         r.text \o z = (Joined(start, <<SP>>) \o <<CR, LF>>) \o more
  PROVE  StartTurn(r, ReadStart(r), start, more, z)
<1> DEFINE h     == Joined(start, <<SP>>)
           line  == h \o <<CR>>
           g     == GetLine(r.text)
           parts == Split(Prepare(g.line), <<SP>>)
           a     == After(r, g)
           threw == [a EXCEPT !.state = "threw"]
           new   == [a EXCEPT !.object = [@ EXCEPT !.start = StartOf(r.object, parts)]]
<1>1. /\ h \in Texts /\ line \in Texts /\ ~Occurs(<<LF>>, line) /\ line # <<>>
      /\ r.text \in Texts /\ r.object \in Objects
  BY StartLineIs DEF Readers
<1>2. Prepare(line) = h
  BY <1>1, PrepareIs
<1> HIDE DEF h
<1>3. r.text \o z = line \o (<<LF>> \o more)
  <2>1. (h \o <<CR, LF>>) \o more = (h \o <<CR>>) \o (<<LF>> \o more)
    BY <1>1, EndOfLine, Zenon
  <2> QED
    BY <2>1 DEF h
<1> HIDE DEF line
<1>4. Whole(r.text, z, line, more) \/ Part(r.text, z, line)
  BY <1>1, <1>3, WholeOrPart, Zenon
<1>5. /\ a \in Readers /\ a.object = r.object /\ a.state = "headers"
      /\ a.text = g.rest /\ a.end = g.end
  BY AfterIs
<1>6. ReadStart(r) = IF g.line = <<>> \/ StartThrows(parts) THEN threw ELSE new
  BY DEF ReadStart
<1> HIDE DEF g, parts, a
<1>7. threw.state = "threw" /\ threw.text = g.rest
  BY <1>5 DEF Readers
<1>8. new.state = "headers" /\ new.text = g.rest /\ new.end = g.end
      /\ new.object = [r.object EXCEPT !.start = StartOf(r.object, parts)]
  BY <1>5 DEF Readers
<1> HIDE DEF threw, new
<1>9. CASE Whole(r.text, z, line, more)
  <2>1. PICK t2 \in Texts : r.text = line \o (<<LF>> \o t2) /\ t2 \o z = more
    BY <1>9 DEF Whole
  <2>2. GetLine(line \o (<<LF>> \o t2)) = [line |-> line, rest |-> t2, end |-> FALSE]
    BY <1>1, LineEnded, Zenon
  <2>3. g = [line |-> line, rest |-> t2, end |-> FALSE]
    BY <2>1, <2>2, Zenon DEF g
  <2>4. g.line = line /\ g.rest = t2 /\ g.end = FALSE
    BY <2>3
  <2>5. StartIsRead(r.object, Split(h, <<SP>>), start)
    BY <1>1, StartParts, Zenon DEF h
  <2>6. StartIsRead(r.object, parts, start)
    BY <1>2, <2>4, <2>5, Zenon DEF parts
  <2>7. ReadStart(r) = new /\ new.object = [r.object EXCEPT !.start = start]
    BY <1>1, <1>6, <1>8, <2>4, <2>6, Zenon DEF StartIsRead
  <2> QED
    BY <1>8, <2>1, <2>4, <2>7 DEF StartTurn
<1>10. CASE Part(r.text, z, line)
  <2>1. PICK n \in 0..Len(line) : r.text = SubSeq(line, 1, n) /\ z # <<>>
    BY <1>10 DEF Part
  <2>2. ~Occurs(<<LF>>, r.text)
    BY <1>1, <2>1, PrefixHasNoLineEnd
  <2>3. g.rest = <<>>
    BY <1>1, <2>2, LineCut DEF g
  <2>4. Dead(ReadStart(r))
    BY <1>6, <1>7, <1>8, <2>3 DEF Dead
  <2> QED
    BY <2>1, <2>4 DEF StartTurn
<1> QED
  BY <1>4, <1>9, <1>10

-----------------------------------------------------------------------------
(* The lines of the headers. *)

Suffix(lines, k) == SubSeq(lines, k + 1, Len(lines))

LEMMA SuffixIs ==
  ASSUME NEW lines \in Seq(Texts)
  PROVE  /\ \A k \in 0..Len(lines) : FlattenSeq(Suffix(lines, k)) \in Texts
         /\ FlattenSeq(Suffix(lines, 0)) = FlattenSeq(lines)
         /\ FlattenSeq(Suffix(lines, Len(lines))) = <<>>
         /\ \A k \in 0..(Len(lines) - 1) :
                FlattenSeq(Suffix(lines, k)) = lines[k + 1] \o FlattenSeq(Suffix(lines, k + 1))
<1> DEFINE n == Len(lines)
<1>1. n \in Nat
  OBVIOUS
<1>2. \A k \in 0..n : Suffix(lines, k) \in Seq(Texts)
  BY DEF Suffix
<1>3. Suffix(lines, 0) = lines /\ Suffix(lines, n) = <<>>
  BY DEF Suffix
<1>4. \A k \in 0..n : FlattenSeq(Suffix(lines, k)) \in Texts
  BY <1>2, FlattenTexts
<1>5. FlattenSeq(<<>>) = <<>>
  <2>1. <<>> \in Texts /\ <<>> \in Seq(Texts)
    BY Delimiters
  <2>2. \A a \in Texts : <<>> \o a = a
    BY TextsClosed
  <2>3. \A a, b \in Texts : a \o b \in Texts
    BY TextsClosed
  <2> QED
    BY <2>1, <2>2, <2>3, FlattenIn, Zenon
<1>6. ASSUME NEW k \in 0..(n - 1)
      PROVE  FlattenSeq(Suffix(lines, k)) = lines[k + 1] \o FlattenSeq(Suffix(lines, k + 1))
  <2> DEFINE e  == lines[k + 1]
             ss == Suffix(lines, k + 1)
             all == Suffix(lines, k)
  <2>1. k + 1 \in 1..n /\ k + 1 \in 0..n /\ k \in 0..n
    BY <1>1
  <2>2. e \in Texts /\ ss \in Seq(Texts) /\ all \in Seq(Texts)
    BY <1>2, <2>1
  <2>3. all = <<e>> \o ss
    <3>1. /\ Len(all) = n - k /\ \A i \in 1..(n - k) : all[i] = lines[k + i]
          /\ Len(ss) = n - (k + 1) /\ \A i \in 1..(n - (k + 1)) : ss[i] = lines[(k + 1) + i]
      BY <1>1, <2>1 DEF Suffix
    <3> DEFINE one == <<e>>
               both == one \o ss
    <3>2. one \in Seq(Texts) /\ Len(one) = 1 /\ one[1] = e
      BY <2>2
    <3> HIDE DEF one, e, ss, all
    <3>3. /\ both \in Seq(Texts) /\ Len(both) = 1 + Len(ss) /\ both[1] = e
          /\ \A i \in 1..Len(ss) : both[1 + i] = ss[i]
      <4>1. Len(ss) \in Nat
        BY <2>2
      <4>2. both \in Seq(Texts) /\ Len(both) = Len(one) + Len(ss)
        BY <2>2, <3>2, ConcatProperties
      <4>3. \A i \in 1..(Len(one) + Len(ss)) : both[i] = IF i <= Len(one) THEN one[i]
                                                        ELSE ss[i - Len(one)]
        BY <2>2, <3>2, ConcatProperties, Zenon
      <4> HIDE DEF both
      <4> QED
        BY <3>2, <4>1, <4>2, <4>3
    <3> HIDE DEF both, n
    <3>4. Len(all) = Len(both)
      BY <1>1, <2>1, <3>1, <3>3
    <3>5. ASSUME NEW i \in 1..Len(all) PROVE all[i] = both[i]
      <4>1. CASE i = 1
        BY <1>1, <2>1, <3>1, <3>3, <4>1 DEF e
      <4>2. CASE i # 1
        <5>1. i - 1 \in 1..Len(ss) /\ 1 + (i - 1) = i /\ (k + 1) + (i - 1) = k + i
              /\ i - 1 \in 1..(n - (k + 1)) /\ i \in 1..(n - k)
          BY <1>1, <2>1, <3>1, <4>2
        <5>2. both[i] = ss[i - 1] /\ ss[i - 1] = lines[k + i] /\ all[i] = lines[k + i]
          BY <3>1, <3>3, <5>1
        <5> QED
          BY <5>2
      <4> QED
        BY <4>1, <4>2
    <3>6. all = both
      BY <2>2, <3>3, <3>4, <3>5, SeqEqual
    <3> QED
      BY <3>6 DEF both, one
  <2> HIDE DEF e, ss, all
  <2>4. <<>> \in Texts
    BY Delimiters
  <2>5. FlattenSeq(<<e>> \o ss) = e \o FlattenSeq(ss)
    BY <2>2, <2>4, TextsClosed, FlattenConsIn, Zenon
  <2> QED
    BY <2>3, <2>5 DEF e, ss, all
<1> QED
  BY <1>3, <1>4, <1>5, <1>6

\* A message that is being read has the first line and k of the headers; the
\* body is the object's.
HeadersSet(new, m, order, body, k) ==
    /\ new.start = m.start /\ new.body = body
    /\ DOMAIN new.headers \subseteq DOMAIN m.headers
    /\ \A i \in 1..k : order[i] \in DOMAIN new.headers
                       /\ new.headers[order[i]] = m.headers[order[i]]

\* All headers are read, and more is to come, of which z does not arrive.
AtBody(a, m, order, body, more, z) ==
    /\ a.state = "reading" /\ HeadersSet(a.object, m, order, body, Len(order))
    /\ \/ a.end = FALSE /\ a.text \o z = more
       \/ a.end = TRUE /\ a.text = <<>> /\ z # <<>>

AtHeader(i, a, n, m, order, body, more, z) ==
    /\ i <= Len(order) /\ a.state = "headers" /\ a.end = FALSE
    /\ a.text \o z = FlattenSeq(Suffix(LinesOf(m, order), i)) \o (<<CR, LF>> \o more)
    /\ Len(a.text) + i <= n
    /\ HeadersSet(a.object, m, order, body, i)

InLoop(i, a, n, m, order, body, more, z) ==
    \/ z # <<>> /\ Dead(a)
    \/ AtHeader(i, a, n, m, order, body, more, z)
    \/ AtBody(a, m, order, body, more, z)

PlainHeaders(m) == \A name \in DOMAIN m.headers : PlainHeader(name, m.headers[name])

LEMMA LoopTurn ==
  ASSUME NEW m \in Requests \cup Responses, PlainHeaders(m),
         NEW order \in SetToSeqs(DOMAIN m.headers),
         NEW body, NEW more \in Texts, NEW z \in Texts, NEW n \in Nat,
         NEW i \in Nat, NEW a \in Readers, InLoop(i, a, n, m, order, body, more, z)
  PROVE  InLoop(i + 1, ReadHeader(a), n, m, order, body, more, z)
<1> DEFINE lines == LinesOf(m, order)
           s     == ReadHeader(a)
           rest  == <<CR, LF>> \o more
<1>1. /\ lines \in Seq(Texts) /\ Len(lines) = Len(order)
      /\ order \in Seq(DOMAIN m.headers) /\ Len(order) \in Nat
  <2>1. lines \in Seq(Texts) /\ Len(lines) = Len(order)
    BY TextIs, Zenon
  <2>2. IsFiniteSet(DOMAIN m.headers)
    BY MessagesAreObjects
  <2>3. order \in Seq(DOMAIN m.headers)
    BY <2>2, OrderIs
  <2> HIDE DEF lines
  <2> QED
    BY <2>1, <2>3
<1>2. rest \in Texts
  BY Delimiters, TextsClosed
<1>3. CASE z # <<>> /\ Dead(a)
  BY <1>3, DeadStays DEF InLoop
<1>4. CASE AtBody(a, m, order, body, more, z)
  <2>1. s = a
    BY <1>4 DEF AtBody, ReadHeader
  <2> HIDE DEF s
  <2> QED
    BY <1>4, <2>1 DEF InLoop, s
<1>5. CASE AtHeader(i, a, n, m, order, body, more, z) /\ i = Len(order)
  <2>1. FlattenSeq(Suffix(lines, i)) = <<>>
    BY <1>1, <1>5, SuffixIs, Zenon
  <2>2. a.text \o z = <<CR, LF>> \o more
    BY <1>2, <1>5, <2>1, TextsClosed DEF AtHeader
  <2>3. BlankTurn(a, s, more, z)
    BY <1>5, <2>2, BlankTurnIs DEF AtHeader
  <2> HIDE DEF s
  <2>4. HeadersSet(a.object, m, order, body, Len(order))
    BY <1>5 DEF AtHeader
  <2>5. (z # <<>> /\ Dead(s)) \/ AtBody(s, m, order, body, more, z)
    BY <2>3, <2>4, Zenon DEF BlankTurn, AtBody
  <2> QED
    BY <2>5, Zenon DEF InLoop, s
<1>6. CASE AtHeader(i, a, n, m, order, body, more, z) /\ i # Len(order)
  <2> DEFINE name  == order[i + 1]
             value == m.headers[name]
             tail  == FlattenSeq(Suffix(lines, i + 1)) \o rest
  <2>1. i \in 0..(Len(lines) - 1) /\ i + 1 \in 0..Len(lines) /\ i + 1 \in 1..Len(order)
    BY <1>1, <1>6 DEF AtHeader
  <2>2. name \in DOMAIN m.headers
    BY <1>1, <2>1
  <2>3. PlainHeader(name, value)
    BY <2>2 DEF PlainHeaders
  <2>4. lines[i + 1] = HeaderText(name, value) \o <<CR, LF>>
    <3>1. i + 1 \in DOMAIN order
      BY <1>1, <2>1
    <3> QED
      BY <3>1 DEF LinesOf, HeaderLine, HeaderText
  <2>5. lines[i + 1] \in Texts /\ FlattenSeq(Suffix(lines, i + 1)) \in Texts
    <3>1. FlattenSeq(Suffix(lines, i + 1)) \in Texts
      BY <1>1, <2>1, SuffixIs
    <3> QED
      BY <1>1, <2>1, <3>1
  <2>6. tail \in Texts
    BY <1>2, <2>5, TextsClosed
  <2>7. a.text \o z = (HeaderText(name, value) \o <<CR, LF>>) \o tail
    <3>1. FlattenSeq(Suffix(lines, i)) = lines[i + 1] \o FlattenSeq(Suffix(lines, i + 1))
      BY <1>1, <2>1, SuffixIs, Zenon
    <3>2. a.text \o z = FlattenSeq(Suffix(lines, i)) \o rest
      BY <1>6 DEF AtHeader
    <3> HIDE DEF rest, lines, name, value
    <3>3. (lines[i + 1] \o FlattenSeq(Suffix(lines, i + 1))) \o rest = lines[i + 1] \o tail
      BY <1>2, <2>5, TextsClosed, ZenonT(60)
    <3> HIDE DEF tail
    <3> QED
      BY <2>4, <3>1, <3>2, <3>3, Zenon
  <2> HIDE DEF tail, name, value
  <2>8. HeaderTurn(a, s, name, value, tail, z)
    BY <1>6, <2>3, <2>6, <2>7, HeaderTurnIs DEF AtHeader
  <2>9. CASE z # <<>> /\ Dead(s)
    BY <2>9 DEF InLoop
  <2>10. CASE ~(z # <<>> /\ Dead(s))
    <3>1. PICK t2 \in Texts : /\ t2 \o z = tail /\ Len(t2) < Len(a.text)
                              /\ HeaderIsSet(a, s, name, value, t2)
      BY <2>8, <2>10 DEF HeaderTurn
    <3>2. /\ s.state = "headers" /\ s.end = FALSE /\ s.text = t2
          /\ s.object = WithHeader(a.object, name, value)
      BY <3>1 DEF HeaderIsSet
    <3> HIDE DEF s
    <3>3. Sets(s.object, a.object, name, value)
      BY <2>3, <3>2, WithHeaderIs DEF Readers, PlainHeader
    <3>4. HeadersSet(s.object, m, order, body, i + 1)
      <4>1. HeadersSet(a.object, m, order, body, i)
        BY <1>6 DEF AtHeader
      <4>2. ASSUME NEW j \in 1..(i + 1)
            PROVE  order[j] \in DOMAIN s.object.headers
                   /\ s.object.headers[order[j]] = m.headers[order[j]]
        <5>1. CASE order[j] = name
          BY <3>3, <5>1 DEF Sets, value
        <5>2. CASE order[j] # name
          <6>1. j \in 1..i
            BY <5>2 DEF name
          <6> QED
            BY <3>3, <4>1, <5>2, <6>1 DEF Sets, HeadersSet
        <5> QED
          BY <5>1, <5>2
      <4> QED
        BY <2>2, <3>3, <4>1, <4>2 DEF Sets, HeadersSet
    <3>5. i + 1 <= Len(order) /\ Len(s.text) + (i + 1) <= n
      <4>1. Len(t2) \in Nat /\ Len(a.text) \in Nat /\ Len(a.text) + i <= n
        BY <1>6 DEF AtHeader, Readers, Texts
      <4> QED
        BY <2>1, <3>1, <3>2, <4>1
    <3>6. AtHeader(i + 1, s, n, m, order, body, more, z)
      BY <3>1, <3>2, <3>4, <3>5 DEF AtHeader, tail
    <3> QED
      BY <3>6 DEF InLoop, s
  <2> QED
    BY <2>9, <2>10
<1> QED
  BY <1>3, <1>4, <1>5, <1>6 DEF InLoop

\* The loop reads all headers, or ends before the text does.
LEMMA HeadersRead ==
  ASSUME NEW m \in Requests \cup Responses, PlainHeaders(m),
         NEW order \in SetToSeqs(DOMAIN m.headers),
         NEW body, NEW more \in Texts, NEW z \in Texts, NEW r \in Readers,
         InLoop(0, r, Len(r.text), m, order, body, more, z)
  PROVE  /\ \/ z # <<>> /\ Dead(ReadHeaders(r))
            \/ AtBody(ReadHeaders(r), m, order, body, more, z)
         /\ ReadHeaders(r) \in Readers
<1> DEFINE n == Len(r.text)
           I == {x \in Nat \X Readers : InLoop(x[1], x[2], n, m, order, body, more, z)}
<1>1. n \in Nat
  BY DEF Readers, Texts
<1>2. <<0, r>> \in I
  OBVIOUS
<1>3. ASSUME NEW i \in 0..n, NEW a \in Readers, <<i, a>> \in I
      PROVE  <<i + 1, ReadHeader(a)>> \in I
  <2>1. InLoop(i, a, n, m, order, body, more, z) /\ i \in Nat /\ i + 1 \in Nat
    BY <1>1, <1>3
  <2>2. InLoop(i + 1, ReadHeader(a), n, m, order, body, more, z)
    BY <1>1, <2>1, LoopTurn
  <2>3. ReadHeader(a) \in Readers
    BY ReadHeaderIs
  <2> QED
    BY <2>1, <2>2, <2>3
<1> HIDE DEF I
<1>4. <<n + 1, ReadHeaders(r)>> \in I /\ ReadHeaders(r) \in Readers
  BY <1>2, <1>3, LoopInduct
<1>5. InLoop(n + 1, ReadHeaders(r), n, m, order, body, more, z)
  BY <1>4 DEF I
<1>6. ~AtHeader(n + 1, ReadHeaders(r), n, m, order, body, more, z)
  <2>1. Len(ReadHeaders(r).text) \in Nat
    BY <1>4 DEF Readers, Texts
  <2> DEFINE l == Len(ReadHeaders(r).text)
  <2> HIDE DEF l, n
  <2>2. l \in Nat
    BY <2>1 DEF l
  <2>3. ~(l + (n + 1) <= n)
    BY <1>1, <2>2
  <2> QED
    BY <2>3 DEF AtHeader, l
<1> QED
  BY <1>4, <1>5, <1>6 DEF InLoop

-----------------------------------------------------------------------------
(* The body. *)

\* A text that has arrived as far as the body or further.
BodyArrived(t, z, body, rest) ==
    /\ TakenBody(t, Len(body)) = body
    /\ SubSeq(t, Len(body) + 1, Len(t)) \in Texts
    /\ SubSeq(t, Len(body) + 1, Len(t)) \o z = rest

LEMMA BodyCut ==
  ASSUME NEW t \in Texts, NEW z \in Texts, NEW body \in Texts, NEW rest \in Texts,
         t \o z = body \o rest
  PROVE  IF Len(t) < Len(body) THEN z # <<>> ELSE BodyArrived(t, z, body, rest)
<1> DEFINE w == t \o z
           n == Len(body)
<1>1. /\ TwoParts(w, t, z) /\ TwoParts(w, body, rest)
  <2>1. TwoParts(t \o z, t, z) /\ TwoParts(body \o rest, body, rest)
    BY TwoPartsIs
  <2> QED
    BY <2>1, Zenon
<1> HIDE DEF w
<1>2. /\ t \in Seq(Symbol) /\ z \in Seq(Symbol) /\ body \in Seq(Symbol) /\ rest \in Seq(Symbol)
      /\ Len(t) \in Nat /\ Len(z) \in Nat /\ n \in Nat /\ Len(rest) \in Nat
  BY DEF Texts
<1>3. Len(t) + Len(z) = n + Len(rest)
  BY <1>1 DEF TwoParts
<1>4. Len(t) < n => z # <<>>
  BY <1>2, <1>3
<1>5. ASSUME Len(t) >= n PROVE BodyArrived(t, z, body, rest)
  <2> DEFINE b == TakenBody(t, n)
             s == SubSeq(t, n + 1, Len(t))
             v == s \o z
  <2>1. b \in Seq(Symbol) /\ Len(b) = n /\ \A i \in 1..n : b[i] = t[i]
    BY <1>2, <1>5, Symbols DEF TakenBody
  <2>2. \A i \in 1..n : t[i] = body[i]
    <3> TAKE i \in 1..n
    <3>1. i \in 1..Len(t)
      BY <1>2, <1>5
    <3>2. w[i] = t[i]
      BY <1>1, <3>1 DEF TwoParts
    <3>3. w[i] = body[i]
      BY <1>1 DEF TwoParts
    <3> QED
      BY <3>2, <3>3
  <2>3. b = body
    <3> HIDE DEF b
    <3>1. Len(b) = Len(body) /\ \A i \in 1..Len(b) : b[i] = body[i]
      BY <2>1, <2>2
    <3> QED
      BY <1>2, <2>1, <3>1, SeqEqual
  <2>4. /\ s \in Seq(Symbol) /\ Len(s) = Len(t) - n /\ Len(s) \in Nat
        /\ \A i \in 1..Len(s) : s[i] = t[n + i]
    BY <1>2, <1>5
  <2> HIDE DEF s
  <2>5. TwoParts(v, s, z)
    BY <2>4, TwoPartsIs DEF Texts
  <2> HIDE DEF v
  <2>6. v \in Seq(Symbol) /\ Len(v) = Len(rest) /\ Len(v) \in Nat
    BY <1>2, <1>3, <2>4, <2>5 DEF TwoParts, Texts
  <2>7. ASSUME NEW i \in 1..Len(v) PROVE v[i] = rest[i]
    <3>1. w[n + i] = rest[i]
      BY <1>1, <2>6 DEF TwoParts
    <3>2. CASE i <= Len(s)
      <4>1. i \in 1..Len(s) /\ n + i \in 1..Len(t)
        BY <1>2, <1>5, <2>4, <2>6, <3>2
      <4>2. v[i] = s[i] /\ s[i] = t[n + i] /\ w[n + i] = t[n + i]
        BY <1>1, <2>4, <2>5, <4>1 DEF TwoParts
      <4> QED
        BY <3>1, <4>2
    <3>3. CASE i > Len(s)
      <4> DEFINE j == i - Len(s)
      <4>1. j \in 1..Len(z) /\ Len(s) + j = i /\ Len(t) + j = n + i
        BY <1>2, <1>3, <1>5, <2>4, <2>6, <3>3
      <4> HIDE DEF j
      <4>2. v[Len(s) + j] = z[j] /\ w[Len(t) + j] = z[j]
        BY <1>1, <2>5, <4>1 DEF TwoParts
      <4> QED
        BY <3>1, <4>1, <4>2
    <3> QED
      BY <2>4, <2>6, <3>2, <3>3
  <2>8. v = rest
    BY <1>2, <2>6, <2>7, SeqEqual
  <2> QED
    BY <2>3, <2>4, <2>8 DEF BodyArrived, b, s, v, Texts
<1> QED
  BY <1>2, <1>4, <1>5

LEMMA LengthOfNumber ==
  ASSUME NEW n \in Nat, n < Len(Decimals)
  PROVE  IsLength(<<Number(n)>>) /\ Length(<<Number(n)>>) = n
<1> DEFINE value == <<Number(n)>>
<1>1. Len(Decimals) \in Nat /\ DOMAIN Decimals = 1..Len(Decimals)
  BY MessageAssumption DEF Texts
<1>2. n \in 0..(Len(Decimals) - 1)
  BY <1>1
<1>3. value # <<>> /\ Head(value) = Number(n)
  OBVIOUS
<1> HIDE DEF value
<1>4. IsLength(value)
  BY <1>2, <1>3 DEF IsLength
<1>5. ASSUME NEW k \in 0..(Len(Decimals) - 1), Number(k) = Number(n) PROVE k = n
  <2>1. k + 1 \in DOMAIN Decimals /\ n + 1 \in DOMAIN Decimals
    BY <1>1, <1>2
  <2>2. k + 1 = n + 1
    BY <1>5, <2>1, MessageAssumption DEF Number
  <2> QED
    BY <2>2
<1>6. Length(value) = n
  <2>1. \A k \in 0..(Len(Decimals) - 1) : Head(value) = Number(k) <=> k = n
    BY <1>2, <1>3, <1>5
  <2>2. (CHOOSE k \in 0..(Len(Decimals) - 1) : Head(value) = Number(k)) = n
    BY <1>2, <2>1, Zenon
  <2> QED
    BY <2>2 DEF Length
<1> QED
  BY <1>4, <1>6 DEF value

\* All headers of a message are its headers.
LEMMA AllHeaders ==
  ASSUME NEW m \in Requests \cup Responses, NEW order \in SetToSeqs(DOMAIN m.headers),
         NEW new \in Objects, NEW body, HeadersSet(new, m, order, body, Len(order))
  PROVE  new.headers = m.headers
<1>1. m \in Objects /\ IsFiniteSet(DOMAIN m.headers)
  BY MessagesAreObjects
<1>2. \A name \in DOMAIN m.headers : \E i \in 1..Len(order) : order[i] = name
  BY <1>1, OrderIs
<1>3. /\ DOMAIN new.headers = DOMAIN m.headers
      /\ \A name \in DOMAIN m.headers : new.headers[name] = m.headers[name]
  BY <1>2, ZenonT(60) DEF HeadersSet
<1>4. new.headers \in HeaderSets /\ m.headers \in HeaderSets
  BY <1>1 DEF Objects
<1>5. new.headers \in [DOMAIN new.headers -> Texts] /\ m.headers \in [DOMAIN m.headers -> Texts]
  BY <1>4, HeaderSetsIs
<1> QED
  BY <1>3, <1>5

\* What operator>> makes of a message that the format can carry, of which z
\* does not arrive: the message, or no good stream.
ReadBack(r, m, rest, z) ==
    /\ r.state = "reading" =>
            /\ r.object = m
            /\ \E z2 \in Texts : r.text \o z2 = rest /\ (z = <<>> => z2 = <<>>)
    /\ r.state # "reading" => z # <<>>

LEMMA BodyRead ==
  ASSUME NEW m \in Requests \cup Responses, Framed(m),
         NEW order \in SetToSeqs(DOMAIN m.headers),
         NEW body, LengthHeader \notin DOMAIN m.headers => body = <<>>,
         NEW rest \in Texts, NEW z \in Texts, NEW h \in Readers,
         AtBody(h, m, order, body, m.body \o rest, z)
  PROVE  ReadBack(ReadBody(h), m, rest, z)
<1>1. /\ m \in Objects /\ m.body \in Texts /\ Len(m.body) < Len(Decimals)
      /\ h.object \in Objects /\ h.text \in Texts
  BY MessagesAreObjects DEF Readers
<1>2. HeadersSet(h.object, m, order, body, Len(order)) /\ h.state = "reading"
  BY DEF AtBody
<1>3. h.object.headers = m.headers /\ h.object.start = m.start /\ h.object.body = body
  <2>1. h.object.headers = m.headers
    BY <1>1, <1>2, AllHeaders
  <2> QED
    BY <1>2, <2>1 DEF HeadersSet
<1>4. CASE LengthHeader \notin DOMAIN m.headers
  <2>1. m.body = <<>> /\ body = <<>>
    BY <1>4 DEF Framed
  <2>2. ReadBody(h) = h
    BY <1>3, <1>4 DEF ReadBody
  <2>3. h.object = m
    BY <1>1, <1>3, <2>1 DEF Objects
  <2>4. m.body \o rest = rest /\ <<>> \o rest = rest
    BY <2>1, TextsClosed
  <2>5. \E z2 \in Texts : h.text \o z2 = rest /\ (z = <<>> => z2 = <<>>)
    <3>1. CASE h.text \o z = m.body \o rest
      BY <2>4, <3>1
    <3>2. CASE h.text = <<>> /\ z # <<>>
      BY <2>4, <3>2
    <3> QED
      BY <3>1, <3>2 DEF AtBody
  <2> QED
    BY <1>2, <2>2, <2>3, <2>5 DEF ReadBack
<1>5. CASE LengthHeader \in DOMAIN m.headers
  <2> DEFINE n == Len(m.body)
             r == Take(h, n)
             fail == h.end \/ Len(h.text) < n
  <2>1. n \in Nat
    BY <1>1 DEF Texts
  <2>2. ReadBody(h) = r
    <3>1. h.object.headers[LengthHeader] = <<Number(n)>>
      BY <1>3, <1>5 DEF Framed
    <3>2. IsLength(<<Number(n)>>) /\ Length(<<Number(n)>>) = n
      BY <1>1, <2>1, LengthOfNumber
    <3> QED
      BY <1>2, <1>3, <1>5, <3>1, <3>2 DEF ReadBody
  <2>3. /\ r \in Readers
        /\ r.object.start = m.start /\ r.object.headers = m.headers
        /\ r.object.body = TakenBody(h.text, n)
        /\ r.text = SubSeq(h.text, n + 1, Len(h.text))
        /\ r.state = IF fail THEN "failed" ELSE "reading"
    BY <1>2, <1>3, <2>1, TakeIs
  <2> HIDE DEF r
  <2>4. CASE fail
    <3>1. r.state = "failed"
      BY <2>3, <2>4
    <3>2. z # <<>>
      <4>1. CASE h.end = TRUE
        BY <4>1 DEF AtBody
      <4>2. CASE h.end = FALSE
        <5>1. h.text \o z = m.body \o rest /\ Len(h.text) < n
          BY <2>4, <4>2 DEF AtBody
        <5> QED
          BY <1>1, <5>1, BodyCut
      <4> QED
        BY <4>1, <4>2 DEF AtBody
    <3> QED
      BY <2>2, <3>1, <3>2 DEF ReadBack
  <2>5. CASE ~fail
    <3>1. h.text \o z = m.body \o rest /\ ~(Len(h.text) < n)
      BY <2>5 DEF AtBody
    <3>2. BodyArrived(h.text, z, m.body, rest)
      BY <1>1, <3>1, BodyCut
    <3>3. r.state = "reading"
      BY <2>3, <2>5
    <3>4. r.object.body = m.body /\ r.text \o z = rest
      BY <2>3, <3>2 DEF BodyArrived
    <3>5. r.object = m
      <4>1. r.object \in Objects
        BY <2>3 DEF Readers
      <4>2. r.object.start = m.start /\ r.object.headers = m.headers /\ r.object.body = m.body
        BY <2>3, <3>4
      <4>3. m \in Objects
        BY <1>1
      <4> QED
        BY <4>1, <4>2, <4>3 DEF Objects
    <3> QED
      BY <2>2, <3>3, <3>4, <3>5 DEF ReadBack
  <2> QED
    BY <2>4, <2>5
<1> QED
  BY <1>4, <1>5

-----------------------------------------------------------------------------
(* A message. *)

Regroups(a, b, c, d, e) == (((a \o b) \o c) \o d) \o e = a \o (b \o (c \o (d \o e)))

LEMMA Regroup ==
  ASSUME NEW a \in Texts, NEW b \in Texts, NEW c \in Texts, NEW d \in Texts, NEW e \in Texts
  PROVE  Regroups(a, b, c, d, e)
<1> DEFINE ab == a \o b
           abc == ab \o c
           de == d \o e
           cde == c \o de
<1>1. ab \in Texts /\ de \in Texts
  BY TextsClosed
<1> HIDE DEF ab, de
<1>2. abc \in Texts /\ cde \in Texts
  BY <1>1, TextsClosed
<1>3. abc \o de = ab \o cde
  BY <1>1, TextsClosed, ZenonT(60)
<1> HIDE DEF abc, cde
<1>4. (abc \o d) \o e = abc \o de
  BY <1>2, TextsClosed, ZenonT(60) DEF de
<1>5. ab \o cde = a \o (b \o cde)
  BY <1>2, TextsClosed, SMTT(40) DEF ab
<1>6. (abc \o d) \o e = a \o (b \o cde)
  BY <1>3, <1>4, <1>5, Zenon
<1> QED
  BY <1>6, Zenon DEF abc, ab, cde, de, Regroups

LEMMA NotReading ==
  ASSUME NEW h \in Readers, h.state # "reading"
  PROVE  ReadBody(h).state # "reading"
<1> DEFINE value == h.object.headers[LengthHeader]
<1>1. CASE h.state = "threw" \/ LengthHeader \notin DOMAIN h.object.headers
  BY <1>1 DEF ReadBody
<1>2. CASE ~(h.state = "threw" \/ LengthHeader \notin DOMAIN h.object.headers) /\ IsLength(value)
  <2>1. ReadBody(h) = Take(h, Length(value)) /\ Length(value) \in Nat
    BY <1>2, LengthIs DEF ReadBody
  <2>2. Take(h, Length(value)).state
            = IF h.end \/ Len(h.text) < Length(value) THEN "failed" ELSE h.state
    BY <2>1, TakeIs
  <2> QED
    BY <2>1, <2>2
<1>3. CASE ~(h.state = "threw" \/ LengthHeader \notin DOMAIN h.object.headers) /\ ~IsLength(value)
  <2>1. ReadBody(h) = [h EXCEPT !.state = "threw"]
    BY <1>3 DEF ReadBody
  <2> QED
    BY <2>1 DEF Readers
<1> QED
  BY <1>1, <1>2, <1>3

\* An object that keeps nothing of what was read into it before, when m is.
Fits(obj, m) ==
    /\ obj \in Objects /\ DOMAIN obj.headers \subseteq DOMAIN m.headers
    /\ m.start[3] = <<>> => obj.start[3] = <<>>
    /\ LengthHeader \notin DOMAIN m.headers => obj.body = <<>>

Carried(m) ==
    /\ m \in Requests \cup Responses /\ Framed(m) /\ PlainHeaders(m) /\ PlainStart(m.start)

LEMMA MessageRead ==
  ASSUME NEW m, Carried(m), NEW order \in SetToSeqs(DOMAIN m.headers),
         NEW obj, Fits(obj, m), NEW t \in Texts, NEW z \in Texts, NEW rest \in Texts,
         t \o z = Text(m, order) \o rest
  PROVE  ReadBack(Reading(t, obj), m, rest, z)
<1> DEFINE r     == Begun(t, obj)
           s     == ReadStart(r)
           h     == ReadHeaders(s)
           lines == LinesOf(m, order)
           more  == m.body \o rest
           tail  == FlattenSeq(lines) \o (<<CR, LF>> \o more)
           line  == StartLine(m) \o <<CR, LF>>
<1>1. m \in Requests \cup Responses
  BY DEF Carried
<1>2. m.body \in Texts /\ more \in Texts /\ <<CR, LF>> \in Texts
  BY <1>1, MessagesAreObjects, Delimiters, TextsClosed
<1>3. line \in Texts /\ FlattenSeq(lines) \in Texts /\ lines \in Seq(Texts)
  <2>1. StartLine(m) \in Texts
    BY <1>1, TextIs
  <2>2. FlattenSeq(lines) \in Texts
    BY <1>1, TextIs, Zenon
  <2>3. lines \in Seq(Texts)
    BY <1>1, TextIs, Zenon
  <2> HIDE DEF lines
  <2> QED
    BY <1>2, <2>1, <2>2, <2>3, TextsClosed
<1>4. tail \in Texts
  <2> HIDE DEF lines, more
  <2> QED
    BY <1>2, <1>3, TextsClosed
<1>5. t \o z = line \o tail
  <2>1. Text(m, order) = ((line \o FlattenSeq(lines)) \o <<CR, LF>>) \o m.body
    BY <1>1, TextIs, Zenon
  <2> HIDE DEF line, lines
  <2>2. (((line \o FlattenSeq(lines)) \o <<CR, LF>>) \o m.body) \o rest = line \o tail
    <3>1. Regroups(line, FlattenSeq(lines), <<CR, LF>>, m.body, rest)
      BY <1>2, <1>3, Regroup, Zenon
    <3> QED
      BY <3>1, Zenon DEF Regroups, tail, more
  <2> QED
    BY <2>1, <2>2, Zenon
<1>6. /\ r \in Readers /\ r.object = obj /\ r.text = t /\ r.state = "headers"
      /\ obj \in Objects
  BY DEF Begun, Readers, States, Fits
<1>7. Reading(t, obj) = ReadBody(h)
  BY DEF Reading, Begun
<1>8. line = Joined(m.start, <<SP>>) \o <<CR, LF>>
  BY DEF StartLine
<1> HIDE DEF r, more, lines, tail, line
<1>9. StartTurn(r, s, m.start, tail, z)
  <2>1. PlainStart(m.start) /\ (m.start[3] = <<>> => r.object.start[3] = <<>>)
    BY <1>6 DEF Carried, Fits
  <2>2. r.text \o z = (Joined(m.start, <<SP>>) \o <<CR, LF>>) \o tail
    BY <1>5, <1>6, <1>8, Zenon
  <2> QED
    BY <1>4, <1>6, <2>1, <2>2, StartTurnIs, Zenon
<1>10. s \in Readers
  BY <1>6, ReadStartIs
<1> HIDE DEF s
<1>11. InLoop(0, s, Len(s.text), m, order, obj.body, more, z)
  <2>1. CASE z # <<>> /\ Dead(s)
    BY <2>1 DEF InLoop
  <2>2. CASE ~(z # <<>> /\ Dead(s))
    <3>1. PICK t2 \in Texts :
              /\ t2 \o z = tail
              /\ s.state = "headers" /\ s.end = FALSE /\ s.text = t2
              /\ s.object = [obj EXCEPT !.start = m.start]
      BY <1>6, <1>9, <2>2 DEF StartTurn
    <3>2. HeadersSet(s.object, m, order, obj.body, 0)
      <4>1. /\ s.object.start = m.start /\ s.object.headers = obj.headers
            /\ s.object.body = obj.body
        BY <1>6, <3>1 DEF Objects
      <4> QED
        BY <4>1 DEF HeadersSet, Fits
    <3>3. FlattenSeq(Suffix(lines, 0)) = FlattenSeq(lines)
      BY <1>3, SuffixIs, Zenon
    <3>4. s.text \o z = FlattenSeq(Suffix(LinesOf(m, order), 0)) \o (<<CR, LF>> \o more)
      BY <3>1, <3>3, Zenon DEF tail, lines
    <3>5. 0 <= Len(order) /\ Len(s.text) + 0 <= Len(s.text)
      <4>1. Len(order) \in Nat
        <5>1. IsFiniteSet(DOMAIN m.headers)
          BY <1>1, MessagesAreObjects
        <5> QED
          BY <5>1, OrderIs
      <4>2. Len(s.text) \in Nat
        BY <1>10 DEF Readers, Texts
      <4> QED
        BY <4>1, <4>2
    <3>6. AtHeader(0, s, Len(s.text), m, order, obj.body, more, z)
      BY <3>1, <3>2, <3>4, <3>5 DEF AtHeader
    <3> QED
      BY <3>6 DEF InLoop
  <2> QED
    BY <2>1, <2>2
<1>12. /\ \/ z # <<>> /\ Dead(h)
          \/ AtBody(h, m, order, obj.body, more, z)
       /\ h \in Readers
  BY <1>1, <1>2, <1>10, <1>11, HeadersRead DEF Carried
<1> HIDE DEF h
<1>13. CASE z # <<>> /\ Dead(h)
  <2>1. ReadBody(h).state # "reading"
    BY <1>12, <1>13, NotReading DEF Dead
  <2> QED
    BY <1>7, <1>13, <2>1 DEF ReadBack
<1>14. CASE AtBody(h, m, order, obj.body, more, z)
  <2>1. AtBody(h, m, order, obj.body, m.body \o rest, z)
    BY <1>14 DEF more
  <2>2. Framed(m) /\ (LengthHeader \notin DOMAIN m.headers => obj.body = <<>>)
    BY DEF Carried, Fits
  <2>3. ReadBack(ReadBody(h), m, rest, z)
    BY <1>1, <1>12, <2>1, <2>2, BodyRead
  <2> QED
    BY <1>7, <2>3
<1> QED
  BY <1>12, <1>13, <1>14

\* At the end of all messages operator>> throws.
LEMMA NothingRead ==
  ASSUME NEW obj \in Objects
  PROVE  Reading(<<>>, obj).state = "threw" /\ Reading(<<>>, obj).end = TRUE
<1> DEFINE r == Begun(<<>>, obj)
           s == ReadStart(r)
           g == GetLine(r.text)
           a == After(r, g)
           I == {x \in Nat \X Readers : x[2] = s}
<1>1. r \in Readers /\ r.text = <<>>
  BY Delimiters DEF Begun, Readers, States
<1>2. Reading(<<>>, obj) = ReadBody(ReadHeaders(s))
  BY DEF Reading, Begun
<1> HIDE DEF r
<1>3. g.line = <<>> /\ g.rest = <<>> /\ g.end = TRUE
  <2>1. GetLine(<<>>) = [line |-> <<>>, rest |-> <<>>, end |-> TRUE]
    BY Delimiters, NoLineEnd, LineCut
  <2>2. g = [line |-> <<>>, rest |-> <<>>, end |-> TRUE]
    BY <1>1, <2>1, Zenon
  <2> HIDE DEF g
  <2> QED
    BY <2>2
<1>4. a \in Readers /\ a.end = g.end
  BY <1>1, AfterIs
<1>5. s = [a EXCEPT !.state = "threw"]
  BY <1>3 DEF ReadStart
<1> HIDE DEF a, g
<1>6. s.state = "threw" /\ s.end = TRUE /\ s \in Readers
  BY <1>3, <1>4, <1>5 DEF Readers, States
<1> HIDE DEF s
<1>7. ReadHeader(s) = s
  BY <1>6 DEF ReadHeader
<1>8. Len(s.text) \in Nat
  BY <1>6 DEF Readers, Texts
<1>9. <<0, s>> \in I
  BY <1>6
<1>10. ASSUME NEW i \in 0..Len(s.text), NEW b \in Readers, <<i, b>> \in I
       PROVE  <<i + 1, ReadHeader(b)>> \in I
  BY <1>6, <1>7, <1>8, <1>10
<1> HIDE DEF I
<1>11. <<Len(s.text) + 1, ReadHeaders(s)>> \in I
  BY <1>6, <1>9, <1>10, LoopInduct
<1>12. ReadHeaders(s) = s
  BY <1>11 DEF I
<1> QED
  BY <1>2, <1>6, <1>12 DEF ReadBody

-----------------------------------------------------------------------------
(* The invariant: while the reader reads, what it has not read yet are the   *)
(* texts of the messages that it has not got, up to where the connection     *)
(* broke.  It holds as long as the messages got so far were ones that the    *)
(* format can carry.                                                         *)

\* The texts of the messages after the first ones.
Pending(texts, first) ==
    /\ Len(texts) = Len(sent) - first
    /\ \A j \in 1..Len(texts) : \E order \in SetToSeqs(DOMAIN sent[first + j].headers) :
           texts[j] = Text(sent[first + j], order)

Arriving(first) ==
    \E texts \in Seq(Texts) : \E z \in Texts :
        Pending(texts, first) /\ stream \o z = FlattenSeq(texts) /\ (~cut => z = <<>>)

Kept == reuse => object = IF got = <<>> THEN Blank ELSE got[Len(got)]

InStep ==
    (reader = "reading" /\ GoodUpTo(Len(got))) =>
        Len(got) <= Len(sent) /\ Arriving(Len(got)) /\ Kept

Accepted ==
    \A i \in 1..Len(got) : GoodUpTo(i) => i <= Len(sent) /\ got[i] = sent[i]

Inv == Accepted /\ InStep /\ EndIsClean /\ (cut => over)

LEMMA GoodBefore ==
  ASSUME NEW i \in Nat, NEW k \in Nat, GoodUpTo(i), k <= i \/ i = Len(sent), sent \in Seq(Written)
  PROVE  GoodUpTo(k)
<1> SUFFICES ASSUME NEW j \in 1..k, j <= Len(sent)
             PROVE  Plain(sent[j]) /\ Framed(sent[j]) /\ Overwritten(sent[j])
  BY DEF GoodUpTo
<1>1. j \in 1..i
  BY DEF GoodUpTo
<1> QED
  BY <1>1 DEF GoodUpTo

\* More messages that are sent make no message good.
LEMMA GoodKept ==
  ASSUME sent \in Seq(Written), kind' = kind, reuse' = reuse,
         sent' = sent \/ \E message \in Written : sent' = Append(sent, message),
         NEW i \in Nat, GoodUpTo(i)'
  PROVE  GoodUpTo(i)
<1> SUFFICES ASSUME NEW j \in 1..i, j <= Len(sent)
             PROVE  Plain(sent[j]) /\ Framed(sent[j]) /\ Overwritten(sent[j])
  BY DEF GoodUpTo
<1>1. j <= Len(sent') /\ sent'[j] = sent[j] /\ sent'[1] = sent[1]
  <2>1. j \in 1..Len(sent) /\ 1 \in 1..Len(sent)
    OBVIOUS
  <2> QED
    BY <2>1
<1>2. (Plain(sent[j]) /\ Framed(sent[j]) /\ Overwritten(sent[j]))'
  BY <1>1 DEF GoodUpTo
<1>3. Plain(sent[j])
  BY <1>1, <1>2, Zenon DEF Plain
<1>4. Framed(sent[j])
  BY <1>1, <1>2, Zenon DEF Framed
<1>5. Overwritten(sent[j])
  BY <1>1, <1>2, Zenon DEF Overwritten
<1> QED
  BY <1>3, <1>4, <1>5

LEMMA CarriedIs ==
  ASSUME TypeOK, NEW j \in 1..Len(sent), GoodUpTo(j)
  PROVE  Carried(sent[j])
<1> DEFINE m == sent[j]
<1>1. m \in Written /\ m \in Requests \cup Responses
  BY DEF TypeOK, Written
<1>2. Plain(m) /\ Framed(m)
  <2>1. j \in 1..j /\ j <= Len(sent)
    BY DEF TypeOK
  <2> QED
    BY <2>1 DEF GoodUpTo
<1>3. /\ m.start \in [1..3 -> Texts]
      /\ \A name \in DOMAIN m.headers : name \in Texts /\ m.headers[name] \in Texts
  BY <1>1, MessagesAreObjects
<1>4. kind # "request" => m.start[2] = <<StatusCode>>
  BY <1>1, MessageAssumption DEF Written
<1> HIDE DEF m
<1>5. PlainStart(m.start)
  BY <1>2, <1>3, <1>4 DEF Plain, PlainStart
<1>6. PlainHeaders(m)
  <2>1. ASSUME NEW name \in DOMAIN m.headers PROVE PlainHeader(name, m.headers[name])
    BY <1>2, <1>3 DEF Plain, PlainHeader
  <2> QED
    BY <2>1 DEF PlainHeaders
<1>7. Carried(m)
  BY <1>1, <1>2, <1>5, <1>6 DEF Carried
<1> QED
  BY <1>7 DEF m

\* The object into which the next message is read.
LEMMA TargetFits ==
  ASSUME TypeOK, MeasuredInv, reader = "reading", Accepted, Kept,
         Len(got) + 1 <= Len(sent), GoodUpTo(Len(got) + 1)
  PROVE  Fits(Target, sent[Len(got) + 1])
<1> DEFINE n == Len(got)
           m == sent[n + 1]
<1>1. n \in Nat /\ n + 1 \in 1..Len(sent)
  BY DEF TypeOK
<1>2. Target \in Objects /\ (LengthHeader \notin DOMAIN Target.headers => Target.body = <<>>)
  BY TargetIs
<1>3. reuse => m.start[3] # <<>> /\ DOMAIN m.headers = DOMAIN sent[1].headers
  BY <1>1 DEF GoodUpTo, Overwritten
<1>4. DOMAIN Blank.headers = {} /\ Blank.start[3] = <<>> /\ Blank.body = <<>>
  BY DEF Blank
<1>5. CASE Target = Blank
  BY <1>2, <1>4, <1>5 DEF Fits
<1>6. CASE Target # Blank
  <2>1. reuse /\ Target = object /\ got # <<>>
    BY <1>6 DEF Target, Kept
  <2>2. n \in 1..n /\ n \in 1..Len(sent) /\ object = got[n]
    BY <1>1, <2>1 DEF Kept, TypeOK
  <2>3. GoodUpTo(n)
    BY <1>1, GoodBefore DEF TypeOK
  <2>4. got[n] = sent[n]
    BY <2>2, <2>3 DEF Accepted
  <2>5. DOMAIN sent[n].headers = DOMAIN sent[1].headers
    BY <2>1, <2>2, <2>3 DEF GoodUpTo, Overwritten
  <2>6. DOMAIN Target.headers = DOMAIN m.headers
    BY <1>3, <2>1, <2>2, <2>4, <2>5
  <2> QED
    BY <1>2, <1>3, <2>1, <2>6 DEF Fits
<1> QED
  BY <1>5, <1>6

LEMMA WriteStep ==
  ASSUME TypeOK, Inv, NEW message \in Written, Write(message)
  PROVE  Inv'
<1>1. /\ ~over /\ sent' = Append(sent, message)
      /\ kind' = kind /\ reuse' = reuse /\ over' = over /\ cut' = cut
      /\ object' = object /\ got' = got /\ reader' = reader
  BY DEF Write
<1>2. PICK order \in SetToSeqs(DOMAIN message.headers) : stream' = stream \o Text(message, order)
  BY DEF Write
<1>3. message \in Requests \cup Responses
  BY DEF Written
<1>4. sent \in Seq(Written) /\ stream \in Texts /\ Text(message, order) \in Texts
      /\ Len(got) \in Nat /\ Len(sent) \in Nat
  <2>1. Text(message, order) \in Texts
    BY <1>3, TextIs
  <2> QED
    BY <2>1 DEF TypeOK
<1>5. \A i \in Nat : GoodUpTo(i)' => GoodUpTo(i)
  BY <1>1, <1>4, GoodKept
<1>6. /\ Len(sent') = Len(sent) + 1 /\ sent'[Len(sent) + 1] = message
      /\ \A i \in 1..Len(sent) : sent'[i] = sent[i]
  BY <1>1, <1>4
<1>7. Accepted'
  <2> SUFFICES ASSUME NEW i \in 1..Len(got), GoodUpTo(i)'
               PROVE  i <= Len(sent') /\ got[i] = sent'[i]
    BY <1>1 DEF Accepted
  <2>1. i <= Len(sent) /\ got[i] = sent[i]
    BY <1>4, <1>5 DEF Accepted, Inv
  <2> QED
    BY <1>4, <1>6, <2>1
<1>8. EndIsClean'
  <2> SUFFICES ASSUME (reader # "reading")', GoodUpTo(Len(sent))'
               PROVE  FALSE
    BY DEF EndIsClean
  <2>2. GoodUpTo(Len(sent) + 1)
    BY <1>4, <1>5, <1>6
  <2>3. GoodUpTo(Len(sent))
    BY <1>4, <2>2, GoodBefore
  <2> QED
    BY <1>1, <2>3 DEF Inv, EndIsClean
<1>9. InStep'
  <2> SUFFICES ASSUME (reader = "reading")', GoodUpTo(Len(got))'
               PROVE  (Len(got) <= Len(sent) /\ Arriving(Len(got)) /\ Kept)'
    BY DEF InStep
  <2>1. GoodUpTo(Len(got))
    BY <1>1, <1>4, <1>5
  <2>2. Len(got) <= Len(sent) /\ Arriving(Len(got)) /\ Kept
    BY <1>1, <2>1 DEF Inv, InStep
  <2>3. PICK texts \in Seq(Texts), z \in Texts :
            Pending(texts, Len(got)) /\ stream \o z = FlattenSeq(texts) /\ (~cut => z = <<>>)
    BY <2>2 DEF Arriving
  <2> DEFINE text == Text(message, order)
             new  == Append(texts, text)
             n    == Len(got)
  <2>4. /\ new \in Seq(Texts) /\ Len(new) = Len(texts) + 1 /\ new[Len(texts) + 1] = text
        /\ \A j \in 1..Len(texts) : new[j] = texts[j]
        /\ Len(texts) \in Nat
    BY <1>4
  <2>5. Len(texts) = Len(sent) - n
    BY <2>3 DEF Pending
  <2> HIDE DEF new, text
  <2>6. \A j \in 1..Len(new) : \E o \in SetToSeqs(DOMAIN sent'[n + j].headers) :
            new[j] = Text(sent'[n + j], o)
    <3> TAKE j \in 1..Len(new)
    <3>1. CASE j \in 1..Len(texts)
      <4>1. n + j \in 1..Len(sent)
        BY <1>4, <2>2, <2>5, <3>1
      <4>2. sent'[n + j] = sent[n + j] /\ new[j] = texts[j]
        BY <1>6, <2>4, <3>1, <4>1
      <4>3. \E o \in SetToSeqs(DOMAIN sent[n + j].headers) : texts[j] = Text(sent[n + j], o)
        BY <2>3, <3>1 DEF Pending
      <4> QED
        BY <4>2, <4>3
    <3>2. CASE j \notin 1..Len(texts)
      <4>1. j = Len(texts) + 1 /\ n + j = Len(sent) + 1
        BY <1>4, <2>4, <2>5, <3>2
      <4>2. sent'[n + j] = message /\ new[j] = Text(message, order)
        BY <1>6, <2>4, <4>1 DEF text
      <4> QED
        BY <4>2
    <3> QED
      BY <3>1, <3>2
  <2>7. Pending(new, n)'
    <3>1. Len(new) = Len(sent') - n
      BY <1>4, <1>6, <2>4, <2>5
    <3> QED
      BY <1>1, <2>6, <3>1 DEF Pending
  <2>8. FlattenSeq(new) = FlattenSeq(texts) \o text
    <3>1. <<>> \in Texts
      BY Delimiters
    <3>2. \A a \in Texts : <<>> \o a = a
      BY TextsClosed
    <3>3. \A a, b \in Texts : a \o b \in Texts
      BY TextsClosed
    <3>4. \A v \in Texts : FlattenSeq(Append(texts, v)) = FlattenSeq(texts) \o v
      BY <2>3, <3>1, <3>2, <3>3, FlattenIn, Zenon
    <3> QED
      BY <1>4, <3>4 DEF new, text
  <2>9. z = <<>> /\ stream \o z = stream
    <3>1. z = <<>>
      BY <1>1, <2>3 DEF Inv
    <3> QED
      BY <1>4, <3>1, TextsClosed
  <2>10. stream' \o z = FlattenSeq(new)
    <3>1. FlattenSeq(texts) = stream
      BY <2>3, <2>9
    <3>2. stream' = FlattenSeq(new)
      BY <1>2, <2>8, <3>1, Zenon DEF text
    <3>3. stream' \in Texts
      BY <1>2, <1>4, TextsClosed
    <3> QED
      BY <2>9, <3>2, <3>3, TextsClosed
  <2>11. Arriving(n)'
    BY <2>4, <2>7, <2>9, <2>10 DEF Arriving
  <2>12. Kept'
    BY <1>1, <2>2 DEF Kept
  <2> QED
    BY <1>1, <1>4, <1>6, <2>2, <2>11, <2>12
<1> QED
  BY <1>1, <1>7, <1>8, <1>9 DEF Inv

\* The writer closes its end, or the connection breaks: what arrives is cut.
LEMMA EndStep ==
  ASSUME TypeOK, Inv, Close \/ \E bytes \in 0..(Len(stream) - 1) : Break(bytes)
  PROVE  Inv'
<1>1. /\ ~over /\ over' = TRUE /\ UNCHANGED <<kind, reuse, sent, object, got, reader>>
      /\ \/ stream' = stream /\ cut' = cut
         \/ cut' = TRUE /\ \E bytes \in 0..(Len(stream) - 1) : stream' = SubSeq(stream, 1, bytes)
  BY DEF Close, Break
<1>2. sent \in Seq(Written) /\ stream \in Texts /\ Len(got) \in Nat /\ Len(sent) \in Nat
  BY DEF TypeOK
<1>3. \A i \in Nat : GoodUpTo(i)' => GoodUpTo(i)
  BY <1>1, <1>2, GoodKept
<1>4. Accepted'
  <2> SUFFICES ASSUME NEW i \in 1..Len(got), GoodUpTo(i)'
               PROVE  i <= Len(sent') /\ got[i] = sent'[i]
    BY <1>1 DEF Accepted
  <2>1. i <= Len(sent) /\ got[i] = sent[i]
    BY <1>2, <1>3 DEF Accepted, Inv
  <2> QED
    BY <1>1, <2>1
<1>5. EndIsClean'
  <2> SUFFICES ASSUME (reader # "reading")', GoodUpTo(Len(sent))'
               PROVE  FALSE
    BY DEF EndIsClean
  <2>1. GoodUpTo(Len(sent))
    BY <1>1, <1>2, <1>3
  <2> QED
    BY <1>1, <2>1 DEF Inv, EndIsClean
<1>6. \E x \in Texts : stream' \in Texts /\ stream' \o x = stream /\ (~cut' => x = <<>>)
  <2>1. CASE stream' = stream /\ cut' = cut
    BY <1>2, <2>1, Delimiters, TextsClosed
  <2>2. CASE cut' = TRUE /\ \E bytes \in 0..(Len(stream) - 1) : stream' = SubSeq(stream, 1, bytes)
    <3>1. PICK bytes \in 0..(Len(stream) - 1) : stream' = SubSeq(stream, 1, bytes)
      BY <2>2
    <3> DEFINE x == SubSeq(stream, bytes + 1, Len(stream))
    <3>2. SubSeq(stream, 1, bytes) \in Seq(Symbol) /\ x \in Seq(Symbol)
          /\ SubSeq(stream, 1, bytes) \o x = stream
      BY <1>2 DEF Texts
    <3> QED
      BY <2>2, <3>1, <3>2 DEF Texts
  <2> QED
    BY <1>1, <2>1, <2>2
<1>7. InStep'
  <2> SUFFICES ASSUME (reader = "reading")', GoodUpTo(Len(got))'
               PROVE  (Len(got) <= Len(sent) /\ Arriving(Len(got)) /\ Kept)'
    BY DEF InStep
  <2>1. GoodUpTo(Len(got))
    BY <1>1, <1>2, <1>3
  <2>2. Len(got) <= Len(sent) /\ Arriving(Len(got)) /\ Kept
    BY <1>1, <2>1 DEF Inv, InStep
  <2>3. PICK texts \in Seq(Texts), z \in Texts :
            Pending(texts, Len(got)) /\ stream \o z = FlattenSeq(texts) /\ (~cut => z = <<>>)
    BY <2>2 DEF Arriving
  <2>4. PICK x \in Texts : stream' \in Texts /\ stream' \o x = stream /\ (~cut' => x = <<>>)
    BY <1>6
  <2>5. x \o z \in Texts
    BY TextsClosed
  <2>6. stream' \o (x \o z) = FlattenSeq(texts)
    <3> DEFINE s == stream'
    <3>1. s \in Texts /\ s \o x = stream
      BY <2>4
    <3> HIDE DEF s
    <3>2. (s \o x) \o z = s \o (x \o z)
      BY <3>1, TextsClosed
    <3> QED
      BY <2>3, <3>1, <3>2 DEF s
  <2>7. ~cut' => x \o z = <<>>
    <3>1. ~cut' => ~cut
      BY <1>1, <1>2 DEF TypeOK
    <3>2. ~cut' => x = <<>> /\ z = <<>>
      BY <2>3, <2>4, <3>1
    <3>3. <<>> \o <<>> = <<>>
      OBVIOUS
    <3> QED
      BY <3>2, <3>3
  <2>8. Pending(texts, Len(got))'
    BY <1>1, <2>3 DEF Pending
  <2>9. Arriving(Len(got))'
    BY <2>5, <2>6, <2>7, <2>8 DEF Arriving
  <2>10. Kept'
    BY <1>1, <2>2 DEF Kept
  <2> QED
    BY <1>1, <2>2, <2>9, <2>10
<1> QED
  BY <1>1, <1>4, <1>5, <1>7 DEF Inv

\* One operator>> while all messages so far were ones that can be carried.
LEMMA ReadInStep ==
  ASSUME TypeOK, MeasuredInv, Inv, Read, GoodUpTo(Len(got)), Len(got) < Len(sent),
         GoodUpTo(Len(got) + 1)
  PROVE  IF reader' = "reading"
         THEN /\ got' = Append(got, sent[Len(got) + 1]) /\ object' = sent[Len(got) + 1]
              /\ Len(got') = Len(got) + 1 /\ Arriving(Len(got))'
         ELSE got' = got /\ cut
<1> DEFINE n == Len(got)
           m == sent[n + 1]
           r == Reading(stream, Target)
<1>1. /\ reader = "reading"
      /\ stream' = r.text /\ object' = r.object /\ reader' = r.state
      /\ got' = IF r.state = "reading" THEN Append(got, r.object) ELSE got
      /\ kind' = kind /\ reuse' = reuse /\ sent' = sent /\ over' = over /\ cut' = cut
  BY DEF Read, Target, writer
<1>2. stream \in Texts /\ n \in Nat /\ Len(sent) \in Nat /\ n + 1 \in 1..Len(sent)
  BY DEF TypeOK
<1>3. Arriving(n) /\ Kept /\ Accepted
  BY <1>1 DEF Inv, InStep
<1>4. PICK texts \in Seq(Texts), z \in Texts :
          Pending(texts, n) /\ stream \o z = FlattenSeq(texts) /\ (~cut => z = <<>>)
  BY <1>3 DEF Arriving
<1>5. Len(texts) = Len(sent) - n /\ 1 \in 1..Len(texts) /\ Len(texts) \in Nat
  BY <1>2, <1>4 DEF Pending
<1>6. PICK order \in SetToSeqs(DOMAIN m.headers) : texts[1] = Text(m, order)
  BY <1>4, <1>5 DEF Pending
<1>7. Carried(m)
  BY <1>2, CarriedIs
<1>8. Fits(Target, m)
  BY <1>1, <1>2, <1>3, TargetFits
<1> DEFINE later == Suffix(texts, 1)
           rest  == FlattenSeq(later)
<1>9. later \in Seq(Texts) /\ Len(later) = Len(texts) - 1
      /\ \A j \in 1..Len(later) : later[j] = texts[1 + j]
  BY <1>5 DEF Suffix
<1>10. rest \in Texts
  BY <1>9, FlattenTexts
<1>11. stream \o z = Text(m, order) \o rest
  <2>1. 0 \in 0..(Len(texts) - 1) /\ 0 + 1 = 1
    BY <1>5
  <2>2. FlattenSeq(Suffix(texts, 0)) = texts[0 + 1] \o FlattenSeq(Suffix(texts, 0 + 1))
    BY <2>1, SuffixIs, Zenon
  <2>3. FlattenSeq(Suffix(texts, 0)) = FlattenSeq(texts)
    BY SuffixIs, Zenon
  <2>4. FlattenSeq(texts) = texts[1] \o FlattenSeq(Suffix(texts, 1))
    BY <2>1, <2>2, <2>3
  <2> QED
    BY <1>4, <1>6, <2>4, Zenon
<1> HIDE DEF later, rest, r, m
<1>12. ReadBack(r, m, rest, z)
  BY <1>2, <1>4, <1>6, <1>7, <1>8, <1>10, <1>11, MessageRead, Zenon DEF r
<1>13. CASE r.state = "reading"
  <2>1. PICK z2 \in Texts : r.text \o z2 = rest /\ (z = <<>> => z2 = <<>>)
    BY <1>12, <1>13 DEF ReadBack
  <2>2. r.object = m
    BY <1>12, <1>13 DEF ReadBack
  <2>3. \A j \in 1..Len(later) : \E o \in SetToSeqs(DOMAIN sent[(n + 1) + j].headers) :
            later[j] = Text(sent[(n + 1) + j], o)
    <3> TAKE j \in 1..Len(later)
    <3>1. 1 + j \in 1..Len(texts) /\ n + (1 + j) = (n + 1) + j
      BY <1>2, <1>5, <1>9
    <3>2. \E o \in SetToSeqs(DOMAIN sent[n + (1 + j)].headers) :
              texts[1 + j] = Text(sent[n + (1 + j)], o)
      BY <1>4, <3>1 DEF Pending
    <3> QED
      BY <1>9, <3>1, <3>2
  <2>4. Len(later) = Len(sent) - (n + 1)
    BY <1>2, <1>5, <1>9
  <2>5. Pending(later, n + 1)
    BY <2>3, <2>4 DEF Pending
  <2>6. \E ts \in Seq(Texts), y \in Texts :
            /\ Len(ts) = Len(sent') - (n + 1)
            /\ \A j \in 1..Len(ts) : \E o \in SetToSeqs(DOMAIN sent'[(n + 1) + j].headers) :
                   ts[j] = Text(sent'[(n + 1) + j], o)
            /\ stream' \o y = FlattenSeq(ts) /\ (~cut' => y = <<>>)
    <3>1. stream' \o z2 = FlattenSeq(later) /\ (~cut' => z2 = <<>>)
      BY <1>1, <1>4, <2>1 DEF rest
    <3>2. /\ Len(later) = Len(sent') - (n + 1)
          /\ \A j \in 1..Len(later) : \E o \in SetToSeqs(DOMAIN sent'[(n + 1) + j].headers) :
                   later[j] = Text(sent'[(n + 1) + j], o)
      BY <1>1, <2>3, <2>4, Zenon
    <3> QED
      BY <1>9, <3>1, <3>2, Zenon
  <2>7. got' = Append(got, m) /\ object' = m /\ reader' = "reading"
    BY <1>1, <1>13, <2>2
  <2>8. Len(got') = n + 1
    BY <2>7 DEF TypeOK
  <2> HIDE DEF n
  <2>9. Arriving(Len(got))'
    BY <2>6, <2>8 DEF Arriving, Pending
  <2> QED
    BY <2>7, <2>8, <2>9 DEF m, n
<1>14. CASE r.state # "reading"
  <2>1. z # <<>>
    BY <1>12, <1>14 DEF ReadBack
  <2>2. cut
    BY <1>4, <2>1
  <2> QED
    BY <1>1, <1>14, <2>2
<1> QED
  BY <1>13, <1>14

LEMMA ReadStep ==
  ASSUME TypeOK, MeasuredInv, Inv, Read
  PROVE  Inv'
<1> DEFINE n == Len(got)
           r == Reading(stream, Target)
<1>1. /\ reader = "reading" /\ (r.end => over)
      /\ stream' = r.text /\ object' = r.object /\ reader' = r.state
      /\ got' = IF r.state = "reading" THEN Append(got, r.object) ELSE got
      /\ kind' = kind /\ reuse' = reuse /\ sent' = sent /\ over' = over /\ cut' = cut
  BY DEF Read, Target, writer
<1>2. /\ stream \in Texts /\ n \in Nat /\ Len(sent) \in Nat /\ sent \in Seq(Written)
      /\ Target \in Objects /\ r.object \in Objects /\ got \in Seq(Objects)
  <2>1. Target \in Objects /\ (LengthHeader \notin DOMAIN Target.headers => Target.body = <<>>)
    BY <1>1, TargetIs
  <2>2. r \in Readers
    BY <2>1, ReadingIs DEF TypeOK
  <2> QED
    BY <2>1, <2>2 DEF TypeOK, Readers
<1>3. \A i \in Nat : GoodUpTo(i)' => GoodUpTo(i)
  BY <1>1, <1>2, GoodKept
<1> HIDE DEF r
<1>4. /\ n <= Len(got') /\ Len(got') \in Nat
      /\ \A i \in 1..n : got'[i] = got[i]
      /\ reader' = "reading" => Len(got') = n + 1 /\ got'[n + 1] = object' /\ got' # <<>>
      /\ reader' # "reading" => got' = got
  BY <1>1, <1>2
<1>5. /\ cut' => over'
      /\ \A i \in 1..n : GoodUpTo(i)' => i <= Len(sent') /\ got'[i] = sent'[i]
  <2>1. \A i \in 1..n : GoodUpTo(i)' => i <= Len(sent) /\ got[i] = sent[i]
    BY <1>2, <1>3 DEF Inv, Accepted
  <2> QED
    BY <1>1, <1>4, <2>1 DEF Inv
\* Something before was a message that cannot be carried.
<1>6. CASE ~GoodUpTo(n) \/ (n < Len(sent) /\ ~GoodUpTo(n + 1))
  <2>1. ~GoodUpTo(Len(sent))'
    <3>1. ~GoodUpTo(Len(sent))
      BY <1>2, <1>6, GoodBefore
    <3> QED
      BY <1>1, <1>2, <1>3, <3>1
  <2>2. ~GoodUpTo(n + 1)
    BY <1>2, <1>6, GoodBefore
  <2>3. EndIsClean'
    BY <2>1 DEF EndIsClean
  <2>4. (reader = "reading")' => ~GoodUpTo(Len(got))'
    BY <1>2, <1>3, <1>4, <2>2
  <2>5. InStep'
    BY <2>4 DEF InStep
  <2>6. Accepted'
    <3> SUFFICES ASSUME NEW i \in 1..Len(got'), GoodUpTo(i)'
                 PROVE  i <= Len(sent') /\ got'[i] = sent'[i]
      BY DEF Accepted
    <3>1. i \in Nat /\ GoodUpTo(i)
      BY <1>3
    <3>2. i # n + 1
      BY <2>2, <3>1
    <3>3. i \in 1..n
      BY <1>2, <1>4, <3>2
    <3> QED
      BY <1>5, <3>3
  <2> QED
    BY <1>5, <2>3, <2>5, <2>6 DEF Inv
<1>7. CASE GoodUpTo(n) /\ n < Len(sent) /\ GoodUpTo(n + 1)
  <2>1. IF reader' = "reading"
        THEN /\ got' = Append(got, sent[n + 1]) /\ object' = sent[n + 1]
             /\ Len(got') = n + 1 /\ Arriving(Len(got))'
        ELSE got' = got /\ cut
    BY <1>7, ReadInStep
  <2>2. Accepted'
    <3> SUFFICES ASSUME NEW i \in 1..Len(got'), GoodUpTo(i)'
                 PROVE  i <= Len(sent') /\ got'[i] = sent'[i]
      BY DEF Accepted
    <3>1. CASE i \in 1..n
      BY <1>5, <3>1
    <3>2. CASE i \notin 1..n
      <4>1. i = n + 1 /\ reader' = "reading"
        BY <1>2, <1>4, <3>2
      <4> QED
        BY <1>1, <1>2, <1>4, <1>7, <2>1, <4>1
    <3> QED
      BY <3>1, <3>2
  <2>3. EndIsClean'
    <3>1. reader' # "reading" => over' /\ cut'
      BY <1>1, <2>1 DEF Inv
    <3> QED
      BY <3>1 DEF EndIsClean
  <2>4. InStep'
    <3> SUFFICES ASSUME reader' = "reading"
                 PROVE  (Len(got) <= Len(sent) /\ Arriving(Len(got)) /\ Kept)'
      BY DEF InStep
    <3>1. Len(got') <= Len(sent')
      BY <1>1, <1>2, <1>7, <2>1
    <3>2. Kept'
      BY <1>4, <2>1 DEF Kept
    <3> QED
      BY <2>1, <3>1, <3>2
  <2> QED
    BY <1>5, <2>2, <2>3, <2>4 DEF Inv
\* Every message has been got.
<1>8. CASE GoodUpTo(n) /\ ~(n < Len(sent))
  <2>1. n <= Len(sent) /\ Arriving(n)
    BY <1>1, <1>8 DEF Inv, InStep
  <2>2. n = Len(sent)
    BY <1>2, <1>8, <2>1
  <2>3. stream = <<>>
    <3>1. PICK texts \in Seq(Texts), z \in Texts :
              Pending(texts, n) /\ stream \o z = FlattenSeq(texts)
      BY <2>1 DEF Arriving
    <3>2. Len(texts) = 0
      BY <1>2, <2>2, <3>1 DEF Pending
    <3>3. texts = <<>>
      BY <3>2
    <3>4. FlattenSeq(texts) = <<>>
      <4>1. FlattenSeq(Suffix(texts, Len(texts))) = <<>>
        BY SuffixIs, Zenon
      <4>2. Suffix(texts, Len(texts)) = texts
        BY <3>3 DEF Suffix
      <4> QED
        BY <4>1, <4>2
    <3>5. stream \o z = <<>>
      BY <3>1, <3>4
    <3>6. TwoParts(stream \o z, stream, z)
      BY <1>2, TwoPartsIs
    <3>7. Len(stream) = 0
      <4>1. Len(stream) \in Nat /\ Len(z) \in Nat
        BY <1>2 DEF Texts
      <4>2. Len(<<>>) = 0
        OBVIOUS
      <4> QED
        BY <3>5, <3>6, <4>1, <4>2 DEF TwoParts
    <3> QED
      BY <1>2, <3>7 DEF Texts
  <2>4. r.state = "threw" /\ r.end = TRUE
    BY <1>2, <2>3, NothingRead DEF r
  <2>5. over' /\ reader' = "threw" /\ got' = got
    BY <1>1, <2>4
  <2>6. got = sent
    <3>1. \A i \in 1..n : got[i] = sent[i]
      <4> TAKE i \in 1..n
      <4>1. GoodUpTo(i)
        BY <1>2, <1>8, GoodBefore
      <4> QED
        BY <4>1 DEF Inv, Accepted
    <3>2. sent \in Seq(Objects)
      <4>1. \A message \in Written : message \in Objects
        <5> TAKE message \in Written
        <5>1. message \in Requests \cup Responses
          BY DEF Written
        <5> QED
          BY <5>1, MessagesAreObjects
      <4> QED
        BY <1>2, <4>1
    <3> QED
      BY <1>2, <2>2, <3>1, <3>2, SeqEqual
  <2>7. EndIsClean'
    BY <1>1, <2>5, <2>6 DEF EndIsClean
  <2>8. InStep'
    BY <2>5 DEF InStep
  <2>9. Accepted'
    BY <1>5, <2>5 DEF Accepted
  <2> QED
    BY <1>5, <2>7, <2>8, <2>9 DEF Inv
<1> QED
  BY <1>6, <1>7, <1>8

LEMMA InvInit == ASSUME Init PROVE Inv
<1>1. /\ sent = <<>> /\ stream = <<>> /\ got = <<>> /\ Len(got) = 0 /\ Len(sent) = 0
      /\ reader = "reading" /\ object = Blank /\ cut = FALSE
  BY DEF Init
<1>2. Accepted /\ EndIsClean /\ Kept
  BY <1>1 DEF Accepted, EndIsClean, Kept
<1>3. Arriving(0)
  <2>1. <<>> \in Seq(Texts) /\ <<>> \in Texts
    BY Delimiters
  <2>2. Pending(<<>>, 0)
    BY <1>1 DEF Pending
  <2>3. FlattenSeq(<<>>) = <<>>
    <3>1. FlattenSeq(Suffix(<<>>, Len(<<>>))) = <<>>
      BY <2>1, SuffixIs, Zenon
    <3>2. Suffix(<<>>, Len(<<>>)) = <<>>
      BY DEF Suffix
    <3> QED
      BY <3>1, <3>2
  <2>4. stream \o <<>> = FlattenSeq(<<>>)
    BY <1>1, <2>3
  <2> QED
    BY <2>1, <2>2, <2>4 DEF Arriving
<1> QED
  BY <1>1, <1>2, <1>3 DEF Inv, InStep

\* What holds on every connection.
LEMMA InvHolds == Spec => [](TypeOK /\ MeasuredInv /\ Inv)
<1> DEFINE All == TypeOK /\ MeasuredInv /\ Inv
<1>1. Init => All
  BY TypeInit, InvInit
<1>2. All /\ [Next]_vars => All'
  <2> SUFFICES ASSUME TypeOK, MeasuredInv, Inv, [Next]_vars PROVE Inv'
    BY TypeStep
  <2>1. ASSUME NEW message \in Written, Write(message) PROVE Inv'
    BY <2>1, WriteStep
  <2>2. CASE Close \/ \E bytes \in 0..(Len(stream) - 1) : Break(bytes)
    BY <2>2, EndStep
  <2>3. CASE Read
    BY <2>3, ReadStep
  <2>4. CASE UNCHANGED vars
    <3>1. \A i : GoodUpTo(i)' = GoodUpTo(i)
      BY <2>4 DEF vars, GoodUpTo, Plain, Framed, Overwritten
    <3>2. \A i : Arriving(i)' = Arriving(i)
      BY <2>4 DEF vars, Arriving, Pending
    <3> QED
      BY <2>4, <3>1, <3>2 DEF vars, Inv, Accepted, InStep, Kept, EndIsClean
  <2> QED
    BY <2>1, <2>2, <2>3, <2>4 DEF Next, Written
<1> QED
  BY <1>1, <1>2, PTL DEF Spec

\* Every message that a reader accepts is the one that was written, in its
\* place, as long as those up to it were ones that the format can carry; of any
\* other the body fits its header: operator>> against operator<<.
THEOREM AcceptedAreWritten == Spec => []AcceptedIsWritten
<1>1. TypeOK /\ MeasuredInv /\ Inv => AcceptedIsWritten
  <2>1. TypeOK => DOMAIN got = 1..Len(got)
    BY DEF TypeOK
  <2> QED
    BY <2>1 DEF MeasuredInv, Inv, Accepted, AcceptedIsWritten
<1> QED
  BY <1>1, InvHolds, PTL

\* A reader of such messages ends with the connection only, and when nothing was
\* lost it has got all of them, and the end is an exception.
THEOREM EndsCleanly == Spec => []EndIsClean
<1>1. TypeOK /\ MeasuredInv /\ Inv => EndIsClean
  BY DEF Inv
<1> QED
  BY <1>1, InvHolds, PTL

-----------------------------------------------------------------------------
-----------------------------------------------------------------------------
(***************************************************************************)
(* The sorted array keeps its order and its entries, and its searches are  *)
(* exact, for any keys and any size.  While SiftUp runs the array is in    *)
(* order but for the entry on its way, which is less than all it passed;   *)
(* a search knows what is below its range and what is behind it.           *)
(***************************************************************************)
\* What Ordered says of an entry and one behind it.
Before(a, b) == Cmp(a, b) \/ (a.key = b.key /\ a.nr <= b.nr)

SortedType ==
    /\ array \in Seq(Entry)
    /\ curIt \in 0..Len(array) /\ inserted \in Nat /\ thrown \in BOOLEAN
    /\ probe \in [key : Int, lo : Nat, hi : Nat]
    /\ \A i \in 1..Len(array) : array[i].nr <= inserted

Sifting ==
    ~thrown =>
        /\ \A i, j \in 1..Len(array) :
               i < j /\ i # curIt /\ j # curIt => Before(array[i], array[j])
        /\ curIt > 0 =>
               /\ array[curIt].nr = inserted
               /\ \A j \in 1..Len(array) : j > curIt => Cmp(array[curIt], array[j])

Searching ==
    probe # NoFind =>
        /\ curIt = 0
        /\ 1 <= probe.lo /\ probe.lo <= probe.hi /\ probe.hi <= Len(array) + 1
        /\ ~thrown =>
              /\ \A i \in 1..Len(array) : i < probe.lo => array[i].key < probe.key
              /\ \A i \in 1..Len(array) : i >= probe.hi => array[i].key >= probe.key

SortedInv == SortedType /\ Sifting /\ Searching /\ NothingForgotten

\* The entries, their keys and their numbers.
LEMMA Entries ==
  ASSUME SortedType
  PROVE  /\ Len(array) \in Nat /\ array \in [1..Len(array) -> Entry]
         /\ \A i \in 1..Len(array) : /\ array[i] \in Entry
                                     /\ array[i].key \in Int /\ array[i].nr \in Nat
<1>1. array \in Seq(Entry)
  BY DEF SortedType
<1>2. Len(array) \in Nat /\ array \in [1..Len(array) -> Entry]
  BY <1>1
<1>3. \A e \in Entry : e.key \in Int /\ e.nr \in Nat
  BY SortedAssumption DEF Entry
<1> QED
  BY <1>2, <1>3

\* An empty array.
LEMMA InitSorted == SortedInit => SortedInv
<1> SUFFICES ASSUME SortedInit PROVE SortedInv
  OBVIOUS
<1>1. /\ array = <<>> /\ Len(array) = 0 /\ curIt = 0 /\ inserted = 0
      /\ thrown = FALSE /\ probe = NoFind
  BY DEF SortedInit
<1>2. SortedType
  <2>1. array \in Seq(Entry) /\ 1..Len(array) = {} /\ 0 \in 0..Len(array)
    BY <1>1
  <2>2. probe \in [key : Int, lo : Nat, hi : Nat]
    BY <1>1 DEF NoFind
  <2> QED
    BY <1>1, <2>1, <2>2 DEF SortedType
<1>3. Sifting /\ Searching /\ NothingForgotten
  BY <1>1 DEF Sifting, Searching, NothingForgotten
<1> QED
  BY <1>2, <1>3 DEF SortedInv

\* std::sort leaves the range it was given in order.
LEMMA ConstructStep ==
  ASSUME SortedInv, NEW n \in Nat, NEW keys \in [1..n -> Key], Construct(keys)
  PROVE  SortedInv'
<1>1. /\ curIt = 0 /\ probe = NoFind /\ inserted = 0
      /\ UNCHANGED <<curIt, inserted, thrown, probe>>
  BY DEF Construct, Idle
<1>2. PICK order \in [1..n -> 1..n] :
          array' = [i \in 1..n |-> [key |-> keys[order[i]], nr |-> 0]]
  BY ZenonT(60) DEF Construct
<1>3. \A i, j \in 1..n : i < j => ~Cmp(array'[j], array'[i])
  BY DEF Construct
<1>4. \A i \in 1..n : array'[i] \in Entry /\ array'[i].nr = 0 /\ array'[i].key \in Int
  BY <1>2, SortedAssumption DEF Entry
<1>5. array' \in Seq(Entry) /\ Len(array') = n
  BY <1>2, <1>4
<1>6. SortedType'
  <2>1. \A i \in 1..Len(array') : array'[i].nr <= inserted'
    BY <1>1, <1>4, <1>5
  <2>2. curIt' \in 0..Len(array') /\ inserted' \in Nat
    BY <1>1, <1>5
  <2> QED
    BY <1>1, <1>5, <2>1, <2>2 DEF SortedInv, SortedType
<1>7. Sifting'
  <2>1. ASSUME NEW i \in 1..n, NEW j \in 1..n, i < j
        PROVE  Before(array'[i], array'[j])
    <3>1. ~(array'[j].key < array'[i].key)
      BY <1>3, <2>1 DEF Cmp
    <3>2. /\ array'[i].key \in Int /\ array'[j].key \in Int
          /\ array'[i].nr = 0 /\ array'[j].nr = 0
      BY <1>4
    <3> QED
      <4>0. \A a, b \in Int : ~(b < a) => a < b \/ a = b
        OBVIOUS
      <4>1. array'[i].key < array'[j].key \/ array'[i].key = array'[j].key
        BY <3>1, <3>2, <4>0
      <4>2. array'[i].nr <= array'[j].nr
        BY <3>2
      <4> QED
        BY <4>1, <4>2 DEF Before, Cmp
  <2> QED
    BY <1>1, <1>5, <2>1 DEF Sifting
<1>8. Searching' /\ NothingForgotten'
  BY <1>1 DEF Searching, NothingForgotten
<1> QED
  BY <1>6, <1>7, <1>8 DEF SortedInv

\* An entry that is appended is the one on its way.
LEMMA InsertStep ==
  ASSUME SortedInv, NEW k \in Key, Insert(k)
  PROVE  SortedInv'
<1>1. /\ curIt = 0 /\ probe = NoFind /\ inserted' = inserted + 1
      /\ array' = Append(array, [key |-> k, nr |-> inserted'])
      /\ curIt' = Len(array')
      /\ UNCHANGED <<thrown, probe>>
  BY DEF Insert, Idle
<1>2. /\ array \in Seq(Entry) /\ Len(array) \in Nat /\ inserted \in Nat
      /\ \A i \in 1..Len(array) : array[i].nr \in Nat /\ array[i].nr <= inserted
  BY Entries DEF SortedInv, SortedType
<1> DEFINE e == [key |-> k, nr |-> inserted']
<1>3. e \in Entry /\ e.nr = inserted + 1
  BY <1>1, <1>2 DEF Entry
<1> HIDE DEF e
<1>4. /\ array' \in Seq(Entry) /\ Len(array') = Len(array) + 1
      /\ array'[Len(array) + 1] = e
      /\ \A i \in 1..Len(array) : array'[i] = array[i]
  <2>1. array' = Append(array, e)
    BY <1>1 DEF e
  <2> QED
    BY <1>2, <1>3, <2>1
<1>5. \A i \in 1..Len(array') : i = Len(array) + 1 \/ i \in 1..Len(array)
  BY <1>2, <1>4
<1>6. SortedType'
  <2>1. \A i \in 1..Len(array') : array'[i].nr <= inserted'
    BY <1>1, <1>2, <1>3, <1>4, <1>5
  <2>2. curIt' \in 0..Len(array') /\ inserted' \in Nat
    BY <1>1, <1>2, <1>4
  <2> QED
    BY <1>1, <1>4, <2>1, <2>2 DEF SortedInv, SortedType
<1>7. Sifting'
  <2>1. curIt' = Len(array) + 1 /\ array'[curIt'].nr = inserted'
    BY <1>1, <1>3, <1>4
  <2>2. ASSUME ~thrown, NEW i \in 1..Len(array'), NEW j \in 1..Len(array'),
               i < j, i # curIt', j # curIt'
        PROVE  Before(array'[i], array'[j])
    <3>1. i \in 1..Len(array) /\ j \in 1..Len(array)
      BY <1>5, <2>1, <2>2
    <3>2. i # curIt /\ j # curIt
      BY <1>1, <3>1
    <3> QED
      BY <1>4, <2>2, <3>1, <3>2 DEF SortedInv, Sifting
  <2>3. \A j \in 1..Len(array') : ~(j > curIt')
    BY <1>2, <1>4, <2>1
  <2> QED
    BY <1>1, <2>1, <2>2, <2>3 DEF Sifting
<1>8. NothingForgotten'
  <2>1. SUFFICES ASSUME NEW n \in 1..inserted'
                 PROVE  \E i \in 1..Len(array') :
                            \A j \in 1..Len(array') : array'[j].nr = n <=> j = i
    BY DEF NothingForgotten
  <2>2. CASE n = inserted + 1
    <3>1. \A j \in 1..Len(array) : array'[j].nr # n
      BY <1>2, <1>4, <2>2
    <3>2. Len(array) + 1 \in 1..Len(array') /\ Len(array) + 1 \notin 1..Len(array)
      BY <1>2, <1>4
    <3>3. \A j \in 1..Len(array') : array'[j].nr = n <=> j = Len(array) + 1
      BY <1>3, <1>4, <1>5, <2>2, <3>1, <3>2
    <3> QED
      BY <3>2, <3>3
  <2>3. CASE n # inserted + 1
    <3>1. n \in 1..inserted
      BY <1>1, <1>2, <2>3
    <3>2. PICK i \in 1..Len(array) : \A j \in 1..Len(array) : array[j].nr = n <=> j = i
      BY <3>1 DEF SortedInv, NothingForgotten
    <3>3. i \in 1..Len(array') /\ i # Len(array) + 1
      BY <1>2, <1>4, <3>2
    <3>4. \A j \in 1..Len(array') : array'[j].nr = n <=> j = i
      BY <1>3, <1>4, <1>5, <2>3, <3>2, <3>3
    <3> QED
      BY <3>3, <3>4
  <2> QED
    BY <2>2, <2>3
<1>9. Searching'
  BY <1>1 DEF Searching
<1> QED
  BY <1>6, <1>7, <1>8, <1>9 DEF SortedInv

\* A swap: the entry on its way is less than the one it passes.
LEMMA SwapStep == SortedInv /\ SwapDown => SortedInv'
<1> SUFFICES ASSUME SortedInv, SwapDown PROVE SortedInv'
  OBVIOUS
<1> DEFINE c == curIt
           p == curIt - 1
<1>1. /\ Cmp(array[c], array[p]) /\ c > 1 /\ curIt' = p
      /\ array' = [array EXCEPT ![c] = array[p], ![p] = array[c]]
      /\ UNCHANGED <<inserted, thrown, probe>>
  BY DEF SwapDown, Sifts
<1>2. /\ array \in [1..Len(array) -> Entry] /\ Len(array) \in Nat
      /\ \A i \in 1..Len(array) : /\ array[i] \in Entry
                                  /\ array[i].key \in Int /\ array[i].nr \in Nat
                                  /\ array[i].nr <= inserted
      /\ curIt \in 0..Len(array)
  BY Entries DEF SortedInv, SortedType
<1>3. /\ c \in Int /\ p \in Int /\ c = p + 1 /\ p >= 1
      /\ c \in 1..Len(array) /\ p \in 1..Len(array)
  <2>1. c > 1
    BY <1>1
  <2> QED
    BY <1>2, <2>1
<1> DEFINE at(i) == IF i = c THEN p ELSE IF i = p THEN c ELSE i
<1>4. /\ Len(array') = Len(array) /\ array' \in Seq(Entry)
      /\ \A i \in 1..Len(array) : array'[i] = array[at(i)]
  <2>1. array' \in [1..Len(array) -> Entry]
    BY <1>1, <1>2, <1>3
  <2>2. Len(array') = Len(array) /\ array' \in Seq(Entry)
    BY <1>2, <2>1
  <2>3. \A i \in 1..Len(array) : array'[i] = array[at(i)]
    BY <1>1, <1>2, <1>3
  <2> QED
    BY <2>2, <2>3
<1>5. \A i \in 1..Len(array) : at(i) \in 1..Len(array) /\ at(at(i)) = i
  BY <1>3
<1>a. probe = NoFind
  BY <1>3 DEF SortedInv, Searching
<1>6. SortedType'
  <2>1. \A i \in 1..Len(array') : array'[i].nr <= inserted'
    BY <1>1, <1>2, <1>4, <1>5
  <2>2. curIt' \in 0..Len(array')
    BY <1>1, <1>3, <1>4
  <2> QED
    BY <1>1, <1>4, <2>1, <2>2 DEF SortedInv, SortedType
<1>7. Sifting'
  <2>1. SUFFICES ASSUME ~thrown
                 PROVE  /\ \A i, j \in 1..Len(array) :
                              i < j /\ i # p /\ j # p => Before(array'[i], array'[j])
                        /\ array'[p].nr = inserted
                        /\ \A j \in 1..Len(array) : j > p => Cmp(array'[p], array'[j])
    BY <1>1, <1>4 DEF Sifting
  <2>2. /\ \A i, j \in 1..Len(array) :
              i < j /\ i # c /\ j # c => Before(array[i], array[j])
        /\ array[c].nr = inserted
        /\ \A j \in 1..Len(array) : j > c => Cmp(array[c], array[j])
    BY <2>1, <1>3 DEF SortedInv, Sifting
  <2>3. ASSUME NEW i \in 1..Len(array), NEW j \in 1..Len(array), i < j, i # p, j # p
        PROVE  Before(array'[i], array'[j])
    <3>1. at(i) < at(j) /\ at(i) # c /\ at(j) # c
      BY <1>3, <2>3
    <3> QED
      BY <1>4, <1>5, <2>2, <3>1
  <2>4. array'[p] = array[c]
    BY <1>3, <1>4
  <2>5. ASSUME NEW j \in 1..Len(array), j > p
        PROVE  Cmp(array'[p], array'[j])
    <3>1. CASE j = c
      BY <1>1, <1>3, <1>4, <2>4, <3>1
    <3>2. CASE j # c
      BY <1>3, <1>4, <2>2, <2>4, <2>5, <3>2
    <3> QED
      BY <3>1, <3>2
  <2> QED
    BY <2>2, <2>3, <2>4, <2>5
<1>8. NothingForgotten'
  <2>1. SUFFICES ASSUME NEW n \in 1..inserted
                 PROVE  \E i \in 1..Len(array) :
                            \A j \in 1..Len(array) : array'[j].nr = n <=> j = i
    <3>1. inserted' = inserted /\ Len(array') = Len(array)
      BY <1>1, <1>4
    <3> QED
      BY <3>1 DEF NothingForgotten
  <2>2. PICK i \in 1..Len(array) : \A j \in 1..Len(array) : array[j].nr = n <=> j = i
    BY DEF SortedInv, NothingForgotten
  <2>3. \A j \in 1..Len(array) : array'[j].nr = n <=> at(j) = i
    BY <1>4, <1>5, <2>2
  <2>4. \A j \in 1..Len(array) : at(j) = i <=> j = at(i)
    BY <1>3
  <2> QED
    BY <1>5, <2>3, <2>4
<1>9. Searching'
  BY <1>1, <1>a DEF Searching
<1> QED
  BY <1>6, <1>7, <1>8, <1>9 DEF SortedInv

\* The end of SiftUp: what is before the entry is no greater, and was there
\* earlier; or the comparator threw, and the order is given up.
LEMMA SiftStopStep == SortedInv /\ (SiftEnds \/ SiftThrows) => SortedInv'
<1> SUFFICES ASSUME SortedInv, SiftEnds \/ SiftThrows PROVE SortedInv'
  OBVIOUS
<1>1. /\ curIt > 0 /\ curIt' = 0 /\ UNCHANGED <<array, inserted, probe>>
      /\ ~thrown' => ~thrown /\ ~Sifts
      /\ thrown' \in BOOLEAN
  <2>1. curIt \in Nat /\ thrown \in BOOLEAN
    BY Entries DEF SortedInv, SortedType
  <2>2. CASE SiftEnds
    BY <2>1, <2>2 DEF SiftEnds
  <2>3. CASE SiftThrows
    BY <2>1, <2>3 DEF SiftThrows
  <2> QED
    BY <2>2, <2>3
<1>2. /\ Len(array) \in Nat /\ curIt \in 0..Len(array) /\ inserted \in Nat
      /\ \A i \in 1..Len(array) : array[i].key \in Int /\ array[i].nr \in Nat
                                  /\ array[i].nr <= inserted
  BY Entries DEF SortedInv, SortedType
<1>3. curIt \in 1..Len(array) /\ curIt \in Int
  BY <1>1, <1>2
<1>4. SortedType'
  BY <1>1, <1>2 DEF SortedInv, SortedType
<1>5. Sifting'
  <2>1. SUFFICES ASSUME ~thrown', NEW i \in 1..Len(array), NEW j \in 1..Len(array), i < j
                 PROVE  Before(array[i], array[j])
    BY <1>1 DEF Sifting
  <2>2. ~thrown /\ ~Sifts
    BY <1>1, <2>1
  <2>3. /\ \A x, y \in 1..Len(array) :
              x < y /\ x # curIt /\ y # curIt => Before(array[x], array[y])
        /\ array[curIt].nr = inserted
        /\ \A y \in 1..Len(array) : y > curIt => Cmp(array[curIt], array[y])
    BY <1>1, <2>2 DEF SortedInv, Sifting
  <2>4. CASE j = curIt
    <3>1. curIt - 1 \in 1..Len(array) /\ i <= curIt - 1
      BY <1>2, <1>3, <2>1, <2>4
    <3>2. array[curIt - 1].key <= array[curIt].key
      BY <1>2, <1>3, <2>2, <2>1, <2>4, <3>1 DEF Sifts, Cmp
    <3>3. array[i].key <= array[curIt - 1].key
      <4>1. CASE i = curIt - 1
        BY <1>2, <4>1
      <4>2. CASE i < curIt - 1
        BY <1>2, <1>3, <2>3, <3>1, <4>2 DEF Before, Cmp
      <4> QED
        BY <1>3, <3>1, <4>1, <4>2
    <3>4. array[i].key <= array[j].key
      BY <1>2, <1>3, <2>4, <3>1, <3>2, <3>3
    <3>5. array[i].nr <= array[j].nr
      BY <1>2, <2>3, <2>4
    <3> QED
      BY <1>2, <3>4, <3>5 DEF Before, Cmp
  <2>5. CASE i = curIt
    BY <2>1, <2>3, <2>5 DEF Before
  <2>6. CASE i # curIt /\ j # curIt
    BY <2>1, <2>3, <2>6
  <2> QED
    BY <2>4, <2>5, <2>6
<1>6. Searching' /\ NothingForgotten'
  BY <1>1 DEF SortedInv, Searching, NothingForgotten
<1> QED
  BY <1>4, <1>5, <1>6 DEF SortedInv

\* Between two calls of an array that nothing was thrown at.
LEMMA OrderedKeys ==
  ASSUME SortedInv, curIt = 0, ~thrown,
         NEW i \in 1..Len(array), NEW j \in 1..Len(array), i <= j
  PROVE  array[i].key <= array[j].key
<1>1. /\ Len(array) \in Nat
      /\ \A x \in 1..Len(array) : array[x].key \in Int
  BY Entries DEF SortedInv
<1>2. CASE i = j
  BY <1>1, <1>2
<1>3. CASE i # j
  <2>1. i < j /\ i # curIt /\ j # curIt
    BY <1>1, <1>3
  <2>2. Before(array[i], array[j])
    BY <2>1 DEF SortedInv, Sifting
  <2> QED
    BY <1>1, <2>2 DEF Before, Cmp
<1> QED
  BY <1>2, <1>3

\* The steps of a search: the range is halved, and what it gives up is known.
LEMMA SearchStep ==
  ASSUME SortedInv, Halve \/ FindEnds \/ \E k \in Key : FindBegins(k)
  PROVE  SortedInv'
<1>1. UNCHANGED <<array, curIt, inserted, thrown>>
  BY DEF Halve, FindEnds, FindBegins
<1>2. /\ Len(array) \in Nat /\ \A i \in 1..Len(array) : array[i].key \in Int
      /\ probe \in [key : Int, lo : Nat, hi : Nat]
  BY Entries DEF SortedInv, SortedType
<1>3. Sifting' /\ NothingForgotten'
  BY <1>1 DEF SortedInv, Sifting, NothingForgotten
<1>4. probe' \in [key : Int, lo : Nat, hi : Nat] => SortedType'
  BY <1>1 DEF SortedInv, SortedType
<1>5. CASE FindEnds
  <2>1. probe' = NoFind
    BY <1>5 DEF FindEnds
  <2> QED
    BY <1>3, <1>4, <2>1 DEF SortedInv, Searching, NoFind
<1>6. ASSUME NEW k \in Key, FindBegins(k)
      PROVE  SortedInv'
  <2>1. probe' = [key |-> k, lo |-> 1, hi |-> Len(array) + 1] /\ curIt = 0
    BY <1>6 DEF FindBegins, Idle
  <2>2. probe' \in [key : Int, lo : Nat, hi : Nat]
    BY <1>2, <2>1, SortedAssumption
  <2>3. Searching'
    BY <1>1, <1>2, <2>1 DEF Searching
  <2> QED
    BY <1>3, <1>4, <2>2, <2>3 DEF SortedInv
<1>7. CASE Halve
  <2> DEFINE lo == probe.lo
             hi == probe.hi
             mid == (lo + hi) \div 2
  <2>1. /\ lo < hi
        /\ probe' = IF Cmp(array[mid], probe) THEN [probe EXCEPT !.lo = mid + 1]
                                              ELSE [probe EXCEPT !.hi = mid]
    BY <1>7 DEF Halve
  <2>2. lo \in Nat /\ hi \in Nat /\ probe.key \in Int
    BY <1>2
  <2>3. probe # NoFind
    BY <2>1 DEF NoFind
  <2>4. /\ curIt = 0 /\ 1 <= lo /\ hi <= Len(array) + 1
        /\ ~thrown =>
              /\ \A i \in 1..Len(array) : i < lo => array[i].key < probe.key
              /\ \A i \in 1..Len(array) : i >= hi => array[i].key >= probe.key
    BY <2>3 DEF SortedInv, Searching
  <2>5. mid \in Nat /\ lo <= mid /\ mid < hi
    BY <2>1, <2>2
  <2> HIDE DEF mid
  <2>6. mid \in 1..Len(array)
    BY <1>2, <2>2, <2>4, <2>5
  <2>7. CASE Cmp(array[mid], probe)
    <3>1. probe' = [probe EXCEPT !.lo = mid + 1]
      BY <2>1, <2>7
    <3>2. /\ probe' \in [key : Int, lo : Nat, hi : Nat]
          /\ probe'.key = probe.key /\ probe'.lo = mid + 1 /\ probe'.hi = hi
      BY <1>2, <2>5, <3>1
    <3>3. ASSUME ~thrown, NEW i \in 1..Len(array), i < mid + 1
          PROVE  array[i].key < probe.key
      <4>1. i <= mid
        BY <2>5, <3>3
      <4>2. array[i].key <= array[mid].key
        BY <2>4, <2>6, <3>3, <4>1, OrderedKeys
      <4> QED
        BY <1>2, <2>2, <2>6, <2>7, <4>2 DEF Cmp
    <3>4. mid + 1 <= hi /\ 1 <= mid + 1
      BY <2>2, <2>5
    <3>5. Searching'
      BY <1>1, <2>4, <3>2, <3>3, <3>4 DEF Searching
    <3> QED
      BY <1>3, <1>4, <3>2, <3>5 DEF SortedInv
  <2>8. CASE ~Cmp(array[mid], probe)
    <3>1. probe' = [probe EXCEPT !.hi = mid]
      BY <2>1, <2>8
    <3>2. /\ probe' \in [key : Int, lo : Nat, hi : Nat]
          /\ probe'.key = probe.key /\ probe'.lo = lo /\ probe'.hi = mid
      BY <1>2, <2>5, <3>1
    <3>3. ASSUME ~thrown, NEW i \in 1..Len(array), i >= mid
          PROVE  array[i].key >= probe.key
      <4>1. array[mid].key <= array[i].key
        BY <2>4, <2>6, <3>3, OrderedKeys
      <4> QED
        BY <1>2, <2>2, <2>6, <2>8, <4>1 DEF Cmp
    <3>4. lo <= mid /\ mid <= Len(array) + 1
      BY <1>2, <2>2, <2>4, <2>5
    <3>5. Searching'
      BY <1>1, <2>4, <3>2, <3>3, <3>4 DEF Searching
    <3> QED
      BY <1>3, <1>4, <3>2, <3>5 DEF SortedInv
  <2> QED
    BY <2>7, <2>8
<1> QED
  BY <1>5, <1>6, <1>7

\* Every step keeps the invariant.
LEMMA SortedStep == SortedInv /\ [SortedNext]_sortedVars => SortedInv'
<1> SUFFICES ASSUME SortedInv, [SortedNext]_sortedVars PROVE SortedInv'
  OBVIOUS
<1>1. CASE UNCHANGED sortedVars
  BY <1>1 DEF SortedInv, SortedType, Sifting, Searching, NothingForgotten, sortedVars
<1>2. CASE \E n \in 1..MaxSize : \E keys \in [1..n -> Key] : Construct(keys)
  <2>1. \A n \in 1..MaxSize : n \in Nat
    BY SortedAssumption
  <2> QED
    BY <1>2, <2>1, ConstructStep
<1>3. CASE SortedNext /\ ~\E n \in 1..MaxSize : \E keys \in [1..n -> Key] : Construct(keys)
  BY <1>3, InsertStep, SwapStep, SiftStopStep, SearchStep DEF SortedNext
<1> QED
  BY <1>1, <1>2, <1>3 DEF SortedNext

LEMMA Always == SortedSpec => []SortedInv
  BY InitSorted, SortedStep, PTL DEF SortedSpec

\* Unless a comparator threw, the array is in order between two calls, with
\* the entries of a key in the order of their insertion (insert, emplace, the
\* constructors).
THEOREM ArrayOrdered == SortedSpec => []InOrder
<1>1. SortedInv => InOrder
  <2> SUFFICES ASSUME SortedInv, ~thrown, curIt = 0,
                      NEW i \in 1..Len(array), NEW j \in 1..Len(array), i < j
               PROVE  Before(array[i], array[j])
    BY DEF InOrder, Ordered, Before
  <2>1. i # curIt /\ j # curIt
    OBVIOUS
  <2> QED
    BY <2>1 DEF SortedInv, Sifting
<1> QED
  BY Always, <1>1, PTL

\* Unless a comparator threw, a search hits exactly when the key is there, and
\* then its first entry (find, contains, Get).
THEOREM SearchExact == SortedSpec => []SearchIsExact
<1>1. SortedInv => SearchIsExact
  <2> SUFFICES ASSUME SortedInv, ~thrown, probe # NoFind, probe.lo = probe.hi
               PROVE  /\ Hit <=> \E i \in 1..Len(array) : array[i].key = probe.key
                      /\ Hit => \A i \in 1..(probe.lo - 1) : array[i].key # probe.key
    BY DEF SearchIsExact
  <2>1. /\ Len(array) \in Nat /\ \A i \in 1..Len(array) : array[i].key \in Int
        /\ probe.lo \in Nat /\ probe.key \in Int
    BY Entries DEF SortedInv, SortedType
  <2>2. /\ 1 <= probe.lo /\ curIt = 0
        /\ \A i \in 1..Len(array) : i < probe.lo => array[i].key < probe.key
        /\ \A i \in 1..Len(array) : i >= probe.lo => array[i].key >= probe.key
    BY DEF SortedInv, Searching
  <2>3. ASSUME Hit PROVE /\ \E i \in 1..Len(array) : array[i].key = probe.key
                         /\ \A i \in 1..(probe.lo - 1) : array[i].key # probe.key
    <3>1. probe.lo \in 1..Len(array) /\ array[probe.lo].key = probe.key
      BY <2>1, <2>2, <2>3 DEF Hit, Cmp
    <3>2. \A i \in 1..(probe.lo - 1) : i \in 1..Len(array) /\ i < probe.lo
      BY <2>1, <3>1
    <3> QED
      BY <2>1, <2>2, <3>1, <3>2
  <2>4. ASSUME NEW i \in 1..Len(array), array[i].key = probe.key PROVE Hit
    <3>1. probe.lo <= i
      BY <2>1, <2>2, <2>4
    <3>2. probe.lo \in 1..Len(array)
      BY <2>1, <2>2, <3>1
    <3>3. array[probe.lo].key <= array[i].key
      BY <2>2, <3>1, <3>2, OrderedKeys
    <3> QED
      BY <2>1, <2>4, <3>2, <3>3 DEF Hit, Cmp
  <2> QED
    BY <2>3, <2>4
<1> QED
  BY Always, <1>1, PTL

\* Whatever is thrown inside SiftUp, every insertion is in the array, once.
THEOREM NoneForgotten == SortedSpec => []NothingForgotten
<1>1. SortedInv => NothingForgotten
  BY DEF SortedInv
<1> QED
  BY Always, <1>1, PTL

-----------------------------------------------------------------------------
(***************************************************************************)
(* Every verdict of InsertArgs is explained by what was typed, for any     *)
(* commands and any arguments.  What it has stored when m arguments have   *)
(* been taken is what the roles of those m make of them: the parameters    *)
(* count the arguments with that role, an option has what its last giver   *)
(* gave.                                                                   *)
(***************************************************************************)
KeysOf(cmd)    == DOMAIN cmd.options \cup {"help"}
TypeOf(cmd, k) == IF k = "help" THEN "bool" ELSE cmd.options[k].type
RoleNames == {"none", "option", "value", "parameter"}

\* The argument i, an option, takes the next one for its value, if there is one.
WantsNext(cmd, args, i) ==
    /\ OwnValue(args[i]) = <<>> /\ OptionKey(args[i]) \in KeysOf(cmd)
    /\ TypeOf(cmd, OptionKey(args[i])) # "bool"

\* Roles, as a function of the command and the arguments.
RolesFor(cmd, args) ==
    LET role[i \in 0..Len(args)] ==
            IF i = 0 THEN "none"
            ELSE IF role[i - 1] = "option" /\ OwnValue(args[i - 1]) = <<>>
                    /\ OptionKey(args[i - 1]) \in KeysOf(cmd)
                    /\ TypeOf(cmd, OptionKey(args[i - 1])) # "bool"
                 THEN "value"
            ELSE IF IsOption(args[i]) THEN "option" ELSE "parameter"
    IN  role

RoleAfter(cmd, args, i, before) ==
    IF before = "option" /\ WantsNext(cmd, args, i - 1) THEN "value"
    ELSE IF IsOption(args[i]) THEN "option" ELSE "parameter"

LEMMA RolesAre == Roles = RolesFor(Command, argv)
  BY Zenon DEF Roles, RolesFor, Keys, KeysOf, Type, TypeOf

LEMMA RolesForIs ==
  ASSUME NEW cmd, NEW args \in Seq(Args)
  PROVE  /\ RolesFor(cmd, args) \in [0..Len(args) -> RoleNames]
         /\ RolesFor(cmd, args)[0] = "none"
         /\ \A i \in 1..Len(args) : RolesFor(cmd, args)[i]
                = RoleAfter(cmd, args, i, RolesFor(cmd, args)[i - 1])
<1> DEFINE n == Len(args)
           D == [i \in Int |-> [r \in RoleNames |-> RoleAfter(cmd, args, i, r)]]
           F == RolesFor(cmd, args)
<1>1. n \in Nat /\ 0 \in Int /\ n \in Int /\ "none" \in RoleNames
  BY DEF RoleNames
<1>2. \A i, r : RoleAfter(cmd, args, i, r) \in RoleNames
  BY DEF RoleAfter, RoleNames
<1>3. D \in [Int -> [RoleNames -> RoleNames]]
      /\ \A i \in Int : \A r \in RoleNames : D[i][r] = RoleAfter(cmd, args, i, r)
  BY <1>2
<1> HIDE DEF D
<1>4. F = CHOOSE f : f = [i \in 0..n |-> IF i = 0 THEN "none"
                                         ELSE RoleAfter(cmd, args, i, f[i - 1])]
  <2>1. F = CHOOSE f : f = [i \in 0..Len(args) |->
            IF i = 0 THEN "none"
            ELSE IF f[i - 1] = "option"
                    /\ (/\ OwnValue(args[i - 1]) = <<>>
                        /\ OptionKey(args[i - 1]) \in KeysOf(cmd)
                        /\ TypeOf(cmd, OptionKey(args[i - 1])) # "bool")
                 THEN "value"
            ELSE IF IsOption(args[i]) THEN "option" ELSE "parameter"]
    BY Zenon DEF RolesFor
  <2> QED
    BY <2>1, ZenonT(60) DEF RoleAfter, WantsNext
<1> HIDE DEF n, F
<1>5. PICK f \in [0..n -> RoleNames] : Runs(f, 0, n, "none", D)
  BY <1>1, <1>3, Recursion, Zenon
<1>6. f = [i \in 0..n |-> IF i = 0 THEN "none" ELSE RoleAfter(cmd, args, i, f[i - 1])]
  <2>1. ASSUME NEW i \in 0..n
        PROVE  f[i] = IF i = 0 THEN "none" ELSE RoleAfter(cmd, args, i, f[i - 1])
    <3>1. i \in Int /\ (i # 0 => i - 1 \in 0..n)
      BY <1>1
    <3>2. i # 0 => D[i][f[i - 1]] = RoleAfter(cmd, args, i, f[i - 1])
      BY <1>3, <3>1
    <3> QED
      BY <1>5, <3>2 DEF Runs
  <2> QED
    BY <2>1
<1>7. F = [i \in 0..n |-> IF i = 0 THEN "none" ELSE RoleAfter(cmd, args, i, F[i - 1])]
  BY <1>4, <1>6, Zenon
<1>8. \A i \in 0..n : F[i] = IF i = 0 THEN "none" ELSE RoleAfter(cmd, args, i, F[i - 1])
  BY <1>7
<1>9. \A i \in 0..n : F[i] \in RoleNames
  BY <1>1, <1>2, <1>8
<1>10. F \in [0..n -> RoleNames]
  BY <1>7, <1>9
<1>11. F[0] = "none" /\ \A i \in 1..n : F[i] = RoleAfter(cmd, args, i, F[i - 1])
  <2>1. 0 \in 0..n /\ \A i \in 1..n : i \in 0..n /\ i # 0
    BY <1>1
  <2> QED
    BY <1>8, <2>1, Zenon
<1> QED
  BY <1>10, <1>11, Zenon DEF F, n

-----------------------------------------------------------------------------
ArgValues == Args \cup {Numerals[v] : v \in DOMAIN Numerals} \cup {TRUE, 0}

ParamsTo(roles, m) == {j \in 1..m : roles[j] = "parameter"}

\* What the parameters and the others are when m arguments have been taken.
ParamsFit(cmd, args, roles, m, ps, os) ==
    /\ ps \in Seq(ArgValues) /\ os \in Seq(Args)
    /\ Len(ps) <= Len(cmd.params) /\ (os # <<>> => Len(ps) = Len(cmd.params))
    /\ Cardinality(ParamsTo(roles, m)) = Len(ps) + Len(os)
    /\ \A i \in ParamsTo(roles, m) :
           LET n == Cardinality(ParamsTo(roles, i))
           IN  IF n <= Len(cmd.params)
               THEN n \in 1..Len(ps) /\ ps[n] = Converted(cmd.params[n], args[i])
               ELSE n - Len(cmd.params) \in 1..Len(os) /\ os[n - Len(cmd.params)] = args[i]

LEMMA ParamsToIs ==
  ASSUME NEW roles, NEW m \in Nat
  PROVE  /\ IsFiniteSet(ParamsTo(roles, m)) /\ Cardinality(ParamsTo(roles, m)) \in Nat
         /\ IF roles[m + 1] = "parameter"
            THEN /\ ParamsTo(roles, m + 1) = ParamsTo(roles, m) \cup {m + 1}
                 /\ Cardinality(ParamsTo(roles, m + 1)) = Cardinality(ParamsTo(roles, m)) + 1
            ELSE ParamsTo(roles, m + 1) = ParamsTo(roles, m)
<1> DEFINE P == ParamsTo(roles, m)
<1>1. P \in SUBSET (1..m) /\ m + 1 \notin P
  BY DEF ParamsTo
<1>2. IsFiniteSet(1..m)
  BY FS_Interval
<1>3. IsFiniteSet(P)
  BY <1>1, <1>2, FS_Subset, Zenon
<1>4. Cardinality(P) \in Nat
  BY <1>3, FS_CardinalityType
<1>5. ParamsTo(roles, m + 1) = IF roles[m + 1] = "parameter" THEN P \cup {m + 1} ELSE P
  BY DEF ParamsTo
<1>6. Cardinality(P \cup {m + 1}) = Cardinality(P) + 1
  BY <1>1, <1>3, FS_AddElement
<1> QED
  BY <1>3, <1>4, <1>5, <1>6

LEMMA ParamsNone ==
  ASSUME NEW cmd, NEW args, NEW roles, Len(cmd.params) \in Nat
  PROVE  ParamsFit(cmd, args, roles, 0, <<>>, <<>>)
<1>1. ParamsTo(roles, 0) = {}
  BY DEF ParamsTo
<1>2. Cardinality({}) = 0
  BY FS_EmptySet
<1> QED
  <2>1. <<>> \in Seq(ArgValues) /\ <<>> \in Seq(Args) /\ Len(<<>>) = 0
    OBVIOUS
  <2>2. Len(<<>>) <= Len(cmd.params) /\ 0 = Len(<<>>) + Len(<<>>)
    BY <2>1
  <2> QED
    BY <1>1, <1>2, <2>1, <2>2, Zenon DEF ParamsFit

LEMMA ParamsKept ==
  ASSUME NEW cmd, NEW args, NEW roles, NEW m \in Nat, NEW ps, NEW os,
         ParamsFit(cmd, args, roles, m, ps, os), roles[m + 1] # "parameter"
  PROVE  ParamsFit(cmd, args, roles, m + 1, ps, os)
<1>1. ParamsTo(roles, m + 1) = ParamsTo(roles, m)
  BY ParamsToIs
<1> QED
  BY <1>1, Zenon DEF ParamsFit

LEMMA ParamAdded ==
  ASSUME NEW cmd, NEW args, NEW roles, NEW m \in Nat, NEW ps, NEW os,
         Len(cmd.params) \in Nat,
         ParamsFit(cmd, args, roles, m, ps, os), roles[m + 1] = "parameter",
         Len(ps) < Len(cmd.params),
         Converted(cmd.params[Len(ps) + 1], args[m + 1]) \in ArgValues
  PROVE  ParamsFit(cmd, args, roles, m + 1,
                   Append(ps, Converted(cmd.params[Len(ps) + 1], args[m + 1])), os)
<1> DEFINE v  == Converted(cmd.params[Len(ps) + 1], args[m + 1])
           qs == Append(ps, v)
           N  == Len(cmd.params)
<1>1. ps \in Seq(ArgValues) /\ os \in Seq(Args) /\ os = <<>> /\ Len(ps) \in Nat
  BY DEF ParamsFit
<1>2. v \in ArgValues
  OBVIOUS
<1> HIDE DEF v
<1>3. /\ qs \in Seq(ArgValues) /\ Len(qs) = Len(ps) + 1 /\ qs[Len(ps) + 1] = v
      /\ \A n \in 1..Len(ps) : qs[n] = ps[n]
  BY <1>1, <1>2
<1>4. /\ ParamsTo(roles, m + 1) = ParamsTo(roles, m) \cup {m + 1}
      /\ Cardinality(ParamsTo(roles, m + 1)) = Cardinality(ParamsTo(roles, m)) + 1
  BY ParamsToIs
<1>5. Cardinality(ParamsTo(roles, m)) = Len(ps) + Len(os)
  BY DEF ParamsFit
<1>6. Cardinality(ParamsTo(roles, m + 1)) = Len(ps) + 1
  BY <1>1, <1>4, <1>5
<1> HIDE DEF qs
<1>7. ASSUME NEW i \in ParamsTo(roles, m + 1)
      PROVE  LET n == Cardinality(ParamsTo(roles, i))
             IN  IF n <= Len(cmd.params)
                 THEN n \in 1..Len(qs) /\ qs[n] = Converted(cmd.params[n], args[i])
                 ELSE n - Len(cmd.params) \in 1..Len(os) /\ os[n - Len(cmd.params)] = args[i]
  <2> DEFINE n == Cardinality(ParamsTo(roles, i))
  <2>1. CASE i = m + 1
    <3>1. n = Len(ps) + 1
      BY <1>6, <2>1, Zenon
    <3>2. n <= N /\ n \in 1..Len(qs) /\ qs[n] = v
      BY <1>1, <1>3, <3>1
    <3>3. v = Converted(cmd.params[n], args[i])
      BY <2>1, <3>1, Zenon DEF v
    <3> QED
      BY <3>2, <3>3, Zenon
  <2>2. CASE i \in ParamsTo(roles, m)
    <3>1. IF n <= Len(cmd.params)
          THEN n \in 1..Len(ps) /\ ps[n] = Converted(cmd.params[n], args[i])
          ELSE n - Len(cmd.params) \in 1..Len(os) /\ os[n - Len(cmd.params)] = args[i]
      BY <2>2, Zenon DEF ParamsFit
    <3> HIDE DEF n
    <3>2. n \in 1..Len(ps) => n \in 1..Len(qs)
      BY <1>1, <1>3
    <3>3. IF n <= Len(cmd.params)
          THEN n \in 1..Len(qs) /\ qs[n] = Converted(cmd.params[n], args[i])
          ELSE n - Len(cmd.params) \in 1..Len(os) /\ os[n - Len(cmd.params)] = args[i]
      BY <1>3, <3>1, <3>2, Zenon
    <3> QED
      BY <3>3, Zenon DEF n
  <2> QED
    BY <1>4, <2>1, <2>2, Zenon
<1>8. Len(qs) <= Len(cmd.params) /\ (os # <<>> => Len(qs) = Len(cmd.params))
  BY <1>1, <1>3
<1>9. Cardinality(ParamsTo(roles, m + 1)) = Len(qs) + Len(os)
  BY <1>1, <1>3, <1>6
<1>10. ParamsFit(cmd, args, roles, m + 1, qs, os)
  BY <1>1, <1>3, <1>7, <1>8, <1>9, Zenon DEF ParamsFit
<1> QED
  BY <1>10, Zenon DEF qs, v

LEMMA OtherAdded ==
  ASSUME NEW cmd, NEW args, NEW roles, NEW m \in Nat, NEW ps, NEW os,
         Len(cmd.params) \in Nat,
         ParamsFit(cmd, args, roles, m, ps, os), roles[m + 1] = "parameter",
         ~(Len(ps) < Len(cmd.params)), args[m + 1] \in Args
  PROVE  ParamsFit(cmd, args, roles, m + 1, ps, Append(os, args[m + 1]))
<1> DEFINE v  == args[m + 1]
           qs == Append(os, v)
           N  == Len(cmd.params)
<1>1. ps \in Seq(ArgValues) /\ os \in Seq(Args) /\ Len(ps) = N /\ N \in Nat /\ Len(os) \in Nat
  BY DEF ParamsFit
<1> HIDE DEF v, N
<1>3. /\ qs \in Seq(Args) /\ Len(qs) = Len(os) + 1 /\ qs[Len(os) + 1] = v
      /\ \A n \in 1..Len(os) : qs[n] = os[n]
  BY <1>1 DEF v
<1>4. /\ ParamsTo(roles, m + 1) = ParamsTo(roles, m) \cup {m + 1}
      /\ Cardinality(ParamsTo(roles, m + 1)) = Cardinality(ParamsTo(roles, m)) + 1
  BY ParamsToIs
<1>5. Cardinality(ParamsTo(roles, m)) = Len(ps) + Len(os)
  BY DEF ParamsFit
<1>6. Cardinality(ParamsTo(roles, m + 1)) = N + (Len(os) + 1)
  BY <1>1, <1>4, <1>5
<1> HIDE DEF qs
<1> USE DEF N
<1>7. ASSUME NEW i \in ParamsTo(roles, m + 1)
      PROVE  LET n == Cardinality(ParamsTo(roles, i))
             IN  IF n <= Len(cmd.params)
                 THEN n \in 1..Len(ps) /\ ps[n] = Converted(cmd.params[n], args[i])
                 ELSE n - Len(cmd.params) \in 1..Len(qs) /\ qs[n - Len(cmd.params)] = args[i]
  <2> DEFINE n == Cardinality(ParamsTo(roles, i))
  <2>1. CASE i = m + 1
    <3>1. n = N + (Len(os) + 1)
      BY <1>6, <2>1, Zenon
    <3> HIDE DEF n, N
    <3>2. ~(n <= N) /\ n - N = Len(os) + 1 /\ n - N \in 1..Len(qs)
      BY <1>1, <1>3, <3>1
    <3> USE DEF n, N
    <3>3. qs[n - N] = args[i]
      BY <1>3, <2>1, <3>2, Zenon DEF v
    <3> QED
      BY <3>2, <3>3, Zenon
  <2>2. CASE i \in ParamsTo(roles, m)
    <3>1. IF n <= Len(cmd.params)
          THEN n \in 1..Len(ps) /\ ps[n] = Converted(cmd.params[n], args[i])
          ELSE n - Len(cmd.params) \in 1..Len(os) /\ os[n - Len(cmd.params)] = args[i]
      BY <2>2, Zenon DEF ParamsFit
    <3> HIDE DEF n
    <3>2. n - N \in 1..Len(os) => n - N \in 1..Len(qs)
      BY <1>1, <1>3
    <3>3. IF n <= Len(cmd.params)
          THEN n \in 1..Len(ps) /\ ps[n] = Converted(cmd.params[n], args[i])
          ELSE n - Len(cmd.params) \in 1..Len(qs) /\ qs[n - Len(cmd.params)] = args[i]
      BY <1>3, <3>1, <3>2, Zenon
    <3> QED
      BY <3>3, Zenon DEF n
  <2> QED
    BY <1>4, <2>1, <2>2, Zenon
<1>8. Len(ps) <= Len(cmd.params) /\ (qs # <<>> => Len(ps) = Len(cmd.params))
  BY <1>1
<1>9. Cardinality(ParamsTo(roles, m + 1)) = Len(ps) + Len(qs)
  BY <1>1, <1>3, <1>6
<1>10. ParamsFit(cmd, args, roles, m + 1, ps, qs)
  BY <1>1, <1>3, <1>7, <1>8, <1>9, Zenon DEF ParamsFit
<1> QED
  BY <1>10, Zenon DEF qs, v

-----------------------------------------------------------------------------
HaveRole(args, roles, role) == {i \in DOMAIN args : roles[i] = role}
GiversIn(args, roles, k) ==
    {i \in HaveRole(args, roles, "option") : OptionKey(args[i]) = k}
GivenIn(args, roles, i) ==
    IF i + 1 \in HaveRole(args, roles, "value") THEN args[i + 1] ELSE OwnValue(args[i])
DefaultsOf(cmd) ==
    [k \in KeysOf(cmd) |-> IF k = "help" THEN FALSE ELSE cmd.options[k].default]

\* The options that gave a value to k when m arguments have been taken.
GiversTo(args, roles, k, m) == {i \in GiversIn(args, roles, k) : i <= m}

\* An option has what its last giver gave.
ValueFits(cmd, args, roles, m, k, value) ==
    IF GiversTo(args, roles, k, m) = {} THEN value = DefaultsOf(cmd)[k]
    ELSE \A i \in GiversTo(args, roles, k, m) :
            (\A j \in GiversTo(args, roles, k, m) : j <= i)
                => value = Converted(TypeOf(cmd, k), GivenIn(args, roles, i))

OptionsFit(cmd, args, roles, m, os) ==
    /\ DOMAIN os = KeysOf(cmd)
    /\ \A i \in HaveRole(args, roles, "option") : i <= m => OptionKey(args[i]) \in KeysOf(cmd)
    /\ \A k \in KeysOf(cmd) : ValueFits(cmd, args, roles, m, k, os[k])

LEMMA OptionsNone ==
  ASSUME NEW cmd, NEW args \in Seq(Args), NEW roles
  PROVE  OptionsFit(cmd, args, roles, 0, DefaultsOf(cmd))
<1>1. \A i \in DOMAIN args : ~(i <= 0)
  OBVIOUS
<1>2. \A k : GiversTo(args, roles, k, 0) = {}
  BY <1>1 DEF GiversTo, GiversIn, HaveRole
<1>3. \A i \in HaveRole(args, roles, "option") : ~(i <= 0)
  BY <1>1 DEF HaveRole
<1>4. DOMAIN DefaultsOf(cmd) = KeysOf(cmd)
  BY DEF DefaultsOf
<1> QED
  BY <1>2, <1>3, <1>4, Zenon DEF OptionsFit, ValueFits

LEMMA OptionsKept ==
  ASSUME NEW cmd, NEW args \in Seq(Args), NEW roles, NEW m \in Nat, NEW os,
         OptionsFit(cmd, args, roles, m, os), roles[m + 1] # "option"
  PROVE  OptionsFit(cmd, args, roles, m + 1, os)
<1>1. \A i \in HaveRole(args, roles, "option") : i <= m + 1 => i <= m
  BY DEF HaveRole
<1>2. \A i \in HaveRole(args, roles, "option") : i <= m => i <= m + 1
  BY DEF HaveRole
<1>3. \A k : GiversTo(args, roles, k, m + 1) = GiversTo(args, roles, k, m)
  BY <1>1, <1>2, Zenon DEF GiversTo, GiversIn
<1> QED
  BY <1>1, <1>3, Zenon DEF OptionsFit, ValueFits

LEMMA OptionGiven ==
  ASSUME NEW cmd, NEW args \in Seq(Args), NEW roles, NEW m \in Nat, NEW os, NEW k \in KeysOf(cmd),
         m + 1 \in DOMAIN args, OptionsFit(cmd, args, roles, m, os),
         roles[m + 1] = "option", OptionKey(args[m + 1]) = k
  PROVE  OptionsFit(cmd, args, roles, m + 1,
             [os EXCEPT ![k] = Converted(TypeOf(cmd, k), GivenIn(args, roles, m + 1))])
<1> DEFINE v == Converted(TypeOf(cmd, k), GivenIn(args, roles, m + 1))
           new == [os EXCEPT ![k] = v]
<1>1. DOMAIN os = KeysOf(cmd)
  BY DEF OptionsFit
<1>2. DOMAIN new = KeysOf(cmd) /\ new[k] = v /\ \A j \in KeysOf(cmd) \ {k} : new[j] = os[j]
  <2> HIDE DEF v
  <2> QED
    BY <1>1
<1> HIDE DEF new, v
<1>3. m + 1 \in HaveRole(args, roles, "option")
  BY DEF HaveRole
<1>4. \A i \in HaveRole(args, roles, "option") : i <= m + 1 <=> i <= m \/ i = m + 1
  BY DEF HaveRole
<1>5. GiversTo(args, roles, k, m + 1) = GiversTo(args, roles, k, m) \cup {m + 1}
  BY <1>3, <1>4, Zenon DEF GiversTo, GiversIn
<1>6. \A j : j # k => GiversTo(args, roles, j, m + 1) = GiversTo(args, roles, j, m)
  BY <1>3, <1>4, Zenon DEF GiversTo, GiversIn
<1>7. \A i \in HaveRole(args, roles, "option") : i <= m + 1 => OptionKey(args[i]) \in KeysOf(cmd)
  BY <1>4, Zenon DEF OptionsFit
<1>8. ASSUME NEW j \in KeysOf(cmd) PROVE ValueFits(cmd, args, roles, m + 1, j, new[j])
  <2>1. CASE j # k
    <3>1. ValueFits(cmd, args, roles, m, j, os[j])
      BY Zenon DEF OptionsFit
    <3>2. new[j] = os[j]
      BY <1>2, <2>1
    <3> QED
      BY <1>6, <2>1, <3>1, <3>2, Zenon DEF ValueFits
  <2>2. CASE j = k
    <3>1. \A i \in GiversTo(args, roles, k, m) : i <= m /\ i \in Int
      BY DEF GiversTo, GiversIn, HaveRole
    <3>2. ASSUME NEW i \in GiversTo(args, roles, k, m + 1),
                 \A x \in GiversTo(args, roles, k, m + 1) : x <= i
          PROVE  i = m + 1
      <4>1. m + 1 <= i
        BY <1>5, <3>2
      <4> QED
        BY <1>5, <3>1, <4>1
    <3>3. GiversTo(args, roles, k, m + 1) # {}
      BY <1>5
    <3> QED
      BY <1>2, <2>2, <3>2, <3>3, Zenon DEF ValueFits, v
  <2> QED
    BY <2>1, <2>2
<1>9. OptionsFit(cmd, args, roles, m + 1, new)
  BY <1>2, <1>7, <1>8, Zenon DEF OptionsFit
<1> QED
  BY <1>9, Zenon DEF new, v

-----------------------------------------------------------------------------
RolesNow == RolesFor(Command, argv)

\* InsertArgs before it takes argument next: the roles, the parameters and the
\* options of the ones before it are as they should be.
Inserted ==
    /\ asked \in DOMAIN Commands /\ argv \in Seq(Args) /\ next \in 1..(Len(argv) + 1)
    /\ next <= Len(argv) => RolesNow[next] # "value"
    /\ ParamsFit(Command, argv, RolesNow, next - 1, params, others)
    /\ OptionsFit(Command, argv, RolesNow, next - 1, options)

\* What the program was typed has been taken, every argument in its place.
AllTaken ==
    /\ argv \in Seq(Args)
    /\ Len(params) = Cardinality(ParamsTo(RolesNow, Len(argv)))
    /\ \A i \in ParamsTo(RolesNow, Len(argv)) :
           LET n == Cardinality(ParamsTo(RolesNow, i))
               type == IF n <= Len(Command.params) THEN Command.params[n] ELSE Command.rest
           IN  params[n] = Converted(type, argv[i])
    /\ OptionsFit(Command, argv, RolesNow, Len(argv), options)
    /\ \A k \in KeysOf(Command) : TypeOf(Command, k) = "string" => options[k] # <<>>

\* What is known when help is shown.
HelpAsked ==
    /\ argv \in Seq(Args)
    /\ GiversTo(argv, RolesNow, "help", Len(argv)) # {}
    /\ Cardinality(ParamsTo(RolesNow, Len(argv))) >= Len(Command.params)

CmdInv ==
    /\ verdict = "none" => params = <<>> /\ others = <<>>
    /\ verdict = "inserting" => Inserted
    /\ verdict = "ready" => AllTaken
    /\ verdict = "help" => HelpAsked

LEMMA MaxIs ==
  ASSUME NEW n \in Nat, NEW S \in SUBSET (1..n), S # {}
  PROVE  Max(S) \in S /\ \A y \in S : y <= Max(S)
<1> DEFINE T == {n - y : y \in S}
<1>6. \A y \in S : y \in 1..n
  OBVIOUS
<1>1. T \in SUBSET Nat /\ T # {}
  <2>1. \A y \in S : n - y \in Nat
    BY <1>6
  <2>2. PICK y \in S : TRUE
    OBVIOUS
  <2>3. n - y \in T
    BY <2>2
  <2> QED
    BY <2>1, <2>3
<1>2. PICK t \in T : \A u \in T : t <= u
  BY <1>1, LeastNumber
<1>3. PICK x \in S : t = n - x
  BY <1>2
<1>4. \A y \in S : x >= y
  <2> SUFFICES ASSUME NEW y \in S PROVE x >= y
    OBVIOUS
  <2>1. n - y \in T
    OBVIOUS
  <2> QED
    BY <1>2, <1>3, <2>1
<1>5. Max(S) \in S /\ \A y \in S : Max(S) >= y
  BY <1>4, Zenon DEF Max
<1> QED
  <2>1. \A y \in S : y \in Int
    BY <1>6
  <2> QED
    BY <1>5, <2>1

\* The names of the module, for the roles as a function of the arguments.
LEMMA KeysAre ==
  /\ Keys = KeysOf(Command) /\ Defaults = DefaultsOf(Command)
  /\ \A k : Type(k) = TypeOf(Command, k)
  /\ \A role : With(role) = HaveRole(argv, RolesNow, role)
  /\ \A k : Givers(k) = GiversIn(argv, RolesNow, k)
  /\ \A i : Given(i) = GivenIn(argv, RolesNow, i)
<1>1. Keys = KeysOf(Command) /\ Defaults = DefaultsOf(Command)
  BY Zenon DEF Keys, KeysOf, Defaults, DefaultsOf
<1>2. \A k : Type(k) = TypeOf(Command, k)
  BY Zenon DEF Type, TypeOf
<1>3. \A role : With(role) = HaveRole(argv, RolesNow, role)
  BY RolesAre, Zenon DEF With, HaveRole, RolesNow
<1>4. \A k : Givers(k) = GiversIn(argv, RolesNow, k)
  BY <1>3, Zenon DEF Givers, GiversIn
<1>5. \A i : Given(i) = GivenIn(argv, RolesNow, i)
  BY <1>3, Zenon DEF Given, GivenIn
<1> QED
  BY <1>1, <1>2, <1>3, <1>4, <1>5

LEMMA ParamsAre ==
  argv \in Seq(Args) => /\ With("parameter") = ParamsTo(RolesNow, Len(argv))
                        /\ \A i \in With("parameter") :
                              {j \in With("parameter") : j <= i} = ParamsTo(RolesNow, i)
<1> SUFFICES ASSUME argv \in Seq(Args)
             PROVE  /\ With("parameter") = ParamsTo(RolesNow, Len(argv))
                    /\ \A i \in With("parameter") :
                          {j \in With("parameter") : j <= i} = ParamsTo(RolesNow, i)
  OBVIOUS
<1>1. DOMAIN argv = 1..Len(argv) /\ Len(argv) \in Nat
  OBVIOUS
<1>2. With("parameter") = ParamsTo(RolesNow, Len(argv))
  BY <1>1, KeysAre DEF HaveRole, ParamsTo
<1>3. \A i \in 1..Len(argv) : {j \in ParamsTo(RolesNow, Len(argv)) : j <= i} = ParamsTo(RolesNow, i)
  BY <1>1 DEF ParamsTo
<1>4. \A i \in With("parameter") : i \in 1..Len(argv)
  BY <1>2 DEF ParamsTo
<1> QED
  BY <1>2, <1>3, <1>4

LEMMA TakenIsExplained == AllTaken => ParamsAreTheOthers /\ OptionsAreGiven
<1> SUFFICES ASSUME AllTaken PROVE ParamsAreTheOthers /\ OptionsAreGiven
  OBVIOUS
<1>1. argv \in Seq(Args) /\ Len(argv) \in Nat /\ DOMAIN argv = 1..Len(argv)
  BY DEF AllTaken
<1>2. ParamsAreTheOthers
  BY <1>1, ParamsAre, Zenon DEF AllTaken, ParamsAreTheOthers
<1>3. OptionsFit(Command, argv, RolesNow, Len(argv), options)
  BY DEF AllTaken
<1>4. \A i \in With("option") : OptionKey(argv[i]) \in Keys
  <2>1. \A i \in HaveRole(argv, RolesNow, "option") : i <= Len(argv)
    BY <1>1 DEF HaveRole
  <2> QED
    BY <1>3, <2>1, KeysAre, Zenon DEF OptionsFit
<1>5. ASSUME NEW k \in Keys
      PROVE  IF Givers(k) = {}
             THEN options[k] = Defaults[k] /\ (Type(k) = "string" => Defaults[k] # <<>>)
             ELSE IF Type(k) = "bool" THEN options[k]
             ELSE options[k] = Converted(Type(k), Given(Max(Givers(k))))
  <2>1. Givers(k) \in SUBSET (1..Len(argv))
    BY <1>1, KeysAre DEF GiversIn, HaveRole
  <2>2. GiversTo(argv, RolesNow, k, Len(argv)) = Givers(k)
    <3>1. \A i \in GiversIn(argv, RolesNow, k) : i <= Len(argv)
      BY <1>1, <2>1, KeysAre
    <3> QED
      BY <3>1, KeysAre DEF GiversTo
  <2>3. ValueFits(Command, argv, RolesNow, Len(argv), k, options[k])
    BY <1>3, KeysAre, Zenon DEF OptionsFit
  <2>4. Type(k) = "string" => options[k] # <<>>
    BY KeysAre, Zenon DEF AllTaken
  <2>5. CASE Givers(k) = {}
    <3>1. options[k] = Defaults[k]
      BY <2>2, <2>3, <2>5, KeysAre, Zenon DEF ValueFits
    <3> QED
      BY <2>4, <2>5, <3>1, Zenon
  <2>6. CASE Givers(k) # {}
    <3>1. Max(Givers(k)) \in Givers(k) /\ \A y \in Givers(k) : y <= Max(Givers(k))
      BY <1>1, <2>1, <2>6, MaxIs
    <3>2. options[k] = Converted(Type(k), Given(Max(Givers(k))))
      BY <2>2, <2>3, <2>6, <3>1, KeysAre, Zenon DEF ValueFits
    <3>3. Type(k) = "bool" => options[k] = TRUE
      <4>1. \A v : Converted("bool", v) = TRUE
        BY DEF Converted
      <4> QED
        BY <3>2, <4>1, Zenon
    <3> QED
      BY <2>6, <3>2, <3>3, Zenon
  <2> QED
    BY <2>5, <2>6
<1>6. OptionsAreGiven
  BY <1>4, <1>5, Zenon DEF OptionsAreGiven
<1> QED
  BY <1>2, <1>6

\* Before a plain argument or an option, its role is clear.
LEMMA RoleNow ==
  ASSUME Inserted, next <= Len(argv)
  PROVE  /\ next \in DOMAIN argv /\ argv[next] \in Args
         /\ RolesNow[next] = IF IsOption(argv[next]) THEN "option" ELSE "parameter"
<1>1. next \in 1..Len(argv) /\ argv \in Seq(Args)
  BY DEF Inserted
<1>2. RolesNow[next] = RoleAfter(Command, argv, next, RolesNow[next - 1])
  BY <1>1, RolesForIs DEF RolesNow
<1>3. RolesNow[next] # "value" /\ next \in DOMAIN argv /\ argv[next] \in Args
  BY <1>1 DEF Inserted
<1> QED
  BY <1>2, <1>3, Zenon DEF RoleAfter

LEMMA RoleNext ==
  ASSUME Inserted, next + 1 <= Len(argv)
  PROVE  RolesNow[next + 1] = "value" <=> RolesNow[next] = "option" /\ WantsNext(Command, argv, next)
<1>1. next + 1 \in 1..Len(argv) /\ argv \in Seq(Args) /\ (next + 1) - 1 = next
  BY DEF Inserted
<1>2. RolesNow[next + 1] = RoleAfter(Command, argv, next + 1, RolesNow[next])
  BY <1>1, RolesForIs DEF RolesNow
<1> QED
  BY <1>1, <1>2 DEF RoleAfter

LEMMA CmdInitStep == ASSUME CmdInit PROVE CmdInv
  BY DEF CmdInit, CmdInv

LEMMA ChooseStep ==
  ASSUME CmdInv, NEW name, Choose(name)
  PROVE  CmdInv'
<1>1. params' = <<>> /\ others' = <<>>
  BY DEF CmdInv, Choose
<1>2. CASE name \notin DOMAIN Commands
  BY <1>2 DEF Choose, CmdInv
<1>3. CASE name \in DOMAIN Commands
  <2>1. /\ asked' = name /\ argv' \in BoundedSeq(Args, MaxArgs)
        /\ next' = 1 /\ options' = Defaults' /\ verdict' = "inserting"
    BY <1>3, Zenon DEF Choose
  <2>2. argv' \in Seq(Args) /\ Len(argv') \in Nat
    <3>1. \A m \in Nat : \A s \in [1..m -> Args] : s \in Seq(Args) /\ Len(s) \in Nat
      OBVIOUS
    <3>2. PICK m \in 0..MaxArgs : argv' \in [1..m -> Args]
      BY <2>1, Zenon DEF BoundedSeq, SeqOf
    <3>3. m \in Nat
      BY <3>2, CommandAssumption
    <3> QED
      BY <3>1, <3>2, <3>3, Zenon
  <2>3. Len(Command'.params) \in Nat
    <3>1. Command' = Commands[name]
      BY <2>1, Zenon DEF Command
    <3>2. \A s \in Seq(Types) : Len(s) \in Nat
      OBVIOUS
    <3> QED
      BY <1>3, <3>1, <3>2, CommandAssumption, Zenon
  <2>4. options' = DefaultsOf(Command')
    <3>1. Defaults' = DefaultsOf(Command')
      BY Zenon DEF Defaults, Keys, DefaultsOf, KeysOf
    <3> QED
      BY <2>1, <3>1, Zenon
  <2>5. ParamsFit(Command', argv', RolesNow', 0, params', others')
    BY <1>1, <2>3, ParamsNone
  <2>6. OptionsFit(Command', argv', RolesNow', 0, options')
    BY <2>2, <2>4, OptionsNone
  <2>7. next' <= Len(argv') => RolesNow'[next'] # "value"
    <3> SUFFICES ASSUME 1 <= Len(argv') PROVE RolesNow'[1] # "value"
      BY <2>1
    <3>1. 1 \in 1..Len(argv') /\ 1 - 1 = 0
      BY <2>2
    <3>2. RolesNow'[1] = RoleAfter(Command', argv', 1, "none")
      BY <2>2, <3>1, RolesForIs DEF RolesNow
    <3> QED
      BY <3>2 DEF RoleAfter
  <2>8. next' \in 1..(Len(argv') + 1) /\ next' - 1 = 0
    BY <2>1, <2>2
  <2>9. Inserted'
    BY <1>3, <2>1, <2>2, <2>5, <2>6, <2>7, <2>8 DEF Inserted
  <2> QED
    BY <2>1, <2>9 DEF CmdInv
<1> QED
  BY <1>2, <1>3

\* A step that exits leaves nothing to explain.
LEMMA ExitStep ==
  ASSUME NEW why \in {"value", "unknown", "number"}, Exit(why)
  PROVE  CmdInv'
  BY DEF Exit, CmdInv

LEMMA PlainArgStep == ASSUME CmdInv, PlainArg PROVE CmdInv'
<1>1. /\ Inserted /\ next <= Len(argv) /\ ~IsOption(argv[next]) /\ verdict = "inserting"
      /\ asked' = asked /\ argv' = argv
  BY DEF CmdInv, PlainArg, Inserting
<1>2. /\ next \in DOMAIN argv /\ argv[next] \in Args /\ RolesNow[next] = "parameter"
  BY <1>1, RoleNow
<1>3. /\ asked \in DOMAIN Commands /\ argv \in Seq(Args) /\ next \in 1..Len(argv)
      /\ ParamsFit(Command, argv, RolesNow, next - 1, params, others)
      /\ OptionsFit(Command, argv, RolesNow, next - 1, options)
  BY <1>1 DEF Inserted
<1>4. RolesNow' = RolesNow /\ Command' = Command
  BY <1>1 DEF RolesNow, Command
<1>5. next - 1 \in Nat /\ (next - 1) + 1 = next /\ Len(Command.params) \in Nat
  BY <1>3, CommandAssumption DEF Command
<1> DEFINE type == Command.params[Len(params) + 1]
           v == argv[next]
<1>6. CASE Len(params) < Len(Command.params) /\ ~Readable(type, v)
  <2>1. Exit("number")
    BY <1>6 DEF PlainArg
  <2> QED
    BY <2>1, ExitStep
<1>7. CASE ~(Len(params) < Len(Command.params) /\ ~Readable(type, v))
  <2>1. next' = next + 1 /\ options' = options /\ verdict' = verdict
    BY <1>7 DEF PlainArg
  <2>2. ParamsFit(Command, argv, RolesNow, next, params', others')
    <3>1. CASE Len(params) < Len(Command.params)
      <4>1. params' = Append(params, Converted(type, v)) /\ others' = others
        BY <1>7, <3>1 DEF PlainArg
      <4>2. Converted(type, v) \in ArgValues
        BY <1>2 DEF Converted, ArgValues
      <4> QED
        BY <1>2, <1>3, <1>5, <3>1, <4>1, <4>2, ParamAdded, Zenon
    <3>2. CASE ~(Len(params) < Len(Command.params))
      <4>1. others' = Append(others, v) /\ params' = params
        BY <3>2 DEF PlainArg
      <4> QED
        BY <1>2, <1>3, <1>5, <3>2, <4>1, OtherAdded, Zenon
    <3> QED
      BY <3>1, <3>2
  <2>3. OptionsFit(Command, argv, RolesNow, next, options)
    <3>1. RolesNow[next] # "option"
      BY <1>2
    <3> QED
      BY <1>3, <1>5, <3>1, OptionsKept, Zenon
  <2>4. next + 1 <= Len(argv) => RolesNow[next + 1] # "value"
    BY <1>1, <1>2, RoleNext
  <2>5. next' \in 1..(Len(argv) + 1) /\ next' - 1 = next
    BY <1>3, <2>1
  <2>6. Inserted'
    BY <1>1, <1>3, <1>4, <2>1, <2>2, <2>3, <2>4, <2>5 DEF Inserted
  <2> QED
    BY <1>1, <2>1, <2>6 DEF CmdInv
<1> QED
  BY <1>6, <1>7

LEMMA OptionArgStep == ASSUME CmdInv, OptionArg PROVE CmdInv'
<1>1. /\ Inserted /\ next <= Len(argv) /\ IsOption(argv[next]) /\ verdict = "inserting"
      /\ asked' = asked /\ argv' = argv
  BY DEF CmdInv, OptionArg, Inserting
<1>2. /\ next \in DOMAIN argv /\ RolesNow[next] = "option"
  BY <1>1, RoleNow
<1>3. /\ asked \in DOMAIN Commands /\ argv \in Seq(Args) /\ next \in 1..Len(argv)
      /\ ParamsFit(Command, argv, RolesNow, next - 1, params, others)
      /\ OptionsFit(Command, argv, RolesNow, next - 1, options)
  BY <1>1 DEF Inserted
<1>4. RolesNow' = RolesNow /\ Command' = Command
  BY <1>1 DEF RolesNow, Command
<1>5. next - 1 \in Nat /\ (next - 1) + 1 = next /\ next \in Nat
  BY <1>3
<1> DEFINE k == OptionKey(argv[next])
           own == OwnValue(argv[next])
           takes == TakesNext(k, own)
           v == IF takes THEN argv[next + 1] ELSE own
<1>6. CASE argv[next] = <<"-">> \/ k \notin Keys \/ ~Readable(Type(k), v)
  <2>1. Exit("value") \/ Exit("unknown") \/ Exit("number")
    BY <1>6 DEF OptionArg
  <2> QED
    BY <2>1, ExitStep
<1>7. CASE ~(argv[next] = <<"-">> \/ k \notin Keys \/ ~Readable(Type(k), v))
  <2>1. /\ options' = [options EXCEPT ![k] = Converted(Type(k), v)]
        /\ next' = next + (IF takes THEN 2 ELSE 1)
        /\ params' = params /\ others' = others /\ verdict' = verdict
    BY <1>7 DEF OptionArg
  <2>2. k \in KeysOf(Command) /\ Type(k) = TypeOf(Command, k)
    BY <1>7, KeysAre
  <2>3. takes <=> next + 1 <= Len(argv) /\ WantsNext(Command, argv, next)
    <3>1. next < Len(argv) <=> next + 1 <= Len(argv)
      BY <1>3
    <3> QED
      BY <2>2, <3>1, Zenon DEF TakesNext, WantsNext
  <2>4. takes <=> next + 1 \in HaveRole(argv, RolesNow, "value")
    <3>1. next + 1 \in DOMAIN argv <=> next + 1 <= Len(argv)
      BY <1>3
    <3> QED
      BY <1>1, <1>2, <2>3, <3>1, RoleNext, Zenon DEF HaveRole
  <2>5. v = GivenIn(argv, RolesNow, next)
    BY <2>4, Zenon DEF GivenIn
  <2>6. ParamsFit(Command, argv, RolesNow, next, params', others')
    <3>1. RolesNow[next] # "parameter"
      BY <1>2
    <3> QED
      BY <1>3, <1>5, <2>1, <3>1, ParamsKept, Zenon
  <2>7. OptionsFit(Command, argv, RolesNow, next, options')
    <3> DEFINE w == Converted(TypeOf(Command, k), GivenIn(argv, RolesNow, next))
    <3>1. Converted(Type(k), v) = w
      BY <2>2, <2>5, Zenon
    <3>2. options' = [options EXCEPT ![k] = w]
      BY <2>1, <3>1, Zenon
    <3>3. OptionsFit(Command, argv, RolesNow, (next - 1) + 1,
              [options EXCEPT ![k] =
                   Converted(TypeOf(Command, k), GivenIn(argv, RolesNow, (next - 1) + 1))])
      <4> HIDE DEF k
      <4>1. k = OptionKey(argv[(next - 1) + 1]) /\ (next - 1) + 1 \in DOMAIN argv
            /\ RolesNow[(next - 1) + 1] = "option"
        BY <1>2, <1>5, Zenon DEF k
      <4> QED
        BY <1>3, <1>5, <2>2, <4>1, OptionGiven
    <3>4. OptionsFit(Command, argv, RolesNow, next, [options EXCEPT ![k] = w])
      BY <1>5, <3>3, Zenon
    <3> QED
      BY <3>2, <3>4, Zenon
  <2> HIDE DEF k, own, v
  <2>8. CASE takes
    <3>1. next' = next + 2 /\ next + 1 <= Len(argv) /\ RolesNow[next + 1] = "value"
      BY <2>1, <2>3, <2>4, <2>8 DEF HaveRole
    <3>2. next + 1 \in Nat /\ (next + 1) + 1 = next'
      BY <1>5, <3>1
    <3>3. /\ ParamsFit(Command, argv, RolesNow, next + 1, params', others')
          /\ OptionsFit(Command, argv, RolesNow, next + 1, options')
      <4>1. RolesNow[next + 1] # "parameter" /\ RolesNow[next + 1] # "option"
        BY <3>1
      <4> QED
        BY <1>3, <1>5, <2>6, <2>7, <4>1, ParamsKept, OptionsKept, Zenon
    <3>4. next' <= Len(argv) => RolesNow[next'] # "value"
      <4> SUFFICES ASSUME next' <= Len(argv) PROVE RolesNow[next'] # "value"
        OBVIOUS
      <4>1. next' \in 1..Len(argv) /\ next' - 1 = next + 1
        BY <1>5, <3>1
      <4>2. RolesNow[next'] = RoleAfter(Command, argv, next', RolesNow[next + 1])
        BY <1>3, <4>1, RolesForIs DEF RolesNow
      <4> QED
        BY <3>1, <4>2 DEF RoleAfter
    <3>5. next' \in 1..(Len(argv) + 1) /\ next' - 1 = next + 1
      BY <1>3, <3>1
    <3>6. Inserted'
      BY <1>1, <1>3, <1>4, <3>3, <3>4, <3>5 DEF Inserted
    <3> QED
      BY <1>1, <2>1, <3>6 DEF CmdInv
  <2>9. CASE ~takes
    <3>1. next' = next + 1
      BY <2>1, <2>9
    <3>2. next' <= Len(argv) => RolesNow[next'] # "value"
      BY <1>1, <2>3, <2>9, <3>1, RoleNext
    <3>3. next' \in 1..(Len(argv) + 1) /\ next' - 1 = next
      BY <1>3, <3>1
    <3>4. Inserted'
      BY <1>1, <1>3, <1>4, <2>6, <2>7, <3>2, <3>3 DEF Inserted
    <3> QED
      BY <1>1, <2>1, <3>4 DEF CmdInv
  <2> QED
    BY <2>8, <2>9
<1> QED
  BY <1>6, <1>7

LEMMA CmdUnmoved == ASSUME CmdInv, UNCHANGED cmdVars PROVE CmdInv'
<1>1. /\ asked' = asked /\ argv' = argv /\ next' = next /\ options' = options
      /\ params' = params /\ others' = others /\ verdict' = verdict
  BY DEF cmdVars
<1>2. RolesNow' = RolesNow /\ Command' = Command
  BY <1>1 DEF RolesNow, Command
<1>3. Inserted' <=> Inserted
  BY <1>1, <1>2, Zenon DEF Inserted
<1>4. (AllTaken' <=> AllTaken) /\ (HelpAsked' <=> HelpAsked)
  BY <1>1, <1>2, Zenon DEF AllTaken, HelpAsked
<1> QED
  BY <1>1, <1>3, <1>4, Zenon DEF CmdInv

\* The program starts, or ends, with every argument taken.
LEMMA FinishStep == ASSUME CmdInv, Finish PROVE CmdInv'
<1>1. /\ Inserted /\ next > Len(argv) /\ verdict = "inserting"
      /\ asked' = asked /\ argv' = argv /\ next' = next /\ options' = options /\ others' = others
      /\ verdict' = Outcome
      /\ params' = IF Outcome = "ready"
                   THEN params \o [i \in DOMAIN others |-> Converted(Command.rest, others[i])]
                   ELSE params
  BY Zenon DEF CmdInv, Finish
<1>2. /\ asked \in DOMAIN Commands /\ argv \in Seq(Args) /\ Len(argv) \in Nat /\ next - 1 = Len(argv)
      /\ ParamsFit(Command, argv, RolesNow, next - 1, params, others)
      /\ OptionsFit(Command, argv, RolesNow, next - 1, options)
  BY <1>1 DEF Inserted
<1>3. /\ ParamsFit(Command, argv, RolesNow, Len(argv), params, others)
      /\ OptionsFit(Command, argv, RolesNow, Len(argv), options)
  BY <1>2, Zenon
<1>4. RolesNow' = RolesNow /\ Command' = Command
  BY <1>1 DEF RolesNow, Command
<1> DEFINE N == Len(Command.params)
<1>5. N \in Nat /\ params \in Seq(ArgValues) /\ others \in Seq(Args)
      /\ Len(params) <= N /\ (others # <<>> => Len(params) = N)
      /\ Cardinality(ParamsTo(RolesNow, Len(argv))) = Len(params) + Len(others)
  BY <1>2, <1>3, CommandAssumption DEF Command, ParamsFit
<1>6. Outcome \in {"less", "help", "more", "number", "required", "ready"}
  BY DEF Outcome
<1>7. Outcome # "less" => Len(params) = N
  BY <1>5 DEF Outcome
<1>8. ASSUME Outcome = "ready" PROVE AllTaken'
  <2> DEFINE qs == [i \in DOMAIN others |-> Converted(Command.rest, others[i])]
             n(i) == Cardinality(ParamsTo(RolesNow, i))
             type(i) == IF n(i) <= N THEN Command.params[n(i)] ELSE Command.rest
  <2>1. params' = params \o qs
    BY <1>1, <1>8
  <2>2. Len(params) = N
    BY <1>7, <1>8
  <2>3. \A v \in Args : Converted(Command.rest, v) \in ArgValues
    BY DEF Converted, ArgValues
  <2>4. qs \in Seq(ArgValues) /\ Len(qs) = Len(others)
        /\ \A i \in 1..Len(others) : qs[i] = Converted(Command.rest, others[i])
    BY <1>5, <2>3, SMTT(40)
  <2> HIDE DEF qs
  <2>5. /\ Len(params') = N + Len(others)
        /\ \A i \in 1..N : params'[i] = params[i]
        /\ \A i \in 1..Len(others) : params'[N + i] = qs[i]
    <3>1. \A a, b \in Seq(ArgValues) :
              /\ Len(a \o b) = Len(a) + Len(b)
              /\ \A i \in 1..Len(a) : (a \o b)[i] = a[i]
              /\ \A i \in 1..Len(b) : (a \o b)[Len(a) + i] = b[i]
      OBVIOUS
    <3>2. /\ Len(params \o qs) = Len(params) + Len(qs)
          /\ \A i \in 1..Len(params) : (params \o qs)[i] = params[i]
          /\ \A i \in 1..Len(qs) : (params \o qs)[Len(params) + i] = qs[i]
      BY <1>5, <2>4, <3>1, Zenon
    <3> HIDE DEF N
    <3> QED
      BY <2>1, <2>2, <2>4, <3>2, Zenon
  <2>6. ASSUME NEW i \in ParamsTo(RolesNow, Len(argv))
        PROVE  params'[n(i)] = Converted(type(i), argv[i])
    <3> DEFINE c == n(i)
    <3>1. IF c <= N THEN c \in 1..Len(params) /\ params[c] = Converted(Command.params[c], argv[i])
          ELSE c - N \in 1..Len(others) /\ others[c - N] = argv[i]
      BY <1>3, Zenon DEF ParamsFit
    <3>2. c \in Nat
      <4>1. i \in Nat
        BY <1>2 DEF ParamsTo
      <4> QED
        BY <4>1, ParamsToIs
    <3> HIDE DEF n, c, N
    <3>3. CASE c <= N
      BY <2>2, <2>5, <3>1, <3>3, Zenon DEF c
    <3>4. CASE ~(c <= N)
      <4>1. N + (c - N) = c
        BY <1>5, <3>2
      <4>2. params'[c] = qs[c - N]
        BY <2>5, <3>1, <3>4, <4>1, Zenon
      <4>3. params'[c] = Converted(Command.rest, argv[i])
        BY <2>4, <3>1, <3>4, <4>2, Zenon
      <4> QED
        BY <3>4, <4>3, Zenon DEF c
    <3> QED
      BY <3>3, <3>4
  <2>7. \A k \in KeysOf(Command) : TypeOf(Command, k) = "string" => options[k] # <<>>
    BY <1>8, KeysAre, Zenon DEF Outcome
  <2>8. AllTaken'
    <3>1. Len(params') = Cardinality(ParamsTo(RolesNow, Len(argv)))
      BY <1>5, <2>2, <2>5
    <3> QED
      BY <1>1, <1>2, <1>3, <1>4, <2>6, <2>7, <3>1, Zenon DEF AllTaken
  <2> QED
    BY <2>8
<1>9. ASSUME Outcome = "help" PROVE HelpAsked'
  <2>1. options["help"] # FALSE
    BY <1>9, Zenon DEF Outcome
  <2>2. "help" \in KeysOf(Command) /\ DefaultsOf(Command)["help"] = FALSE
    BY DEF KeysOf, DefaultsOf
  <2>3. GiversTo(argv, RolesNow, "help", Len(argv)) # {}
    BY <1>3, <2>1, <2>2, Zenon DEF OptionsFit, ValueFits
  <2>4. Cardinality(ParamsTo(RolesNow, Len(argv))) >= N
    BY <1>5, <1>7, <1>9
  <2> QED
    BY <1>1, <1>2, <1>4, <2>3, <2>4, Zenon DEF HelpAsked
<1>10. verdict' # "none" /\ verdict' # "inserting"
  BY <1>1, <1>6
<1> QED
  BY <1>1, <1>8, <1>9, <1>10, Zenon DEF CmdInv

\* The invariant says of a verdict what VerdictExplained says of it.
LEMMA CmdExplained == CmdInv => VerdictExplained
<1> SUFFICES ASSUME CmdInv PROVE VerdictExplained
  OBVIOUS
<1>1. ASSUME HelpAsked
      PROVE  Givers("help") # {} /\ Cardinality(With("parameter")) >= Len(Command.params)
  <2>1. With("parameter") = ParamsTo(RolesNow, Len(argv))
    BY <1>1, ParamsAre DEF HelpAsked
  <2>2. Givers("help") # {}
    BY <1>1, KeysAre DEF HelpAsked, GiversTo
  <2> QED
    BY <1>1, <2>1, <2>2, Zenon DEF HelpAsked
<1> QED
  BY <1>1, TakenIsExplained, Zenon DEF CmdInv, VerdictExplained

LEMMA CmdHolds == CmdSpec => []CmdInv
<1>1. CmdInit => CmdInv
  BY CmdInitStep
<1>2. CmdInv /\ [CmdNext]_cmdVars => CmdInv'
  <2> SUFFICES ASSUME CmdInv, [CmdNext]_cmdVars PROVE CmdInv'
    OBVIOUS
  <2>1. ASSUME NEW name, Choose(name) PROVE CmdInv'
    BY <2>1, ChooseStep
  <2>2. CASE PlainArg
    BY <2>2, PlainArgStep
  <2>3. CASE OptionArg
    BY <2>3, OptionArgStep
  <2>4. CASE Finish
    BY <2>4, FinishStep
  <2>5. CASE UNCHANGED cmdVars
    BY <2>5, CmdUnmoved
  <2> QED
    BY <2>1, <2>2, <2>3, <2>4, <2>5, Zenon DEF CmdNext
<1> QED
  BY <1>1, <1>2, PTL DEF CmdSpec

\* A program that is ready has every argument, once and where it belongs, and
\* help is shown only to who asked for it (command.cpp, InsertArgs, and
\* command.h, Init), for any commands and any arguments.
THEOREM EveryVerdictExplained == CmdSpec => []VerdictExplained
  BY CmdExplained, CmdHolds, PTL

-----------------------------------------------------------------------------
(***************************************************************************)
(* UrlDecode returns what UrlEncode was given, for any text, either sign   *)
(* of char and any limit.  The code of a character is one character, or an *)
(* escape and, where char is negative, two digits which the decoder takes  *)
(* for characters.  So what is left of the coded text is always digits and *)
(* the codes of the characters that are left; what was decoded, the digits *)
(* and what those characters decode to are what the whole text decodes to. *)
(***************************************************************************)
Byte == 0..255
ByteTexts == Seq(Byte)

WideFor(signed, b) == IF signed /\ b >= 128 THEN 65280 + b ELSE b
CodeFor(signed, b) ==
    IF b \in Unreserved THEN <<b>>
    ELSE <<Percent>> \o Digits(WideFor(signed, b), IF WideFor(signed, b) > 255 THEN Four ELSE Two)
KeptFor(signed, b) ==
    IF signed /\ b >= 128 THEN <<255>> \o Digits(b, Two) ELSE <<b>>

\* Encoded and Survived, as functions of the sign of char and the text.
AllCode(signed, text) == FlattenSeq([i \in DOMAIN text |-> CodeFor(signed, text[i])])
AllKept(signed, text) == FlattenSeq([i \in DOMAIN text |-> KeptFor(signed, text[i])])

LEMMA CodingIs ==
  ASSUME NEW text
  PROVE  Encoded(text) = AllCode(signedChar, text) /\ Survived(text) = AllKept(signedChar, text)
<1>1. Encoded(text) = AllCode(signedChar, text)
  <2>1. \A b : EncodeChar(b) = CodeFor(signedChar, b)
    <3>1. \A b : Widened(b) = WideFor(signedChar, b)
      BY DEF Widened, WideFor
    <3> QED
      BY <3>1, Zenon DEF EncodeChar, CodeFor
  <2>2. [i \in DOMAIN text |-> EncodeChar(text[i])]
            = [i \in DOMAIN text |-> CodeFor(signedChar, text[i])]
    BY <2>1
  <2> QED
    BY <2>2, Zenon DEF Encoded, AllCode
<1>2. Survived(text) = AllKept(signedChar, text)
  BY Zenon DEF Survived, Survives, AllKept, KeptFor
<1> QED
  BY <1>1, <1>2

-----------------------------------------------------------------------------
(* One character. *)

\* A character of an encoded text, or an escape, and what it decodes to.
Unit(x, v) ==
    \/ x = <<v>> /\ v # Percent
    \/ \E d, e \in Byte : x = <<Percent, d, e>> /\ HexNumbers(<<d, e>>) = {v}

NoPercent(text) == \A i \in 1..Len(text) : text[i] # Percent

\* The code of a character is a unit, and digits that decode to themselves.
CodesAs(signed, b, x, v, digits) ==
    /\ x \in ByteTexts /\ v \in Byte /\ digits \in ByteTexts
    /\ Unit(x, v) /\ NoPercent(digits)
    /\ CodeFor(signed, b) = x \o digits /\ KeptFor(signed, b) = <<v>> \o digits

LEMMA HexDigitIs ==
  ASSUME NEW d \in 0..15
  PROVE  /\ HexDigit(d) \in Byte /\ HexDigit(d) # Percent
         /\ IsHex(HexDigit(d)) /\ HexValue(HexDigit(d)) = d
<1>1. CASE d < 10
  <2>1. HexDigit(d) = 48 + d /\ 48 + d \in 48..57 /\ (48 + d) - 48 = d
    BY <1>1 DEF HexDigit
  <2>2. ~(48 + d \in 65..70) /\ ~(48 + d \in 97..102)
    BY <1>1
  <2>3. HexValue(48 + d) = d
    BY <2>1, <2>2 DEF HexValue
  <2> QED
    BY <2>1, <2>3 DEF IsHex, Byte, Percent
<1>2. CASE ~(d < 10)
  <2>1. HexDigit(d) = 55 + d /\ 55 + d \in 65..70 /\ (55 + d) - 55 = d
    BY <1>2 DEF HexDigit
  <2>2. ~(55 + d \in 48..57) /\ ~(55 + d \in 97..102)
    BY <1>2
  <2>3. HexValue(55 + d) = d
    BY <2>1, <2>2 DEF HexValue
  <2> QED
    BY <2>1, <2>3 DEF IsHex, Byte, Percent
<1> QED
  BY <1>1, <1>2

LEMMA TwoDigits ==
  ASSUME NEW n \in Nat
  PROVE  Digits(n, Two) = <<HexDigit((n \div 16) % 16), HexDigit(n % 16)>>
<1>1. DOMAIN Two = 1..2 /\ Two[1] = 16 /\ Two[2] = 1
  BY DEF Two
<1>2. (n \div 1) = n
  OBVIOUS
<1>3. Digits(n, Two) = [i \in 1..2 |-> HexDigit((n \div Two[i]) % 16)]
  BY <1>1, Zenon DEF Digits
<1> DEFINE D == Digits(n, Two)
<1>4. D[1] = HexDigit((n \div 16) % 16) /\ D[2] = HexDigit(n % 16) /\ DOMAIN D = 1..2
      /\ D = [i \in 1..2 |-> D[i]]
  <2>1. D[1] = HexDigit((n \div 16) % 16)
    BY <1>1, <1>3
  <2>2. D[2] = HexDigit((n \div 1) % 16)
    BY <1>1, <1>3
  <2> QED
    BY <1>2, <1>3, <2>1, <2>2
<1> HIDE DEF D
<1> DEFINE a == HexDigit((n \div 16) % 16)
           b == HexDigit(n % 16)
<1>5. D[1] = a /\ D[2] = b
  BY <1>4
<1> HIDE DEF a, b
<1>6. D = <<a, b>>
  BY <1>4, <1>5
<1> QED
  BY <1>6 DEF D, a, b

LEMMA FourDigits ==
  ASSUME NEW n \in Nat
  PROVE  Digits(n, Four) = <<HexDigit((n \div 4096) % 16), HexDigit((n \div 256) % 16),
                             HexDigit((n \div 16) % 16), HexDigit(n % 16)>>
<1>1. DOMAIN Four = 1..4 /\ Four[1] = 4096 /\ Four[2] = 256 /\ Four[3] = 16 /\ Four[4] = 1
  BY DEF Four
<1>2. (n \div 1) = n
  OBVIOUS
<1>3. Digits(n, Four) = [i \in 1..4 |-> HexDigit((n \div Four[i]) % 16)]
  <2>1. Digits(n, Four) = [i \in DOMAIN Four |-> HexDigit((n \div Four[i]) % 16)]
    BY Zenon DEF Digits
  <2>2. DOMAIN Four = 1..4
    BY <1>1
  <2> QED
    BY <2>1, <2>2, Zenon
<1> DEFINE D == Digits(n, Four)
           a == HexDigit((n \div 4096) % 16)
           b == HexDigit((n \div 256) % 16)
           c == HexDigit((n \div 16) % 16)
           d == HexDigit(n % 16)
<1>4. D[1] = a /\ D[2] = b /\ D[3] = c /\ D[4] = d /\ DOMAIN D = 1..4 /\ D = [i \in 1..4 |-> D[i]]
  <2>1. D[1] = HexDigit((n \div Four[1]) % 16) /\ D[2] = HexDigit((n \div Four[2]) % 16)
        /\ D[3] = HexDigit((n \div Four[3]) % 16) /\ D[4] = HexDigit((n \div Four[4]) % 16)
    BY <1>3
  <2>2. DOMAIN D = 1..4 /\ D = [i \in 1..4 |-> D[i]]
    BY <1>3
  <2> QED
    BY <1>1, <1>2, <2>1, <2>2
<1> HIDE DEF D, a, b, c, d
<1>5. D = <<a, b, c, d>>
  BY <1>4
<1> QED
  BY <1>5 DEF D, a, b, c, d

LEMMA HexPair ==
  ASSUME NEW p \in 0..15, NEW q \in 0..15
  PROVE  HexNumbers(<<HexDigit(p), HexDigit(q)>>) = {16 * p + q}
<1> DEFINE a == HexDigit(p)
           b == HexDigit(q)
           s == <<a, b>>
<1>1. IsHex(a) /\ IsHex(b) /\ HexValue(a) = p /\ HexValue(b) = q
  BY HexDigitIs
<1> HIDE DEF a, b
<1>2. s # <<>> /\ Len(s) = 2 /\ s[1] = a /\ s[2] = b
  OBVIOUS
<1> HIDE DEF s
<1>3. HexNumbers(s) = {16 * HexValue(s[1]) + HexValue(s[2])}
  BY <1>1, <1>2 DEF HexNumbers
<1>4. HexNumbers(s) = {16 * p + q}
  BY <1>1, <1>2, <1>3, Zenon
<1> QED
  BY <1>4 DEF s, a, b

LEMMA PercentIs == Percent \in Byte /\ 255 \in Byte
  BY DEF Percent, Byte

\* Five characters, as one and four or as three and two.
Regrouped(a, b, c, d, e) == <<a>> \o <<b, c, d, e>> = <<a, b, c>> \o <<d, e>>

LEMMA ThreeAndTwo ==
  ASSUME NEW S, NEW a \in S, NEW b \in S, NEW c \in S, NEW d \in S, NEW e \in S
  PROVE  Regrouped(a, b, c, d, e)
<1> DEFINE l == <<a>> \o <<b, c, d, e>>
           r == <<a, b, c>> \o <<d, e>>
<1>1. l \in Seq(S) /\ r \in Seq(S) /\ Len(l) = 5 /\ Len(r) = 5
  OBVIOUS
<1>2. l[1] = a /\ l[2] = b /\ l[3] = c /\ l[4] = d /\ l[5] = e
  OBVIOUS
<1>3. r[1] = a /\ r[2] = b /\ r[3] = c /\ r[4] = d /\ r[5] = e
  OBVIOUS
<1> HIDE DEF l, r
<1>4. \A i \in 1..Len(l) : l[i] = r[i]
  BY <1>1, <1>2, <1>3
<1>5. l = r
  BY <1>1, <1>4, SeqEqual
<1> QED
  BY <1>5 DEF l, r, Regrouped

LEMMA PairIs ==
  ASSUME NEW S, NEW a \in S, NEW b \in S
  PROVE  <<a, b>> = <<a>> \o <<b>>
<1> DEFINE l == <<a, b>>
           r == <<a>> \o <<b>>
<1>1. l \in Seq(S) /\ r \in Seq(S) /\ Len(l) = 2 /\ Len(r) = 2
  OBVIOUS
<1>2. l[1] = a /\ l[2] = b /\ r[1] = a /\ r[2] = b
  OBVIOUS
<1> HIDE DEF l, r
<1>3. \A i \in 1..Len(l) : l[i] = r[i]
  BY <1>1, <1>2
<1>4. l = r
  BY <1>1, <1>3, SeqEqual
<1> QED
  BY <1>4 DEF l, r

LEMMA ShortSeqs ==
  ASSUME NEW S
  PROVE  /\ \A a \in S : <<a>> \in Seq(S) /\ <<a>> \o <<>> = <<a>>
         /\ \A a, b, c \in S : /\ <<a, b>> \in Seq(S) /\ <<a, b, c>> \in Seq(S)
                                /\ <<a>> \o <<b, c>> = <<a, b, c>>
                                /\ <<a, b, c>> \o <<>> = <<a, b, c>>
<1>1. \A s \in Seq(S) : s \o <<>> = s
  OBVIOUS
<1>2. \A a \in S : <<a>> \in Seq(S)
  OBVIOUS
<1>3. ASSUME NEW a \in S, NEW b \in S, NEW c \in S
      PROVE  /\ <<a, b>> \in Seq(S) /\ <<a, b, c>> \in Seq(S)
             /\ <<a>> \o <<b, c>> = <<a, b, c>>
  <2>1. <<a, b>> \in Seq(S) /\ <<a, b, c>> \in Seq(S)
    OBVIOUS
  <2>2. <<a>> \o <<b, c>> = <<a, b, c>>
    <3> DEFINE l == <<a>> \o <<b, c>>
               r == <<a, b, c>>
    <3>1. l \in Seq(S) /\ r \in Seq(S) /\ Len(l) = 3 /\ Len(r) = 3
      OBVIOUS
    <3>2. l[1] = a /\ l[2] = b /\ l[3] = c /\ r[1] = a /\ r[2] = b /\ r[3] = c
      OBVIOUS
    <3> HIDE DEF l, r
    <3>3. \A i \in 1..Len(l) : l[i] = r[i]
      BY <3>1, <3>2
    <3>4. l = r
      BY <3>1, <3>3, SeqEqual
    <3> QED
      BY <3>4 DEF l, r
  <2> QED
    BY <2>1, <2>2
<1> QED
  BY <1>1, <1>2, <1>3, Zenon

LEMMA CodesIntoUnit ==
  ASSUME NEW signed \in BOOLEAN, NEW b \in Byte
  PROVE  \E x, v, digits : CodesAs(signed, b, x, v, digits)
<1> DEFINE p == (b \div 16) % 16
           q == b % 16
<1>1. /\ b \in Nat /\ p \in 0..15 /\ q \in 0..15 /\ 16 * p + q = b
  BY DEF Byte
<1>1a. \A n \in 0..15 : HexDigit(n) \in Byte /\ HexDigit(n) # Percent
  BY HexDigitIs
<1> HIDE DEF p, q
<1>2. Digits(b, Two) = <<HexDigit(p), HexDigit(q)>>
  BY <1>1, TwoDigits DEF p, q
<1> DEFINE d == HexDigit(p)
           e == HexDigit(q)
<1>3. HexNumbers(<<d, e>>) = {b} /\ d \in Byte /\ e \in Byte /\ d # Percent /\ e # Percent
  BY <1>1, <1>1a, HexPair
<1>4. Digits(b, Two) = <<d, e>>
  BY <1>2
<1>5. CASE b \in Unreserved
  <2>1. b < 128 /\ b # Percent
    BY <1>5 DEF Unreserved, Specials, Percent
  <2>2. CodeFor(signed, b) = <<b>> /\ KeptFor(signed, b) = <<b>>
    BY <1>1, <1>5, <2>1 DEF CodeFor, KeptFor
  <2>3. <<b>> \in ByteTexts /\ <<>> \in ByteTexts /\ <<b>> \o <<>> = <<b>> /\ Len(<<>>) = 0
    BY DEF ByteTexts
  <2>4. CodesAs(signed, b, <<b>>, b, <<>>)
    BY <2>1, <2>2, <2>3 DEF CodesAs, Unit, NoPercent
  <2> QED
    BY <2>4, Zenon
<1>6. CASE b \notin Unreserved /\ ~(signed /\ b >= 128)
  <2> HIDE DEF d, e
  <2>1. WideFor(signed, b) = b /\ ~(b > 255)
    BY <1>6 DEF WideFor, Byte
  <2>2. CodeFor(signed, b) = <<Percent>> \o <<d, e>> /\ KeptFor(signed, b) = <<b>>
    BY <1>4, <1>6, <2>1, Zenon DEF CodeFor, KeptFor
  <2>3. /\ <<Percent, d, e>> \in ByteTexts /\ <<>> \in ByteTexts /\ <<b>> \o <<>> = <<b>>
        /\ <<Percent>> \o <<d, e>> = <<Percent, d, e>> \o <<>> /\ Len(<<>>) = 0
    BY <1>3, PercentIs, ShortSeqs DEF ByteTexts
  <2>4. Unit(<<Percent, d, e>>, b)
    BY <1>3, Zenon DEF Unit
  <2>5. CodesAs(signed, b, <<Percent, d, e>>, b, <<>>)
    BY <2>2, <2>3, <2>4 DEF CodesAs, NoPercent
  <2> QED
    BY <2>5, Zenon
<1>7. CASE b \notin Unreserved /\ signed /\ b >= 128
  <2> DEFINE n == 65280 + b
             f == HexDigit(15)
             w == WideFor(signed, b)
  <2>1. /\ WideFor(signed, b) = n /\ n > 255 /\ n \in Nat
        /\ (n \div 4096) % 16 = 15 /\ (n \div 256) % 16 = 15
        /\ (n \div 16) % 16 = p /\ n % 16 = q
    BY <1>7 DEF WideFor, Byte, p, q
  <2>2. Digits(n, Four) = <<f, f, d, e>>
    BY <2>1, FourDigits
  <2>3. HexNumbers(<<f, f>>) = {255} /\ f \in Byte
    <3>1. PICK i \in 0..15 : i = 15
      OBVIOUS
    <3>2. HexNumbers(<<HexDigit(i), HexDigit(i)>>) = {16 * i + i} /\ HexDigit(i) \in Byte
      BY HexPair, HexDigitIs
    <3>3. 16 * i + i = 255 /\ HexDigit(i) = f
      BY <3>1
    <3> HIDE DEF f
    <3> QED
      BY <3>2, <3>3, Zenon
  <2>3a. w > 255 /\ Digits(w, Four) = <<f, f, d, e>>
    BY <2>1, <2>2
  <2> HIDE DEF n, d, e, f
  <2>4. CodeFor(signed, b) = <<Percent>> \o <<f, f, d, e>> /\ KeptFor(signed, b) = <<255>> \o <<d, e>>
    BY <1>4, <1>7, <2>3a, Zenon DEF CodeFor, KeptFor
  <2>5. /\ <<Percent, f, f>> \in ByteTexts /\ <<d, e>> \in ByteTexts /\ 255 \in Byte
        /\ <<Percent>> \o <<f, f, d, e>> = <<Percent, f, f>> \o <<d, e>>
    <3>1. d \in Byte /\ e \in Byte /\ f \in Byte /\ Percent \in Byte
      BY <1>3, <2>3, PercentIs DEF d, e
    <3>2. <<Percent, f, f>> \in ByteTexts /\ <<d, e>> \in ByteTexts
      BY <3>1, ShortSeqs, Zenon DEF ByteTexts
    <3>3. Regrouped(Percent, f, f, d, e)
      BY <3>1, ThreeAndTwo
    <3> QED
      BY <3>2, <3>3, PercentIs, Zenon DEF Regrouped
  <2>6. Unit(<<Percent, f, f>>, 255)
    BY <2>3, Zenon DEF Unit
  <2>7. NoPercent(<<d, e>>)
    BY <1>3 DEF NoPercent
  <2>8. CodesAs(signed, b, <<Percent, f, f>>, 255, <<d, e>>)
    BY <2>4, <2>5, <2>6, <2>7, Zenon DEF CodesAs
  <2> QED
    BY <2>8, Zenon
<1> QED
  BY <1>5, <1>6, <1>7

-----------------------------------------------------------------------------
(* Texts, from their first character on. *)

\* What the characters of text become, one after the other.
Mapped(f, text) == FlattenSeq([i \in DOMAIN text |-> f[text[i]]])

\* What sequences have in common, seen as values.
Concatenable(U) ==
    /\ \A s, t \in U : s \o t \in U
    /\ <<>> \in U /\ \A s \in U : <<>> \o s = s /\ s \o <<>> = s
    /\ \A s, t, u \in U : (s \o t) \o u = s \o (t \o u)

MapsFirst(f, a, t) == Mapped(f, <<a>> \o t) = f[a] \o Mapped(f, t)

LEMMA MappedCons ==
  ASSUME NEW S, NEW U, Concatenable(U), NEW f \in [S -> U], NEW a \in S, NEW t \in Seq(S)
  PROVE  Mapped(f, t) \in U /\ MapsFirst(f, a, t)
<1> DEFINE at == <<a>> \o t
           F(s) == [i \in DOMAIN s |-> f[s[i]]]
<1>1. /\ at \in Seq(S) /\ Len(at) = Len(t) + 1 /\ at[1] = a
      /\ \A i \in 1..Len(t) : at[i + 1] = t[i] /\ t[i] \in S
  OBVIOUS
<1>2. Len(t) \in Nat /\ DOMAIN t = 1..Len(t) /\ DOMAIN at = 1..Len(at)
  BY <1>1
<1> HIDE DEF at
<1>3. F(t) \in Seq(U) /\ Len(F(t)) = Len(t) /\ \A i \in 1..Len(t) : F(t)[i] = f[t[i]]
  BY <1>1, <1>2
<1>4. F(at) \in Seq(U) /\ Len(F(at)) = Len(at) /\ \A i \in 1..Len(at) : F(at)[i] = f[at[i]]
  <2>1. \A i \in 1..Len(at) : f[at[i]] \in U
    BY <1>1
  <2> QED
    BY <1>1, <1>2, <2>1
<1>5. f[a] \in U
  OBVIOUS
<1> HIDE DEF F
<1>6. F(at) = <<f[a]>> \o F(t)
  <2> DEFINE r == <<f[a]>> \o F(t)
  <2>1. r \in Seq(U) /\ Len(r) = Len(t) + 1 /\ r[1] = f[a]
        /\ \A i \in 1..Len(t) : r[i + 1] = F(t)[i]
    BY <1>3, <1>5
  <2> HIDE DEF r
  <2>2. ASSUME NEW i \in 1..Len(at) PROVE F(at)[i] = r[i]
    <3>1. CASE i = 1
      BY <1>1, <1>4, <2>1, <3>1
    <3>2. CASE i # 1
      <4>1. i - 1 \in 1..Len(t) /\ (i - 1) + 1 = i
        BY <1>1, <1>2, <3>2
      <4>2. at[i] = t[i - 1] /\ r[i] = f[t[i - 1]]
        BY <1>1, <1>3, <2>1, <4>1
      <4> QED
        BY <1>4, <4>2
    <3> QED
      BY <3>1, <3>2
  <2>3. Len(F(at)) = Len(r)
    BY <1>1, <1>4, <2>1
  <2>4. F(at) = r
    BY <1>4, <2>1, <2>2, <2>3, SeqEqual
  <2> QED
    BY <2>4 DEF r
<1>7. FlattenSeq(<<f[a]>> \o F(t)) = f[a] \o FlattenSeq(F(t))
  BY <1>3, <1>5, FlattenConsIn, ZenonT(60) DEF Concatenable
<1>8. FlattenSeq(F(t)) \in U
  BY <1>3, FlattenIn DEF Concatenable
<1>9. Mapped(f, t) = FlattenSeq(F(t)) /\ Mapped(f, at) = FlattenSeq(F(at))
  BY Zenon DEF Mapped, F
<1> QED
  BY <1>6, <1>7, <1>8, <1>9, Zenon DEF at, MapsFirst

\* The same of the two codings.
\* What is known of texts, without knowing that they are sequences.
Associates(s, t, u) == (s \o t) \o u = s \o (t \o u)
NoneBeside(s)       == <<>> \o s = s /\ s \o <<>> = s

LEMMA ByteTextsIn ==
  /\ <<>> \in ByteTexts
  /\ \A b \in Byte : <<b>> \in ByteTexts
  /\ \A s, t \in ByteTexts : s \o t \in ByteTexts
BY DEF ByteTexts

LEMMA BytesAssociate == \A s, t, u \in ByteTexts : Associates(s, t, u)
BY Assoc, SMTT(40) DEF ByteTexts, Associates, Grouped

LEMMA BytesBeside == \A s \in ByteTexts : NoneBeside(s)
BY DEF ByteTexts, NoneBeside

LEMMA BytesConcatenable == Concatenable(ByteTexts)
BY ByteTextsIn, BytesAssociate, BytesBeside, Zenon DEF Concatenable, Associates, NoneBeside

CodesFirst(signed, b, t) ==
    /\ AllCode(signed, <<b>> \o t) = CodeFor(signed, b) \o AllCode(signed, t)
    /\ AllKept(signed, <<b>> \o t) = KeptFor(signed, b) \o AllKept(signed, t)

LEMMA CodingCons ==
  ASSUME NEW signed \in BOOLEAN, NEW b \in Byte, NEW t \in ByteTexts
  PROVE  /\ AllCode(signed, t) \in ByteTexts /\ AllKept(signed, t) \in ByteTexts
         /\ CodesFirst(signed, b, t)
<1> DEFINE f == [c \in Byte |-> CodeFor(signed, c)]
           g == [c \in Byte |-> KeptFor(signed, c)]
<1>1. \A c \in Byte : CodeFor(signed, c) \in ByteTexts /\ KeptFor(signed, c) \in ByteTexts
  <2> SUFFICES ASSUME NEW c \in Byte
               PROVE  CodeFor(signed, c) \in ByteTexts /\ KeptFor(signed, c) \in ByteTexts
    OBVIOUS
  <2>1. PICK x, v, digits : CodesAs(signed, c, x, v, digits)
    BY CodesIntoUnit
  <2>2. /\ x \in ByteTexts /\ v \in Byte /\ digits \in ByteTexts
        /\ CodeFor(signed, c) = x \o digits /\ KeptFor(signed, c) = <<v>> \o digits
    BY <2>1, Zenon DEF CodesAs
  <2>3. x \o digits \in ByteTexts /\ <<v>> \o digits \in ByteTexts
    BY <2>2, ByteTextsIn
  <2> QED
    BY <2>2, <2>3, Zenon
<1>2. f \in [Byte -> ByteTexts] /\ g \in [Byte -> ByteTexts]
      /\ \A c \in Byte : f[c] = CodeFor(signed, c) /\ g[c] = KeptFor(signed, c)
  BY <1>1
<1>3. <<b>> \o t \in Seq(Byte) /\ t \in Seq(Byte)
  BY DEF ByteTexts
<1>4. \A u \in Seq(Byte) : \A i \in DOMAIN u : u[i] \in Byte
  OBVIOUS
<1> HIDE DEF f, g
<1>4a. /\ f \in [Byte -> ByteTexts] /\ g \in [Byte -> ByteTexts]
       /\ Concatenable(ByteTexts) /\ t \in Seq(Byte)
  BY <1>2, <1>3, BytesConcatenable, Zenon
<1>5. \A u \in Seq(Byte) : AllCode(signed, u) = Mapped(f, u) /\ AllKept(signed, u) = Mapped(g, u)
  <2> SUFFICES ASSUME NEW u \in Seq(Byte)
               PROVE  AllCode(signed, u) = Mapped(f, u) /\ AllKept(signed, u) = Mapped(g, u)
    OBVIOUS
  <2>1. [i \in DOMAIN u |-> f[u[i]]] = [i \in DOMAIN u |-> CodeFor(signed, u[i])]
    BY <1>2, <1>4
  <2>2. [i \in DOMAIN u |-> g[u[i]]] = [i \in DOMAIN u |-> KeptFor(signed, u[i])]
    BY <1>2, <1>4
  <2> QED
    BY <2>1, <2>2, Zenon DEF AllCode, AllKept, Mapped
<1>6. Mapped(f, t) \in ByteTexts /\ MapsFirst(f, b, t)
  BY <1>4a, MappedCons, Zenon
<1>7. Mapped(g, t) \in ByteTexts /\ MapsFirst(g, b, t)
  BY <1>4a, MappedCons, Zenon
<1> QED
  BY <1>2, <1>3, <1>5, <1>6, <1>7, Zenon DEF MapsFirst, CodesFirst

LEMMA CodingIn ==
  ASSUME NEW signed \in BOOLEAN, NEW t \in ByteTexts
  PROVE  AllCode(signed, t) \in ByteTexts /\ AllKept(signed, t) \in ByteTexts
BY CodingCons, PercentIs

LEMMA CodingNone ==
  ASSUME NEW signed
  PROVE  AllCode(signed, <<>>) = <<>> /\ AllKept(signed, <<>>) = <<>>
<1>1. [i \in DOMAIN <<>> |-> CodeFor(signed, <<>>[i])] = <<>>
      /\ [i \in DOMAIN <<>> |-> KeptFor(signed, <<>>[i])] = <<>>
  OBVIOUS
<1>2. FlattenSeq(<<>>) = <<>>
  BY DEF FlattenSeq
<1> QED
  BY <1>1, <1>2, Zenon DEF AllCode, AllKept

\* A text that is not empty has a first character.
LEMMA HasFirst ==
  ASSUME NEW t \in ByteTexts, t # <<>>
  PROVE  \E b \in Byte, u \in ByteTexts : t = <<b>> \o u
<1> DEFINE b == t[1]
           u == SubSeq(t, 2, Len(t))
<1>1. b \in Byte /\ u \in ByteTexts /\ t = <<b>> \o u
  BY DEF ByteTexts
<1> QED
  BY <1>1, Zenon

LEMMA Uncons ==
  ASSUME NEW S, NEW a \in S, NEW b \in S, NEW s \in Seq(S), NEW t \in Seq(S),
         <<a>> \o s = <<b>> \o t
  PROVE  a = b /\ s = t
<1> DEFINE l == <<a>> \o s
           r == <<b>> \o t
<1>1. /\ Len(l) = Len(s) + 1 /\ l[1] = a /\ \A i \in 1..Len(s) : l[i + 1] = s[i]
      /\ Len(r) = Len(t) + 1 /\ r[1] = b /\ \A i \in 1..Len(t) : r[i + 1] = t[i]
  <2>1. Len(l) = Len(s) + 1 /\ l[1] = a /\ \A i \in 1..Len(s) : l[i + 1] = s[i]
    BY SMTT(40)
  <2>2. Len(r) = Len(t) + 1 /\ r[1] = b /\ \A i \in 1..Len(t) : r[i + 1] = t[i]
    BY SMTT(40)
  <2> QED BY <2>1, <2>2, Zenon
<1>2. l = r /\ Len(s) \in Nat /\ Len(t) \in Nat
  OBVIOUS
<1> HIDE DEF l, r
<1>3. a = b /\ Len(s) = Len(t) /\ \A i \in 1..Len(s) : s[i] = t[i]
  BY <1>1, <1>2
<1> QED
  BY <1>3, SeqEqual

-----------------------------------------------------------------------------
(* One turn of the decoder. *)

\* What is left of the coded text, rest and the z that was cut off it, is the
\* end of a character's code, pend, and the codes of the characters more.
LeftToDecode(signed, rest, z, done, total, more, pend) ==
    /\ more \in ByteTexts /\ pend \in ByteTexts /\ NoPercent(pend)
    /\ rest \o z = pend \o AllCode(signed, more)
    /\ (done \o pend) \o AllKept(signed, more) = total

Ahead(signed, rest, z, done, total) ==
    \E more, pend : LeftToDecode(signed, rest, z, done, total, more, pend)

SameFrom(a, s, b, t) == <<a>> \o s = <<b>> \o t

LEMMA UnconsBytes ==
  ASSUME NEW a \in Byte, NEW b \in Byte, NEW s \in ByteTexts, NEW t \in ByteTexts,
         SameFrom(a, s, b, t)
  PROVE  a = b /\ s = t
BY Uncons DEF ByteTexts, SameFrom

LEMMA NoPercentRest ==
  ASSUME NEW b \in Byte, NEW u \in ByteTexts, NoPercent(<<b>> \o u)
  PROVE  b # Percent /\ NoPercent(u)
<1> DEFINE t == <<b>> \o u
<1>1. Len(t) = Len(u) + 1 /\ Len(u) \in Nat /\ t[1] = b /\ \A i \in 1..Len(u) : t[i + 1] = u[i]
  BY DEF ByteTexts
<1>2. \A i \in 1..Len(t) : t[i] # Percent
  BY DEF NoPercent
<1> HIDE DEF t
<1>3. \A i \in 1..Len(u) : i + 1 \in 1..Len(t)
  BY <1>1
<1>4. b # Percent
  BY <1>1, <1>2
<1>5. \A i \in 1..Len(u) : u[i] # Percent
  BY <1>1, <1>2, <1>3
<1> QED
  BY <1>4, <1>5 DEF NoPercent

\* A text is not empty when it begins with a character.
LEMMA NotEmpty ==
  ASSUME NEW b \in Byte, NEW u \in ByteTexts
  PROVE  <<b>> \o u # <<>>
BY DEF ByteTexts

\* Four texts, from the left or from the middle.
FromTheMiddle(s, t, u, k) == ((s \o t) \o u) \o k = s \o ((t \o u) \o k)

LEMMA BytesFromTheMiddle ==
  ASSUME NEW s \in ByteTexts, NEW t \in ByteTexts, NEW u \in ByteTexts, NEW k \in ByteTexts
  PROVE  FromTheMiddle(s, t, u, k)
<1>1. Associates(s, t, u) /\ t \o u \in ByteTexts
  BY BytesAssociate, ByteTextsIn
<1>2. Associates(s, t \o u, k)
  BY <1>1, BytesAssociate
<1> QED
  BY <1>1, <1>2, Zenon DEF Associates, FromTheMiddle

\* Where a character begins, its code is an x that decodes to v, and digits.
CharacterNext(signed, s, z, done, total, x, v, digits, m) ==
    /\ x \in ByteTexts /\ v \in Byte /\ digits \in ByteTexts /\ m \in ByteTexts
    /\ Unit(x, v) /\ NoPercent(digits)
    /\ s \o z = x \o (digits \o AllCode(signed, m))
    /\ ((done \o <<v>>) \o digits) \o AllKept(signed, m) = total

LEMMA CharacterBegins ==
  ASSUME NEW signed \in BOOLEAN, NEW s \in ByteTexts, NEW z \in ByteTexts,
         NEW done \in ByteTexts, NEW total, s # <<>>,
         NEW more, LeftToDecode(signed, s, z, done, total, more, <<>>)
  PROVE  \E x, v, digits, m : CharacterNext(signed, s, z, done, total, x, v, digits, m)
<1>1. more \in ByteTexts /\ s \o z = AllCode(signed, more) /\ done \o AllKept(signed, more) = total
  <2>1. /\ more \in ByteTexts
        /\ s \o z = <<>> \o AllCode(signed, more) /\ (done \o <<>>) \o AllKept(signed, more) = total
    BY Zenon DEF LeftToDecode
  <2>2. NoneBeside(AllCode(signed, more)) /\ NoneBeside(done)
    BY <2>1, CodingIn, BytesBeside
  <2> QED
    BY <2>1, <2>2, Zenon DEF NoneBeside
<1>2. more # <<>>
  <2>1. s \o z # <<>>
    BY DEF ByteTexts
  <2> QED
    BY <1>1, <2>1, CodingNone, Zenon
<1>3. PICK b \in Byte, m \in ByteTexts : more = <<b>> \o m
  BY <1>1, <1>2, HasFirst
<1>4. PICK x, v, digits : CodesAs(signed, b, x, v, digits)
  BY CodesIntoUnit
<1>5. /\ x \in ByteTexts /\ v \in Byte /\ digits \in ByteTexts
      /\ Unit(x, v) /\ NoPercent(digits)
      /\ CodeFor(signed, b) = x \o digits /\ KeptFor(signed, b) = <<v>> \o digits
  BY <1>4, Zenon DEF CodesAs
<1> DEFINE A == AllCode(signed, m)
           K == AllKept(signed, m)
           vv == <<v>>
<1>6. /\ A \in ByteTexts /\ K \in ByteTexts /\ vv \in ByteTexts
      /\ AllCode(signed, more) = (x \o digits) \o A
      /\ AllKept(signed, more) = (vv \o digits) \o K
  <2>1. CodesFirst(signed, b, m)
    BY CodingCons
  <2>2. AllCode(signed, more) = (x \o digits) \o A /\ AllKept(signed, more) = (vv \o digits) \o K
    BY <1>3, <1>5, <2>1, Zenon DEF CodesFirst
  <2> QED
    BY <1>5, <2>2, CodingIn, ByteTextsIn
<1>7. s \o z = x \o (digits \o A)
  <2>1. Associates(x, digits, A)
    BY <1>5, <1>6, BytesAssociate
  <2> QED
    BY <1>1, <1>6, <2>1, Zenon DEF Associates
<1>8. ((done \o vv) \o digits) \o K = total
  <2>1. FromTheMiddle(done, vv, digits, K)
    BY <1>5, <1>6, BytesFromTheMiddle
  <2> QED
    BY <1>1, <1>6, <2>1, Zenon DEF FromTheMiddle
<1>9. CharacterNext(signed, s, z, done, total, x, v, digits, m)
  BY <1>3, <1>5, <1>7, <1>8, Zenon DEF CharacterNext
<1> QED
  BY <1>9, Zenon

\* A character that is not a percent sign stands for itself.
LEMMA PlainTurn ==
  ASSUME NEW signed \in BOOLEAN, NEW c \in Byte, NEW r \in ByteTexts, NEW z \in ByteTexts,
         NEW done \in ByteTexts, NEW total,
         Ahead(signed, <<c>> \o r, z, done, total), c # Percent
  PROVE  Ahead(signed, r, z, done \o <<c>>, total)
<1> DEFINE s == <<c>> \o r
           cc == <<c>>
<1>1. cc \in ByteTexts /\ s \in ByteTexts /\ s # <<>> /\ r \o z \in ByteTexts
  BY ByteTextsIn, NotEmpty
<1>2. s \o z = cc \o (r \o z)
  <2>1. Associates(cc, r, z)
    BY <1>1, BytesAssociate
  <2> QED
    BY <2>1, Zenon DEF Associates
<1>3. PICK more, pend : LeftToDecode(signed, s, z, done, total, more, pend)
  BY Zenon DEF Ahead
<1>4. /\ more \in ByteTexts /\ pend \in ByteTexts /\ NoPercent(pend)
      /\ s \o z = pend \o AllCode(signed, more)
      /\ (done \o pend) \o AllKept(signed, more) = total
  BY <1>3, Zenon DEF LeftToDecode
<1> HIDE DEF s
<1>5. CASE pend # <<>>
  <2>1. PICK b \in Byte, u \in ByteTexts : pend = <<b>> \o u
    BY <1>4, <1>5, HasFirst
  <2>2. NoPercent(u)
    BY <1>4, <2>1, NoPercentRest
  <2> DEFINE bb == <<b>>
             A == AllCode(signed, more)
  <2>3. bb \in ByteTexts /\ A \in ByteTexts /\ u \o A \in ByteTexts
    BY <1>4, CodingIn, ByteTextsIn
  <2>4. cc \o (r \o z) = bb \o (u \o A)
    <3>1. Associates(bb, u, A)
      BY <2>3, BytesAssociate
    <3> QED
      BY <1>2, <1>4, <2>1, <3>1, Zenon DEF Associates
  <2>5. c = b /\ r \o z = u \o A
    <3> DEFINE X == r \o z
               Y == u \o A
    <3>1. X \in ByteTexts /\ Y \in ByteTexts /\ SameFrom(c, X, b, Y)
      BY <1>1, <2>3, <2>4, Zenon DEF SameFrom
    <3> HIDE DEF X, Y
    <3>2. c = b /\ X = Y
      BY <3>1, UnconsBytes
    <3> QED
      BY <3>2 DEF X, Y
  <2>6. (done \o cc) \o u = done \o pend
    <3>1. Associates(done, cc, u)
      BY <1>1, BytesAssociate
    <3> QED
      BY <2>1, <2>5, <3>1, Zenon DEF Associates
  <2>7. LeftToDecode(signed, r, z, done \o cc, total, more, u)
    BY <1>4, <2>2, <2>5, <2>6, Zenon DEF LeftToDecode
  <2> QED
    BY <2>7, Zenon DEF Ahead
<1>6. CASE pend = <<>>
  <2>1. PICK x, v, digits, m : CharacterNext(signed, s, z, done, total, x, v, digits, m)
    <3>1. LeftToDecode(signed, s, z, done, total, more, <<>>)
      BY <1>3, <1>6, Zenon
    <3> QED
      BY <1>1, <3>1, CharacterBegins
  <2>2. /\ x \in ByteTexts /\ v \in Byte /\ digits \in ByteTexts /\ m \in ByteTexts
        /\ Unit(x, v) /\ NoPercent(digits)
        /\ s \o z = x \o (digits \o AllCode(signed, m))
        /\ ((done \o <<v>>) \o digits) \o AllKept(signed, m) = total
    BY <2>1, Zenon DEF CharacterNext
  <2> DEFINE after == digits \o AllCode(signed, m)
  <2>3. after \in ByteTexts
    BY <2>2, CodingIn, ByteTextsIn
  <2>4. x = <<v>>
    <3> SUFFICES ASSUME NEW d \in Byte, NEW e \in Byte, x = <<Percent, d, e>> PROVE FALSE
      BY <2>2, Zenon DEF Unit
    <3> DEFINE pp == <<Percent>>
               de == <<d, e>>
    <3>1. x = pp \o de /\ de \in ByteTexts /\ pp \in ByteTexts
      BY PercentIs, ShortSeqs DEF ByteTexts
    <3>2. cc \o (r \o z) = pp \o (de \o after)
      <4>1. Associates(pp, de, after)
        BY <2>3, <3>1, BytesAssociate
      <4> QED
        BY <1>2, <2>2, <3>1, <4>1, Zenon DEF Associates
    <3>3. SameFrom(c, r \o z, Percent, de \o after) /\ de \o after \in ByteTexts
      BY <2>3, <3>1, <3>2, ByteTextsIn, Zenon DEF SameFrom
    <3> QED
      BY <1>1, <3>3, PercentIs, UnconsBytes
  <2>5. c = v /\ r \o z = after
    <3> DEFINE X == r \o z
    <3>1. X \in ByteTexts /\ SameFrom(c, X, v, after)
      BY <1>1, <1>2, <2>2, <2>4, Zenon DEF SameFrom
    <3> HIDE DEF X, after
    <3>2. c = v /\ X = after
      BY <2>2, <2>3, <3>1, UnconsBytes
    <3> QED
      BY <3>2 DEF X
  <2>6. LeftToDecode(signed, r, z, done \o <<c>>, total, m, digits)
    BY <2>2, <2>5, Zenon DEF LeftToDecode
  <2> QED
    BY <2>6, Zenon DEF Ahead
<1> QED
  BY <1>5, <1>6

\* A percent sign begins an escape.
EscapeNext(signed, r, z, done, total, d, e, v, digits, m) ==
    /\ d \in Byte /\ e \in Byte /\ v \in Byte /\ digits \in ByteTexts /\ m \in ByteTexts
    /\ HexNumbers(<<d, e>>) = {v} /\ NoPercent(digits)
    /\ r \o z = <<d>> \o (<<e>> \o (digits \o AllCode(signed, m)))
    /\ ((done \o <<v>>) \o digits) \o AllKept(signed, m) = total

AtEscape(signed, r, z, done, total) == Ahead(signed, <<Percent>> \o r, z, done, total)

LEMMA EscapeBegins ==
  ASSUME NEW signed \in BOOLEAN, NEW r \in ByteTexts, NEW z \in ByteTexts,
         NEW done \in ByteTexts, NEW total, AtEscape(signed, r, z, done, total)
  PROVE  \E d, e, v, digits, m : EscapeNext(signed, r, z, done, total, d, e, v, digits, m)
<1> DEFINE pp == <<Percent>>
           s == pp \o r
           rz == r \o z
<1>1. /\ Percent \in Byte /\ pp \in ByteTexts /\ s \in ByteTexts /\ s # <<>>
      /\ rz \in ByteTexts
  BY PercentIs, ByteTextsIn, NotEmpty
<1>2. s \o z = pp \o rz
  <2>1. Associates(pp, r, z)
    BY <1>1, BytesAssociate
  <2> QED
    BY <2>1, Zenon DEF Associates
<1>3. PICK more, pend : LeftToDecode(signed, s, z, done, total, more, pend)
  BY Zenon DEF AtEscape, Ahead
<1>4. /\ more \in ByteTexts /\ pend \in ByteTexts /\ NoPercent(pend)
      /\ s \o z = pend \o AllCode(signed, more)
  BY <1>3, Zenon DEF LeftToDecode
<1> HIDE DEF s
<1>5. pend = <<>>
  <2> SUFFICES ASSUME pend # <<>> PROVE FALSE
    OBVIOUS
  <2>1. PICK b \in Byte, u \in ByteTexts : pend = <<b>> \o u
    BY <1>4, HasFirst
  <2>2. b # Percent
    BY <1>4, <2>1, NoPercentRest
  <2> DEFINE bb == <<b>>
             A == AllCode(signed, more)
  <2>3. bb \in ByteTexts /\ A \in ByteTexts /\ u \o A \in ByteTexts
    BY <1>4, CodingIn, ByteTextsIn
  <2>4. pp \o rz = bb \o (u \o A)
    <3>1. Associates(bb, u, A)
      BY <2>3, BytesAssociate
    <3> QED
      BY <1>2, <1>4, <2>1, <3>1, Zenon DEF Associates
  <2>5. SameFrom(Percent, rz, b, u \o A)
    BY <2>4, Zenon DEF SameFrom
  <2> HIDE DEF rz, pp
  <2> QED
    BY <1>1, <2>2, <2>3, <2>5, UnconsBytes
<1>6. PICK x, v, digits, m : CharacterNext(signed, s, z, done, total, x, v, digits, m)
  <2>1. LeftToDecode(signed, s, z, done, total, more, <<>>)
    BY <1>3, <1>5, Zenon
  <2> QED
    BY <1>1, <2>1, CharacterBegins
<1>7. /\ x \in ByteTexts /\ v \in Byte /\ digits \in ByteTexts /\ m \in ByteTexts
      /\ Unit(x, v) /\ NoPercent(digits)
      /\ s \o z = x \o (digits \o AllCode(signed, m))
      /\ ((done \o <<v>>) \o digits) \o AllKept(signed, m) = total
  BY <1>6, Zenon DEF CharacterNext
<1> DEFINE after == digits \o AllCode(signed, m)
<1>8. after \in ByteTexts
  BY <1>7, CodingIn, ByteTextsIn
<1>9. ~(x = <<v>> /\ v # Percent)
  <2> SUFFICES ASSUME x = <<v>>, v # Percent PROVE FALSE
    OBVIOUS
  <2>1. SameFrom(Percent, rz, v, after)
    BY <1>2, <1>7, Zenon DEF SameFrom
  <2> HIDE DEF rz, pp, after
  <2> QED
    BY <1>1, <1>7, <1>8, <2>1, UnconsBytes
<1>10. PICK d \in Byte, e \in Byte : x = <<Percent, d, e>> /\ HexNumbers(<<d, e>>) = {v}
  BY <1>7, <1>9, Zenon DEF Unit
<1> DEFINE de == <<d, e>>
           dd == <<d>>
           ee == <<e>>
<1>11. /\ x = pp \o de /\ de = dd \o ee
       /\ de \in ByteTexts /\ dd \in ByteTexts /\ ee \in ByteTexts
  <2>1. de = dd \o ee
    BY PairIs
  <2> QED
    BY <1>10, <2>1, PercentIs, ShortSeqs DEF ByteTexts
<1>12. rz = de \o after
  <2>1. Associates(pp, de, after) /\ de \o after \in ByteTexts
    BY <1>1, <1>8, <1>11, BytesAssociate, ByteTextsIn
  <2>2. SameFrom(Percent, rz, Percent, de \o after)
    BY <1>2, <1>7, <1>11, <2>1, Zenon DEF Associates, SameFrom
  <2> DEFINE da == de \o after
  <2>3. da \in ByteTexts /\ SameFrom(Percent, rz, Percent, da)
    BY <2>1, <2>2
  <2> HIDE DEF rz, da
  <2>4. rz = da
    BY <1>1, <2>3, UnconsBytes
  <2> QED
    BY <2>4 DEF da
<1>13. rz = dd \o (ee \o after)
  <2>1. Associates(dd, ee, after)
    BY <1>8, <1>11, BytesAssociate
  <2> QED
    BY <1>11, <1>12, <2>1, Zenon DEF Associates
<1>14. EscapeNext(signed, r, z, done, total, d, e, v, digits, m)
  BY <1>7, <1>10, <1>13, Zenon DEF EscapeNext
<1> QED
  BY <1>14, Zenon

\* The escape is whole: its two digits are read, whatever is left after them.
AtWhole(signed, p, q, r, z, done, total) ==
    AtEscape(signed, <<p>> \o (<<q>> \o r), z, done, total)

PastWhole(signed, p, q, r, z, done, total, v) ==
    HexNumbers(<<p, q>>) = {v} /\ Ahead(signed, r, z, done \o <<v>>, total)

LEMMA EscapeTurn ==
  ASSUME NEW signed \in BOOLEAN, NEW p \in Byte, NEW q \in Byte, NEW r \in ByteTexts,
         NEW z \in ByteTexts, NEW done \in ByteTexts, NEW total,
         AtWhole(signed, p, q, r, z, done, total)
  PROVE  \E v \in Byte : PastWhole(signed, p, q, r, z, done, total, v)
<1> DEFINE a == <<p>>
           b == <<q>>
           s == a \o (b \o r)
           rz == r \o z
<1>1. a \in ByteTexts /\ b \in ByteTexts /\ s \in ByteTexts /\ rz \in ByteTexts
      /\ b \o r \in ByteTexts /\ b \o rz \in ByteTexts
  BY ByteTextsIn
<1>2. s \o z = a \o (b \o rz)
  <2>1. Associates(b, r, z) /\ Associates(a, b \o r, z)
    BY <1>1, BytesAssociate
  <2> QED
    BY <2>1, Zenon DEF Associates
<1>3. PICK d, e, v, digits, m : EscapeNext(signed, s, z, done, total, d, e, v, digits, m)
  <2>1. AtEscape(signed, s, z, done, total)
    BY Zenon DEF AtWhole
  <2> HIDE DEF s
  <2> QED
    BY <1>1, <2>1, EscapeBegins
<1>4. /\ d \in Byte /\ e \in Byte /\ v \in Byte /\ digits \in ByteTexts /\ m \in ByteTexts
      /\ HexNumbers(<<d, e>>) = {v} /\ NoPercent(digits)
      /\ s \o z = <<d>> \o (<<e>> \o (digits \o AllCode(signed, m)))
      /\ ((done \o <<v>>) \o digits) \o AllKept(signed, m) = total
  BY <1>3, Zenon DEF EscapeNext
<1> DEFINE after == digits \o AllCode(signed, m)
           X == b \o rz
           Y == <<e>> \o after
<1>5. after \in ByteTexts /\ Y \in ByteTexts
  BY <1>4, CodingIn, ByteTextsIn
<1>6. p = d /\ X = Y
  <2>1. SameFrom(p, X, d, Y)
    BY <1>2, <1>4, Zenon DEF SameFrom
  <2>2. X \in ByteTexts
    BY <1>1
  <2> HIDE DEF X, Y
  <2> QED
    BY <1>4, <1>5, <2>1, <2>2, UnconsBytes
<1>7. q = e /\ rz = after
  <2>1. SameFrom(q, rz, e, after)
    BY <1>6, Zenon DEF SameFrom
  <2> HIDE DEF rz, after
  <2> QED
    BY <1>1, <1>4, <1>5, <2>1, UnconsBytes
<1>8. LeftToDecode(signed, r, z, done \o <<v>>, total, m, digits)
  BY <1>4, <1>7, Zenon DEF LeftToDecode
<1> QED
  BY <1>4, <1>6, <1>7, <1>8, Zenon DEF Ahead, PastWhole

\* The escape is cut: the text is, and what was decoded of it is right.
CutShort(z, done, total) == z # <<>> /\ \E tail \in ByteTexts : done \o tail = total

LEMMA EscapeCut ==
  ASSUME NEW signed \in BOOLEAN, NEW r \in ByteTexts, NEW z \in ByteTexts,
         NEW done \in ByteTexts, NEW total, AtEscape(signed, r, z, done, total), Len(r) < 2
  PROVE  CutShort(z, done, total)
<1>1. PICK d, e, v, digits, m : EscapeNext(signed, r, z, done, total, d, e, v, digits, m)
  BY EscapeBegins
<1>2. /\ d \in Byte /\ e \in Byte /\ v \in Byte /\ digits \in ByteTexts /\ m \in ByteTexts
      /\ r \o z = <<d>> \o (<<e>> \o (digits \o AllCode(signed, m)))
      /\ ((done \o <<v>>) \o digits) \o AllKept(signed, m) = total
  BY <1>1, Zenon DEF EscapeNext
<1> DEFINE after == digits \o AllCode(signed, m)
           kept == AllKept(signed, m)
           vv == <<v>>
<1>3. after \in ByteTexts /\ kept \in ByteTexts /\ vv \in ByteTexts
      /\ (vv \o digits) \o kept \in ByteTexts
  BY <1>2, CodingIn, ByteTextsIn
<1>4. z # <<>>
  <2>1. r \o z = <<d>> \o (<<e>> \o after)
    BY <1>2, Zenon
  <2> HIDE DEF after
  <2>2. Len(<<d>> \o (<<e>> \o after)) = Len(after) + 2 /\ Len(after) \in Nat
    BY <1>2, <1>3 DEF ByteTexts
  <2>3. Len(r \o z) = Len(r) + Len(z)
    BY DEF ByteTexts
  <2> QED
    BY <2>1, <2>2, <2>3
<1>5. done \o ((vv \o digits) \o kept) = total
  <2>1. FromTheMiddle(done, vv, digits, kept)
    BY <1>2, <1>3, BytesFromTheMiddle
  <2> QED
    BY <1>2, <2>1, Zenon DEF FromTheMiddle
<1> QED
  BY <1>3, <1>4, <1>5, Zenon DEF CutShort

\* The end of the text: what was decoded is the beginning of what the whole
\* text decodes to, and all of it when nothing was cut off.
LEMMA DecodedAtEnd ==
  ASSUME NEW signed \in BOOLEAN, NEW z \in ByteTexts, NEW done \in ByteTexts, NEW total,
         Ahead(signed, <<>>, z, done, total)
  PROVE  /\ \E tail \in ByteTexts : done \o tail = total
         /\ z = <<>> => done = total
<1>1. PICK more, pend : LeftToDecode(signed, <<>>, z, done, total, more, pend)
  BY Zenon DEF Ahead
<1> DEFINE A == AllCode(signed, more)
           K == AllKept(signed, more)
<1>2. /\ more \in ByteTexts /\ pend \in ByteTexts
      /\ <<>> \o z = pend \o A /\ (done \o pend) \o K = total
  BY <1>1, Zenon DEF LeftToDecode
<1>3. A \in ByteTexts /\ K \in ByteTexts /\ pend \o K \in ByteTexts
  BY <1>2, CodingIn, ByteTextsIn
<1>4. z = pend \o A
  <2>1. NoneBeside(z)
    BY BytesBeside
  <2> QED
    BY <1>2, <2>1, Zenon DEF NoneBeside
<1>5. done \o (pend \o K) = total
  <2>1. Associates(done, pend, K)
    BY <1>2, <1>3, BytesAssociate
  <2> QED
    BY <1>2, <2>1, Zenon DEF Associates
<1>6. ASSUME z = <<>> PROVE done = total
  <2>1. pend = <<>> /\ A = <<>>
    <3> HIDE DEF A
    <3>1. Len(pend \o A) = Len(pend) + Len(A) /\ Len(pend) \in Nat /\ Len(A) \in Nat
      BY <1>2, <1>3 DEF ByteTexts
    <3>1a. pend \o A = <<>> /\ Len(<<>>) = 0
      BY <1>4, <1>6
    <3>1b. Len(pend \o A) = 0
      BY <3>1a, Zenon
    <3>2. Len(pend) = 0 /\ Len(A) = 0
      BY <3>1, <3>1b
    <3> QED
      BY <1>2, <1>3, <3>2 DEF ByteTexts
  <2>2. more = <<>>
    <3> SUFFICES ASSUME more # <<>> PROVE FALSE
      OBVIOUS
    <3>2. PICK b \in Byte, m \in ByteTexts : more = <<b>> \o m
      BY <1>2, HasFirst
    <3>3. PICK x, v, digits : CodesAs(signed, b, x, v, digits)
      BY CodesIntoUnit
    <3>4. /\ x \in ByteTexts /\ digits \in ByteTexts /\ Unit(x, v)
          /\ CodeFor(signed, b) = x \o digits
      BY <3>3, Zenon DEF CodesAs
    <3> DEFINE C == AllCode(signed, m)
    <3>5. C \in ByteTexts /\ A = (x \o digits) \o C
      <4>1. CodesFirst(signed, b, m)
        BY CodingCons
      <4> QED
        BY <3>2, <3>4, <4>1, CodingIn, Zenon DEF CodesFirst
    <3>6. Len(x) > 0
      <4>1. CASE x = <<v>>
        BY <4>1
      <4>2. CASE \E d, e \in Byte : x = <<Percent, d, e>>
        BY <4>2
      <4> QED
        BY <3>4, <4>1, <4>2, Zenon DEF Unit
    <3> HIDE DEF A, C
    <3>7. Len(A) = (Len(x) + Len(digits)) + Len(C)
      BY <3>4, <3>5 DEF ByteTexts
    <3>8. Len(A) = 0 /\ Len(digits) \in Nat /\ Len(C) \in Nat /\ Len(x) \in Nat
      BY <2>1, <3>4, <3>5 DEF ByteTexts
    <3> QED
      BY <3>6, <3>7, <3>8
  <2>3. K = <<>>
    BY <2>2, CodingNone, Zenon
  <2>4. NoneBeside(done) /\ NoneBeside(<<>>)
    BY BytesBeside, ByteTextsIn
  <2> QED
    BY <1>5, <2>1, <2>3, <2>4, Zenon DEF NoneBeside
<1> QED
  BY <1>3, <1>5, <1>6, Zenon

-----------------------------------------------------------------------------
(* Where the decoder is in the text. *)

RestFrom(cd, ix) == SubSeq(cd, ix, Len(cd))

LEMMA RestFirst ==
  ASSUME NEW cd \in ByteTexts, NEW ix \in 1..Len(cd)
  PROVE  /\ cd[ix] \in Byte /\ RestFrom(cd, ix + 1) \in ByteTexts
         /\ Len(RestFrom(cd, ix + 1)) = Len(cd) - ix
         /\ RestFrom(cd, ix) = <<cd[ix]>> \o RestFrom(cd, ix + 1)
<1> DEFINE n == Len(cd)
           s == SubSeq(cd, ix, n)
           t == SubSeq(cd, ix + 1, n)
           r == <<cd[ix]>> \o t
<1>1. n \in Nat /\ cd[ix] \in Byte
  BY DEF ByteTexts
<1>1a. s \in Seq(Byte) /\ Len(s) = n - ix + 1 /\ \A i \in 1..(n - ix + 1) : s[i] = cd[ix + i - 1]
  BY DEF ByteTexts
<1>1b. t \in Seq(Byte) /\ Len(t) = n - ix /\ \A i \in 1..(n - ix) : t[i] = cd[ix + i]
  <2>1. t \in Seq(Byte) /\ Len(t) = n - ix
    BY DEF ByteTexts
  <2>2. \A i \in 1..(n - ix) : t[i] = cd[(ix + 1) + i - 1] /\ (ix + 1) + i - 1 = ix + i
    BY DEF ByteTexts
  <2> QED
    BY <2>1, <2>2
<1> HIDE DEF s, t
<1>2. r \in Seq(Byte) /\ Len(r) = Len(t) + 1 /\ r[1] = cd[ix] /\ \A i \in 1..Len(t) : r[i + 1] = t[i]
  <2> DEFINE c == cd[ix]
  <2>1. c \in Byte /\ t \in Seq(Byte)
    BY <1>1, <1>1b
  <2> HIDE DEF c
  <2>2. \A u \in Seq(Byte) : /\ <<c>> \o u \in Seq(Byte) /\ Len(<<c>> \o u) = Len(u) + 1
                             /\ (<<c>> \o u)[1] = c /\ \A i \in 1..Len(u) : (<<c>> \o u)[i + 1] = u[i]
    BY <2>1
  <2> QED
    BY <2>1, <2>2, Zenon DEF c
<1> HIDE DEF r
<1>3. ASSUME NEW i \in 1..Len(s) PROVE s[i] = r[i]
  <2>1. CASE i = 1
    BY <1>1, <1>1a, <1>2, <2>1
  <2>2. CASE i # 1
    <3>1. i - 1 \in 1..Len(t) /\ (i - 1) + 1 = i /\ ix + (i - 1) = ix + i - 1
      BY <1>1, <1>1a, <1>1b, <2>2
    <3> QED
      BY <1>1, <1>1a, <1>1b, <1>2, <3>1
  <2> QED
    BY <2>1, <2>2
<1>4. s = r
  BY <1>1, <1>1a, <1>1b, <1>2, <1>3, SeqEqual
<1> QED
  BY <1>1, <1>1b, <1>4 DEF RestFrom, ByteTexts, s, t, r

LEMMA RestIsNone ==
  ASSUME NEW cd \in ByteTexts, NEW ix \in Nat, ix > Len(cd)
  PROVE  RestFrom(cd, ix) = <<>>
BY DEF ByteTexts, RestFrom

LEMMA AppendIs ==
  ASSUME NEW s \in ByteTexts, NEW b \in Byte
  PROVE  Append(s, b) = s \o <<b>> /\ Append(s, b) \in ByteTexts /\ Append(s, b) # <<>>
BY DEF ByteTexts

LEMMA HexNumbersIn ==
  ASSUME NEW s \in ByteTexts, NEW num \in HexNumbers(s)
  PROVE  num \in Nat /\ num % 256 \in Byte
<1>1. \A c \in Byte : IsHex(c) => HexValue(c) \in Nat
  <2> SUFFICES ASSUME NEW c \in Byte, IsHex(c) PROVE HexValue(c) \in Nat
    OBVIOUS
  <2>1. CASE c \in 48..57
    BY <2>1 DEF HexValue
  <2>2. CASE c \in 65..70
    BY <2>2 DEF HexValue
  <2>3. CASE c \in 97..102
    BY <2>3 DEF HexValue
  <2> QED
    BY <2>1, <2>2, <2>3 DEF IsHex
<1>2. num \in Nat
  <2>1. CASE s = <<>>
    <3>1. HexNumbers(s) = Junk
      BY <2>1 DEF HexNumbers
    <3>2. Junk \subseteq Nat
      BY UrlAssumption
    <3> QED
      BY <3>1, <3>2
  <2>2. CASE s # <<>> /\ ~IsHex(s[1])
    <3>1. HexNumbers(s) = {0}
      BY <2>2 DEF HexNumbers
    <3> QED
      BY <3>1
  <2>3. CASE s # <<>> /\ IsHex(s[1])
    <3>1. s[1] \in Byte /\ HexValue(s[1]) \in Nat
      BY <1>1, <2>3 DEF ByteTexts
    <3>2. CASE Len(s) = 2 /\ IsHex(s[2])
      <4>1. s[2] \in Byte
        BY <3>2 DEF ByteTexts
      <4>1a. HexValue(s[2]) \in Nat
        BY <1>1, <3>2, <4>1, Zenon
      <4>2. HexNumbers(s) = {16 * HexValue(s[1]) + HexValue(s[2])}
        BY <2>3, <3>2 DEF HexNumbers
      <4> QED
        BY <3>1, <4>1a, <4>2
    <3>3. CASE ~(Len(s) = 2 /\ IsHex(s[2]))
      <4>1. HexNumbers(s) = {HexValue(s[1])}
        BY <2>3, <3>3 DEF HexNumbers
      <4> QED
        BY <3>1, <4>1
    <3> QED
      BY <3>2, <3>3
  <2> QED
    BY <2>1, <2>2, <2>3
<1> QED
  BY <1>2 DEF Byte

\* The text, as far as the limit let it through, is being decoded, or its last
\* escape was cut and cost one character.
KeepsUp(signed, pl, cd, ix, dc) ==
    \E z \in ByteTexts : /\ cd \o z = AllCode(signed, pl)
                         /\ Ahead(signed, RestFrom(cd, ix), z, dc, AllKept(signed, pl))

CutOff(signed, pl, cd, ix, dc) ==
    /\ ix > Len(cd) /\ cd # AllCode(signed, pl)
    /\ \E done \in ByteTexts, b \in Byte, tail \in ByteTexts :
           dc = done \o <<b>> /\ done \o tail = AllKept(signed, pl)

LEMMA CharStep ==
  ASSUME NEW signed \in BOOLEAN, NEW pl \in ByteTexts, NEW cd \in ByteTexts,
         NEW ix \in 1..Len(cd), NEW dc \in ByteTexts, cd[ix] # Percent,
         KeepsUp(signed, pl, cd, ix, dc)
  PROVE  Append(dc, cd[ix]) \in ByteTexts /\ KeepsUp(signed, pl, cd, ix + 1, Append(dc, cd[ix]))
<1>1. PICK z \in ByteTexts : /\ cd \o z = AllCode(signed, pl)
                             /\ Ahead(signed, RestFrom(cd, ix), z, dc, AllKept(signed, pl))
  BY Zenon DEF KeepsUp
<1> DEFINE c == cd[ix]
           r == RestFrom(cd, ix + 1)
<1>2. c \in Byte /\ r \in ByteTexts /\ RestFrom(cd, ix) = <<c>> \o r
  BY RestFirst
<1>3. Append(dc, c) = dc \o <<c>> /\ Append(dc, c) \in ByteTexts
  BY <1>2, AppendIs
<1>4. Ahead(signed, <<c>> \o r, z, dc, AllKept(signed, pl))
  BY <1>1, <1>2, Zenon
<1> HIDE DEF c, r
<1>5. Ahead(signed, r, z, dc \o <<c>>, AllKept(signed, pl))
  <2>1. c # Percent
    BY DEF c
  <2> QED
    BY <1>2, <1>4, <2>1, PlainTurn
<1>6. KeepsUp(signed, pl, cd, ix + 1, Append(dc, c))
  BY <1>1, <1>3, <1>5, Zenon DEF KeepsUp, r
<1> QED
  BY <1>3, <1>6 DEF c

\* What follows the percent sign, of which the text may have less.
NextTwo(cd, ix) == SubSeq(cd, ix + 1, IF ix + 2 <= Len(cd) THEN ix + 2 ELSE Len(cd))

LEMMA EscapeStep ==
  ASSUME NEW signed \in BOOLEAN, NEW pl \in ByteTexts, NEW cd \in ByteTexts,
         NEW ix \in 1..Len(cd), NEW dc \in ByteTexts, cd[ix] = Percent,
         KeepsUp(signed, pl, cd, ix, dc), NEW num \in HexNumbers(NextTwo(cd, ix))
  PROVE  LET dc2 == Append(dc, num % 256)
         IN  /\ dc2 \in ByteTexts
             /\ KeepsUp(signed, pl, cd, ix + 3, dc2) \/ CutOff(signed, pl, cd, ix + 3, dc2)
<1> DEFINE n == Len(cd)
           r == RestFrom(cd, ix + 1)
           total == AllKept(signed, pl)
           b == num % 256
           dc2 == Append(dc, b)
<1>1. PICK z \in ByteTexts : /\ cd \o z = AllCode(signed, pl)
                             /\ Ahead(signed, RestFrom(cd, ix), z, dc, total)
  BY Zenon DEF KeepsUp
<1>2. n \in Nat /\ r \in ByteTexts /\ Len(r) = n - ix /\ RestFrom(cd, ix) = <<Percent>> \o r
  <2>1. r \in ByteTexts /\ Len(r) = n - ix /\ RestFrom(cd, ix) = <<cd[ix]>> \o r
    BY RestFirst
  <2>2. n \in Nat
    BY DEF ByteTexts
  <2> QED
    BY <2>1, <2>2, Zenon
<1>3. b \in Byte
  <2>1. NextTwo(cd, ix) \in ByteTexts
    BY DEF NextTwo, ByteTexts
  <2> QED
    BY <2>1, HexNumbersIn
<1>4. dc2 = dc \o <<b>> /\ dc2 \in ByteTexts
  BY <1>3, AppendIs
<1>5. AtEscape(signed, r, z, dc, total)
  BY <1>1, <1>2, Zenon DEF AtEscape
<1> HIDE DEF total, b, dc2
<1>6. CASE ix + 2 <= n
  <2> DEFINE p == cd[ix + 1]
             q == cd[ix + 2]
             r3 == RestFrom(cd, ix + 3)
             qr == <<q>> \o r3
  <2>1. /\ p \in Byte /\ q \in Byte /\ r3 \in ByteTexts
        /\ r = <<p>> \o qr
    <3>1. /\ ix + 1 \in 1..Len(cd) /\ (ix + 1) + 1 = ix + 2
          /\ ix + 2 \in 1..Len(cd) /\ (ix + 2) + 1 = ix + 3
      BY <1>2, <1>6
    <3>2. p \in Byte /\ r = <<p>> \o RestFrom(cd, ix + 2)
      BY <3>1, RestFirst
    <3>3. q \in Byte /\ r3 \in ByteTexts /\ RestFrom(cd, ix + 2) = qr
      BY <3>1, RestFirst
    <3> QED
      BY <3>2, <3>3, Zenon
  <2>2. NextTwo(cd, ix) = <<p, q>>
    <3> DEFINE l == SubSeq(cd, ix + 1, ix + 2)
               m == <<p, q>>
    <3>1. NextTwo(cd, ix) = l
      BY <1>6 DEF NextTwo
    <3>2. l \in Seq(Byte) /\ Len(l) = 2 /\ l[1] = p /\ l[2] = q
      <4>1. /\ cd \in Seq(Byte) /\ ix + 1 \in 1..Len(cd) /\ ix + 2 \in 1..Len(cd)
            /\ (ix + 2) - (ix + 1) + 1 = 2 /\ (ix + 1) + 1 - 1 = ix + 1 /\ (ix + 1) + 2 - 1 = ix + 2
        BY <1>2, <1>6 DEF ByteTexts
      <4>2. \A i, j \in 1..Len(cd) :
                j - i + 1 = 2 =>
                    /\ SubSeq(cd, i, j) \in Seq(Byte) /\ Len(SubSeq(cd, i, j)) = 2
                    /\ SubSeq(cd, i, j)[1] = cd[i + 1 - 1] /\ SubSeq(cd, i, j)[2] = cd[i + 2 - 1]
        BY <4>1
      <4> QED
        BY <4>1, <4>2
    <3>3. m \in Seq(Byte) /\ Len(m) = 2 /\ m[1] = p /\ m[2] = q
      BY <2>1
    <3> HIDE DEF l, m
    <3>4. \A i \in 1..Len(l) : l[i] = m[i]
      BY <3>2, <3>3
    <3>5. l = m
      BY <3>2, <3>3, <3>4, SeqEqual
    <3> QED
      BY <3>1, <3>5 DEF m
  <2> HIDE DEF p, q, r3, r
  <2>3. PICK v \in Byte : HexNumbers(<<p, q>>) = {v} /\ Ahead(signed, r3, z, dc \o <<v>>, total)
    <3>1. AtWhole(signed, p, q, r3, z, dc, total)
      BY <1>5, <2>1, Zenon DEF AtWhole
    <3>2. \E v \in Byte : PastWhole(signed, p, q, r3, z, dc, total, v)
      BY <2>1, <3>1, EscapeTurn
    <3> QED
      BY <3>2, Zenon DEF PastWhole
  <2>4. b = v
    <3>1. num = v
      BY <2>2, <2>3
    <3> QED
      BY <3>1 DEF b, Byte
  <2>5. KeepsUp(signed, pl, cd, ix + 3, dc2)
    BY <1>1, <1>4, <2>3, <2>4, Zenon DEF KeepsUp, r3, total
  <2> QED
    BY <1>4, <2>5 DEF dc2, b
<1>7. CASE ~(ix + 2 <= n)
  <2>1. Len(r) < 2 /\ ix + 3 > n
    BY <1>2, <1>7
  <2> HIDE DEF r
  <2>2. z # <<>> /\ \E tail \in ByteTexts : dc \o tail = total
    <3>1. CutShort(z, dc, total)
      BY <1>2, <1>5, <2>1, EscapeCut
    <3> QED
      BY <3>1, Zenon DEF CutShort
  <2>3. cd # AllCode(signed, pl)
    <3>1. cd \o z # cd
      BY <2>2 DEF ByteTexts
    <3> QED
      BY <1>1, <3>1, Zenon
  <2>4. CutOff(signed, pl, cd, ix + 3, dc2)
    BY <1>3, <1>4, <2>1, <2>2, <2>3, Zenon DEF CutOff, total
  <2> QED
    BY <1>4, <2>4 DEF dc2, b
<1> QED
  BY <1>6, <1>7

\* The decoder has what the limit let through, and nothing decoded.
LEMMA BeginStep ==
  ASSUME NEW signed \in BOOLEAN, NEW pl \in ByteTexts, NEW n \in 0..Len(AllCode(signed, pl))
  PROVE  LET cd == SubSeq(AllCode(signed, pl), 1, n)
         IN  cd \in ByteTexts /\ KeepsUp(signed, pl, cd, 1, <<>>)
<1> DEFINE whole == AllCode(signed, pl)
           K == AllKept(signed, pl)
           cd == SubSeq(whole, 1, n)
           z == SubSeq(whole, n + 1, Len(whole))
<1>1. whole \in ByteTexts /\ K \in ByteTexts
  BY CodingIn
<1>2. n \in 0..Len(whole)
  OBVIOUS
<1> HIDE DEF whole, K
<1>3. cd \in ByteTexts /\ z \in ByteTexts /\ cd \o z = whole
  <2>1. cd \in Seq(Byte) /\ z \in Seq(Byte)
    BY <1>1, <1>2 DEF ByteTexts
  <2>2. whole = SubSeq(whole, 1, n) \o SubSeq(whole, n + 1, Len(whole))
    <3>1. whole \in Seq(Byte) /\ Len(whole) \in Nat /\ (n + 1) - 1 = n
      BY <1>1, <1>2 DEF ByteTexts
    <3>2. /\ 1 \in 1..(Len(whole) + 1) /\ n + 1 \in 1..(Len(whole) + 1)
          /\ Len(whole) \in ((n + 1) - 1)..Len(whole)
      BY <1>2, <3>1
    <3>3. SubSeq(whole, 1, (n + 1) - 1) \o SubSeq(whole, n + 1, Len(whole))
              = SubSeq(whole, 1, Len(whole))
      BY <3>1, <3>2, SubSeqJoins
    <3>4. SubSeq(whole, 1, Len(whole)) = whole
      BY <3>1
    <3> QED
      BY <3>1, <3>3, <3>4, Zenon
  <2> QED
    BY <2>1, <2>2, Zenon DEF ByteTexts
<1> HIDE DEF cd, z
<1>4. RestFrom(cd, 1) = cd
  BY <1>3 DEF ByteTexts, RestFrom
<1>5. Ahead(signed, cd, z, <<>>, K)
  <2>1. NoneBeside(whole) /\ NoneBeside(K) /\ NoneBeside(<<>>) /\ <<>> \in ByteTexts
    BY <1>1, BytesBeside, ByteTextsIn
  <2>2. NoPercent(<<>>)
    BY DEF NoPercent
  <2>3. LeftToDecode(signed, cd, z, <<>>, K, pl, <<>>)
    BY <1>3, <2>1, <2>2, Zenon DEF LeftToDecode, NoneBeside, whole, K
  <2> QED
    BY <2>3, Zenon DEF Ahead
<1>6. KeepsUp(signed, pl, cd, 1, <<>>)
  BY <1>3, <1>4, <1>5, Zenon DEF KeepsUp, whole, K
<1> QED
  BY <1>3, <1>6 DEF cd, whole

-----------------------------------------------------------------------------
UrlInv ==
    /\ signedChar \in BOOLEAN /\ plain \in ByteTexts /\ coded \in ByteTexts
    /\ decoded \in ByteTexts /\ index \in Nat
    /\ urlStep \in {"start", "coded", "decoding", "decoded"}
    /\ urlStep \in {"start", "coded"} => decoded = <<>>
    /\ urlStep = "coded" => coded = AllCode(signedChar, plain)
    /\ urlStep = "decoding" => index > 0
    /\ urlStep \in {"decoding", "decoded"} =>
           \/ KeepsUp(signedChar, plain, coded, index, decoded)
           \/ CutOff(signedChar, plain, coded, index, decoded)
    /\ urlStep = "decoded" => index > Len(coded)

LEMMA UrlInitHolds == UrlInit => UrlInv
<1> SUFFICES ASSUME UrlInit PROVE UrlInv
  OBVIOUS
<1>1. <<>> \in ByteTexts
  BY ByteTextsIn
<1> QED
  BY <1>1 DEF UrlInit, UrlInv

LEMMA UrlStepHolds == UrlInv /\ [UrlNext]_urlVars => UrlInv'
<1> SUFFICES ASSUME UrlInv, [UrlNext]_urlVars PROVE UrlInv'
  OBVIOUS
<1> DEFINE dc == decoded'
<1>1. CASE UrlEncode
  <2>1. plain' \in ByteTexts
    <3>1. \A t \in BoundedSeq(Bytes, MaxText) : t \in Seq(Byte)
      <4> SUFFICES ASSUME NEW t \in BoundedSeq(Bytes, MaxText) PROVE t \in Seq(Byte)
        OBVIOUS
      <4>1. Bytes \subseteq Byte /\ MaxText \in Nat
        BY UrlAssumption DEF Byte
      <4>2. PICK m \in 0..MaxText : t \in [1..m -> Bytes]
        BY Zenon DEF BoundedSeq, SeqOf
      <4> QED
        BY <4>1, <4>2
    <3> QED
      BY <1>1, <3>1, Zenon DEF UrlEncode, ByteTexts
  <2>2. coded' = AllCode(signedChar, plain') /\ coded' \in ByteTexts
    <3>1. coded' = AllCode(signedChar, plain')
      BY <1>1, CodingIs, Zenon DEF UrlEncode
    <3> QED
      BY <2>1, <3>1, CodingIn DEF UrlInv
  <2> QED
    BY <1>1, <2>1, <2>2 DEF UrlEncode, UrlInv
<1>2. CASE UrlDecode
  <2>1. PICK n \in 0..Len(coded) : coded' = SubSeq(coded, 1, n)
    BY <1>2, Zenon DEF UrlDecode
  <2>2. /\ signedChar \in BOOLEAN /\ plain \in ByteTexts /\ coded = AllCode(signedChar, plain)
        /\ decoded = <<>> /\ index' = 1 /\ urlStep' = "decoding"
        /\ signedChar' = signedChar /\ plain' = plain /\ decoded' = decoded
    BY <1>2 DEF UrlDecode, UrlInv
  <2>3. coded' \in ByteTexts /\ KeepsUp(signedChar, plain, coded', 1, <<>>)
    BY <2>1, <2>2, BeginStep
  <2>4. KeepsUp(signedChar', plain', coded', index', decoded')
    BY <2>2, <2>3, Zenon
  <2> QED
    BY <2>2, <2>3, <2>4, ByteTextsIn DEF UrlInv
<1>3. CASE DecodeEscape
  <2>1. /\ signedChar \in BOOLEAN /\ plain \in ByteTexts /\ coded \in ByteTexts /\ decoded \in ByteTexts
        /\ index \in 1..Len(coded) /\ coded[index] = Percent
        /\ index' = index + 3 /\ urlStep' = "decoding"
        /\ signedChar' = signedChar /\ plain' = plain /\ coded' = coded
        /\ KeepsUp(signedChar, plain, coded, index, decoded)
    <3>1. ~CutOff(signedChar, plain, coded, index, decoded)
      BY <1>3 DEF DecodeEscape, UrlInv, CutOff, ByteTexts
    <3>2. Len(coded) \in Nat
      BY DEF UrlInv, ByteTexts
    <3> QED
      BY <1>3, <3>1, <3>2 DEF DecodeEscape, UrlInv
  <2>2. PICK num \in HexNumbers(NextTwo(coded, index)) : decoded' = Append(decoded, num % 256)
    BY <1>3, Zenon DEF DecodeEscape, AfterPercent, NextTwo
  <2>3. /\ decoded' \in ByteTexts
        /\ \/ KeepsUp(signedChar, plain, coded, index + 3, decoded')
           \/ CutOff(signedChar, plain, coded, index + 3, decoded')
    <3>1. LET dc2 == Append(decoded, num % 256)
          IN  /\ dc2 \in ByteTexts
              /\ \/ KeepsUp(signedChar, plain, coded, index + 3, dc2)
                 \/ CutOff(signedChar, plain, coded, index + 3, dc2)
      BY <2>1, EscapeStep
    <3> QED
      BY <2>2, <3>1, Zenon
  <2>4. \/ KeepsUp(signedChar', plain', coded', index', decoded')
        \/ CutOff(signedChar', plain', coded', index', decoded')
    BY <2>1, <2>3, Zenon
  <2> QED
    BY <2>1, <2>3, <2>4 DEF UrlInv
<1>4. CASE DecodeChar
  <2>1. /\ signedChar \in BOOLEAN /\ plain \in ByteTexts /\ coded \in ByteTexts /\ decoded \in ByteTexts
        /\ index \in 1..Len(coded) /\ coded[index] # Percent
        /\ index' = index + 1 /\ urlStep' = "decoding" /\ decoded' = Append(decoded, coded[index])
        /\ signedChar' = signedChar /\ plain' = plain /\ coded' = coded
        /\ KeepsUp(signedChar, plain, coded, index, decoded)
    <3>1. ~CutOff(signedChar, plain, coded, index, decoded)
      BY <1>4 DEF DecodeChar, UrlInv, CutOff, ByteTexts
    <3>2. Len(coded) \in Nat
      BY DEF UrlInv, ByteTexts
    <3> QED
      BY <1>4, <3>1, <3>2 DEF DecodeChar, UrlInv
  <2>2. decoded' \in ByteTexts /\ KeepsUp(signedChar, plain, coded, index + 1, decoded')
    BY <2>1, CharStep
  <2>3. KeepsUp(signedChar', plain', coded', index', decoded')
    BY <2>1, <2>2, Zenon
  <2> QED
    BY <2>1, <2>2, <2>3 DEF UrlInv
<1>5. CASE DecodeEnds
  <2>1. /\ index > Len(coded) /\ urlStep = "decoding" /\ urlStep' = "decoded"
        /\ signedChar' = signedChar /\ plain' = plain /\ coded' = coded /\ index' = index
        /\ decoded' = decoded
    BY <1>5 DEF DecodeEnds
  <2> QED
    BY <2>1 DEF UrlInv
<1>6. CASE UNCHANGED urlVars
  BY <1>6 DEF urlVars, UrlInv
<1> QED
  BY <1>1, <1>2, <1>3, <1>4, <1>5, <1>6 DEF UrlNext

LEMMA FrontIsPrefix ==
  ASSUME NEW s \in ByteTexts, NEW t \in ByteTexts, NEW tail \in ByteTexts, s \o tail = t
  PROVE  IsPrefix(s, t) /\ (s # <<>> => IsPrefix(Front(s), t))
<1>1. Len(s) \in Nat /\ Len(tail) \in Nat /\ Len(t) = Len(s) + Len(tail)
      /\ \A i \in 1..Len(s) : t[i] = s[i]
  BY DEF ByteTexts
<1>2. s \in Seq(Byte) /\ t \in Seq(Byte)
  BY DEF ByteTexts
<1>3. ASSUME NEW n \in 0..Len(s) PROVE IsPrefix(SubSeq(s, 1, n), t)
  <2> DEFINE p == SubSeq(s, 1, n)
             q == SubSeq(t, 1, n)
  <2>1. p \in Seq(Byte) /\ Len(p) = n /\ \A i \in 1..n : p[i] = s[i]
    BY <1>2
  <2>2. q \in Seq(Byte) /\ Len(q) = n /\ \A i \in 1..n : q[i] = t[i]
    BY <1>1, <1>2
  <2>3. SubSeq(p, 1, n) = p
    BY <2>1
  <2> HIDE DEF p, q
  <2>4. p = q
    BY <1>1, <2>1, <2>2, SeqEqual, SMTT(40)
  <2>5. Len(p) <= Len(t)
    BY <1>1, <2>1
  <2>6. SubSeq(p, 1, Len(p)) = SubSeq(t, 1, Len(p))
    BY <2>1, <2>3, <2>4 DEF q
  <2>7. IsPrefix(p, t)
    BY <2>5, <2>6 DEF IsPrefix
  <2> QED
    BY <2>7 DEF p
<1>4. SubSeq(s, 1, Len(s)) = s
  BY <1>2
<1>5. s # <<>> => Len(s) - 1 \in 0..Len(s)
  BY <1>1, <1>2
<1>6. IsPrefix(SubSeq(s, 1, Len(s)), t)
  BY <1>1, <1>3
<1>7. s # <<>> => IsPrefix(SubSeq(s, 1, Len(s) - 1), t)
  BY <1>3, <1>5
<1> QED
  BY <1>4, <1>6, <1>7, Zenon DEF Front

LEMMA UrlInvSays == UrlInv => DecodesWhatItEncoded
<1> SUFFICES ASSUME UrlInv, urlStep = "decoded"
             PROVE  WholeSurvives /\ CutCostsOneCharacter
  BY DEF DecodesWhatItEncoded
<1> DEFINE total == AllKept(signedChar, plain)
<1>1. /\ signedChar \in BOOLEAN /\ plain \in ByteTexts /\ coded \in ByteTexts
      /\ decoded \in ByteTexts /\ index \in Nat /\ index > Len(coded)
      /\ \/ KeepsUp(signedChar, plain, coded, index, decoded)
         \/ CutOff(signedChar, plain, coded, index, decoded)
  BY DEF UrlInv
<1>2. Encoded(plain) = AllCode(signedChar, plain) /\ Survived(plain) = total /\ total \in ByteTexts
  BY <1>1, CodingIs, CodingIn
<1> HIDE DEF total
<1>3. CASE KeepsUp(signedChar, plain, coded, index, decoded)
  <2>1. PICK z \in ByteTexts :
            /\ coded \o z = AllCode(signedChar, plain)
            /\ Ahead(signedChar, RestFrom(coded, index), z, decoded, total)
    BY <1>3, Zenon DEF KeepsUp, total
  <2>2. Ahead(signedChar, <<>>, z, decoded, total)
    BY <1>1, <2>1, RestIsNone
  <2>3. /\ \E tail \in ByteTexts : decoded \o tail = total
        /\ z = <<>> => decoded = total
    BY <1>1, <2>2, DecodedAtEnd, SMTT(40)
  <2>4. coded = AllCode(signedChar, plain) => z = <<>>
    <3> SUFFICES ASSUME coded \o z = coded PROVE z = <<>>
      BY <2>1
    <3> QED
      BY <1>1 DEF ByteTexts
  <2>5. decoded # <<>> => IsPrefix(Front(decoded), total)
    BY <1>1, <1>2, <2>3, FrontIsPrefix
  <2> QED
    BY <1>2, <2>3, <2>4, <2>5, Zenon DEF WholeSurvives, CutCostsOneCharacter
<1>4. CASE CutOff(signedChar, plain, coded, index, decoded)
  <2>1. PICK done \in ByteTexts, b \in Byte, tail \in ByteTexts :
            decoded = done \o <<b>> /\ done \o tail = total
    BY <1>4, Zenon DEF CutOff, total
  <2>2. coded # AllCode(signedChar, plain)
    BY <1>4, Zenon DEF CutOff
  <2>3. Front(decoded) = done
    <3>1. Len(done \o <<b>>) - 1 = Len(done) /\ SubSeq(done \o <<b>>, 1, Len(done)) = done
      BY DEF ByteTexts
    <3> QED
      BY <2>1, <3>1, Zenon DEF Front
  <2>4. IsPrefix(done, total)
    BY <1>2, <2>1, FrontIsPrefix
  <2> QED
    BY <1>2, <2>2, <2>3, <2>4, Zenon DEF WholeSurvives, CutCostsOneCharacter
<1> QED
  BY <1>1, <1>3, <1>4

\* What UrlDecode returns for the text UrlEncode made is that text, where the
\* build's char is unsigned or every character is ASCII, and the text with
\* every negative character replaced where not; what a limit cut it to costs at
\* most the character whose escape was cut.
THEOREM DecodedIsEncoded == UrlSpec => []DecodesWhatItEncoded
<1>1. UrlInit => UrlInv
  BY UrlInitHolds
<1>2. UrlInv /\ [UrlNext]_urlVars => UrlInv'
  BY UrlStepHolds
<1>3. UrlInv => DecodesWhatItEncoded
  BY UrlInvSays
<1> QED
  BY <1>1, <1>2, <1>3, PTL DEF UrlSpec

=============================================================================
