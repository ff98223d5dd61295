-------------------------- MODULE JsonWriterProofs --------------------------
(***************************************************************************)
(* Proofs about the first half of JsonText, for trees of any size,         *)
(* characters, levels of any width and any indent: the trees, and ToString *)
(* writing them.  The history variables say where each value is in the     *)
(* text.  While ToString writes, the text is that of the values placed so  *)
(* far, in order and around each other, one loop is left for each bracket  *)
(* that is open, and every character has the depth it should.              *)
(* JsonTextProofs goes on with the reader.                                 *)
(***************************************************************************)
EXTENDS JsonText, SequenceTheorems, FiniteSetTheorems, WellFoundedInduction, TLAPS

(* Numbers and parts of sequences, as in SequentialProofs. *)

\* A set of natural numbers has a least one.
LEMMA LeastNumber ==
  ASSUME NEW T \in SUBSET Nat, T # {}
  PROVE  \E x \in T : \A y \in T : x <= y
<1>1. \A x, y \in Nat : y < x => <<y, x>> \in OpToRel(<, Nat)
  BY DEF OpToRel
<1>2. PICK x \in T : \A y \in T : <<y, x>> \notin OpToRel(<, Nat)
  BY NatLessThanWellFounded, WFMin, Zenon
<1>3. \A y \in T : ~(y < x)
  BY <1>1, <1>2, Zenon
<1> QED BY <1>3

\* Induction over a set, which is all of Nat, or there were a least one outside.
LEMMA NatInduct ==
  ASSUME NEW S, 0 \in S, \A n \in Nat : n \in S => n + 1 \in S
  PROVE  Nat \subseteq S
<1> SUFFICES ASSUME Nat \ S # {} PROVE FALSE
  OBVIOUS
<1>1. PICK x \in Nat \ S : \A y \in Nat \ S : x <= y
  BY LeastNumber
<1>2. x - 1 \in Nat /\ x - 1 + 1 = x
  BY <1>1
<1>3. x - 1 \in S
  BY <1>1, <1>2
<1> QED BY <1>1, <1>2, <1>3

\* A part of a sequence, and the part behind it.
LEMMA SubSeqJoins ==
  ASSUME NEW S, NEW seq \in Seq(S), NEW l \in 1..(Len(seq) + 1),
         NEW m \in l..(Len(seq) + 1), NEW n \in (m - 1)..Len(seq)
  PROVE  SubSeq(seq, l, m - 1) \o SubSeq(seq, m, n) = SubSeq(seq, l, n)
OBVIOUS

\* A part of one element.
LEMMA SubSeqOne ==
  ASSUME NEW S, NEW seq \in Seq(S), NEW i \in 1..Len(seq)
  PROVE  SubSeq(seq, i, i) = <<seq[i]>>
<1>1. PICK s : s = SubSeq(seq, i, i)
  OBVIOUS
<1>2. s \in Seq(S) /\ Len(s) = 1 /\ s[1] = seq[i]
  BY <1>1
<1>3. s = <<s[1]>>
  BY <1>2
<1> QED BY <1>1, <1>2, <1>3

-----------------------------------------------------------------------------
(* Paths and trees. *)

\* The characters there can be.
Marks == {" ", Quote, ":", ",", "[", "]", "{", "}", ".", "0"}
Given == Scalars \cup Contents \cup Labels \cup {Rounded[d] : d \in DOMAIN Rounded}
Chars == Marks \cup UNION {ToSet(s) : s \in Given}

TreeKeys == [at : Nat, label : Seq(Chars)]
Paths    == Seq(TreeKeys)
Kinds    == {"undefined", "scalar", "string", "array", "dict"}
Nodes    == [kind : Kinds, chars : Seq(Chars)]

\* The characters the writer adds are characters.
LEMMA MarksIn ==
  /\ " " \in Chars /\ Quote \in Chars /\ ":" \in Chars /\ "," \in Chars
  /\ "[" \in Chars /\ "]" \in Chars /\ "{" \in Chars /\ "}" \in Chars
  /\ "." \in Chars /\ "0" \in Chars
BY DEF Chars, Marks

\* So are those of the contents and labels a program has, and of its numbers.
LEMMA GivenIn ==
  /\ \A s \in Scalars \cup Contents \cup Labels : s \in Seq(Chars)
  /\ \A d \in DOMAIN Rounded : Rounded[d] \in Seq(Chars)
<1>1. ASSUME NEW s \in Given PROVE s \in Seq(Chars)
  <2>1. s \in Seq(STRING)
    <3>1. CASE s \in Scalars
      BY <3>1, JsonAssumption
    <3>2. CASE s \in Contents \cup Labels
      BY <3>2, JsonAssumption
    <3>3. CASE s \in {Rounded[d] : d \in DOMAIN Rounded}
      BY <3>3, JsonAssumption
    <3> QED BY <1>1, <3>1, <3>2, <3>3 DEF Given
  <2>2. \A i \in DOMAIN s : s[i] \in ToSet(s)
    BY DEF ToSet
  <2>3. ToSet(s) \subseteq Chars
    BY <1>1 DEF Chars
  <2>4. \A i \in 1..Len(s) : s[i] \in Chars
    BY <2>1, <2>2, <2>3
  <2> QED BY <2>1, <2>4
<1> QED BY <1>1 DEF Given

\* Indexed and labelled keys are keys.
LEMMA KeyOf ==
  /\ \A i \in Nat : Indexed(i) \in TreeKeys
  /\ \A l \in Seq(Chars) : Labelled(l) \in TreeKeys
BY DEF Indexed, Labelled, TreeKeys

\* What a path that is not empty is made of.
LEMMA PathEnd ==
  ASSUME NEW S, NEW p \in Seq(S), p # <<>>
  PROVE  /\ Front(p) \in Seq(S) /\ Last(p) \in S
         /\ Len(Front(p)) = Len(p) - 1 /\ Len(p) \in Nat /\ Len(p) >= 1
         /\ p = Append(Front(p), Last(p))
         /\ \A i \in 1..(Len(p) - 1) : Front(p)[i] = p[i]
<1>1. Len(p) \in Nat /\ Len(p) >= 1 /\ Last(p) \in S
  BY DEF Last
<1>2. Front(p) \in Seq(S) /\ Len(Front(p)) = Len(p) - 1
      /\ \A i \in 1..(Len(p) - 1) : Front(p)[i] = p[i]
  <2> DEFINE n == Len(p)
  <2>1. n \in Nat /\ n >= 1 /\ \A i \in 1..(n - 1) : p[i] \in S
    BY <1>1
  <2>2. Front(p) = SubSeq(p, 1, n - 1)
    BY DEF Front
  <2> HIDE DEF n
  <2>3. n = 1 \/ 1 <= n - 1
    BY <2>1
  <2>4. /\ Front(p) \in Seq(S)
        /\ Len(Front(p)) = IF 1 <= n - 1 THEN n - 1 - 1 + 1 ELSE 0
        /\ \A i \in 1..(n - 1 - 1 + 1) : Front(p)[i] = p[1 + i - 1]
    BY <2>1, <2>2, SubSeqProperties
  <2>5. Len(Front(p)) = n - 1
    BY <2>1, <2>3, <2>4
  <2>6. \A i \in 1..(n - 1) : Front(p)[i] = p[i]
    BY <2>1, <2>4
  <2> QED BY <2>4, <2>5, <2>6 DEF n
<1>3. p = Append(Front(p), Last(p))
  BY <1>1, <1>2 DEF Last
<1> QED BY <1>1, <1>2, <1>3

\* A path made longer by a key.
LEMMA PathGrown ==
  ASSUME NEW S, NEW p \in Seq(S), NEW k \in S
  PROVE  /\ Append(p, k) \in Seq(S) /\ Append(p, k) # <<>>
         /\ Len(Append(p, k)) = Len(p) + 1 /\ Len(p) \in Nat
         /\ Front(Append(p, k)) = p /\ Last(Append(p, k)) = k
         /\ Append(p, k)[Len(p) + 1] = k
         /\ \A i \in 1..Len(p) : Append(p, k)[i] = p[i]
<1> DEFINE q == Append(p, k)
<1>1. /\ q \in Seq(S) /\ Len(q) = Len(p) + 1 /\ Len(p) \in Nat /\ q[Len(p) + 1] = k
      /\ \A i \in 1..Len(p) : q[i] = p[i]
  OBVIOUS
<1>2. q # <<>>
  BY <1>1
<1> HIDE DEF q
<1>3. /\ Front(q) \in Seq(S) /\ Len(Front(q)) = Len(p)
      /\ \A i \in 1..Len(p) : Front(q)[i] = p[i]
  BY <1>1, <1>2, PathEnd
<1>4. Front(q) = p
  BY <1>3
<1> QED BY <1>1, <1>2, <1>4 DEF q, Last

\* A path begins with another when its keys do.
LEMMA PrefixIs ==
  ASSUME NEW S, NEW p \in Seq(S), NEW q \in Seq(S)
  PROVE  /\ Len(p) \in Nat /\ Len(q) \in Nat
         /\ IsPrefix(p, q) <=> Len(p) <= Len(q) /\ \A i \in 1..Len(p) : p[i] = q[i]
BY DEF IsPrefix

\* Two paths with the same keys are one.
LEMMA SamePath ==
  ASSUME NEW S, NEW p \in Seq(S), NEW q \in Seq(S), Len(p) = Len(q),
         \A i \in 1..Len(p) : p[i] = q[i]
  PROVE  p = q
OBVIOUS

\* What begins the rest of a path, begins the path, and the other way round but for the path itself.
LEMMA PrefixOfFront ==
  ASSUME NEW S, NEW p \in Seq(S), NEW q \in Seq(S), q # <<>>
  PROVE  /\ IsPrefix(p, Front(q)) => IsPrefix(p, q)
         /\ IsPrefix(p, q) /\ p # q => IsPrefix(p, Front(q))
<1>1. Front(q) \in Seq(S) /\ Len(Front(q)) = Len(q) - 1 /\ Len(q) \in Nat /\ Len(q) >= 1
      /\ \A i \in 1..(Len(q) - 1) : Front(q)[i] = q[i]
  BY PathEnd
<1>2. /\ Len(p) \in Nat
      /\ IsPrefix(p, q) <=> Len(p) <= Len(q) /\ \A i \in 1..Len(p) : p[i] = q[i]
      /\ IsPrefix(p, Front(q)) <=> Len(p) <= Len(Front(q)) /\ \A i \in 1..Len(p) : p[i] = Front(q)[i]
  BY <1>1, PrefixIs
<1>3. IsPrefix(p, Front(q)) => IsPrefix(p, q)
  <2> SUFFICES ASSUME IsPrefix(p, Front(q)) PROVE IsPrefix(p, q)
    OBVIOUS
  <2>1. \A i \in 1..Len(p) : p[i] = q[i]
    BY <1>1, <1>2
  <2> QED BY <1>1, <1>2, <2>1
<1>4. ASSUME IsPrefix(p, q), p # q PROVE IsPrefix(p, Front(q))
  <2>1. Len(p) # Len(q)
    BY <1>2, <1>4, SamePath
  <2> QED BY <1>1, <1>2, <1>4, <2>1
<1> QED BY <1>3, <1>4

\* What std::to_string can print of a scalar.
Printable(s) == s \in Bools \/ s \in Words \/ IsNumber(s)

NodeOK(n) ==
    /\ n \in Nodes
    /\ n.kind = "scalar" => LET s == Printed(n.chars)
                            IN  s \in Seq(Chars) /\ Printable(s) /\ Printed(s) = s
    /\ n.kind \in Containers \cup {"undefined"} => n.chars = <<>>

\* q is where it can be: in a container, which has a place for it.
HasParent(v, q) ==
    /\ Front(q) \in DOMAIN v /\ v[Front(q)].kind \in Containers
    /\ v[Front(q)].kind = "dict" => Last(q) = Labelled(Last(q).label)

\* A tree whose root may yet be missing.
Grove(v) ==
    /\ IsFiniteSet(DOMAIN v) /\ DOMAIN v \subseteq Paths
    /\ v \in [DOMAIN v -> Nodes]
    /\ \A q \in DOMAIN v : NodeOK(v[q]) /\ (q # <<>> => HasParent(v, q))

IsTree(v) == Grove(v) /\ <<>> \in DOMAIN v

\* A tree of one value.
LEMMA LeafIs ==
  ASSUME NEW n, NodeOK(n)
  PROVE  /\ IsTree([p \in {<<>>} |-> n])
         /\ DOMAIN [p \in {<<>>} |-> n] = {<<>>}
<1> DEFINE v == [p \in {<<>>} |-> n]
<1>1. DOMAIN v = {<<>>} /\ v[<<>>] = n /\ v \in [DOMAIN v -> Nodes]
  BY DEF NodeOK
<1>2. IsFiniteSet({<<>>})
  BY FS_Singleton
<1>3. <<>> \in Paths
  BY DEF Paths
<1> QED BY <1>1, <1>2, <1>3 DEF IsTree, Grove

\* Printing keeps what is printed.
LEMMA PrintedIs ==
  ASSUME NEW s \in Seq(Chars), Printable(s)
  PROVE  Printed(s) \in Seq(Chars) /\ Printable(Printed(s)) /\ Printed(Printed(s)) = Printed(s)
<1>1. CASE s \in DOMAIN Rounded
  <2>1. /\ Printed(s) = Rounded[s] /\ Rounded[s] \in Seq(Chars)
        /\ IsNumber(Rounded[s]) /\ Rounded[s] \notin DOMAIN Rounded
    BY <1>1, GivenIn, JsonAssumption DEF Printed
  <2> QED BY <2>1 DEF Printable, Printed
<1>2. CASE s \notin DOMAIN Rounded
  BY <1>2 DEF Printed
<1> QED BY <1>1, <1>2

\* The values the program makes are values of a tree.
LEMMA NodeIs ==
  /\ NodeOK(Node("undefined", <<>>))
  /\ \A k \in Containers : NodeOK(Node(k, <<>>))
  /\ \A s \in Seq(Chars) : NodeOK(Node("string", s))
  /\ \A s \in Seq(Chars) : Printable(s) => NodeOK(Node("scalar", s))
  /\ \A k, s : Node(k, s).kind = k /\ Node(k, s).chars = s
BY PrintedIs DEF NodeOK, Node, Nodes, Kinds, Containers

\* The tree with one value more, at a place where there is none.
LEMMA GrownTree ==
  ASSUME NEW v, Grove(v), NEW p \in Paths, p \notin DOMAIN v,
         p # <<>> => HasParent(v, p), NEW n, NodeOK(n)
  PROVE  /\ Grove([q \in DOMAIN v \cup {p} |-> IF q = p THEN n ELSE v[q]])
         /\ DOMAIN [q \in DOMAIN v \cup {p} |-> IF q = p THEN n ELSE v[q]] = DOMAIN v \cup {p}
<1> DEFINE w == [q \in DOMAIN v \cup {p} |-> IF q = p THEN n ELSE v[q]]
<1>1. /\ DOMAIN w = DOMAIN v \cup {p} /\ w[p] = n
      /\ \A q \in DOMAIN v : w[q] = v[q]
  OBVIOUS
<1>2. IsFiniteSet(DOMAIN v \cup {p})
  BY FS_AddElement DEF Grove
<1>3. \A q \in DOMAIN v \cup {p} : (IF q = p THEN n ELSE v[q]) \in Nodes
  BY DEF Grove, NodeOK
<1>4. w \in [DOMAIN v \cup {p} -> Nodes]
  BY <1>3
<1> HIDE DEF w
<1>5. \A q \in DOMAIN w : NodeOK(w[q])
  BY <1>1 DEF Grove
<1>6. ASSUME NEW q \in DOMAIN w, q # <<>> PROVE HasParent(w, q)
  <2>1. HasParent(v, q)
    BY <1>1, <1>6 DEF Grove
  <2> QED BY <1>1, <2>1 DEF HasParent
<1>7. DOMAIN w \subseteq Paths
  BY <1>1 DEF Grove
<1> QED BY <1>1, <1>2, <1>4, <1>5, <1>6, <1>7, Zenon DEF Grove, w

\* A finite set has finitely many images.
LEMMA FiniteImage ==
  ASSUME NEW S, IsFiniteSet(S), NEW f, DOMAIN f = S
  PROVE  IsFiniteSet({f[x] : x \in S})
<1> DEFINE T == {f[x] : x \in S}
           g == [x \in S |-> f[x]]
<1>1. g \in Surjection(S, T)
  BY DEF Surjection
<1> QED BY <1>1, FS_Surjection

\* The path below a key, and back.
LEMMA PathBelow ==
  ASSUME NEW S, NEW k \in S, NEW r \in Seq(S)
  PROVE  /\ <<k>> \o r \in Seq(S) /\ <<k>> \o r # <<>>
         /\ (<<k>> \o r)[1] = k /\ Tail(<<k>> \o r) = r
         /\ r = <<>> => Front(<<k>> \o r) = <<>> /\ Last(<<k>> \o r) = k
         /\ r # <<>> => /\ Front(<<k>> \o r) = <<k>> \o Front(r)
                        /\ Last(<<k>> \o r) = Last(r)
<1> DEFINE q == <<k>> \o r
<1>1. /\ q \in Seq(S) /\ q # <<>> /\ Len(q) = Len(r) + 1 /\ Len(r) \in Nat
      /\ q[1] = k /\ \A i \in 1..Len(r) : q[i + 1] = r[i]
  OBVIOUS
<1>2. Tail(q) = r
  OBVIOUS
<1> HIDE DEF q
<1>3. /\ Front(q) \in Seq(S) /\ Len(Front(q)) = Len(r)
      /\ \A i \in 1..Len(r) : Front(q)[i] = q[i]
  <2>1. /\ Front(q) \in Seq(S) /\ Len(Front(q)) = Len(q) - 1
        /\ \A i \in 1..(Len(q) - 1) : Front(q)[i] = q[i]
    BY <1>1, PathEnd
  <2>2. Len(q) - 1 = Len(r)
    BY <1>1
  <2> QED BY <2>1, <2>2
<1>4. r = <<>> => Front(q) = <<>> /\ Last(q) = k
  BY <1>1, <1>3 DEF Last
<1>5. ASSUME r # <<>> PROVE Front(q) = <<k>> \o Front(r) /\ Last(q) = Last(r)
  <2>1. /\ Front(r) \in Seq(S) /\ Len(Front(r)) = Len(r) - 1 /\ Len(r) >= 1
        /\ \A i \in 1..(Len(r) - 1) : Front(r)[i] = r[i]
    BY <1>5, PathEnd
  <2>2. /\ <<k>> \o Front(r) \in Seq(S) /\ Len(<<k>> \o Front(r)) = Len(r)
        /\ (<<k>> \o Front(r))[1] = k
        /\ \A i \in 1..(Len(r) - 1) : (<<k>> \o Front(r))[i + 1] = Front(r)[i]
    BY <1>1, <2>1
  <2>3. ASSUME NEW i \in 1..Len(r) PROVE (<<k>> \o Front(r))[i] = Front(q)[i]
    <3>1. CASE i = 1
      BY <1>1, <1>3, <2>2, <3>1
    <3>2. CASE i # 1
      <4>1. i - 1 \in 1..(Len(r) - 1) /\ i - 1 + 1 = i /\ i - 1 \in 1..Len(r)
        BY <1>1, <3>2
      <4>2. (<<k>> \o Front(r))[i - 1 + 1] = r[i - 1] /\ q[i - 1 + 1] = r[i - 1]
        BY <1>1, <2>1, <2>2, <4>1
      <4> QED BY <1>3, <4>1, <4>2
    <3> QED BY <3>1, <3>2
  <2> HIDE DEF q
  <2>4. Front(q) = <<k>> \o Front(r)
    BY <1>3, <2>2, <2>3, SamePath
  <2>5. Last(q) = Last(r)
    BY <1>1, <2>1 DEF Last
  <2> QED BY <2>4, <2>5
<1> QED BY <1>1, <1>2, <1>4, <1>5 DEF q

\* A tree stored under a key of another gives a tree.
LEMMA PlacedIs ==
  ASSUME NEW v, IsTree(v), NEW w, IsTree(w), NEW k \in TreeKeys,
         v[<<>>].kind \in Containers,
         v[<<>>].kind = "dict" => k = Labelled(k.label)
  PROVE  /\ IsTree(Placed(v, k, w))
         /\ \A q \in DOMAIN Placed(v, k, w) :
                \/ q \in DOMAIN v /\ Placed(v, k, w)[q] = v[q]
                \/ \E r \in DOMAIN w : Placed(v, k, w)[q] = w[r]
<1> DEFINE kept == {r \in DOMAIN v : r = <<>> \/ r[1] # k}
           new  == {<<k>> \o r : r \in DOMAIN w}
           t    == Placed(v, k, w)
<1>1. /\ DOMAIN v \subseteq Paths /\ DOMAIN w \subseteq Paths
      /\ IsFiniteSet(DOMAIN v) /\ IsFiniteSet(DOMAIN w)
      /\ \A q \in DOMAIN v : NodeOK(v[q]) /\ (q # <<>> => HasParent(v, q))
      /\ \A q \in DOMAIN w : NodeOK(w[q]) /\ (q # <<>> => HasParent(w, q))
      /\ <<>> \in DOMAIN v /\ <<>> \in DOMAIN w
  BY DEF IsTree, Grove
<1>2. \A r \in DOMAIN w :
          /\ <<k>> \o r \in Paths /\ <<k>> \o r # <<>>
          /\ (<<k>> \o r)[1] = k /\ Tail(<<k>> \o r) = r
          /\ r = <<>> => Front(<<k>> \o r) = <<>> /\ Last(<<k>> \o r) = k
          /\ r # <<>> => /\ Front(<<k>> \o r) = <<k>> \o Front(r)
                         /\ Last(<<k>> \o r) = Last(r)
  <2> TAKE r \in DOMAIN w
  <2>1. r \in Seq(TreeKeys)
    BY <1>1 DEF Paths
  <2> QED BY <2>1, PathBelow, SMTT(40) DEF Paths
<1>3. t = [q \in kept \cup new |-> IF q # <<>> /\ q[1] = k THEN w[Tail(q)] ELSE v[q]]
  BY DEF Placed
<1>4. DOMAIN t = kept \cup new
  BY <1>3
<1>5. \A q \in kept : t[q] = v[q]
  BY <1>3
<1>6. \A r \in DOMAIN w : <<k>> \o r \in new /\ t[<<k>> \o r] = w[r]
  BY <1>2, <1>3, ZenonT(60)
<1>7. \A q \in new : \E r \in DOMAIN w : q = <<k>> \o r
  OBVIOUS
<1>8. <<>> \in kept /\ kept \subseteq DOMAIN v /\ (\A r \in DOMAIN v : r[1] # k => r \in kept)
  BY <1>1
<1>9. IsFiniteSet(DOMAIN t)
  <2> DEFINE f == [r \in DOMAIN w |-> <<k>> \o r]
  <2>1. IsFiniteSet({f[x] : x \in DOMAIN w})
    <3>1. DOMAIN f = DOMAIN w
      OBVIOUS
    <3> HIDE DEF f
    <3> QED BY <1>1, <3>1, FiniteImage
  <2>2. {f[x] : x \in DOMAIN w} = new
    OBVIOUS
  <2>3. IsFiniteSet(kept)
    BY <1>1, <1>8, FS_Subset
  <2>4. IsFiniteSet(new)
    BY <2>1, <2>2
  <2> HIDE DEF kept, new, t
  <2> QED BY <1>4, <2>3, <2>4, FS_Union
<1>10. \A q \in kept : q # <<>> => q[1] # k
  OBVIOUS
<1>11. t = [q \in DOMAIN t |-> t[q]]
  BY <1>3
<1> HIDE DEF t, kept, new
<1>12. \A q \in DOMAIN t : NodeOK(t[q])
  BY <1>1, <1>4, <1>5, <1>6, <1>7, <1>8, ZenonT(60)
<1>13. DOMAIN t \subseteq Paths
  <2>1. \A q \in new : q \in Paths
    BY <1>2, <1>7, ZenonT(60)
  <2>2. \A q \in kept : q \in Paths
    BY <1>1, <1>8
  <2> QED BY <1>4, <2>1, <2>2
<1>14. ASSUME NEW q \in kept, q # <<>> PROVE HasParent(t, q)
  <2>1. q \in DOMAIN v /\ HasParent(v, q) /\ q \in Paths
    BY <1>1, <1>8, <1>14
  <2>2. Front(q) \in kept
    <3>1. CASE Front(q) = <<>>
      BY <1>8, <3>1
    <3>2. CASE Front(q) # <<>>
      <4>1. /\ Front(q) \in Seq(TreeKeys) /\ Len(Front(q)) = Len(q) - 1 /\ Len(q) \in Nat
            /\ \A i \in 1..(Len(q) - 1) : Front(q)[i] = q[i]
        BY <1>14, <2>1, PathEnd DEF Paths
      <4>2. Len(Front(q)) # 0
        BY <3>2, <4>1
      <4>3. Front(q)[1] = q[1]
        BY <4>1, <4>2
      <4> QED BY <1>8, <1>10, <1>14, <2>1, <4>3 DEF HasParent
    <3> QED BY <3>1, <3>2
  <2> QED BY <1>4, <1>5, <2>1, <2>2 DEF HasParent
<1>15. ASSUME NEW r \in DOMAIN w PROVE HasParent(t, <<k>> \o r)
  <2>1. CASE r = <<>>
    <3>1. Front(<<k>> \o r) = <<>> /\ Last(<<k>> \o r) = k
      BY <1>2, <2>1
    <3> QED BY <1>4, <1>5, <1>8, <3>1 DEF HasParent
  <2>2. CASE r # <<>>
    <3>1. Front(<<k>> \o r) = <<k>> \o Front(r) /\ Last(<<k>> \o r) = Last(r)
      BY <1>2, <2>2
    <3>2. HasParent(w, r)
      BY <1>1, <2>2
    <3>3. Front(r) \in DOMAIN w
      BY <3>2 DEF HasParent
    <3>4. t[<<k>> \o Front(r)] = w[Front(r)] /\ <<k>> \o Front(r) \in DOMAIN t
      BY <1>4, <1>6, <3>3
    <3> QED BY <3>1, <3>2, <3>4 DEF HasParent
  <2> QED BY <2>1, <2>2
<1>16. \A q \in DOMAIN t : q # <<>> => HasParent(t, q)
  BY <1>4, <1>7, <1>14, <1>15
<1>17. IsTree(t)
  <2>1. t \in [DOMAIN t -> Nodes]
    <3>1. \A q \in DOMAIN t : t[q] \in Nodes
      BY <1>12 DEF NodeOK
    <3> QED BY <1>11, <3>1
  <2>2. <<>> \in DOMAIN t
    BY <1>4, <1>8
  <2> QED BY <1>9, <1>12, <1>13, <1>16, <2>1, <2>2 DEF IsTree, Grove
<1>18. ASSUME NEW q \in DOMAIN t
       PROVE  (q \in DOMAIN v /\ t[q] = v[q]) \/ \E r \in DOMAIN w : t[q] = w[r]
  BY <1>4, <1>5, <1>6, <1>7, <1>8
<1> QED BY <1>17, <1>18 DEF t

\* The path that leads on from p to r.
LEMMA PathOn ==
  ASSUME NEW S, NEW p \in Seq(S), NEW r \in Seq(S), IsPrefix(p, r)
  PROVE  LET q == SubSeq(r, Len(p) + 1, Len(r))
         IN  /\ q \in Seq(S) /\ p \o q = r
             /\ q # <<>> => r # p /\ r # <<>>
             /\ q # <<>> /\ r # <<>> =>
                   /\ Last(q) = Last(r) /\ IsPrefix(p, Front(r))
                   /\ Front(q) = SubSeq(Front(r), Len(p) + 1, Len(Front(r)))
             /\ r = p => q = <<>>
<1> DEFINE m == Len(p)
           n == Len(r)
           q == SubSeq(r, m + 1, n)
<1>1. /\ m \in Nat /\ n \in Nat /\ m <= n /\ \A i \in 1..m : p[i] = r[i]
      /\ \A i \in 1..n : r[i] \in S
  BY PrefixIs
<1> HIDE DEF m, n
<1>2. /\ q \in Seq(S) /\ Len(q) = n - m
      /\ \A i \in 1..(n - m) : q[i] = r[m + i]
  <2>1. \A i \in (m + 1)..n : r[i] \in S
    BY <1>1
  <2>2. /\ q \in Seq(S)
        /\ Len(q) = IF m + 1 <= n THEN n - (m + 1) + 1 ELSE 0
        /\ \A i \in 1..(n - (m + 1) + 1) : q[i] = r[(m + 1) + i - 1]
    BY <1>1, <2>1, SubSeqProperties
  <2> HIDE DEF q
  <2>3. Len(q) = n - m
    BY <1>1, <2>2
  <2>4. \A i \in 1..(n - m) : q[i] = r[m + i]
    BY <1>1, <2>2
  <2> QED BY <2>2, <2>3, <2>4
<1> HIDE DEF q
<1>3. p \o q = r
  <2>1. /\ p \o q \in Seq(S) /\ Len(p \o q) = m + (n - m)
        /\ \A i \in 1..m : (p \o q)[i] = p[i]
        /\ \A i \in 1..(n - m) : (p \o q)[m + i] = q[i]
    BY <1>1, <1>2 DEF m
  <2>2. ASSUME NEW i \in 1..n PROVE (p \o q)[i] = r[i]
    <3>1. CASE i <= m
      BY <1>1, <2>1, <3>1
    <3>2. CASE ~(i <= m)
      <4>1. i - m \in 1..(n - m) /\ m + (i - m) = i
        BY <1>1, <3>2
      <4> QED BY <1>2, <2>1, <4>1, ZenonT(60)
    <3> QED BY <3>1, <3>2
  <2>3. Len(p \o q) = n
    BY <1>1, <2>1
  <2> QED BY <2>1, <2>2, <2>3, SamePath DEF n
<1>4. q # <<>> => n > m
  BY <1>1, <1>2
<1>5. q # <<>> => r # p /\ r # <<>>
  BY <1>1, <1>4 DEF m, n
<1>6. ASSUME q # <<>>, r # <<>>
      PROVE  /\ Last(q) = Last(r) /\ IsPrefix(p, Front(r))
             /\ Front(q) = SubSeq(Front(r), m + 1, Len(Front(r)))
  <2>1. /\ Front(r) \in Seq(S) /\ Len(Front(r)) = n - 1 /\ n >= 1
        /\ \A i \in 1..(n - 1) : Front(r)[i] = r[i]
    BY <1>6, PathEnd DEF n
  <2>2. Last(q) = Last(r)
    <3>1. n - m \in 1..(n - m) /\ m + (n - m) = n
      BY <1>1, <1>4, <1>6
    <3> QED BY <1>2, <3>1 DEF Last, n
  <2>3. IsPrefix(p, Front(r))
    <3>1. Len(p) <= Len(Front(r)) /\ \A i \in 1..Len(p) : p[i] = Front(r)[i]
      BY <1>1, <1>4, <1>6, <2>1 DEF m
    <3> QED BY <2>1, <3>1, PrefixIs
  <2>4. /\ Front(q) \in Seq(S) /\ Len(Front(q)) = n - m - 1
        /\ \A i \in 1..(n - m - 1) : Front(q)[i] = r[m + i]
    <3>1. /\ Front(q) \in Seq(S) /\ Len(Front(q)) = Len(q) - 1
          /\ \A i \in 1..(Len(q) - 1) : Front(q)[i] = q[i]
      BY <1>2, <1>6, PathEnd
    <3> QED BY <1>1, <1>2, <3>1
  <2>5. /\ SubSeq(Front(r), m + 1, n - 1) \in Seq(S)
        /\ Len(SubSeq(Front(r), m + 1, n - 1)) = n - m - 1
        /\ \A i \in 1..(n - m - 1) : SubSeq(Front(r), m + 1, n - 1)[i] = r[m + i]
    <3> DEFINE t == SubSeq(Front(r), m + 1, n - 1)
    <3>1. \A i \in (m + 1)..(n - 1) : Front(r)[i] \in S
      BY <1>1, <2>1
    <3>2. /\ t \in Seq(S)
          /\ Len(t) = IF m + 1 <= n - 1 THEN n - 1 - (m + 1) + 1 ELSE 0
          /\ \A i \in 1..(n - 1 - (m + 1) + 1) : t[i] = Front(r)[(m + 1) + i - 1]
      BY <1>1, <2>1, <3>1, SubSeqProperties
    <3> HIDE DEF t
    <3>3. Len(t) = n - m - 1
      BY <1>1, <1>4, <1>6, <3>2
    <3>4. ASSUME NEW i \in 1..(n - m - 1) PROVE t[i] = r[m + i]
      <4>1. i \in 1..(n - 1 - (m + 1) + 1) /\ (m + 1) + i - 1 = m + i /\ m + i \in 1..(n - 1)
        BY <1>1
      <4> QED BY <2>1, <3>2, <4>1
    <3> QED BY <3>2, <3>3, <3>4 DEF t
  <2>6. Front(q) = SubSeq(Front(r), m + 1, n - 1)
    BY <2>4, <2>5, SamePath
  <2> QED BY <2>1, <2>2, <2>3, <2>6
<1>7. r = p => q = <<>>
  BY <1>1, <1>2 DEF m, n
<1> QED BY <1>2, <1>3, <1>5, <1>6, <1>7 DEF q, m, n

\* What is below a place of a tree is a tree.
LEMMA BranchIs ==
  ASSUME NEW v, IsTree(v), NEW p \in DOMAIN v
  PROVE  /\ IsTree(Branch(v, p))
         /\ \A q \in DOMAIN Branch(v, p) : \E r \in DOMAIN v : Branch(v, p)[q] = v[r]
<1> DEFINE below == {r \in DOMAIN v : IsPrefix(p, r)}
           F(r) == SubSeq(r, Len(p) + 1, Len(r))
           t == Branch(v, p)
<1>1. /\ DOMAIN v \subseteq Paths /\ IsFiniteSet(DOMAIN v)
      /\ \A q \in DOMAIN v : NodeOK(v[q]) /\ (q # <<>> => HasParent(v, q))
  BY DEF IsTree, Grove
<1>2. t = [q \in {F(r) : r \in below} |-> v[p \o q]]
  BY DEF Branch
<1>3. \A r \in below :
          /\ F(r) \in Paths /\ p \o F(r) = r
          /\ F(r) # <<>> => r # p /\ r # <<>>
          /\ F(r) # <<>> /\ r # <<>> =>
                /\ Last(F(r)) = Last(r) /\ IsPrefix(p, Front(r)) /\ Front(F(r)) = F(Front(r))
          /\ r = p => F(r) = <<>>
  <2> TAKE r \in below
  <2>1. p \in Seq(TreeKeys) /\ r \in Seq(TreeKeys) /\ IsPrefix(p, r)
    BY <1>1 DEF Paths
  <2> QED BY <2>1, PathOn DEF Paths
<1>4. p \in below
  BY <1>1 DEF IsPrefix
<1>5. IsFiniteSet({F(r) : r \in below})
  <2> DEFINE f == [r \in below |-> F(r)]
  <2>1. IsFiniteSet(below)
    BY <1>1, FS_Subset
  <2>2. IsFiniteSet({f[x] : x \in below})
    <3>1. DOMAIN f = below
      OBVIOUS
    <3> HIDE DEF f, below
    <3> QED BY <2>1, <3>1, FiniteImage
  <2>3. {f[x] : x \in below} = {F(r) : r \in below}
    OBVIOUS
  <2> QED BY <2>2, <2>3
<1>6. \A r \in below : F(r) \in DOMAIN t /\ t[F(r)] = v[r]
  BY <1>2, <1>3, ZenonT(60)
<1>7. \A q \in DOMAIN t : \E r \in below : q = F(r)
  BY <1>2
<1>8. t = [q \in DOMAIN t |-> t[q]] /\ DOMAIN t = {F(r) : r \in below}
  BY <1>2
<1>9. \A r \in below : r \in DOMAIN v /\ IsPrefix(p, r)
  OBVIOUS
<1>10. \A r \in DOMAIN v : IsPrefix(p, r) => r \in below
  OBVIOUS
<1> HIDE DEF t, below, F
<1>11. \A q \in DOMAIN t : NodeOK(t[q])
  BY <1>1, <1>6, <1>7, <1>9
<1>12. ASSUME NEW r \in below, F(r) # <<>> PROVE HasParent(t, F(r))
  <2>1. /\ r # <<>> /\ Last(F(r)) = Last(r) /\ IsPrefix(p, Front(r)) /\ Front(F(r)) = F(Front(r))
    BY <1>3, <1>12
  <2>2. HasParent(v, r)
    BY <1>1, <1>9, <2>1
  <2>3. Front(r) \in below
    BY <1>10, <2>1, <2>2 DEF HasParent
  <2>4. F(Front(r)) \in DOMAIN t /\ t[F(Front(r))] = v[Front(r)]
    BY <1>6, <2>3
  <2> QED BY <2>1, <2>2, <2>4 DEF HasParent
<1>13. t \in [DOMAIN t -> Nodes]
  <2>1. \A q \in DOMAIN t : t[q] \in Nodes
    BY <1>11 DEF NodeOK
  <2> QED BY <1>8, <2>1
<1>14. DOMAIN t \subseteq Paths
  BY <1>3, <1>7
<1>15. <<>> \in DOMAIN t
  BY <1>3, <1>4, <1>6
<1>16. IsTree(t)
  <2>1. \A q \in DOMAIN t : q # <<>> => HasParent(t, q)
    BY <1>7, <1>12
  <2>2. IsFiniteSet(DOMAIN t)
    BY <1>5, <1>8
  <2> QED BY <1>11, <1>13, <1>14, <1>15, <2>1, <2>2 DEF IsTree, Grove
<1>17. \A q \in DOMAIN t : \E r \in DOMAIN v : t[q] = v[r]
  BY <1>6, <1>7, <1>9
<1> QED BY <1>16, <1>17 DEF t

\* Containers in each other are a tree.
LEMMA NestedIs ==
  ASSUME NEW d \in Nat
  PROVE  IsTree(Nested(d)) /\ (d = 0 => Nested(d) = Undefined)
<1> DEFINE P(n) == [i \in 1..n |-> Indexed(1)]
           D == {P(n) : n \in 0..d}
           t == Nested(d)
<1>1. t = [p \in D |-> Node(IF Len(p) = d THEN "undefined" ELSE "array", <<>>)]
  BY DEF Nested
<1>2. \A n \in Nat : P(n) \in Paths /\ Len(P(n)) = n
  BY KeyOf DEF Paths
<1>3. \A n \in 0..d : n \in Nat
  OBVIOUS
<1>4. \A n \in 1..d : /\ P(n) # <<>> /\ Front(P(n)) = P(n - 1) /\ n - 1 \in 0..d /\ n # 0
                      /\ n - 1 \in Nat /\ n - 1 # d
  <2> TAKE n \in 1..d
  <2>1. n \in Nat /\ n - 1 \in Nat /\ n - 1 \in 0..d /\ n # 0 /\ n >= 1 /\ n - 1 # d
    OBVIOUS
  <2>2. P(n) # <<>> /\ P(n) \in Paths /\ Len(P(n)) = n
    BY <1>2, <2>1
  <2>3. /\ Front(P(n)) \in Paths /\ Len(Front(P(n))) = n - 1
        /\ \A i \in 1..(n - 1) : Front(P(n))[i] = P(n)[i]
    <3> HIDE DEF P
    <3> QED BY <2>2, PathEnd DEF Paths
  <2>4. P(n - 1) \in Paths /\ Len(P(n - 1)) = n - 1
    BY <1>2, <2>1
  <2>5. \A i \in 1..(n - 1) : P(n)[i] = P(n - 1)[i]
    BY <2>1
  <2> HIDE DEF P
  <2>6. Front(P(n)) = P(n - 1)
    BY <2>3, <2>4, <2>5, SamePath DEF Paths
  <2> QED BY <2>1, <2>2, <2>6
<1>5. P(0) = <<>>
  OBVIOUS
<1>6. IsFiniteSet(D)
  <2> DEFINE f == [n \in 0..d |-> P(n)]
  <2>1. IsFiniteSet(0..d)
    BY FS_Interval
  <2>2. IsFiniteSet({f[x] : x \in 0..d})
    <3>1. DOMAIN f = 0..d
      OBVIOUS
    <3> HIDE DEF f
    <3> QED BY <2>1, <3>1, FiniteImage
  <2>3. {f[x] : x \in 0..d} = D
    OBVIOUS
  <2> QED BY <2>2, <2>3
<1>7. t \in [DOMAIN t -> Nodes] /\ DOMAIN t = D
  <2>1. \A p : Node(IF Len(p) = d THEN "undefined" ELSE "array", <<>>) \in Nodes
    BY DEF Node, Nodes, Kinds
  <2> HIDE DEF D
  <2> QED BY <1>1, <2>1
<1>8. \A n \in 0..d : P(n) \in DOMAIN t
                      /\ t[P(n)] = Node(IF n = d THEN "undefined" ELSE "array", <<>>)
  <2> TAKE n \in 0..d
  <2>1. P(n) \in D /\ Len(P(n)) = n
    BY <1>2, <1>3
  <2> HIDE DEF D, P
  <2> QED BY <1>1, <2>1
<1>9. \A q \in DOMAIN t : \E n \in 0..d : q = P(n)
  BY <1>7
<1> HIDE DEF P, D, t
<1>10. ASSUME NEW q \in DOMAIN t PROVE NodeOK(t[q]) /\ (q # <<>> => HasParent(t, q))
  <2>1. PICK n \in 0..d : q = P(n)
    BY <1>9
  <2>2. t[q] = Node(IF n = d THEN "undefined" ELSE "array", <<>>)
    BY <1>8, <2>1
  <2>3. NodeOK(t[q])
    <3>1. "array" \in Containers
      BY DEF Containers
    <3> QED BY <2>2, <3>1, NodeIs
  <2>4. ASSUME q # <<>> PROVE HasParent(t, q)
    <3>1. n \in 1..d
      BY <1>5, <2>1, <2>4
    <3>2. Front(q) = P(n - 1) /\ n - 1 \in 0..d /\ n - 1 # d
      BY <1>4, <2>1, <3>1
    <3>3. Front(q) \in DOMAIN t /\ t[Front(q)] = Node("array", <<>>)
      BY <1>8, <3>2
    <3>4. t[Front(q)].kind = "array"
      BY <3>3 DEF Node
    <3> QED BY <3>3, <3>4 DEF HasParent, Containers
  <2> QED BY <2>3, <2>4
<1>11. DOMAIN t \subseteq Paths
  BY <1>2, <1>3, <1>9
<1>12. <<>> \in DOMAIN t
  <2>1. 0 \in 0..d
    OBVIOUS
  <2> QED BY <1>5, <1>8, <2>1
<1>13. d = 0 => t = Undefined
  <2> SUFFICES ASSUME d = 0 PROVE t = Undefined
    OBVIOUS
  <2>1. \A q : q \in DOMAIN t <=> q = <<>>
    BY <1>5, <1>9, <1>12
  <2>2. t[<<>>] = Node("undefined", <<>>)
    <3>1. 0 \in 0..d
      OBVIOUS
    <3> QED BY <1>5, <1>8, <3>1
  <2>3. DOMAIN t = {<<>>}
    BY <2>1
  <2>4. t = [q \in {<<>>} |-> t[q]]
    BY <1>7, <2>3
  <2> QED BY <2>2, <2>4 DEF Undefined, Leaf
<1> QED BY <1>6, <1>7, <1>10, <1>11, <1>12, <1>13 DEF IsTree, Grove, t

-----------------------------------------------------------------------------
(* Sequences and numbers. *)

\* What a concatenation has at each place.
LEMMA Cat ==
  ASSUME NEW S, NEW s \in Seq(S), NEW u \in Seq(S)
  PROVE  /\ s \o u \in Seq(S) /\ Len(s) \in Nat /\ Len(u) \in Nat /\ Len(s \o u) = Len(s) + Len(u)
         /\ \A i \in 1..Len(s) : (s \o u)[i] = s[i]
         /\ \A i \in 1..Len(u) : (s \o u)[Len(s) + i] = u[i]
OBVIOUS

\* A sequence of one.
LEMMA OneIs ==
  ASSUME NEW S, NEW x \in S
  PROVE  <<x>> \in Seq(S) /\ Len(<<x>>) = 1 /\ <<x>>[1] = x /\ <<x>> # <<>>
OBVIOUS

\* What a part of a sequence has at each place.
LEMMA SubIs ==
  ASSUME NEW S, NEW s \in Seq(S), NEW m \in Nat, m >= 1, NEW n \in Nat, n <= Len(s), m <= n + 1
  PROVE  /\ SubSeq(s, m, n) \in Seq(S) /\ Len(SubSeq(s, m, n)) = n + 1 - m
         /\ \A i \in 1..(n + 1 - m) : SubSeq(s, m, n)[i] = s[m + i - 1]
<1> DEFINE l == Len(s)
           t == SubSeq(s, m, n)
<1>1. l \in Nat /\ n <= l /\ \A i \in 1..l : s[i] \in S
  OBVIOUS
<1> HIDE DEF l
<1>2. \A i \in m..n : s[i] \in S
  BY <1>1
<1>3. /\ t \in Seq(S) /\ Len(t) = IF m <= n THEN n - m + 1 ELSE 0
      /\ \A i \in 1..(n - m + 1) : t[i] = s[m + i - 1]
  BY <1>2, SubSeqProperties
<1> HIDE DEF t
<1>4. Len(t) = n + 1 - m
  BY <1>3
<1>5. n - m + 1 = n + 1 - m
  OBVIOUS
<1> QED BY <1>3, <1>4, <1>5 DEF t

\* LastDigit stands at the end of the digits.
LEMMA LastDigitIs ==
  ASSUME NEW s \in Seq(Chars), NEW i \in 1..(Len(s) + 1)
  PROVE  /\ LastDigit(s, i) \in (i - 1)..Len(s)
         /\ \A k \in i..LastDigit(s, i) : s[k] \in Digit
         /\ LastDigit(s, i) = Len(s) \/ s[LastDigit(s, i) + 1] \notin Digit
<1> DEFINE m == Len(s)
           T == {n \in (i - 1)..m : n = m \/ s[n + 1] \notin Digit}
<1>1. m \in Nat /\ i \in Nat /\ i >= 1 /\ i - 1 <= m /\ i - 1 \in Nat
  OBVIOUS
<1> HIDE DEF m
<1>2. m \in T /\ T \in SUBSET Nat
  BY <1>1
<1>3. PICK n \in T : \A y \in T : n <= y
  BY <1>2, LeastNumber
<1>4. \A k \in i..n : s[k] \in Digit
  <2> TAKE k \in i..n
  <2>1. k - 1 \in (i - 1)..m /\ k - 1 # m /\ ~(n <= k - 1) /\ k - 1 + 1 = k
    BY <1>1, <1>3
  <2>2. k - 1 \notin T
    BY <1>3, <2>1
  <2> QED BY <2>1, <2>2
<1>5. n \in (i - 1)..m /\ (n = m \/ s[n + 1] \notin Digit)
  BY <1>3
<1>6. \E x \in (i - 1)..m : /\ \A k \in i..x : s[k] \in Digit
                            /\ x = m \/ s[x + 1] \notin Digit
  BY <1>4, <1>5
<1> QED BY <1>6, Zenon DEF LastDigit, m

\* What the digits of a number are, for LastDigit.
LEMMA DigitsEnd ==
  ASSUME NEW s \in Seq(Chars), NEW i \in 1..(Len(s) + 1), NEW n \in (i - 1)..Len(s),
         \A k \in i..n : s[k] \in Digit, n = Len(s) \/ s[n + 1] \notin Digit
  PROVE  LastDigit(s, i) = n
<1> DEFINE m == Len(s)
           l == LastDigit(s, i)
<1>1. m \in Nat /\ i \in Nat /\ i >= 1 /\ n \in (i - 1)..m
  OBVIOUS
<1>2. /\ l \in (i - 1)..m /\ \A k \in i..l : s[k] \in Digit
      /\ l = m \/ s[l + 1] \notin Digit
  BY LastDigitIs
<1>3. n = m \/ s[n + 1] \notin Digit
  OBVIOUS
<1> HIDE DEF m, l
<1>4. ~(l < n)
  <2> SUFFICES ASSUME l < n PROVE FALSE
    OBVIOUS
  <2>1. l + 1 \in i..n /\ l # m
    BY <1>1, <1>2
  <2> QED BY <1>2, <2>1
<1>5. ~(n < l)
  <2> SUFFICES ASSUME n < l PROVE FALSE
    OBVIOUS
  <2>1. n + 1 \in i..l /\ n # m
    BY <1>1, <1>2
  <2> QED BY <1>2, <1>3, <2>1
<1> QED BY <1>1, <1>2, <1>4, <1>5 DEF l

\* What from_chars and stod make of a text that begins with a digit is a
\* number.
LEMMA NumberIsOne ==
  ASSUME NEW s \in Seq(Chars), s # <<>>, s[1] \in Digit, NEW decimal \in BOOLEAN
  PROVE  Number(s, decimal) \in Seq(Chars) /\ IsNumber(Number(s, decimal))
<1> DEFINE m == Len(s)
           w == LastDigit(s, 1)
           head == SubSeq(s, 1, w)
<1>1. m \in Nat /\ m >= 1 /\ \A i \in 1..m : s[i] \in Chars
  OBVIOUS
<1>2. /\ w \in 0..m /\ (\A k \in 1..w : s[k] \in Digit) /\ (w = m \/ s[w + 1] \notin Digit)
  <2>1. 1 \in 1..(Len(s) + 1)
    BY <1>1
  <2>2. 1 - 1 = 0
    OBVIOUS
  <2> QED BY <2>1, <2>2, LastDigitIs
<1> HIDE DEF m, w
<1>3. w \in Nat /\ w >= 1 /\ w <= m
  <2>1. w # 0
    <3> SUFFICES ASSUME w = 0 PROVE FALSE
      OBVIOUS
    <3>1. w + 1 = 1 /\ w # m
      BY <1>1
    <3> QED BY <1>2, <3>1
  <2> QED BY <1>1, <1>2, <2>1
<1>4. /\ head \in Seq(Chars) /\ Len(head) = w
      /\ \A i \in 1..w : head[i] \in Digit
  <2>1. /\ head \in Seq(Chars) /\ Len(head) = w + 1 - 1
        /\ \A i \in 1..(w + 1 - 1) : head[i] = s[1 + i - 1]
    BY <1>3, SubIs DEF m
  <2> HIDE DEF head
  <2>2. w + 1 - 1 = w /\ \A i \in 1..w : 1 + i - 1 = i
    BY <1>3
  <2> QED BY <1>2, <2>1, <2>2
<1> HIDE DEF head
<1>5. ASSUME NEW t \in Seq(Chars), t # <<>>, \A i \in 1..Len(t) : t[i] \in Digit
      PROVE  /\ head \o (<<".">> \o t) \in Seq(Chars)
             /\ IsNumber(head \o (<<".">> \o t))
  <2> DEFINE dot == <<".">> \o t
             n == Len(t)
             r == head \o dot
  <2>1. n \in Nat /\ n >= 1
    BY <1>5
  <2>2. /\ dot \in Seq(Chars) /\ Len(dot) = n + 1 /\ dot[1] = "."
        /\ \A i \in 1..n : dot[i + 1] = t[i]
    <3>1. <<".">> \in Seq(Chars) /\ Len(<<".">>) = 1 /\ <<".">>[1] = "."
      BY MarksIn, OneIs
    <3>2. /\ dot \in Seq(Chars) /\ Len(dot) = Len(<<".">>) + n
          /\ \A i \in 1..Len(<<".">>) : dot[i] = <<".">>[i]
          /\ \A i \in 1..n : dot[Len(<<".">>) + i] = t[i]
      BY <3>1, <1>5, Cat
    <3> HIDE DEF dot, n
    <3> QED BY <2>1, <3>1, <3>2
  <2> HIDE DEF dot
  <2>3. /\ r \in Seq(Chars) /\ Len(r) = w + (n + 1)
        /\ \A i \in 1..w : r[i] = head[i]
        /\ \A i \in 1..(n + 1) : r[w + i] = dot[i]
    <3>1. /\ r \in Seq(Chars) /\ Len(r) = Len(head) + Len(dot)
          /\ \A i \in 1..Len(head) : r[i] = head[i]
          /\ \A i \in 1..Len(dot) : r[Len(head) + i] = dot[i]
      <4>1. head \in Seq(Chars) /\ dot \in Seq(Chars)
        BY <1>4, <2>2
      <4> HIDE DEF dot, n
        <4> QED BY <4>1, Cat
    <3> HIDE DEF r, n
    <3> QED BY <1>4, <2>2, <3>1
  <2> HIDE DEF r
  <2>4. \A i \in 1..n : t[i] \in Digit
    BY <1>5
  <2> HIDE DEF n
  <2>5. r[w + 1] = "."
    BY <2>1, <2>2, <2>3
  <2>6. AreDigits(r, 1, w + 1 - 1)
    BY <1>3, <1>4, <2>3 DEF AreDigits
  <2>7. AreDigits(r, w + 1 + 1, Len(r))
    <3>1. w + 1 + 1 <= Len(r)
      BY <1>3, <2>1, <2>3
    <3>2. ASSUME NEW k \in (w + 1 + 1)..Len(r) PROVE r[k] \in Digit
      <4>1. k - w - 1 \in 1..n /\ (k - w - 1) + 1 \in 1..(n + 1) /\ w + ((k - w - 1) + 1) = k
        BY <1>3, <2>1, <2>3
      <4>2. r[k] = dot[(k - w - 1) + 1]
        BY <2>3, <4>1
      <4> QED BY <2>2, <2>4, <4>1, <4>2
    <3> QED BY <3>1, <3>2 DEF AreDigits
  <2>8. w + 1 \in 1..Len(r)
    BY <1>3, <2>1, <2>3
  <2>9. IsNumber(r)
    <3>1. \E d \in 1..Len(r) : r[d] = "." /\ AreDigits(r, 1, d - 1) /\ AreDigits(r, d + 1, Len(r))
      <4> WITNESS w + 1 \in 1..Len(r)
      <4> QED BY <1>3, <2>5, <2>6, <2>7
    <3>2. 1 \in {1, 2} /\ 1 # 2
      OBVIOUS
    <3> QED BY <3>1, <3>2 DEF IsNumber
  <2> QED BY <2>3, <2>9 DEF r, dot
<1>6. IsNumber(head)
  <2>1. AreDigits(head, 1, Len(head))
    BY <1>3, <1>4 DEF AreDigits
  <2> QED BY <2>1 DEF IsNumber
<1> DEFINE fraction == IF w < m /\ s[w + 1] = "."
                       THEN SubSeq(s, w + 2, LastDigit(s, w + 2)) ELSE <<>>
<1>7. /\ fraction \in Seq(Chars) /\ \A i \in 1..Len(fraction) : fraction[i] \in Digit
  <2>1. CASE w < m /\ s[w + 1] = "."
    <3> DEFINE e == LastDigit(s, w + 2)
    <3>1. w + 2 \in 1..(Len(s) + 1) /\ w + 2 - 1 = w + 1
      BY <1>1, <1>3, <2>1 DEF m
    <3>2. e \in (w + 1)..m /\ \A k \in (w + 2)..e : s[k] \in Digit
      <4>1. \A j \in 1..(Len(s) + 1) : /\ LastDigit(s, j) \in (j - 1)..Len(s)
                                     /\ \A k \in j..LastDigit(s, j) : s[k] \in Digit
        BY LastDigitIs
      <4> HIDE DEF fraction, e
      <4>2. /\ LastDigit(s, w + 2) \in ((w + 2) - 1)..Len(s)
            /\ \A k \in (w + 2)..LastDigit(s, w + 2) : s[k] \in Digit
        BY <3>1, <4>1, Zenon
      <4>3. (w + 2) - 1 = w + 1
        BY <1>3
      <4> QED BY <4>2, <4>3 DEF m, e
    <3> HIDE DEF e
    <3>3. e \in Nat /\ e <= Len(s) /\ w + 2 <= e + 1 /\ w + 2 \in Nat /\ w + 2 >= 1
      BY <1>1, <1>3, <3>2 DEF m
    <3>4. fraction = SubSeq(s, w + 2, e)
      BY <2>1 DEF e
    <3> HIDE DEF fraction
    <3>5. /\ fraction \in Seq(Chars) /\ Len(fraction) = e + 1 - (w + 2)
          /\ \A i \in 1..(e + 1 - (w + 2)) : fraction[i] = s[(w + 2) + i - 1]
      BY <3>3, <3>4, SubIs, SMTT(40)
    <3>6. ASSUME NEW i \in 1..Len(fraction) PROVE fraction[i] \in Digit
      <4>1. i \in 1..(e + 1 - (w + 2)) /\ (w + 2) + i - 1 \in (w + 2)..e
        BY <1>3, <3>3, <3>5
      <4> QED BY <3>2, <3>5, <4>1
    <3> QED BY <3>5, <3>6
  <2>2. CASE ~(w < m /\ s[w + 1] = ".")
    <3>1. fraction = <<>>
      BY <2>2
    <3> HIDE DEF fraction
    <3> QED BY <3>1
  <2> QED BY <2>1, <2>2
<1>8. Number(s, decimal) =
        head \o (CASE ~decimal -> <<>>
                   [] decimal /\ fraction = <<>> -> <<".", "0">>
                   [] decimal /\ fraction # <<>> -> <<".">> \o fraction)
  BY DEF Number, head, w, m
<1> HIDE DEF fraction
<1>9. CASE ~decimal
  <2>1. Number(s, decimal) = head \o <<>>
    BY <1>8, <1>9
  <2>2. head \o <<>> = head
    BY <1>4
  <2> QED BY <1>4, <1>6, <2>1, <2>2
<1>10. CASE decimal /\ fraction = <<>>
  <2>1. Number(s, decimal) = head \o <<".", "0">>
    BY <1>8, <1>10
  <2>2. <<".", "0">> = <<".">> \o <<"0">>
    OBVIOUS
  <2>3. <<"0">> \in Seq(Chars) /\ <<"0">> # <<>> /\ Len(<<"0">>) = 1 /\ <<"0">>[1] = "0"
    BY MarksIn, OneIs
  <2>4. \A i \in 1..Len(<<"0">>) : <<"0">>[i] \in Digit
    <3> "0" \in Digit
      BY DEF Digit
    <3> QED BY <2>3
  <2> QED BY <1>5, <2>1, <2>2, <2>3, <2>4
<1>11. CASE decimal /\ fraction # <<>>
  <2>1. Number(s, decimal) = head \o (<<".">> \o fraction)
    BY <1>8, <1>11
  <2> QED BY <1>5, <1>7, <1>11, <2>1
<1> QED BY <1>9, <1>10, <1>11

-----------------------------------------------------------------------------
(* The types of the reader: calls, and the tree built so far. *)

\* The steps over layout end where the code says, and there is one such place.
LEMMA NextCharIs ==
  ASSUME text \in Seq(Chars), NEW first \in Nat, first <= Len(text), NEW last \in Int
  PROVE  LET q == NextChar(first, last)
         IN  /\ q \in (first + 1)..(Len(text) + 1)
             /\ ~IsSpace(q) \/ q >= last
             /\ \A r \in (first + 1)..(q - 1) : IsSpace(r) /\ r < last
<1> DEFINE n == Len(text)
           T == {q \in (first + 1)..(n + 1) : ~IsSpace(q) \/ q >= last}
<1>1. n \in Nat /\ first <= n /\ DOMAIN text = 1..n
  OBVIOUS
<1> HIDE DEF n
<1>2. n + 1 \in T
  <2>1. ~IsSpace(n + 1)
    <3>1. n + 1 \notin DOMAIN text
      BY <1>1
    <3> QED BY <3>1, Zenon DEF IsSpace
  <2> QED BY <1>1, <2>1
<1>3. T \in SUBSET Nat
  BY <1>1
<1>4. PICK q \in T : \A y \in T : q <= y
  BY <1>2, <1>3, LeastNumber
<1>5. ASSUME NEW r \in (first + 1)..(q - 1) PROVE IsSpace(r) /\ r < last
  <2>1. r \in (first + 1)..(n + 1) /\ ~(q <= r)
    BY <1>1, <1>4
  <2>2. r \notin T
    BY <1>4, <2>1
  <2> QED BY <2>1, <2>2
<1>6. \E x \in (first + 1)..(n + 1) :
         /\ ~IsSpace(x) \/ x >= last
         /\ \A r \in (first + 1)..(x - 1) : IsSpace(r) /\ r < last
  BY <1>4, <1>5
<1> QED BY <1>6, Zenon DEF NextChar, n

\* PrevChar finds the last place that is not layout, or where to stop.
LEMMA PrevCharIs ==
  ASSUME text \in Seq(Chars), NEW last \in Nat, last >= 1, NEW first \in Int
  PROVE  LET q == PrevChar(first, last)
         IN  /\ q \in 0..(last - 1)
             /\ ~IsSpace(q) \/ q <= first
             /\ \A r \in (q + 1)..(last - 1) : IsSpace(r) /\ r > first
<1> DEFINE T == {l \in 0..(last - 1) : ~IsSpace(last - 1 - l) \/ last - 1 - l <= first}
<1>1. last - 1 \in T
  <2>1. ~IsSpace(0)
    <3>1. 0 \notin DOMAIN text
      OBVIOUS
    <3> QED BY <3>1, Zenon DEF IsSpace
  <2>2. last - 1 - (last - 1) = 0 /\ last - 1 \in 0..(last - 1)
    OBVIOUS
  <2> QED BY <2>1, <2>2
<1>2. T \in SUBSET Nat
  OBVIOUS
<1>3. PICK l \in T : \A y \in T : l <= y
  BY <1>1, <1>2, LeastNumber
<1> DEFINE q == last - 1 - l
<1>4. q \in 0..(last - 1) /\ (~IsSpace(q) \/ q <= first) /\ l \in Nat
  BY <1>3
<1>5. ASSUME NEW r \in (q + 1)..(last - 1) PROVE IsSpace(r) /\ r > first
  <2>1. last - 1 - r \in 0..(last - 1) /\ ~(l <= last - 1 - r) /\ last - 1 - (last - 1 - r) = r
    BY <1>4
  <2>2. last - 1 - r \notin T
    BY <1>3, <2>1
  <2>3. IsSpace(r) /\ ~(r <= first)
    BY <2>1, <2>2
  <2> QED BY <2>3, <1>4
<1>6. \E x \in 0..(last - 1) :
         /\ ~IsSpace(x) \/ x <= first
         /\ \A r \in (x + 1)..(last - 1) : IsSpace(r) /\ r > first
  BY <1>4, <1>5
<1> QED BY <1>6, Zenon DEF PrevChar

\* Calls of BuildJsonHelper.
ReadFrames == [path : Paths, first : Nat, last : Nat \cup {-1}, comma : Nat, item : Paths]

\* The loop over a container is between two places of the text, and has made
\* no items after the one it is at.
OpenFrame(b, c, n) ==
    /\ c.path \in DOMAIN b /\ b[c.path].kind \in Containers
    /\ 1 <= c.first /\ c.first < c.last /\ c.last <= n
    /\ b[c.path].kind = "array" =>
          \A q \in Inner(b, c.path) :
              /\ Last(q) = Indexed(Last(q).at)
              /\ c.item # <<>> /\ Last(q).at <= Last(c.item).at

\* The loop waits for the value at q.
WaitsFor(b, c, q) ==
    /\ c.item = q /\ q # <<>> /\ Front(q) = c.path
    /\ c.first < c.comma /\ c.comma <= c.last
    /\ b[c.path].kind = "dict" => Last(q) = Labelled(Last(q).label)
    /\ b[c.path].kind = "array" => Last(q) = Indexed(Last(q).at)

Scans(sc, from, until) ==
    /\ sc.until = until /\ sc.at \in Nat /\ from <= sc.at /\ sc.at <= until

\* What the top call has come to, as far as its types need it.
TopOK(st, b, sc, t, c) ==
    CASE st = "enter" -> /\ c.path \notin DOMAIN b
                           /\ 1 <= c.first /\ c.first <= Len(t) + 1 /\ c.last <= Len(t)
      [] st = "comma" -> OpenFrame(b, c, Len(t)) /\ Scans(sc, c.first, c.last)
      [] st = "colon" -> /\ OpenFrame(b, c, Len(t)) /\ b[c.path].kind = "dict"
                           /\ c.first < c.comma /\ c.comma <= c.last
                           /\ Scans(sc, c.first, c.comma)
      [] st = "dot"   -> /\ c.path \notin DOMAIN b /\ Scans(sc, c.first, c.last)
                           /\ 1 <= c.first /\ c.first < c.last /\ c.last <= Len(t)
                           /\ t[c.first] \in Digit
      [] st = "leave" -> c.path \in DOMAIN b

RSteps == {"enter", "comma", "colon", "dot", "leave"}

\* The calls are for a value, one in it, and so on, and the tree built so far
\* is one.
ReadOK ==
    /\ calls \in Seq(ReadFrames) /\ calls # <<>>
    /\ \A k \in 1..Len(calls) : Len(calls[k].path) = k - 1
    /\ \A k \in 1..(Len(calls) - 1) :
           OpenFrame(built, calls[k], Len(text)) /\ WaitsFor(built, calls[k], calls[k + 1].path)
    /\ Grove(built)
    /\ TopOK(step, built, scan, text, Last(calls))

ReadInv ==
    /\ text \in Seq(Chars)
    /\ step \in RSteps => ReadOK
    /\ step \in {"idle", "writing", "written", "null", "loops"} => built = <<>>
    /\ step = "built" => IsTree(built)

\* The place of the top call's value is in the container of the call below.
LEMMA TopHasParent ==
  ASSUME ReadOK
  PROVE  Last(calls).path # <<>> => HasParent(built, Last(calls).path)
<1> DEFINE m == Len(calls)
<1>1. m \in Nat /\ m >= 1 /\ Last(calls) = calls[m] /\ calls[m] \in ReadFrames
  BY DEF ReadOK, Last
<1> HIDE DEF m
<1>2. SUFFICES ASSUME Last(calls).path # <<>> PROVE HasParent(built, Last(calls).path)
  OBVIOUS
<1>3. m # 1
  <2> SUFFICES ASSUME m = 1 PROVE FALSE
    OBVIOUS
  <2>1. Len(calls[1].path) = 1 - 1 /\ calls[1].path \in Paths
    BY <1>1 DEF ReadOK, ReadFrames, m
  <2>2. calls[1].path = <<>>
    BY <2>1 DEF Paths
  <2> QED BY <1>1, <1>2, <2>2
<1>4. m - 1 \in 1..(m - 1) /\ (m - 1) + 1 = m
  BY <1>1, <1>3
<1>5. OpenFrame(built, calls[m - 1], Len(text)) /\ WaitsFor(built, calls[m - 1], calls[m].path)
  BY <1>4 DEF ReadOK, m
<1> QED BY <1>1, <1>5 DEF OpenFrame, WaitsFor, HasParent

\* Only the call below the top has something to do with the place of the top
\* call's value.
LEMMA OthersOpen ==
  ASSUME ReadOK, NEW p, p = Last(calls).path, p \notin DOMAIN built,
         NEW b, DOMAIN b = DOMAIN built \cup {p}, \A q \in DOMAIN built : b[q] = built[q],
         NEW k \in 1..(Len(calls) - 1)
  PROVE  /\ OpenFrame(b, calls[k], Len(text)) /\ WaitsFor(b, calls[k], calls[k + 1].path)
         /\ Inner(b, p) = {}
<1> DEFINE m == Len(calls)
           c == calls[k]
<1>1. m \in Nat /\ m >= 1 /\ p = calls[m].path /\ k \in 1..(m - 1)
  BY DEF ReadOK, Last
<1>2. /\ OpenFrame(built, c, Len(text)) /\ WaitsFor(built, c, calls[k + 1].path)
      /\ Len(c.path) = k - 1 /\ Len(p) = m - 1
  <2> HIDE DEF c
  <2>1. k \in 1..m /\ m \in 1..m
    BY <1>1
  <2>2. Len(calls[k].path) = k - 1 /\ Len(calls[m].path) = m - 1
    BY <2>1 DEF ReadOK
  <2>3. OpenFrame(built, calls[k], Len(text)) /\ WaitsFor(built, calls[k], calls[k + 1].path)
    BY DEF ReadOK
  <2> QED BY <1>1, <2>2, <2>3 DEF c
<1> HIDE DEF m
<1>3. c.path \in DOMAIN built /\ b[c.path] = built[c.path]
  BY <1>2 DEF OpenFrame
<1>4. \A q \in Inner(b, c.path) : q \in Inner(built, c.path) \/ q = p
  BY DEF Inner
<1>5. ASSUME p \in Inner(b, c.path) PROVE c.item = p
  <2>1. Front(p) = c.path /\ p # <<>>
    BY <1>5 DEF Inner
  <2>2. p \in Paths
    <3>1. calls[m] \in ReadFrames
      BY <1>1 DEF ReadOK, m
    <3> QED BY <1>1, <3>1 DEF ReadFrames
  <2>3. Len(c.path) = Len(p) - 1
    BY <2>1, <2>2, PathEnd DEF Paths
  <2>4. k + 1 = m
    BY <1>1, <1>2, <2>3
  <2> QED BY <1>1, <1>2, <2>4 DEF WaitsFor
<1>6. OpenFrame(b, c, Len(text))
  <2>1. ASSUME b[c.path].kind = "array", NEW q \in Inner(b, c.path)
        PROVE  /\ Last(q) = Indexed(Last(q).at)
               /\ c.item # <<>> /\ Last(q).at <= Last(c.item).at
    <3>1. CASE q \in Inner(built, c.path)
      BY <1>2, <1>3, <2>1, <3>1 DEF OpenFrame
    <3>2. CASE q = p
      <4>1. c.item = p /\ Last(p) = Indexed(Last(p).at) /\ p # <<>>
        BY <1>2, <1>3, <1>5, <2>1, <3>2 DEF WaitsFor
      <4>2. Last(p) \in TreeKeys
        <5>1. calls[m] \in ReadFrames
          BY <1>1 DEF ReadOK, m
        <5>2. p \in Seq(TreeKeys)
          BY <1>1, <5>1 DEF ReadFrames, Paths
        <5> QED BY <4>1, <5>2, PathEnd
      <4>3. Last(p).at <= Last(p).at
        BY <4>2 DEF TreeKeys
      <4> QED BY <3>2, <4>1, <4>3
    <3> QED BY <1>4, <2>1, <3>1, <3>2
  <2> QED BY <1>2, <1>3, <2>1 DEF OpenFrame
<1>7. WaitsFor(b, c, calls[k + 1].path)
  BY <1>2, <1>3 DEF WaitsFor
<1>8. Inner(b, p) = {}
  <2> SUFFICES ASSUME NEW q \in Inner(b, p) PROVE FALSE
    OBVIOUS
  <2>1. q # <<>> /\ Front(q) = p /\ (q \in DOMAIN built \/ q = p)
    BY DEF Inner
  <2>2. CASE q \in DOMAIN built
    <3>1. HasParent(built, q)
      BY <2>1, <2>2 DEF ReadOK, Grove
    <3> QED BY <2>1, <3>1 DEF HasParent
  <2>3. CASE q = p
    <3>1. calls[m] \in ReadFrames
      BY <1>1 DEF ReadOK, m
    <3>2. p \in Seq(TreeKeys)
      BY <1>1, <3>1 DEF ReadFrames, Paths
    <3>3. Len(Front(p)) = Len(p) - 1 /\ Len(p) \in Nat
      BY <2>1, <2>3, <3>2, PathEnd
    <3> QED BY <2>1, <2>3, <3>3
  <2> QED BY <2>1, <2>2, <2>3
<1> QED BY <1>6, <1>7, <1>8

\* A value that is made at the place of a call keeps the tree one.
LEMMA MadeOK ==
  ASSUME ReadOK, Last(calls).path \notin DOMAIN built, NEW node, NodeOK(node), Make(node)
  PROVE  LET p == Last(calls).path
         IN  /\ Grove(built') /\ p \in DOMAIN built' /\ built'[p] = node /\ Inner(built', p) = {}
             /\ DOMAIN built' = DOMAIN built \cup {p}
             /\ \A q \in DOMAIN built : built'[q] = built[q]
             /\ \A k \in 1..(Len(calls) - 1) :
                    /\ OpenFrame(built', calls[k], Len(text))
                    /\ WaitsFor(built', calls[k], calls[k + 1].path)
<1> DEFINE p == Last(calls).path
<1>1. built' = [q \in DOMAIN built \cup {p} |-> IF q = p THEN node ELSE built[q]]
  BY DEF Make
<1>2. Grove(built) /\ p \in Paths /\ p \notin DOMAIN built
  <2>1. Last(calls) \in ReadFrames
    BY DEF ReadOK, Last
  <2> QED BY <2>1 DEF ReadOK, ReadFrames
<1>3. p # <<>> => HasParent(built, p)
  BY TopHasParent
<1>4. DOMAIN built' = DOMAIN built \cup {p} /\ built'[p] = node
      /\ \A q \in DOMAIN built : built'[q] = built[q]
  BY <1>1, <1>2
<1> HIDE DEF p
<1>5. Grove(built')
  BY <1>1, <1>2, <1>3, GrownTree
<1>6. ASSUME NEW k \in 1..(Len(calls) - 1)
      PROVE  /\ OpenFrame(built', calls[k], Len(text))
             /\ WaitsFor(built', calls[k], calls[k + 1].path)
  BY <1>2, <1>4, OthersOpen DEF p
<1>7. Inner(built', p) = {}
  <2> SUFFICES ASSUME NEW q \in Inner(built', p) PROVE FALSE
    OBVIOUS
  <2>1. q # <<>> /\ Front(q) = p /\ (q \in DOMAIN built \/ q = p)
    BY <1>4 DEF Inner
  <2>2. CASE q \in DOMAIN built
    <3>1. HasParent(built, q)
      BY <1>2, <2>1, <2>2 DEF Grove
    <3> QED BY <1>2, <2>1, <3>1 DEF HasParent
  <2>3. CASE q = p
    <3>1. p \in Seq(TreeKeys)
      BY <1>2 DEF Paths
    <3>2. Len(Front(p)) = Len(p) - 1 /\ Len(p) \in Nat
      BY <2>1, <2>3, <3>1, PathEnd
    <3> QED BY <2>1, <2>3, <3>2
  <2> QED BY <2>1, <2>2, <2>3
<1> QED BY <1>4, <1>5, <1>6, <1>7 DEF p

\* What is known of the innermost call.
LEMMA TopIs ==
  ASSUME ReadOK
  PROVE  /\ Last(calls) \in ReadFrames /\ Len(calls) \in Nat /\ Len(calls) >= 1
         /\ Last(calls) = calls[Len(calls)]
         /\ Len(Last(calls).path) = Len(calls) - 1 /\ TopOK(step, built, scan, text, Last(calls))
<1> DEFINE m == Len(calls)
<1>1. m \in Nat /\ m >= 1 /\ Last(calls) = calls[m] /\ calls[m] \in ReadFrames
  BY DEF ReadOK, Last
<1>2. m \in 1..m
  BY <1>1
<1>3. Len(calls[m].path) = m - 1
  BY <1>2 DEF ReadOK
<1>4. TopOK(step, built, scan, text, Last(calls))
  BY DEF ReadOK
<1> QED BY <1>1, <1>3, <1>4

\* The frames below the top, and the top call's, where only its step changes.
LEMMA SameCalls ==
  ASSUME ReadOK, UNCHANGED <<calls, text>>, Grove(built'), TopOK(step', built', scan', text', Last(calls')),
         \A k \in 1..(Len(calls) - 1) : /\ OpenFrame(built', calls[k], Len(text))
                                        /\ WaitsFor(built', calls[k], calls[k + 1].path)
  PROVE  ReadOK'
BY DEF ReadOK

\* The steps of the reader keep that.
LEMMA EnterOK ==
  ASSUME ReadOK, text \in Seq(Chars), Enter
  PROVE  /\ text' = text /\ step' \in RSteps \cup {"threw"}
         /\ step' \in RSteps => ReadOK'
<1> DEFINE c == Last(calls)
           p == c.path
<1>1. /\ step = "enter" /\ p \notin DOMAIN built /\ c \in ReadFrames
      /\ 1 <= c.first /\ c.first <= Len(text) + 1 /\ c.last <= Len(text)
  BY TopIs DEF Enter, TopOK
<1>2. calls' = calls /\ text' = text
  BY DEF Enter
<1>3. c.first \in Nat /\ c.last \in Int /\ Len(text) \in Nat
  BY <1>1 DEF ReadFrames
<1>4. ASSUME NEW node, NodeOK(node), Make(node), step' = "leave" PROVE ReadOK'
  <2>1. /\ Grove(built') /\ p \in DOMAIN built'
        /\ \A k \in 1..(Len(calls) - 1) : /\ OpenFrame(built', calls[k], Len(text))
                                           /\ WaitsFor(built', calls[k], calls[k + 1].path)
    BY <1>1, <1>4, MadeOK
  <2>2. TopOK(step', built', scan', text', Last(calls'))
    BY <1>2, <1>4, <2>1 DEF TopOK
  <2> QED BY <1>2, <2>1, <2>2, SameCalls
<1> HIDE DEF c, p
<1>5. CASE EnterNothing
  <2>1. Make(Node("undefined", <<>>)) /\ step' = "leave"
    BY <1>5 DEF EnterNothing
  <2> QED BY <1>2, <1>4, <2>1, NodeIs DEF RSteps
<1>6. CASE EnterContainer
  <2>1. PICK kind \in Containers : Make(Node(kind, <<>>))
    BY <1>6 DEF EnterContainer, Containers
  <2>2. c.first < c.last /\ step' = "comma" /\ scan' = FindChar(c.first, c.last)
    BY <1>6 DEF EnterContainer, Between, c
  <2>3. NodeOK(Node(kind, <<>>)) /\ Node(kind, <<>>).kind = kind
    BY NodeIs
  <2>4. /\ Grove(built') /\ p \in DOMAIN built' /\ built'[p] = Node(kind, <<>>)
        /\ Inner(built', p) = {}
        /\ \A k \in 1..(Len(calls) - 1) : /\ OpenFrame(built', calls[k], Len(text))
                                           /\ WaitsFor(built', calls[k], calls[k + 1].path)
    BY <1>1, <2>1, <2>3, MadeOK DEF c, p
  <2>5. OpenFrame(built', c, Len(text))
    BY <1>1, <2>2, <2>3, <2>4 DEF OpenFrame, p
  <2>6. Scans(scan', c.first, c.last)
    BY <1>2, <1>3, <2>2 DEF Scans, FindChar, c
  <2>7. TopOK(step', built', scan', text', Last(calls'))
    BY <1>2, <2>2, <2>5, <2>6 DEF TopOK, c
  <2>8. ReadOK'
    BY <1>2, <2>4, <2>7, SameCalls
  <2> QED BY <1>2, <2>2, <2>8 DEF RSteps
<1>7. CASE EnterString
  <2>1. SubSeq(text, c.first + 1, c.last - 1) \in Seq(Chars)
    <3>1. c.first < c.last
      BY <1>7 DEF EnterString, Between, c
    <3>2. c.first + 1 \in Nat /\ c.first + 1 >= 1 /\ c.last - 1 \in Nat
          /\ c.last - 1 <= Len(text) /\ c.first + 1 <= (c.last - 1) + 1
      BY <1>1, <1>3, <3>1
    <3> QED BY <3>2, SubIs
  <2>2. NodeOK(Node("string", SubSeq(text, c.first + 1, c.last - 1)))
    BY <2>1, NodeIs
  <2>3. Make(Node("string", SubSeq(text, c.first + 1, c.last - 1))) /\ step' = "leave"
    BY <1>7 DEF EnterString, c
  <2> QED BY <1>2, <1>4, <2>2, <2>3 DEF RSteps
<1>8. CASE EnterNumber
  <2>1. /\ c.first < c.last /\ text[c.first] \in Digit
        /\ step' = "dot" /\ scan' = FindChar(c.first, c.last) /\ built' = built
    BY <1>8 DEF EnterNumber, Between, c
  <2>2. Scans(scan', c.first, c.last)
    BY <1>2, <1>3, <2>1 DEF Scans, FindChar, c
  <2>3. TopOK(step', built', scan', text', Last(calls'))
    BY <1>1, <1>2, <2>1, <2>2 DEF TopOK, c, p
  <2>4. ReadOK'
    <3>1. Grove(built')
      BY <2>1 DEF ReadOK
    <3>2. \A k \in 1..(Len(calls) - 1) : /\ OpenFrame(built', calls[k], Len(text))
                                           /\ WaitsFor(built', calls[k], calls[k + 1].path)
      BY <2>1 DEF ReadOK
    <3> QED BY <1>2, <2>3, <3>1, <3>2, SameCalls
  <2> QED BY <1>2, <2>1, <2>4 DEF RSteps
<1>9. CASE EnterBool
  <2>1. CASE Part \in Bools
    <3>1. Part \in Seq(Chars)
      <4>1. Part = SubSeq(text, c.first, c.last) /\ c.first < c.last
        BY <1>9 DEF Part, EnterBool, c
      <4>2. c.first <= c.last + 1
        BY <1>3, <4>1
      <4> QED BY <1>1, <1>3, <4>1, <4>2, SubIs
    <3>2. NodeOK(Node("scalar", Part))
      BY <2>1, <3>1, NodeIs DEF Printable
    <3>3. Make(Node("scalar", Part)) /\ step' = "leave"
      BY <1>9, <2>1 DEF EnterBool
    <3> QED BY <1>2, <1>4, <3>2, <3>3 DEF RSteps
  <2>2. CASE Part \notin Bools
    <3>1. step' = "threw"
      BY <1>9, <2>2 DEF EnterBool
    <3> QED BY <1>2, <3>1 DEF RSteps
  <2> QED BY <2>1, <2>2
<1> QED BY <1>5, <1>6, <1>7, <1>8, <1>9 DEF Enter

\* FindChar goes on in the text.
LEMMA ScanOK ==
  ASSUME ReadOK, ScanOn
  PROVE  text' = text /\ step' = step /\ step \in RSteps /\ ReadOK'
<1> DEFINE c == Last(calls)
<1>1. /\ step \in {"comma", "colon", "dot"} /\ scan.at # scan.until
      /\ scan' = [scan EXCEPT !.at = @ + 1, !.stack = StackAfter(text[scan.at + 1], @)]
      /\ UNCHANGED <<step, text, calls, built>>
  BY DEF ScanOn, Seeks
<1>2. TopOK(step, built, scan, text, c) /\ c \in ReadFrames
  BY TopIs
<1>3. ASSUME NEW from, NEW until \in Int, Scans(scan, from, until), from \in Nat PROVE Scans(scan', from, until)
  <2>1. /\ scan.until = until /\ scan.at \in Nat /\ from <= scan.at /\ scan.at <= until
    BY <1>3 DEF Scans
  <2>2. scan'.until = scan.until /\ scan'.at = scan.at + 1
    BY <1>1
  <2> QED BY <1>1, <1>3, <2>1, <2>2 DEF Scans
<1>4. c.first \in Nat /\ c.last \in Int /\ c.comma \in Nat
  BY <1>2 DEF ReadFrames
<1> HIDE DEF c
<1>5. TopOK(step', built', scan', text', c)
  <2>1. CASE step = "comma"
    <3>1. OpenFrame(built, c, Len(text)) /\ Scans(scan, c.first, c.last)
      BY <1>2, <2>1 DEF TopOK
    <3>2. Scans(scan', c.first, c.last)
      BY <1>1, <1>3, <1>4, <3>1 DEF c
    <3> QED BY <1>1, <2>1, <3>1, <3>2 DEF TopOK, c
  <2>2. CASE step = "colon"
    <3>1. /\ OpenFrame(built, c, Len(text)) /\ Scans(scan, c.first, c.comma)
          /\ built[c.path].kind = "dict" /\ c.first < c.comma /\ c.comma <= c.last
      BY <1>2, <2>2 DEF TopOK
    <3>2. Scans(scan', c.first, c.comma)
      BY <1>1, <1>3, <1>4, <3>1 DEF c
    <3> QED BY <1>1, <2>2, <3>1, <3>2 DEF TopOK, c
  <2>3. CASE step = "dot"
    <3>1. /\ c.path \notin DOMAIN built /\ Scans(scan, c.first, c.last)
          /\ 1 <= c.first /\ c.first < c.last /\ c.last <= Len(text)
          /\ text[c.first] \in Digit
      BY <1>2, <2>3 DEF TopOK
    <3>2. Scans(scan', c.first, c.last)
      BY <1>1, <1>3, <1>4, <3>1 DEF c
    <3> QED BY <1>1, <2>3, <3>1, <3>2 DEF TopOK, c
  <2> QED BY <1>1, <2>1, <2>2, <2>3
<1>6. Grove(built')
  BY <1>1 DEF ReadOK
<1>7. \A k \in 1..(Len(calls) - 1) : /\ OpenFrame(built', calls[k], Len(text))
                                     /\ WaitsFor(built', calls[k], calls[k + 1].path)
  BY <1>1 DEF ReadOK
<1>8. ReadOK'
  <2>1. TopOK(step', built', scan', text', Last(calls'))
    BY <1>1, <1>5 DEF c
  <2> QED BY <1>1, <1>6, <1>7, <2>1, SameCalls
<1> QED BY <1>1, <1>8 DEF RSteps

\* Where FindChar ends.
LEMMA FindsIs ==
  ASSUME NEW from \in Nat, NEW until \in Nat, Scans(scan, from, until), from < until,
         NEW p \in {scan.until, scan.at + 1}, Finds(p)
  PROVE  p \in Nat /\ from < p /\ p <= until
<1>1. /\ scan.until = until /\ scan.at \in Nat /\ from <= scan.at /\ scan.at <= until
  BY DEF Scans
<1>2. \/ scan.at = scan.until /\ p = scan.until
      \/ scan.at # scan.until /\ p = scan.at + 1
  BY DEF Finds
<1> QED BY <1>1, <1>2

\* The decimal point is sought in the number.
LEMMA DotOK ==
  ASSUME ReadOK, text \in Seq(Chars), DotSought
  PROVE  text' = text /\ step' \in RSteps /\ ReadOK'
<1> DEFINE c == Last(calls)
           p == c.path
<1>1. /\ step = "dot" /\ step' = "leave" /\ UNCHANGED <<calls, text>>
      /\ \E decimal \in BOOLEAN : Make(Node("scalar", Number(Part, decimal)))
  BY DEF DotSought
<1>2. c \in ReadFrames /\ p \notin DOMAIN built
      /\ 1 <= c.first /\ c.first < c.last /\ c.last <= Len(text) /\ text[c.first] \in Digit
  BY <1>1, TopIs DEF TopOK
<1>3. c.first \in Nat /\ c.last \in Int /\ Len(text) \in Nat
  BY <1>2 DEF ReadFrames
<1>4. Part = SubSeq(text, c.first, c.last)
  BY DEF Part
<1> HIDE DEF c
<1>5. Part \in Seq(Chars) /\ Part # <<>> /\ Part[1] \in Digit
  <2> DEFINE s == SubSeq(text, c.first, c.last)
  <2>1. c.first <= c.last + 1
    BY <1>2, <1>3
  <2>2. /\ s \in Seq(Chars) /\ Len(s) = c.last + 1 - c.first
        /\ \A i \in 1..(c.last + 1 - c.first) : s[i] = text[c.first + i - 1]
    BY <1>2, <1>3, <2>1, SubIs, SMTT(40)
  <2> HIDE DEF s
  <2>3. 1 \in 1..(c.last + 1 - c.first) /\ c.first + 1 - 1 = c.first /\ c.last + 1 - c.first # 0
    BY <1>2, <1>3
  <2>4. s[1] = text[c.first] /\ s # <<>>
    BY <2>2, <2>3
  <2> QED BY <1>2, <1>4, <2>2, <2>4 DEF s
<1>6. PICK decimal \in BOOLEAN : Make(Node("scalar", Number(Part, decimal)))
  BY <1>1
<1>7. NodeOK(Node("scalar", Number(Part, decimal)))
  BY <1>5, NumberIsOne, NodeIs DEF Printable
<1>8. /\ Grove(built') /\ p \in DOMAIN built'
      /\ \A k \in 1..(Len(calls) - 1) : /\ OpenFrame(built', calls[k], Len(text))
                                         /\ WaitsFor(built', calls[k], calls[k + 1].path)
  BY <1>2, <1>6, <1>7, MadeOK DEF c
<1>9. TopOK(step', built', scan', text', Last(calls'))
  BY <1>1, <1>8 DEF TopOK, c
<1>10. ReadOK'
  BY <1>1, <1>8, <1>9, SameCalls
<1> QED BY <1>1, <1>10 DEF RSteps

\* The frame of the loop that waits for the value at q.
Waiting(c, q, comma) == [c EXCEPT !.item = q, !.comma = comma]

\* What a recursive call does to the calls.
LEMMA DescendCalls ==
  ASSUME ReadOK, NEW q, NEW colon, NEW comma, Descend(q, colon, comma)
  PROVE  LET m == Len(calls)
             c == Last(calls)
         IN  /\ Len(calls') = m + 1
             /\ \A k \in 1..(m - 1) : calls'[k] = calls[k]
             /\ calls'[m] = Waiting(c, q, comma)
             /\ calls'[m + 1] = Call(q, NextChar(colon, comma), PrevChar(colon, comma))
             /\ calls' \in Seq({calls[k] : k \in 1..(m - 1)} \cup
                              {Waiting(c, q, comma), Call(q, NextChar(colon, comma), PrevChar(colon, comma))})
<1> DEFINE m == Len(calls)
           x == Call(q, NextChar(colon, comma), PrevChar(colon, comma))
           low == [calls EXCEPT ![m].item = q, ![m].comma = comma]
           w == Waiting(Last(calls), q, comma)
           V == {calls[k] : k \in 1..(m - 1)} \cup {w, x}
<1>1. calls' = Append(low, x)
  BY DEF Descend
<1>2. calls \in [1..m -> ReadFrames] /\ m \in Nat /\ m >= 1 /\ Last(calls) = calls[m]
      /\ calls[m] \in ReadFrames
  BY DEF ReadOK, Last
<1> HIDE DEF m, x
<1>3. m \in 1..m /\ 1..(m - 1) \subseteq 1..m /\ \A k \in 1..m : k # m => k \in 1..(m - 1)
  BY <1>2
<1>4. /\ DOMAIN low = 1..m /\ low = [k \in 1..m |-> low[k]]
      /\ \A k \in 1..(m - 1) : low[k] = calls[k]
      /\ low[m] = w
  <2>1. low = [k \in 1..m |-> IF k = m THEN [calls[m] EXCEPT !.item = q, !.comma = comma] ELSE calls[k]]
    BY <1>2, <1>3
  <2>2. w = [calls[m] EXCEPT !.item = q, !.comma = comma]
    BY <1>2 DEF Waiting
  <2> HIDE DEF w, low
  <2>3. m \notin 1..(m - 1)
    BY <1>2
  <2> QED BY <1>3, <2>1, <2>2, <2>3
<1> HIDE DEF w, low
<1>5. \A k \in 1..m : low[k] \in V
  BY <1>3, <1>4
<1> HIDE DEF V
<1>6. low \in Seq(V) /\ Len(low) = m
  BY <1>2, <1>4, <1>5
<1>7. x \in V
  BY DEF V
<1>8. /\ Append(low, x) \in Seq(V) /\ Len(Append(low, x)) = m + 1
      /\ Append(low, x)[m + 1] = x /\ \A k \in 1..m : Append(low, x)[k] = low[k]
  BY <1>6, <1>7, PathGrown
<1> QED BY <1>1, <1>3, <1>4, <1>8 DEF V, m, x, w

\* A recursive call keeps the types.
LEMMA DescendOK ==
  ASSUME ReadOK, text \in Seq(Chars), text' = text, step' = "enter",
         NEW q \in Paths, q \notin DOMAIN built', Grove(built'),
         NEW colon \in Nat, NEW comma \in Nat, 1 <= colon, colon <= comma, comma <= Len(text),
         \A k \in 1..(Len(calls) - 1) : /\ OpenFrame(built', calls[k], Len(text))
                                        /\ WaitsFor(built', calls[k], calls[k + 1].path),
         OpenFrame(built', Waiting(Last(calls), q, comma), Len(text)),
         WaitsFor(built', Waiting(Last(calls), q, comma), q),
         Descend(q, colon, comma)
  PROVE  ReadOK'
<1> DEFINE m == Len(calls)
           c == Last(calls)
           w == Waiting(c, q, comma)
           x == Call(q, NextChar(colon, comma), PrevChar(colon, comma))
<1>1. /\ Len(calls') = m + 1
      /\ \A k \in 1..(m - 1) : calls'[k] = calls[k]
      /\ calls'[m] = w /\ calls'[m + 1] = x
      /\ calls' \in Seq({calls[k] : k \in 1..(m - 1)} \cup {w, x})
  BY DescendCalls
<1>2. m \in Nat /\ m >= 1 /\ c = calls[m] /\ c \in ReadFrames /\ Len(c.path) = m - 1
  BY TopIs
<1>3. /\ w \in ReadFrames /\ w.path = c.path /\ w.first = c.first /\ w.last = c.last
      /\ w.item = q /\ w.comma = comma
  BY <1>2 DEF Waiting, ReadFrames
<1>4. /\ x \in ReadFrames /\ x.path = q /\ 1 <= x.first /\ x.first <= Len(text) + 1
      /\ x.last <= Len(text)
  <2>1. Len(text) \in Nat /\ colon <= Len(text) /\ comma >= 1 /\ comma \in Int /\ colon \in Int
    <3>1. Len(text) \in Nat
      OBVIOUS
    <3> QED BY <3>1
  <2>2. NextChar(colon, comma) \in (colon + 1)..(Len(text) + 1)
    BY <2>1, NextCharIs
  <2>3. PrevChar(colon, comma) \in 0..(comma - 1)
    BY <2>1, PrevCharIs
  <2>4. <<>> \in Paths
    BY DEF Paths
  <2>5. /\ NextChar(colon, comma) \in Nat /\ 1 <= NextChar(colon, comma)
        /\ NextChar(colon, comma) <= Len(text) + 1
        /\ PrevChar(colon, comma) \in Nat /\ PrevChar(colon, comma) <= Len(text)
    BY <2>1, <2>2, <2>3
  <2> QED BY <2>4, <2>5 DEF Call, ReadFrames
<1> HIDE DEF m, c, w, x
<1>5. calls' \in Seq(ReadFrames) /\ calls' # <<>>
  <2>1. {calls[k] : k \in 1..(m - 1)} \cup {w, x} \subseteq ReadFrames
    <3>1. \A k \in 1..(m - 1) : calls[k] \in ReadFrames
      <4>1. calls \in [1..m -> ReadFrames] /\ 1..(m - 1) \subseteq 1..m
        BY <1>2 DEF ReadOK, m
      <4> QED BY <4>1
    <3> QED BY <1>3, <1>4, <3>1
  <2>2. calls' # <<>>
    BY <1>1, <1>2
  <2> QED BY <1>1, <2>1, <2>2, SMTT(40)
<1>6. ASSUME NEW k \in 1..Len(calls') PROVE Len(calls'[k].path) = k - 1
  <2>1. CASE k \in 1..(m - 1)
    <3>1. k \in 1..m
      BY <1>2, <2>1
    <3> QED BY <1>1, <2>1, <3>1 DEF ReadOK, m
  <2>2. CASE k = m
    BY <1>1, <1>2, <1>3, <2>2
  <2>3. CASE k = m + 1
    <3>1. Front(q) = c.path /\ q # <<>>
      BY <1>3 DEF WaitsFor, w, c
    <3>2. Len(q) = Len(c.path) + 1
      <4>1. q \in Seq(TreeKeys)
        BY DEF Paths
      <4>2. Len(Front(q)) = Len(q) - 1 /\ Len(q) \in Nat
        BY <3>1, <4>1, PathEnd
      <4> QED BY <3>1, <4>2
    <3> QED BY <1>1, <1>2, <1>4, <2>3, <3>2
  <2> QED BY <1>1, <1>2, <2>1, <2>2, <2>3
<1>7. ASSUME NEW k \in 1..(Len(calls') - 1)
      PROVE  /\ OpenFrame(built', calls'[k], Len(text))
             /\ WaitsFor(built', calls'[k], calls'[k + 1].path)
  <2>1. CASE k \in 1..(m - 1) /\ k + 1 \in 1..(m - 1)
    BY <1>1, <2>1 DEF m
  <2>2. CASE k \in 1..(m - 1) /\ k + 1 = m
    <3>1. calls'[k] = calls[k] /\ calls'[k + 1].path = c.path /\ calls[k + 1] = c
      BY <1>1, <1>2, <1>3, <2>2
    <3>2. /\ OpenFrame(built', calls[k], Len(text))
          /\ WaitsFor(built', calls[k], calls[k + 1].path)
      BY <2>2 DEF m
    <3> QED BY <3>1, <3>2
  <2>3. CASE k = m
    BY <1>1, <1>4, <2>3 DEF w, c
  <2> QED BY <1>1, <1>2, <2>1, <2>2, <2>3
<1>8. TopOK(step', built', scan', text', Last(calls'))
  <2>1. Last(calls') = x
    BY <1>1 DEF Last
  <2> QED BY <1>4, <2>1 DEF TopOK
<1> QED BY <1>5, <1>6, <1>7, <1>8 DEF ReadOK

\* Reading the next item of an array keeps the types.
LEMMA ItemOK ==
  ASSUME ReadOK, text \in Seq(Chars), ItemFound
  PROVE  text' = text /\ step' \in RSteps /\ ReadOK'
<1> DEFINE c == Last(calls)
           i == NextIndex(c.item)
           q == Append(c.path, Indexed(i))
<1>1. /\ step = "comma" /\ step' = "enter" /\ UNCHANGED <<text, built>>
      /\ built[c.path].kind = "array"
  BY DEF ItemFound
<1>2. PICK comma \in {scan.until, scan.at + 1} : Finds(comma) /\ Descend(q, c.first, comma)
  BY DEF ItemFound
<1>3. c \in ReadFrames /\ OpenFrame(built, c, Len(text)) /\ Scans(scan, c.first, c.last)
  BY <1>1, TopIs DEF TopOK
<1>4. c.first \in Nat /\ c.last \in Int /\ c.comma \in Nat /\ c.path \in Paths /\ c.item \in Paths
  BY <1>3 DEF ReadFrames
<1>5. /\ 1 <= c.first /\ c.first < c.last /\ c.last <= Len(text) /\ Len(text) \in Nat
      /\ c.path \in DOMAIN built /\ built[c.path].kind \in Containers
      /\ \A r \in Inner(built, c.path) :
            Last(r) = Indexed(Last(r).at) /\ c.item # <<>> /\ Last(r).at <= Last(c.item).at
  BY <1>1, <1>3 DEF OpenFrame
<1>6. comma \in Nat /\ c.first < comma /\ comma <= c.last
  BY <1>2, <1>3, <1>4, <1>5, FindsIs
<1>7. i \in Nat /\ \A r \in Inner(built, c.path) : Last(r).at < i /\ Last(r).at \in Nat
  <2>1. \A r \in Inner(built, c.path) : Last(r) \in TreeKeys
    <3> TAKE r \in Inner(built, c.path)
    <3>1. r \in Seq(TreeKeys) /\ r # <<>>
      BY DEF Inner, ReadOK, Grove, Paths
    <3> QED BY <3>1, PathEnd
  <2>2. CASE c.item = <<>>
    BY <1>5, <2>2 DEF NextIndex
  <2>3. CASE c.item # <<>>
    <3>1. c.item \in Seq(TreeKeys)
      BY <1>4 DEF Paths
    <3>2. Last(c.item) \in TreeKeys
      BY <2>3, <3>1, PathEnd
    <3>3. Last(c.item).at \in Nat /\ i = Last(c.item).at + 1
      BY <2>3, <3>2 DEF TreeKeys, NextIndex
    <3> QED BY <1>5, <2>1, <3>3 DEF TreeKeys
  <2> QED BY <2>2, <2>3
<1> HIDE DEF i
<1>8. Indexed(i) \in TreeKeys /\ Indexed(i).at = i
  BY <1>7, KeyOf DEF Indexed
<1>9. q \in Paths /\ q # <<>> /\ Front(q) = c.path /\ Last(q) = Indexed(i)
  BY <1>4, <1>8, PathGrown DEF Paths
<1> HIDE DEF q, c
<1>10. q \notin DOMAIN built
  <2> SUFFICES ASSUME q \in DOMAIN built PROVE FALSE
    OBVIOUS
  <2>1. q \in Inner(built, c.path)
    BY <1>9 DEF Inner
  <2> QED BY <1>7, <1>8, <1>9, <2>1
<1>11. LET w == Waiting(c, q, comma)
       IN  /\ w.path = c.path /\ w.first = c.first /\ w.last = c.last
           /\ w.item = q /\ w.comma = comma
  BY <1>3 DEF Waiting, ReadFrames
<1>12. OpenFrame(built, Waiting(c, q, comma), Len(text))
  <2>1. \A r \in Inner(built, c.path) :
            Last(r) = Indexed(Last(r).at) /\ q # <<>> /\ Last(r).at <= Last(q).at
    BY <1>5, <1>7, <1>8, <1>9
  <2> QED BY <1>5, <1>11, <2>1 DEF OpenFrame
<1>13. WaitsFor(built, Waiting(c, q, comma), q)
  BY <1>1, <1>6, <1>8, <1>9, <1>11 DEF WaitsFor
<1>14. ReadOK'
  <2>1. built' = built /\ Grove(built)
        /\ \A k \in 1..(Len(calls) - 1) : /\ OpenFrame(built, calls[k], Len(text))
                                           /\ WaitsFor(built, calls[k], calls[k + 1].path)
    BY <1>1 DEF ReadOK
  <2>2. comma <= Len(text) /\ c.first <= comma
    BY <1>4, <1>5, <1>6
  <2> QED BY <2>2, <1>1, <1>2, <1>4, <1>5, <1>6, <1>9, <1>10, <1>12, <1>13, <2>1, DescendOK DEF c
<1> QED BY <1>1, <1>14 DEF RSteps

\* The calls below, and the top call's frame in another state.
LEMMA CallsOK ==
  ASSUME ReadOK, text' = text, calls' \in Seq(ReadFrames), Len(calls') \in 1..Len(calls),
         \A k \in 1..(Len(calls') - 1) : calls'[k] = calls[k],
         Last(calls').path = calls[Len(calls')].path,
         Grove(built'),
         \A k \in 1..(Len(calls) - 1) : /\ OpenFrame(built', calls[k], Len(text))
                                        /\ WaitsFor(built', calls[k], calls[k + 1].path),
         TopOK(step', built', scan', text', Last(calls'))
  PROVE  ReadOK'
<1> DEFINE m == Len(calls)
           n == Len(calls')
<1>1. m \in Nat /\ n \in 1..m /\ n \in Nat /\ n >= 1 /\ Last(calls') = calls'[n]
  BY TopIs DEF Last
<1>2. calls'[n].path = calls[n].path
  BY <1>1
<1>3. \A k \in 1..m : Len(calls[k].path) = k - 1
  BY DEF ReadOK
<1>4. \A k \in 1..(n - 1) : calls'[k] = calls[k] /\ k \in 1..m /\ k \in 1..(m - 1)
  BY <1>1
<1>5. \A k \in 1..(m - 1) : /\ OpenFrame(built', calls[k], Len(text))
                            /\ WaitsFor(built', calls[k], calls[k + 1].path)
  OBVIOUS
<1>6. calls' # <<>>
  BY <1>1
<1> HIDE DEF m, n
<1>7. \A k \in 1..n : Len(calls'[k].path) = k - 1
  <2> TAKE k \in 1..n
  <2>1. CASE k = n
    BY <1>1, <1>2, <1>3, <2>1
  <2>2. CASE k # n
    <3>1. k \in 1..(n - 1)
      BY <1>1, <2>2
    <3> QED BY <1>3, <1>4, <3>1
  <2> QED BY <2>1, <2>2
<1>8. \A k \in 1..(n - 1) : /\ OpenFrame(built', calls'[k], Len(text))
                            /\ WaitsFor(built', calls'[k], calls'[k + 1].path)
  <2> TAKE k \in 1..(n - 1)
  <2>1. calls'[k + 1].path = calls[k + 1].path
    <3>1. CASE k + 1 = n
      BY <1>2, <3>1
    <3>2. CASE k + 1 # n
      <4>1. k + 1 \in 1..(n - 1)
        BY <1>1, <3>2
      <4> QED BY <1>4, <4>1
    <3> QED BY <3>1, <3>2
  <2> QED BY <1>4, <1>5, <2>1
<1> QED BY <1>6, <1>7, <1>8 DEF ReadOK, n

\* Finding the next entry of a dictionary keeps the types.
LEMMA EntryOK ==
  ASSUME ReadOK, text \in Seq(Chars), EntryFound
  PROVE  text' = text /\ step' \in RSteps /\ ReadOK'
<1> DEFINE c == Last(calls)
           m == Len(calls)
<1>1. /\ step = "comma" /\ step' = "colon" /\ UNCHANGED <<text, built>>
      /\ built[c.path].kind = "dict"
  BY DEF EntryFound
<1>2. PICK comma \in {scan.until, scan.at + 1} :
         /\ Finds(comma) /\ calls' = [calls EXCEPT ![m].comma = comma]
         /\ scan' = FindChar(c.first, comma)
  BY DEF EntryFound
<1>3. c \in ReadFrames /\ OpenFrame(built, c, Len(text)) /\ Scans(scan, c.first, c.last)
  BY <1>1, TopIs DEF TopOK
<1>4. c.first \in Nat /\ c.last \in Nat /\ c.first < c.last
  BY <1>3 DEF ReadFrames, OpenFrame
<1>5. comma \in Nat /\ c.first < comma /\ comma <= c.last
  BY <1>2, <1>3, <1>4, FindsIs
<1>6. calls \in [1..m -> ReadFrames] /\ m \in Nat /\ m >= 1 /\ c = calls[m]
  BY DEF ReadOK, Last
<1> DEFINE w == [c EXCEPT !.comma = comma]
<1>7. /\ w \in ReadFrames /\ w.path = c.path /\ w.first = c.first /\ w.last = c.last
      /\ w.item = c.item /\ w.comma = comma
  BY <1>3, <1>5 DEF ReadFrames
<1>8. calls' = [k \in 1..m |-> IF k = m THEN w ELSE calls[k]]
  BY <1>2, <1>6
<1> HIDE DEF w, c, m
<1>9. calls' \in Seq(ReadFrames) /\ Len(calls') = m /\ Last(calls') = w
      /\ \A k \in 1..(m - 1) : calls'[k] = calls[k]
  <2>1. calls' \in [1..m -> ReadFrames]
    BY <1>6, <1>7, <1>8
  <2>2. calls' \in Seq(ReadFrames) /\ Len(calls') = m
    BY <1>6, <2>1
  <2>3. m \in 1..m /\ \A k \in 1..(m - 1) : k \in 1..m /\ k # m
    BY <1>6
  <2> QED BY <1>8, <2>2, <2>3 DEF Last
<1>10. OpenFrame(built, w, Len(text))
  BY <1>3, <1>7 DEF OpenFrame
<1>11. Scans(scan', w.first, w.comma)
  <2>1. scan'.at = c.first /\ scan'.until = comma
    BY <1>2 DEF FindChar
  <2> QED BY <1>4, <1>5, <1>7, <2>1 DEF Scans
<1>12. TopOK(step', built', scan', text', Last(calls'))
  <2>1. TopOK(step', built', scan', text', w)
    BY <1>1, <1>5, <1>7, <1>10, <1>11 DEF TopOK
  <2> QED BY <1>9, <2>1
<1>13. ReadOK'
  <2>1. m \in 1..m /\ Last(calls').path = calls[m].path
    BY <1>6, <1>7, <1>9
  <2>2. Grove(built') /\ \A k \in 1..(m - 1) : /\ OpenFrame(built', calls[k], Len(text))
                                              /\ WaitsFor(built', calls[k], calls[k + 1].path)
    BY <1>1 DEF ReadOK, m
  <2> QED BY <1>1, <1>9, <1>12, <2>1, <2>2, CallsOK DEF m
<1> QED BY <1>1, <1>13 DEF RSteps

\* A substring has characters of the text.
LEMMA SubstrIn ==
  ASSUME text \in Seq(Chars), NEW p \in Nat, p >= 1, p <= Len(text) + 1, NEW len \in Int
  PROVE  Substr(p, len) \in Seq(Chars)
<1> DEFINE n == Len(text)
           e == IF len < 0 \/ p + len > n THEN n ELSE p + len - 1
<1>1. n \in Nat /\ p <= n + 1
  OBVIOUS
<1>2. Substr(p, len) = SubSeq(text, p, e)
  BY DEF Substr
<1> HIDE DEF n
<1>3. e \in Nat /\ e <= n /\ p <= e + 1
  BY <1>1
<1> HIDE DEF e
<1> QED BY <1>2, <1>3, SubIs DEF n

\* A tree without the branch at q.
LEMMA PrunedTree ==
  ASSUME NEW v, Grove(v), NEW q \in Paths
  PROVE  LET w == [r \in {r \in DOMAIN v : ~IsPrefix(q, r)} |-> v[r]]
         IN  /\ Grove(w) /\ q \notin DOMAIN w
             /\ DOMAIN w \subseteq DOMAIN v /\ \A r \in DOMAIN w : w[r] = v[r]
             /\ \A r \in DOMAIN v : Len(r) < Len(q) => r \in DOMAIN w
             /\ \A r \in DOMAIN v : r \in DOMAIN w <=> ~IsPrefix(q, r)
<1> DEFINE D == {r \in DOMAIN v : ~IsPrefix(q, r)}
           w == [r \in D |-> v[r]]
<1>1. DOMAIN v \subseteq Paths /\ IsFiniteSet(DOMAIN v)
      /\ \A r \in DOMAIN v : NodeOK(v[r]) /\ v[r] \in Nodes /\ (r # <<>> => HasParent(v, r))
  BY DEF Grove, NodeOK
<1>2. DOMAIN w = D /\ D \subseteq DOMAIN v /\ \A r \in D : w[r] = v[r]
  OBVIOUS
<1>3. \A r \in DOMAIN v : r \in D <=> ~IsPrefix(q, r)
  OBVIOUS
<1>4. w \in [D -> Nodes]
  BY <1>1
<1> HIDE DEF D
<1>5. IsFiniteSet(D)
  BY <1>1, <1>2, FS_Subset
<1>6. q \notin D
  <2>1. IsPrefix(q, q)
    BY DEF IsPrefix, Paths
  <2> QED BY <1>2, <1>3, <2>1
<1> HIDE DEF w
<1>7. ASSUME NEW r \in D, r # <<>> PROVE HasParent(w, r)
  <2>1. r \in DOMAIN v /\ HasParent(v, r) /\ r \in Seq(TreeKeys) /\ q \in Seq(TreeKeys)
    BY <1>1, <1>2, <1>7 DEF Paths
  <2>2. ~IsPrefix(q, Front(r))
    BY <1>3, <1>7, <2>1, PrefixOfFront
  <2>3. Front(r) \in D
    BY <1>3, <2>1, <2>2 DEF HasParent
  <2> QED BY <1>2, <2>1, <2>3 DEF HasParent
<1>8. Grove(w)
  <2>1. DOMAIN w \subseteq Paths /\ IsFiniteSet(DOMAIN w) /\ w \in [DOMAIN w -> Nodes]
    BY <1>1, <1>2, <1>4, <1>5
  <2>2. \A r \in DOMAIN w : NodeOK(w[r]) /\ (r # <<>> => HasParent(w, r))
    BY <1>1, <1>2, <1>7
  <2> QED BY <2>1, <2>2, Zenon DEF Grove
<1>9. \A r \in DOMAIN v : Len(r) < Len(q) => r \in D
  <2> TAKE r \in DOMAIN v
  <2>1. r \in Seq(TreeKeys) /\ q \in Seq(TreeKeys)
    BY <1>1 DEF Paths
  <2>2. IsPrefix(q, r) => Len(q) <= Len(r)
    BY DEF IsPrefix
  <2>3. Len(r) \in Nat /\ Len(q) \in Nat
    BY <2>1
  <2> QED BY <1>3, <2>2, <2>3
<1> QED BY <1>2, <1>3, <1>6, <1>8, <1>9 DEF w, D

\* Reading the label of an entry keeps the types, unless it throws.
LEMMA LabelOK ==
  ASSUME ReadOK, text \in Seq(Chars), LabelFound
  PROVE  text' = text /\ step' \in RSteps \cup {"threw"} /\ (step' \in RSteps => ReadOK')
<1> DEFINE c == Last(calls)
<1>1. step = "colon" /\ text' = text
  BY DEF LabelFound
<1>2. PICK colon \in {scan.until, scan.at + 1} :
         /\ Finds(colon)
         /\ LET beg == NextChar(c.first, colon)
                q   == Append(c.path, Labelled(Substr(beg + 1, PrevChar(c.first, colon) - beg - 1)))
            IN  IF beg > Len(text)
                THEN step' = "threw" /\ UNCHANGED <<calls, built>>
                ELSE /\ Descend(q, colon, c.comma) /\ step' = "enter"
                     /\ built' = [r \in {r \in DOMAIN built : ~IsPrefix(q, r)} |-> built[r]]
  BY DEF LabelFound
<1>3. /\ c \in ReadFrames /\ OpenFrame(built, c, Len(text)) /\ Scans(scan, c.first, c.comma)
      /\ built[c.path].kind = "dict" /\ c.first < c.comma /\ c.comma <= c.last
  BY <1>1, TopIs DEF TopOK
<1>4. c.first \in Nat /\ c.last \in Nat /\ c.comma \in Nat /\ c.path \in Paths
  BY <1>3 DEF ReadFrames
<1>5. /\ 1 <= c.first /\ c.last <= Len(text) /\ Len(text) \in Nat
      /\ c.path \in DOMAIN built /\ built[c.path].kind \in Containers
  BY <1>3 DEF OpenFrame
<1>6. colon \in Nat /\ c.first < colon /\ colon <= c.comma
  BY <1>2, <1>3, <1>4, FindsIs
<1> DEFINE beg == NextChar(c.first, colon)
           len == PrevChar(c.first, colon) - beg - 1
           label == Substr(beg + 1, len)
           q == Append(c.path, Labelled(label))
<1>7. CASE beg > Len(text)
  <2>1. step' = "threw"
    BY <1>2, <1>7
  <2> QED BY <1>1, <2>1 DEF RSteps
<1>8. CASE ~(beg > Len(text))
  <2>1. /\ Descend(q, colon, c.comma) /\ step' = "enter"
        /\ built' = [r \in {r \in DOMAIN built : ~IsPrefix(q, r)} |-> built[r]]
    BY <1>2, <1>8
  <2>2. beg \in Nat /\ beg <= Len(text)
    <3>1. c.first <= Len(text) /\ colon \in Int
      BY <1>3, <1>4, <1>5, <1>6
    <3>2. beg \in (c.first + 1)..(Len(text) + 1)
      BY <1>4, <3>1, NextCharIs
    <3> HIDE DEF beg
    <3> QED BY <1>4, <1>5, <1>8, <3>2
  <2>3. PrevChar(c.first, colon) \in Int
    <3>1. colon >= 1 /\ c.first \in Int
      BY <1>4, <1>6
    <3>2. PrevChar(c.first, colon) \in 0..(colon - 1)
      BY <1>6, <3>1, PrevCharIs
    <3> QED BY <3>2
  <2>4. label \in Seq(Chars)
    <3>1. len \in Int /\ beg + 1 \in Nat /\ beg + 1 >= 1 /\ beg + 1 <= Len(text) + 1
      <4> HIDE DEF beg
      <4> QED BY <2>2, <2>3, <1>5
    <3> HIDE DEF beg, len
    <3> QED BY <3>1, SubstrIn
  <2> HIDE DEF label
  <2>5. Labelled(label) \in TreeKeys /\ Labelled(label).label = label
    BY <2>4, KeyOf DEF Labelled
  <2>6. q \in Paths /\ q # <<>> /\ Front(q) = c.path /\ Last(q) = Labelled(label)
        /\ Len(q) = Len(c.path) + 1
    BY <1>4, <2>5, PathGrown DEF Paths
  <2> HIDE DEF q
  <2>7. Grove(built) /\ \A k \in 1..(Len(calls) - 1) :
             /\ OpenFrame(built, calls[k], Len(text))
             /\ WaitsFor(built, calls[k], calls[k + 1].path)
    BY DEF ReadOK
  <2>8. /\ Grove(built') /\ q \notin DOMAIN built'
        /\ DOMAIN built' \subseteq DOMAIN built /\ \A r \in DOMAIN built' : built'[r] = built[r]
        /\ \A r \in DOMAIN built : Len(r) < Len(q) => r \in DOMAIN built'
    BY <2>1, <2>6, <2>7, PrunedTree
  <2>9. \A r : Inner(built', r) \subseteq Inner(built, r)
    BY <2>8 DEF Inner
  <2>10. Len(q) = Len(calls) /\ Len(calls) \in Nat
    BY <2>6, TopIs
  <2>11. ASSUME NEW k \in 1..(Len(calls) - 1)
         PROVE  /\ OpenFrame(built', calls[k], Len(text))
                /\ WaitsFor(built', calls[k], calls[k + 1].path)
    <3> DEFINE d == calls[k]
    <3>1. k \in 1..Len(calls) /\ k - 1 < Len(q)
      BY <2>10
    <3>2. Len(d.path) = k - 1
      BY <3>1 DEF ReadOK
    <3>3. OpenFrame(built, d, Len(text)) /\ WaitsFor(built, d, calls[k + 1].path)
      BY <2>7
    <3> HIDE DEF d
    <3>4. d.path \in DOMAIN built' /\ built'[d.path] = built[d.path]
      BY <2>8, <3>1, <3>2, <3>3 DEF OpenFrame
    <3>5. OpenFrame(built', d, Len(text))
      BY <2>9, <3>3, <3>4 DEF OpenFrame
    <3>6. WaitsFor(built', d, calls[k + 1].path)
      BY <3>3, <3>4 DEF WaitsFor
    <3> QED BY <3>5, <3>6 DEF d
  <2> HIDE DEF c
  <2>12. LET w == Waiting(c, q, c.comma)
         IN  /\ w.path = c.path /\ w.first = c.first /\ w.last = c.last
             /\ w.item = q /\ w.comma = c.comma
    BY <1>3 DEF Waiting, ReadFrames
  <2>13. c.path \in DOMAIN built' /\ built'[c.path] = built[c.path]
    <3>1. Len(c.path) < Len(q)
      <4>1. Len(c.path) \in Nat
        BY <1>4 DEF Paths
      <4> QED BY <2>6, <4>1
    <3> QED BY <1>5, <2>8, <3>1
  <2>14. OpenFrame(built', Waiting(c, q, c.comma), Len(text))
    <3>1. built'[c.path].kind # "array"
      BY <1>3, <2>13
    <3> QED BY <1>3, <1>4, <1>5, <2>12, <2>13, <3>1 DEF OpenFrame
  <2>15. WaitsFor(built', Waiting(c, q, c.comma), q)
    <3>1. built'[c.path].kind # "array"
      BY <1>3, <2>13
    <3> QED BY <1>3, <2>5, <2>6, <2>12, <3>1 DEF WaitsFor
  <2>16. 1 <= colon /\ c.comma <= Len(text)
    BY <1>3, <1>4, <1>5, <1>6
  <2>17. ReadOK'
    BY <1>1, <1>4, <1>6, <2>1, <2>6, <2>8, <2>11, <2>14, <2>15, <2>16, DescendOK DEF c
  <2> QED BY <1>1, <2>1, <2>17 DEF RSteps
<1> QED BY <1>7, <1>8

\* What is left of the calls when the top one returns.
LEMMA FrontCalls ==
  ASSUME ReadOK, Front(calls) # <<>>
  PROVE  LET m == Len(calls)
         IN  /\ m \in Nat /\ m >= 2 /\ Front(calls) \in Seq(ReadFrames) /\ Len(Front(calls)) = m - 1
             /\ Last(Front(calls)) = calls[m - 1] /\ calls[m - 1] \in ReadFrames
             /\ \A k \in 1..(m - 1) : Front(calls)[k] = calls[k]
<1> DEFINE m == Len(calls)
           f == Front(calls)
<1>1. calls \in Seq(ReadFrames) /\ calls # <<>>
  BY DEF ReadOK
<1>2. /\ f \in Seq(ReadFrames) /\ Len(f) = m - 1 /\ m \in Nat /\ m >= 1
      /\ \A i \in 1..(m - 1) : f[i] = calls[i]
  BY <1>1, PathEnd
<1> HIDE DEF m, f
<1>3. m - 1 # 0
  <2> SUFFICES ASSUME m - 1 = 0 PROVE FALSE
    OBVIOUS
  <2>1. f = <<>>
    BY <1>2
  <2> QED BY <2>1 DEF f
<1>4. m >= 2 /\ m - 1 \in 1..(m - 1)
  BY <1>2, <1>3
<1>5. f[m - 1] = calls[m - 1] /\ f[m - 1] \in ReadFrames
  BY <1>2, <1>4
<1> QED BY <1>2, <1>4, <1>5 DEF m, f, Last

\* A call that returns keeps the types, and the outermost leaves a tree.
LEMMA LeaveOK ==
  ASSUME ReadOK, Leave
  PROVE  /\ text' = text /\ built' = built /\ step' \in RSteps \cup {"built"}
         /\ step' \in RSteps => ReadOK'
         /\ step' = "built" => IsTree(built)
<1> DEFINE rest == Front(calls)
           c == Last(rest)
           m == Len(calls)
<1>1. step = "leave" /\ text' = text /\ built' = built
  BY DEF Leave
<1>2. \/ rest = <<>> /\ calls' = <<>> /\ step' = "built"
      \/ rest # <<>> /\ calls' = rest /\ step' = step
      \/ /\ rest # <<>> /\ c.comma # c.last
         /\ calls' = [rest EXCEPT ![Len(rest)].first = c.comma]
         /\ scan' = FindChar(c.comma, c.last) /\ step' = "comma"
  BY DEF Leave
<1>3. m \in Nat /\ m >= 1 /\ calls[m].path \in DOMAIN built /\ calls \in Seq(ReadFrames)
      /\ Len(calls[m].path) = m - 1
  BY <1>1, TopIs DEF TopOK, ReadOK
<1>4. CASE rest = <<>>
  <2>1. step' = "built"
    BY <1>2, <1>4
  <2>2. m - 1 = 0
    <3>1. Len(rest) = m - 1
      BY <1>3, PathEnd DEF ReadOK
    <3> QED BY <1>4, <3>1
  <2>3. calls[m].path = <<>>
    <3>1. calls[m].path \in Seq(TreeKeys)
      BY <1>3 DEF ReadOK, Grove, Paths
    <3> QED BY <1>3, <2>2, <3>1
  <2>4. IsTree(built)
    BY <1>3, <2>3 DEF IsTree, ReadOK
  <2> QED BY <1>1, <2>1, <2>4 DEF RSteps
<1>5. CASE rest # <<>>
  <2>1. /\ m >= 2 /\ rest \in Seq(ReadFrames) /\ Len(rest) = m - 1
        /\ c = calls[m - 1] /\ c \in ReadFrames /\ \A k \in 1..(m - 1) : rest[k] = calls[k]
    BY <1>5, FrontCalls
  <2>2. m - 1 \in 1..(m - 1) /\ (m - 1) + 1 = m /\ m - 1 \in 1..m /\ 1..(m - 1) \subseteq 1..m
        /\ \A k \in 1..(m - 1 - 1) : k \in 1..(m - 1) /\ k # m - 1
    BY <1>3, <2>1
  <2>3. Grove(built') /\ \A k \in 1..(m - 1) : /\ OpenFrame(built', calls[k], Len(text))
                                           /\ WaitsFor(built', calls[k], calls[k + 1].path)
    BY <1>1 DEF ReadOK
  <2>4. OpenFrame(built, c, Len(text)) /\ WaitsFor(built, c, calls[m].path)
    BY <1>1, <2>1, <2>2, <2>3
  <2> HIDE DEF c, rest, m
  <2>5. CASE calls' = rest /\ step' = step
    <3>1. Len(calls') \in 1..m /\ \A k \in 1..(Len(calls') - 1) : calls'[k] = calls[k]
      BY <2>1, <2>2, <2>5
    <3>2. Last(calls') = c /\ Last(calls').path = calls[Len(calls')].path
      BY <2>1, <2>5 DEF c
    <3>3. TopOK(step', built', scan', text', Last(calls'))
      BY <1>1, <2>4, <2>5, <3>2 DEF TopOK, OpenFrame
    <3>4. ReadOK'
      BY <1>1, <2>1, <2>3, <2>5, <3>1, <3>2, <3>3, CallsOK DEF m
    <3> QED BY <1>1, <2>5, <3>4 DEF RSteps
  <2>6. CASE /\ c.comma # c.last
             /\ calls' = [rest EXCEPT ![Len(rest)].first = c.comma]
             /\ scan' = FindChar(c.comma, c.last) /\ step' = "comma"
    <3> DEFINE w == [c EXCEPT !.first = c.comma]
    <3>1. /\ w \in ReadFrames /\ w.path = c.path /\ w.first = c.comma /\ w.last = c.last
          /\ w.item = c.item /\ c.comma \in Nat /\ c.last \in Int /\ c.first \in Nat
      BY <2>1 DEF ReadFrames
    <3> HIDE DEF w
    <3>2. /\ Len(calls') = m - 1 /\ calls' \in Seq(ReadFrames) /\ calls'[m - 1] = w
          /\ \A k \in 1..(m - 1 - 1) : calls'[k] = calls[k]
      <4>1. rest \in [1..(m - 1) -> ReadFrames] /\ rest[m - 1] = c
        BY <1>3, <2>1, <2>2
      <4>2. calls' = [k \in 1..(m - 1) |-> IF k = m - 1 THEN w ELSE rest[k]]
        BY <2>1, <2>6, <4>1 DEF w
      <4>3. calls' \in [1..(m - 1) -> ReadFrames]
        BY <3>1, <4>1, <4>2
      <4>4. calls' \in Seq(ReadFrames) /\ Len(calls') = m - 1
        BY <1>3, <2>1, <4>3
      <4> QED BY <2>1, <2>2, <4>2, <4>4
    <3>3. Last(calls') = w /\ Last(calls').path = calls[Len(calls')].path
      BY <2>1, <3>1, <3>2 DEF Last
    <3>4. /\ c.path \in DOMAIN built /\ built[c.path].kind \in Containers
          /\ 1 <= c.first /\ c.last <= Len(text) /\ c.first < c.comma /\ c.comma <= c.last
      BY <2>4 DEF OpenFrame, WaitsFor
    <3>5. 1 <= w.first /\ w.first < w.last
      BY <2>6, <3>1, <3>4
    <3>6. OpenFrame(built, w, Len(text))
      BY <2>4, <3>1, <3>4, <3>5 DEF OpenFrame
    <3>7. Scans(scan', w.first, w.last)
      <4>1. scan'.at = c.comma /\ scan'.until = c.last
        BY <2>6 DEF FindChar
      <4> QED BY <3>1, <3>5, <4>1 DEF Scans
    <3>8. TopOK(step', built', scan', text', w)
      BY <1>1, <2>6, <3>6, <3>7 DEF TopOK
    <3>9. Len(calls') \in 1..m /\ \A k \in 1..(Len(calls') - 1) : calls'[k] = calls[k]
      BY <2>2, <3>2
    <3>10. ReadOK'
      BY <1>1, <2>3, <3>2, <3>3, <3>8, <3>9, CallsOK DEF m
    <3> QED BY <1>1, <2>6, <3>10 DEF RSteps
  <2> QED BY <1>2, <1>5, <2>5, <2>6 DEF rest, c
<1> QED BY <1>4, <1>5

\* Layout is a blank in the text.
LEMMA SpaceAt ==
  ASSUME text \in Seq(Chars), NEW p \in Int, IsSpace(p)
  PROVE  1 <= p /\ p <= Len(text) /\ text[p] = " "
<1>1. DOMAIN text = 1..Len(text) /\ Len(text) \in Nat
  OBVIOUS
<1>2. p \in DOMAIN text /\ text[p] = " "
  BY DEF IsSpace
<1> DEFINE n == Len(text)
<1>3. n \in Nat /\ p \in 1..n
  BY <1>1, <1>2
<1>4. 1 <= p /\ p <= n
  <2> HIDE DEF n
  <2> QED BY <1>3
<1> QED BY <1>2, <1>4

\* BuildJson begins with the types it needs.
LEMMA BuildOK ==
  ASSUME text \in Seq(Chars), built = <<>>, BuildJson
  PROVE  text' = text /\ step' \in RSteps /\ ReadOK'
<1> DEFINE n == Len(text)
           first == IF IsSpace(1) THEN NextChar(1, n) ELSE 1
<1>0. PICK last \in LastChars(first) : calls' = <<Call(<<>>, first, last)>>
  BY DEF BuildJson
<1> DEFINE c == Call(<<>>, first, last)
<1>1. step' = "enter" /\ UNCHANGED <<text, built>> /\ calls' = <<c>>
  BY <1>0 DEF BuildJson
<1>2. n \in Nat
  OBVIOUS
<1>3. first \in Nat /\ 1 <= first /\ first <= n + 1
  <2>1. CASE IsSpace(1)
    <3>1. 1 <= n
      <4>1. 1 \in Int /\ n \in Int
        BY <1>2
      <4> QED BY <2>1, <4>1, SpaceAt
    <3>2. NextChar(1, n) \in (1 + 1)..(n + 1)
      BY <1>2, <3>1, NextCharIs
    <3> HIDE DEF n
    <3> QED BY <1>2, <2>1, <3>2
  <2>2. CASE ~IsSpace(1)
    BY <1>2, <2>2
  <2> QED BY <2>1, <2>2
<1> HIDE DEF first
<1>4. last \in Nat \cup {-1} /\ last <= n
  <2>1. CASE text = <<>>
    <3>1. last \in {0, -1} /\ n = 0
      BY <1>0, <2>1 DEF LastChars
    <3> QED BY <3>1
  <2>2. CASE text # <<>> /\ IsSpace(n)
    <3>1. n >= 1
      <4>1. 1 \in Int /\ n \in Int
        BY <1>2
      <4> QED BY <2>2, <4>1, SpaceAt
    <3>2. last = PrevChar(first, n)
      BY <1>0, <2>2 DEF LastChars
    <3>3. PrevChar(first, n) \in 0..(n - 1)
      BY <1>2, <1>3, <3>1, PrevCharIs
    <3> HIDE DEF n
    <3> QED BY <1>2, <3>2, <3>3
  <2>3. CASE text # <<>> /\ ~IsSpace(n)
    <3>1. last = n
      BY <1>0, <2>3 DEF LastChars
    <3> QED BY <1>2, <3>1
  <2> QED BY <2>1, <2>2, <2>3
<1> HIDE DEF n
<1>5. /\ c \in ReadFrames /\ c.path = <<>> /\ c.first = first /\ c.last = last
  <2>1. <<>> \in Paths /\ 0 \in Nat
    BY DEF Paths
  <2> QED BY <1>3, <1>4, <2>1 DEF Call, ReadFrames
<1> HIDE DEF c
<1>6. calls' \in Seq(ReadFrames) /\ Len(calls') = 1 /\ calls'[1] = c /\ calls' # <<>> /\ Last(calls') = c
  BY <1>1, <1>5, OneIs DEF Last
<1>7. Grove(built') /\ DOMAIN built' = {}
  <2>1. built' = <<>>
    BY <1>1
  <2>2. DOMAIN built' = {} /\ built' \in [DOMAIN built' -> Nodes]
    BY <2>1
  <2>3. IsFiniteSet(DOMAIN built')
    BY <2>2, FS_EmptySet
  <2> QED BY <2>2, <2>3 DEF Grove
<1>8. TopOK(step', built', scan', text', Last(calls'))
  BY <1>1, <1>3, <1>4, <1>5, <1>6, <1>7 DEF TopOK, n
<1>9. ReadOK'
  <2>1. \A k \in 1..Len(calls') : Len(calls'[k].path) = k - 1
    BY <1>5, <1>6
  <2>2. 1..(Len(calls') - 1) = {}
    BY <1>6
  <2> QED BY <1>6, <1>7, <1>8, <2>1, <2>2 DEF ReadOK
<1> QED BY <1>1, <1>9 DEF RSteps

-----------------------------------------------------------------------------
(* The types of the program's trees, and copies without holes. *)

Steps == {"idle", "writing", "written", "null", "loops", "built", "threw"} \cup RSteps

\* The program holds trees, and writes one.
Typed ==
    /\ step \in Steps /\ careful \in BOOLEAN /\ pretty \in BOOLEAN
    /\ DOMAIN tree = Holders /\ \A x \in Holders : IsTree(tree[x])
    /\ IsTree(written)

\* Copying meets no null pointer in a careful program.
Careful ==
    careful => /\ step # "null"
               /\ \A x \in Holders : tree[x] # Undefined => Copies(tree[x])
               /\ written # Undefined => Copies(written)

\* The value of a new tree.
LEMMA UndefinedIs ==
  /\ IsTree(Undefined) /\ DOMAIN Undefined = {<<>>} /\ Undefined[<<>>].kind = "undefined"
  /\ ~Copies(Undefined)
<1>1. NodeOK(Node("undefined", <<>>)) /\ Node("undefined", <<>>).kind = "undefined"
  BY NodeIs
<1>2. IsTree(Undefined) /\ DOMAIN Undefined = {<<>>}
  BY <1>1, LeafIs DEF Undefined, Leaf
<1>3. Undefined[<<>>].kind = "undefined"
  BY <1>1 DEF Undefined, Leaf
<1> QED BY <1>2, <1>3 DEF Copies

\* A tree of one value that is copied.
LEMMA LeafTree ==
  ASSUME NEW kind, NEW chars, NodeOK(Node(kind, chars))
  PROVE  /\ IsTree(Leaf(kind, chars)) /\ Leaf(kind, chars)[<<>>] = Node(kind, chars)
         /\ Leaf(kind, chars)[<<>>].kind = kind
         /\ kind # "undefined" => Copies(Leaf(kind, chars))
<1>1. IsTree(Leaf(kind, chars)) /\ DOMAIN Leaf(kind, chars) = {<<>>}
  BY LeafIs DEF Leaf
<1>2. Leaf(kind, chars)[<<>>] = Node(kind, chars) /\ Node(kind, chars).kind = kind
  BY NodeIs DEF Leaf
<1> QED BY <1>1, <1>2 DEF Copies

\* A value that becomes a container.
LEMMA MadeIs ==
  ASSUME NEW v, IsTree(v), NEW kind \in Containers, v[<<>>].kind \in {"undefined", kind}
  PROVE  /\ IsTree(Made(v, kind)) /\ Made(v, kind)[<<>>].kind = kind
         /\ (v # Undefined => Copies(v)) => Copies(Made(v, kind))
<1>1. CASE v = Undefined
  <2>1. Made(v, kind) = Leaf(kind, <<>>)
    BY <1>1 DEF Made
  <2>2. NodeOK(Node(kind, <<>>)) /\ kind # "undefined"
    BY NodeIs DEF Containers
  <2> QED BY <2>1, <2>2, LeafTree
<1>2. CASE v # Undefined
  <2>1. Made(v, kind) = v
    BY <1>2 DEF Made
  <2>2. ASSUME v[<<>>].kind = "undefined" PROVE FALSE
    <3>1. v \in [DOMAIN v -> Nodes] /\ <<>> \in DOMAIN v /\ DOMAIN v \subseteq Paths
          /\ \A q \in DOMAIN v : NodeOK(v[q]) /\ (q # <<>> => HasParent(v, q))
      BY DEF IsTree, Grove
    <3>2. \A q \in DOMAIN v : q = <<>>
      <4> SUFFICES ASSUME \E q \in DOMAIN v : Len(q) # 0 PROVE FALSE
        BY <3>1 DEF Paths
      <4> DEFINE L == {n \in Nat : \E q \in DOMAIN v : Len(q) = n /\ n # 0}
      <4>1. L \in SUBSET Nat /\ \E n : n \in L
        <5>1. PICK q \in DOMAIN v : Len(q) # 0
          OBVIOUS
        <5>2. Len(q) \in Nat
          BY <3>1, <5>1 DEF Paths
        <5> QED BY <5>1, <5>2
      <4>2. PICK n \in L : \A k \in L : n <= k
        BY <4>1, LeastNumber
      <4>3. PICK q \in DOMAIN v : Len(q) = n /\ n # 0
        BY <4>2
      <4>4. q # <<>> /\ q \in Seq(TreeKeys)
        BY <3>1, <4>3 DEF Paths
      <4>5. Front(q) \in DOMAIN v /\ v[Front(q)].kind \in Containers
        BY <3>1, <4>4 DEF HasParent
      <4>6. Len(Front(q)) = n - 1 /\ n \in Nat
        BY <4>2, <4>3, <4>4, PathEnd
      <4>7. n - 1 \notin L
        BY <4>2, <4>6
      <4>8. n - 1 = 0
        BY <4>3, <4>5, <4>6, <4>7
      <4>9. Front(q) = <<>>
        BY <3>1, <4>5, <4>6, <4>8 DEF Paths
      <4> QED BY <2>2, <4>5, <4>9 DEF Containers
    <3>3. v[<<>>] = Node("undefined", <<>>)
      <4>1. v[<<>>] \in Nodes /\ NodeOK(v[<<>>])
        BY <3>1
      <4>2. v[<<>>].chars = <<>>
        BY <2>2, <4>1 DEF NodeOK
      <4> QED BY <2>2, <4>1, <4>2 DEF Nodes, Node
    <3>4. v = [q \in {<<>>} |-> Node("undefined", <<>>)]
      BY <3>1, <3>2, <3>3
    <3> QED BY <1>2, <3>4 DEF Undefined, Leaf
  <2> QED BY <1>2, <2>1, <2>2
<1> QED BY <1>1, <1>2

\* The operations of the program keep both.
LEMMA GiveOK ==
  ASSUME Typed, Careful, NEW x \in Holders, NEW y \in Holders, NEW new, IsTree(new),
         NEW moves \in BOOLEAN, NEW copies \in BOOLEAN, Give(x, y, new, moves, copies),
         careful /\ tree[y] # Undefined /\ x # y => copies /\ Whole(new)
  PROVE  Typed' /\ Careful'
<1>1. step = "idle" /\ UNCHANGED <<written, pretty>>
      /\ careful' = (careful /\ tree[y] # Undefined /\ x # y)
  BY DEF Give, textVars
<1>2. careful' \in BOOLEAN /\ (careful' => careful /\ tree[y] # Undefined /\ x # y)
  <2>1. (careful /\ tree[y] # Undefined /\ x # y) \in BOOLEAN
    OBVIOUS
  <2> QED BY <1>1, <2>1
<1>3. CASE moves \/ copies
  <2>1. tree' = [tree EXCEPT ![x] = new, ![y] = IF moves THEN Undefined ELSE @] /\ step' = step
    BY <1>3 DEF Give
  <2>2. DOMAIN tree' = Holders /\ \A z \in Holders : tree'[z] \in {new, Undefined, tree[z]}
    BY <2>1 DEF Typed
  <2>3. \A z \in Holders : IsTree(tree'[z])
    BY <2>2, UndefinedIs DEF Typed
  <2>4. Typed'
    BY <1>1, <1>2, <2>1, <2>2, <2>3 DEF Typed
  <2>5. Careful'
    <3> SUFFICES ASSUME careful'
                 PROVE  /\ step' # "null"
                        /\ \A z \in Holders : tree'[z] # Undefined => Copies(tree'[z])
                        /\ written' # Undefined => Copies(written')
      BY DEF Careful
    <3>1. careful /\ Whole(new)
      BY <1>2
    <3> QED BY <1>1, <2>1, <2>2, <3>1 DEF Careful, Whole
  <2> QED BY <2>4, <2>5
<1>4. CASE ~(moves \/ copies)
  <2>1. tree' = tree /\ step' = "null"
    BY <1>4 DEF Give
  <2>2. ~careful'
    BY <1>2, <1>4
  <2> QED BY <1>1, <1>2, <2>1, <2>2 DEF Typed, Careful, Steps
<1> QED BY <1>3, <1>4

\* The assignments of trees keep the types, and a careful program careful.
LEMMA AssignTreeOK ==
  ASSUME Typed, Careful, NEW x \in Holders, NEW y \in Holders, NEW moves \in BOOLEAN,
         AssignTree(x, y, moves)
  PROVE  Typed' /\ Careful'
<1>1. Give(x, y, tree[y], moves, Whole(tree[y]))
  BY DEF AssignTree
<1>2. IsTree(tree[y]) /\ Whole(tree[y]) \in BOOLEAN
  BY DEF Typed, Whole
<1>3. careful => Whole(tree[y])
  BY DEF Careful, Whole
<1> QED BY <1>1, <1>2, <1>3, GiveOK

\* What is given: another tree, or the tree itself as it is by then.
LEMMA GivenIs ==
  ASSUME Typed, Careful, NEW x \in Holders, NEW y \in Holders, NEW self, IsTree(self),
         NEW v, IsTree(v), Whole(tree[x]) => Copies(v), v[<<>>].kind \in Containers,
         NEW k \in TreeKeys, v[<<>>].kind = "dict" => k = Labelled(k.label)
  PROVE  LET given == IF x = y THEN self ELSE tree[y]
         IN  /\ IsTree(given) /\ IsTree(Placed(v, k, given))
             /\ Copies(given) \in BOOLEAN /\ Whole(given) \in BOOLEAN
             /\ careful /\ tree[y] # Undefined /\ x # y =>
                    Copies(given) /\ Whole(given) /\ Whole(Placed(v, k, given))
<1> DEFINE given == IF x = y THEN self ELSE tree[y]
           new == Placed(v, k, given)
<1>1. IsTree(given) /\ (x # y => given = tree[y])
  BY DEF Typed
<1> HIDE DEF given
<1>2. /\ IsTree(new)
      /\ \A q \in DOMAIN new : \/ q \in DOMAIN v /\ new[q] = v[q]
                               \/ \E r \in DOMAIN given : new[q] = given[r]
  BY <1>1, PlacedIs
<1> HIDE DEF new
<1>3. ASSUME careful, tree[y] # Undefined, x # y PROVE Copies(given) /\ Copies(new)
  <2>1. Copies(given) /\ Copies(v)
    BY <1>1, <1>3 DEF Careful, Whole
  <2> QED BY <1>2, <2>1 DEF Copies
<1>4. Copies(given) \in BOOLEAN /\ Whole(given) \in BOOLEAN
  BY DEF Copies, Whole
<1> QED BY <1>1, <1>2, <1>3, <1>4 DEF given, new, Whole

\* PushBack keeps both.
LEMMA PushOK ==
  ASSUME Typed, Careful, NEW x \in Holders, NEW y \in Holders, NEW moves \in BOOLEAN,
         Push(x, y, moves)
  PROVE  Typed' /\ Careful'
<1> DEFINE v == Made(tree[x], "array")
           k == Indexed(Cardinality(Inner(v, <<>>)) + 1)
           given == IF x = y THEN v ELSE tree[y]
           new == Placed(v, k, given)
<1>1. Give(x, y, new, moves, Copies(given)) /\ tree[x][<<>>].kind \in {"undefined", "array"}
  BY DEF Push
<1>2. IsTree(tree[x]) /\ "array" \in Containers
  BY DEF Typed, Containers
<1>3. IsTree(v) /\ v[<<>>].kind = "array" /\ (Whole(tree[x]) => Copies(v))
  BY <1>1, <1>2, MadeIs DEF Whole
<1> HIDE DEF v
<1>4. k \in TreeKeys
  <2>1. Inner(v, <<>>) \subseteq DOMAIN v /\ IsFiniteSet(DOMAIN v)
    BY <1>3 DEF Inner, IsTree, Grove
  <2>2. IsFiniteSet(Inner(v, <<>>))
    BY <2>1, FS_Subset
  <2>3. Cardinality(Inner(v, <<>>)) + 1 \in Nat
    BY <2>2, FS_CardinalityType
  <2> QED BY <2>3, KeyOf
<1> HIDE DEF k
<1>5. v[<<>>].kind # "dict"
  BY <1>3
<1>6. /\ IsTree(given) /\ IsTree(new) /\ Copies(given) \in BOOLEAN
      /\ careful /\ tree[y] # Undefined /\ x # y => Copies(given) /\ Whole(new)
  BY <1>2, <1>3, <1>4, <1>5, GivenIs
<1> HIDE DEF given, new
<1> QED BY <1>1, <1>6, GiveOK

\* operator[] keeps a tree a tree.
LEMMA EnteredIs ==
  ASSUME NEW v, IsTree(v), v[<<>>].kind \in {"undefined", "dict"}, NEW l \in Labels
  PROVE  IsTree(Entered(v, l)) /\ Labelled(l) \in TreeKeys /\ Labelled(l) = Labelled(Labelled(l).label)
<1> DEFINE d == Made(v, "dict")
<1>1. "dict" \in Containers
  BY DEF Containers
<1>2. IsTree(d) /\ d[<<>>].kind = "dict"
  BY <1>1, MadeIs
<1>3. Labelled(l) \in TreeKeys /\ Labelled(l) = Labelled(Labelled(l).label)
  <2>1. l \in Seq(Chars)
    BY GivenIn
  <2> QED BY <2>1, KeyOf DEF Labelled
<1>4. IsTree(Placed(d, Labelled(l), Undefined))
  BY <1>1, <1>2, <1>3, PlacedIs, UndefinedIs
<1> QED BY <1>2, <1>3, <1>4 DEF Entered

\* Storing under a label keeps both.
LEMMA StoreOK ==
  ASSUME Typed, Careful, NEW x \in Holders, NEW y \in Holders, NEW moves \in BOOLEAN,
         NEW l \in Labels, Store(x, l, y, moves)
  PROVE  Typed' /\ Careful'
<1> DEFINE k == Labelled(l)
           v == Made(tree[x], "dict")
           self == Entered(tree[x], l)
           given == IF x = y THEN self ELSE tree[y]
           new == Placed(v, k, given)
<1>1. Give(x, y, new, moves, Whole(given)) /\ tree[x][<<>>].kind \in {"undefined", "dict"}
  BY DEF Store
<1>2. IsTree(tree[x]) /\ "dict" \in Containers
  BY DEF Typed, Containers
<1>3. IsTree(v) /\ v[<<>>].kind = "dict" /\ (Whole(tree[x]) => Copies(v))
  BY <1>1, <1>2, MadeIs DEF Whole
<1>4. IsTree(self) /\ k \in TreeKeys /\ k = Labelled(k.label)
  BY <1>1, <1>2, EnteredIs
<1> HIDE DEF k, v, self
<1>5. /\ IsTree(given) /\ IsTree(new) /\ Whole(given) \in BOOLEAN
      /\ careful /\ tree[y] # Undefined /\ x # y => Whole(given) /\ Whole(new)
  BY <1>2, <1>3, <1>4, GivenIs
<1> HIDE DEF given, new
<1> QED BY <1>1, <1>5, GiveOK

\* An operation that leaves a tree in x and the other trees alone.
LEMMA ReplacedOK ==
  ASSUME Typed, Careful, NEW x \in Holders, NEW new, IsTree(new),
         tree' = [tree EXCEPT ![x] = new], UNCHANGED <<step, written, pretty>>,
         careful' \in BOOLEAN, careful' => careful /\ (new # Undefined => Copies(new))
  PROVE  Typed' /\ Careful'
<1>1. DOMAIN tree' = Holders /\ \A z \in Holders : tree'[z] \in {new, tree[z]}
  BY DEF Typed
<1>2. Typed'
  BY <1>1 DEF Typed
<1>3. Careful'
  <2> SUFFICES ASSUME careful'
               PROVE  /\ step' # "null"
                      /\ \A z \in Holders : tree'[z] # Undefined => Copies(tree'[z])
                      /\ written' # Undefined => Copies(written')
    BY DEF Careful
  <2>1. careful /\ (new # Undefined => Copies(new))
    OBVIOUS
  <2> QED BY <1>1, <2>1 DEF Careful
<1> QED BY <1>2, <1>3

\* Assigning a value keeps both.
LEMMA AssignOK ==
  ASSUME Typed, Careful, NEW x \in Holders, Assign(x)
  PROVE  Typed' /\ Careful'
<1>1. PICK v \in {Leaf("scalar", s) : s \in Scalars} \cup {Leaf("string", s) : s \in Contents} :
         tree' = [tree EXCEPT ![x] = v]
  BY DEF Assign
<1>2. IsTree(v) /\ Copies(v)
  <2>1. CASE v \in {Leaf("scalar", s) : s \in Scalars}
    <3>1. PICK s \in Scalars : v = Leaf("scalar", s)
      BY <2>1
    <3>2. s \in Seq(Chars) /\ Printable(s)
      BY GivenIn, JsonAssumption DEF Printable
    <3> QED BY <3>1, <3>2, NodeIs, LeafTree
  <2>2. CASE v \in {Leaf("string", s) : s \in Contents}
    <3>1. PICK s \in Contents : v = Leaf("string", s)
      BY <2>2
    <3>2. s \in Seq(Chars)
      BY GivenIn
    <3> QED BY <3>1, <3>2, NodeIs, LeafTree
  <2> QED BY <2>1, <2>2
<1>3. UNCHANGED <<step, written, pretty, careful>> /\ careful \in BOOLEAN
  BY DEF Assign, textVars, Typed
<1>4. careful' \in BOOLEAN /\ (careful' => careful /\ (v # Undefined => Copies(v)))
  BY <1>2, <1>3
<1> QED BY <1>1, <1>2, <1>3, <1>4, ReplacedOK

\* Taking an entry of a tree keeps both: a careful program leaves no hole.
LEMMA TakeOutOK ==
  ASSUME Typed, Careful, NEW x \in Holders, NEW y \in Holders, NEW moves \in BOOLEAN,
         TakeOut(x, y, moves)
  PROVE  Typed' /\ Careful'
<1>1. PICK p \in Inner(tree[x], <<>>) :
        IF moves \/ Whole(Branch(tree[x], p))
        THEN /\ tree' = [tree EXCEPT ![x] = IF moves THEN Placed(@, p[1], Undefined) ELSE @,
                                     ![y] = Branch(tree[x], p)]
             /\ step' = step
        ELSE step' = "null" /\ tree' = tree
  BY DEF TakeOut
<1> DEFINE v == Branch(tree[x], p)
           w == Placed(tree[x], p[1], Undefined)
<1>2. p \in DOMAIN tree[x] /\ p # <<>> /\ Front(p) = <<>> /\ IsTree(tree[x])
  BY DEF Inner, Typed
<1>3. /\ IsTree(v)
      /\ \A q \in DOMAIN v : \E r \in DOMAIN tree[x] : v[q] = tree[x][r]
  BY <1>2, BranchIs
<1>4. IsTree(w)
  <2>1. p \in Seq(TreeKeys) /\ HasParent(tree[x], p)
    BY <1>2 DEF IsTree, Grove, Paths
  <2>2. Len(p) = 1 /\ Last(p) = p[1] /\ p[1] \in TreeKeys
    <3>1. Len(p) \in Nat /\ Len(p) >= 1 /\ Len(Front(p)) = Len(p) - 1
      BY <1>2, <2>1, PathEnd
    <3>2. Len(p) = 1
      BY <1>2, <3>1
    <3> QED BY <2>1, <3>2 DEF Last
  <2> QED BY <1>2, <2>1, <2>2, PlacedIs, UndefinedIs DEF HasParent
<1>5. tree[x] # Undefined
  BY <1>2, UndefinedIs
<1>6. ASSUME careful PROVE Copies(v)
  <2>1. Copies(tree[x])
    BY <1>5, <1>6 DEF Careful
  <2> QED BY <1>3, <2>1 DEF Copies
<1>7. /\ UNCHANGED <<written, pretty>> /\ step = "idle" /\ careful \in BOOLEAN
      /\ careful' = (careful /\ (moves => x = y))
  BY DEF TakeOut, textVars, Typed
<1>8. careful' \in BOOLEAN /\ (careful' => careful /\ (moves => x = y))
  <2>1. (careful /\ (moves => x = y)) \in BOOLEAN
    OBVIOUS
  <2> QED BY <1>7, <2>1
<1> HIDE DEF v, w
<1>9. CASE moves \/ Whole(v)
  <2>1. /\ tree' = [tree EXCEPT ![x] = IF moves THEN w ELSE @, ![y] = v]
        /\ step' = step
    BY <1>1, <1>9 DEF v, w
  <2>2. /\ DOMAIN tree' = Holders
        /\ \A z \in Holders : tree'[z] \in {v, w, tree[z]}
        /\ (moves => x = y) => \A z \in Holders : tree'[z] \in {v, tree[z]}
    BY <2>1 DEF Typed
  <2>3. Typed'
    BY <1>3, <1>4, <1>7, <1>8, <2>1, <2>2 DEF Typed
  <2>4. Careful'
    <3> SUFFICES ASSUME careful'
                 PROVE  /\ step' # "null"
                        /\ \A z \in Holders : tree'[z] # Undefined => Copies(tree'[z])
                        /\ written' # Undefined => Copies(written')
      BY DEF Careful
    <3>1. careful /\ \A z \in Holders : tree'[z] \in {v, tree[z]}
      BY <1>8, <2>2
    <3> QED BY <1>6, <1>7, <2>1, <3>1 DEF Careful
  <2> QED BY <2>3, <2>4
<1>10. CASE ~(moves \/ Whole(v))
  <2>1. tree' = tree /\ step' = "null"
    BY <1>1, <1>10 DEF v
  <2>2. ~careful'
    BY <1>6, <1>8, <1>10 DEF Whole
  <2> QED BY <1>7, <1>8, <2>1, <2>2 DEF Typed, Careful, Steps
<1> QED BY <1>9, <1>10

\* Making an entry that stays undefined keeps both: a careful program makes none.
LEMMA TouchOK ==
  ASSUME Typed, Careful, NEW x \in Holders, NEW l \in Labels, Touch(x, l)
  PROVE  Typed' /\ Careful'
<1> DEFINE v == Entered(tree[x], l)
<1>1. tree' = [tree EXCEPT ![x] = v]
  BY DEF Touch
<1>2. IsTree(v)
  BY EnteredIs DEF Typed, Touch
<1> HIDE DEF v
<1>3. UNCHANGED <<step, written, pretty>> /\ careful' = FALSE
  BY DEF Touch, textVars
<1> QED BY <1>1, <1>2, <1>3, ReplacedOK

\* An undefined value keeps both.
LEMMA ClearOK ==
  ASSUME Typed, Careful, NEW x \in Holders, Clear(x)
  PROVE  Typed' /\ Careful'
<1> DEFINE v == Leaf(tree[x][<<>>].kind, <<>>)
<1>1. tree' = [tree EXCEPT ![x] = v] /\ tree[x][<<>>].kind \in Containers
  BY DEF Clear
<1>2. IsTree(v) /\ Copies(v)
  <2>1. NodeOK(Node(tree[x][<<>>].kind, <<>>)) /\ tree[x][<<>>].kind # "undefined"
    BY <1>1, NodeIs DEF Containers
  <2> QED BY <2>1, LeafTree
<1> HIDE DEF v
<1>3. UNCHANGED <<step, written, pretty, careful>> /\ careful \in BOOLEAN
  BY DEF Clear, textVars, Typed
<1>4. careful' \in BOOLEAN /\ (careful' => careful /\ (v # Undefined => Copies(v)))
  BY <1>2, <1>3
<1> QED BY <1>1, <1>2, <1>3, <1>4, ReplacedOK

\* A program begins so.
LEMMA InitOK == JsonInit => Typed /\ Careful
<1> SUFFICES ASSUME JsonInit PROVE Typed /\ Careful
  OBVIOUS
<1>1. PICK x \in Holders, d \in 0..MaxDepth :
         /\ tree = [y \in Holders |-> IF y = x THEN Nested(d) ELSE Undefined]
         /\ careful = (d = 0)
  BY DEF JsonInit
<1>2. /\ step = "idle" /\ pretty = FALSE /\ written = Undefined
  BY DEF JsonInit
<1>3. d \in Nat
  BY JsonAssumption
<1>4. IsTree(Nested(d)) /\ (d = 0 => Nested(d) = Undefined)
  BY <1>3, NestedIs
<1>5. careful \in BOOLEAN /\ (careful => d = 0)
  BY <1>1
<1>6. DOMAIN tree = Holders /\ \A y \in Holders : tree[y] \in {Nested(d), Undefined}
  BY <1>1
<1>7. Typed
  BY <1>2, <1>4, <1>5, <1>6, UndefinedIs DEF Typed, Steps
<1>8. ASSUME careful PROVE \A y \in Holders : tree[y] = Undefined
  BY <1>4, <1>5, <1>6, <1>8
<1>9. Careful
  BY <1>2, <1>8 DEF Careful
<1> QED BY <1>7, <1>9

-----------------------------------------------------------------------------
(* Parts of the text. *)

\* s stands in t after place p.
At(t, p, s) == \A i \in 1..Len(s) : t[p + i] = s[i]

\* Where two texts stand one after the other, each stands.
LEMMA AtParts ==
  ASSUME NEW S, NEW a \in Seq(S), NEW b \in Seq(S), NEW t, NEW p \in Int, At(t, p, a \o b)
  PROVE  At(t, p, a) /\ At(t, p + Len(a), b)
<1> DEFINE m == Len(a)
           k == Len(b)
           ab == a \o b
<1>1. /\ m \in Nat /\ k \in Nat /\ Len(ab) = m + k
      /\ \A i \in 1..m : ab[i] = a[i]
      /\ \A i \in 1..k : ab[m + i] = b[i]
  BY Cat
<1>2. \A i \in 1..Len(ab) : t[p + i] = ab[i]
  BY DEF At
<1> HIDE DEF m, k, ab
<1>3. ASSUME NEW i \in 1..m PROVE t[p + i] = a[i]
  <2>1. i \in 1..Len(ab)
    BY <1>1
  <2> QED BY <1>1, <1>2, <2>1
<1>4. ASSUME NEW i \in 1..k PROVE t[(p + m) + i] = b[i]
  <2>1. m + i \in 1..Len(ab) /\ p + (m + i) = (p + m) + i
    BY <1>1
  <2> QED BY <1>1, <1>2, <2>1
<1> QED BY <1>3, <1>4 DEF At, m, k

\* Where one character stands.
LEMMA AtOne ==
  ASSUME NEW x, NEW t, NEW p \in Int, At(t, p, <<x>>)
  PROVE  t[p + 1] = x
<1>1. 1 \in 1..Len(<<x>>) /\ <<x>>[1] = x
  OBVIOUS
<1> QED BY <1>1 DEF At

\* A text stands at its own beginning.
LEMMA AtStart ==
  ASSUME NEW S, NEW t \in Seq(S), NEW a \in Seq(S), NEW b \in Seq(S), t = a \o b
  PROVE  At(t, 0, a \o b) /\ At(t, 0, a) /\ At(t, Len(a), b) /\ \A i \in 1..Len(a) : t[i] = a[i]
<1>1. At(t, 0, a \o b)
  <2>1. \A i \in 1..Len(a \o b) : 0 + i = i
    OBVIOUS
  <2> QED BY <2>1 DEF At
<1>2. 0 + Len(a) = Len(a)
  OBVIOUS
<1>3. \A i \in 1..Len(a) : t[i] = a[i]
  BY Cat
<1> QED BY <1>1, <1>2, <1>3, AtParts

\* What stands in a text stands in what it grows to.
LEMMA AtKept ==
  ASSUME NEW t, NEW u, NEW n \in Nat, \A i \in 1..n : u[i] = t[i],
         NEW S, NEW s \in Seq(S), NEW p \in Nat, p + Len(s) <= n, At(t, p, s)
  PROVE  At(u, p, s)
<1> DEFINE k == Len(s)
<1>1. k \in Nat /\ p + k <= n
  OBVIOUS
<1> HIDE DEF k
<1>2. ASSUME NEW i \in 1..k PROVE p + i \in 1..n
  BY <1>1
<1>3. \A i \in 1..k : t[p + i] = s[i]
  BY DEF At, k
<1> QED BY <1>2, <1>3 DEF At, k

-----------------------------------------------------------------------------
(* What is written of a value. *)

Plain(s) == \A i \in 1..Len(s) : s[i] \notin Structure

\* The quote is none of the other characters.
LEMMA QuoteIs ==
  /\ Quote # " " /\ Quote # "," /\ Quote # ":" /\ Quote # "[" /\ Quote # "]" /\ Quote # "{" /\ Quote # "}"
  /\ Quote # "0" /\ Quote # "1" /\ Quote # "2" /\ Quote # "-" /\ Quote # "." /\ Quote # "t" /\ Quote # "f"
  /\ Quote # "i" /\ Quote # "n"
BY Zenon DEF Quote

\* What a quoted text has at each place.
LEMMA QuotedIs ==
  ASSUME NEW s \in Seq(Chars)
  PROVE  /\ Quoted(s) \in Seq(Chars) /\ Len(Quoted(s)) = Len(s) + 2 /\ Len(s) \in Nat
         /\ Quoted(s)[1] = Quote /\ Quoted(s)[Len(s) + 2] = Quote
         /\ \A i \in 1..Len(s) : Quoted(s)[i + 1] = s[i]
<1> DEFINE a == <<Quote>>
           b == a \o s
           n == Len(s)
<1>1. a \in Seq(Chars) /\ Len(a) = 1 /\ a[1] = Quote
  BY MarksIn, OneIs
<1>2. /\ b \in Seq(Chars) /\ Len(b) = 1 + n /\ n \in Nat
      /\ \A i \in 1..1 : b[i] = a[i]
      /\ \A i \in 1..n : b[1 + i] = s[i]
  <2> HIDE DEF a
  <2>1. /\ a \o s \in Seq(Chars) /\ Len(s) \in Nat /\ Len(a \o s) = Len(a) + Len(s)
        /\ \A i \in 1..Len(a) : (a \o s)[i] = a[i]
        /\ \A i \in 1..Len(s) : (a \o s)[Len(a) + i] = s[i]
    BY <1>1, Cat
  <2> QED BY <1>1, <2>1
<1>3. Quoted(s) = b \o a
  BY DEF Quoted
<1> HIDE DEF a, b, n
<1>4. /\ Quoted(s) \in Seq(Chars) /\ Len(Quoted(s)) = (1 + n) + 1
      /\ \A i \in 1..(1 + n) : Quoted(s)[i] = b[i]
      /\ \A i \in 1..1 : Quoted(s)[(1 + n) + i] = a[i]
  <2>1. /\ b \o a \in Seq(Chars) /\ Len(b \o a) = Len(b) + Len(a)
        /\ \A i \in 1..Len(b) : (b \o a)[i] = b[i]
        /\ \A i \in 1..Len(a) : (b \o a)[Len(b) + i] = a[i]
    <3>1. a \in Seq(Chars) /\ b \in Seq(Chars)
      BY <1>1, <1>2
    <3> QED BY <3>1, Cat
  <2> QED BY <1>1, <1>2, <1>3, <2>1
<1>5. 1 \in 1..(1 + n) /\ 1 \in 1..1 /\ (1 + n) + 1 = n + 2
      /\ \A i \in 1..n : 1 + i \in 1..(1 + n) /\ i + 1 = 1 + i
  BY <1>2
<1> QED BY <1>1, <1>2, <1>4, <1>5 DEF n

\* The characters of a number, its first and its last.
LEMMA NumberText ==
  ASSUME NEW s \in Seq(Chars), IsNumber(s)
  PROVE  /\ s # <<>> /\ \A i \in 1..Len(s) : s[i] \in Digit \cup {"-", "."}
         /\ s[1] \in Digit \cup {"-"} /\ s[Len(s)] \in Digit
<1> DEFINE n == Len(s)
<1>1. n \in Nat
  OBVIOUS
<1>2. PICK i \in {1, 2} :
        /\ i = 2 => s[1] = "-"
        /\ \/ AreDigits(s, i, n)
           \/ \E d \in i..n :
                  s[d] = "." /\ AreDigits(s, i, d - 1) /\ AreDigits(s, d + 1, n)
  BY DEF IsNumber
<1> HIDE DEF n
<1>3. /\ n >= i /\ s[i] \in Digit /\ s[n] \in Digit
      /\ \A k \in i..n : s[k] \in Digit \cup {"."}
  <2>1. CASE AreDigits(s, i, n)
    BY <1>1, <1>2, <2>1 DEF AreDigits
  <2>2. CASE \E d \in i..n : s[d] = "." /\ AreDigits(s, i, d - 1) /\ AreDigits(s, d + 1, n)
    <3>1. PICK d \in i..n : s[d] = "." /\ AreDigits(s, i, d - 1) /\ AreDigits(s, d + 1, n)
      BY <2>2
    <3>2. i <= d - 1 /\ d + 1 <= n /\ d \in Int /\ i \in Int
      BY <1>1, <3>1 DEF AreDigits
    <3>3. i \in i..(d - 1) /\ n \in (d + 1)..n
      BY <1>1, <3>2
    <3>4. \A k \in i..n : k = d \/ k \in i..(d - 1) \/ k \in (d + 1)..n
      BY <1>1, <3>2
    <3>5. (\A k \in i..(d - 1) : s[k] \in Digit) /\ (\A k \in (d + 1)..n : s[k] \in Digit)
      BY <3>1 DEF AreDigits
    <3> QED BY <1>1, <3>1, <3>2, <3>3, <3>4, <3>5
  <2> QED BY <1>2, <2>1, <2>2
<1>4. s # <<>>
  <2>1. n # 0
    BY <1>1, <1>3
  <2> QED BY <2>1 DEF n
<1>5. \A k \in 1..n : s[k] \in Digit \cup {"-", "."}
  <2> TAKE k \in 1..n
  <2>1. k \in i..n \/ (k = 1 /\ i = 2)
    BY <1>1
  <2> QED BY <1>2, <1>3, <2>1
<1>6. s[1] \in Digit \cup {"-"}
  BY <1>2, <1>3
<1> QED BY <1>3, <1>4, <1>5, <1>6 DEF n

\* Those of true and false.
LEMMA BoolText ==
  ASSUME NEW s \in Bools
  PROVE  /\ s \in Seq({"t", "r", "u", "e", "f", "a", "l", "s"}) /\ Len(s) \in {4, 5} /\ s # <<>>
         /\ s[1] \in {"t", "f"} /\ s[Len(s)] = "e"
         /\ \A i \in 1..Len(s) : s[i] \in {"t", "r", "u", "e", "f", "a", "l", "s"}
<1>1. CASE s = <<"t", "r", "u", "e">>
  BY <1>1
<1>2. CASE s = <<"f", "a", "l", "s", "e">>
  BY <1>2
<1> QED BY <1>1, <1>2 DEF Bools

\* Those of infinities and NaNs.
LEMMA WordText ==
  ASSUME NEW s \in Words
  PROVE  /\ s \in Seq({"i", "n", "f", "a", "-"}) /\ Len(s) \in {3, 4} /\ s # <<>>
         /\ s[1] \in {"i", "n", "-"} /\ s[Len(s)] \in {"f", "n"}
         /\ \A i \in 1..Len(s) : s[i] \in {"i", "n", "f", "a", "-"}
<1>1. CASE s = <<"i", "n", "f">>
  BY <1>1
<1>2. CASE s = <<"-", "i", "n", "f">>
  BY <1>2
<1>3. CASE s = <<"n", "a", "n">>
  BY <1>3
<1>4. CASE s = <<"-", "n", "a", "n">>
  BY <1>4
<1> QED BY <1>1, <1>2, <1>3, <1>4 DEF Words

\* The ends of a value's text are no layout, and only strings hold structure.
LEMMA OpeningIs ==
  ASSUME NEW node, NodeOK(node)
  PROVE  /\ Opening(node) \in Seq(Chars) /\ Len(Opening(node)) \in Nat
         /\ node.kind = "undefined" => Opening(node) = <<>> /\ Len(Opening(node)) = 0
         /\ node.kind # "undefined" => Opening(node) # <<>> /\ Len(Opening(node)) >= 1
         /\ node.kind = "scalar" => Opening(node) = Printed(node.chars)
         /\ node.kind = "string" => Opening(node) = Quoted(node.chars)
         /\ node.kind = "array" => Opening(node) = <<"[">>
         /\ node.kind = "dict" => Opening(node) = <<"{">>
         /\ node.kind \in Containers => Len(Opening(node)) = 1 /\ Opens(Opening(node)[1])
         /\ Opening(node) # <<>> => Opening(node)[1] # " " /\ Opening(node)[Len(Opening(node))] # " "
         /\ node.kind \notin Containers /\ (node.kind = "string" => Plain(node.chars)) => Plain(Opening(node))
<1> DEFINE o == Opening(node)
<1>1. node.kind \in Kinds /\ node.chars \in Seq(Chars)
  BY DEF NodeOK, Nodes
<1>2. CASE node.kind = "undefined"
  <2>1. o = <<>>
    BY <1>2 DEF Opening
  <2> QED BY <1>2, <2>1 DEF Containers, Plain
<1>3. CASE node.kind = "scalar"
  <2>1. o = Printed(node.chars)
    BY <1>3 DEF Opening
  <2>2. o \in Seq(Chars) /\ (o \in Bools \/ o \in Words \/ IsNumber(o))
    BY <1>3, <2>1 DEF NodeOK, Printable
  <2>3. /\ o # <<>> /\ o[1] # " " /\ o[Len(o)] # " "
        /\ \A i \in 1..Len(o) :
               o[i] \in Digit \cup {"-", "."} \cup {"t", "r", "u", "e", "f", "a", "l", "s", "i", "n"}
    <3>1. CASE o \in Bools
      BY <3>1, BoolText
    <3>2. CASE o \in Words
      BY <3>2, WordText
    <3>3. CASE IsNumber(o)
      BY <2>2, <3>3, NumberText DEF Digit
    <3> QED BY <2>2, <3>1, <3>2, <3>3
  <2> HIDE DEF o
  <2>4. Plain(o)
    BY <2>3 DEF Plain, Structure, Digit
  <2>5. o \in Seq(Chars)
    BY <2>2
  <2>6. Len(o) \in Nat /\ Len(o) >= 1
    BY <2>3, <2>5, PathEnd
  <2> QED BY <1>3, <2>1, <2>3, <2>4, <2>5, <2>6 DEF o, Containers
<1>4. CASE node.kind = "string"
  <2>1. o = Quoted(node.chars)
    BY <1>4 DEF Opening
  <2> DEFINE n == Len(node.chars)
  <2>2. /\ o \in Seq(Chars) /\ Len(o) = n + 2 /\ n \in Nat
        /\ o[1] = Quote /\ o[n + 2] = Quote
        /\ \A i \in 1..n : o[i + 1] = node.chars[i]
    BY <1>1, <2>1, QuotedIs
  <2> HIDE DEF o, n
  <2>3. ASSUME Plain(node.chars) PROVE Plain(o)
    <3>1. ASSUME NEW i \in 1..(n + 2) PROVE o[i] \notin Structure
      <4>1. CASE i = 1 \/ i = n + 2
        BY <2>2, <4>1, QuoteIs DEF Structure
      <4>2. CASE i # 1 /\ i # n + 2
        <5>1. i - 1 \in 1..n /\ (i - 1) + 1 = i
          <6>1. n \in Nat
            BY <2>2
          <6> QED BY <4>2, <6>1
        <5>2. o[i] = node.chars[i - 1]
          BY <2>2, <5>1
        <5> QED BY <2>3, <5>1, <5>2 DEF Plain, n
      <4> QED BY <4>1, <4>2
    <3> QED BY <2>2, <3>1 DEF Plain
  <2>4. o # <<>> /\ Len(o) \in Nat /\ Len(o) >= 1
    <3>1. o \in Seq(Chars) /\ n \in Nat /\ Len(o) = n + 2
      BY <2>2
    <3> QED BY <3>1
  <2> QED BY <1>4, <2>1, <2>2, <2>3, <2>4, QuoteIs DEF o, Containers
<1>5. CASE node.kind \in Containers
  <2>1. \/ node.kind = "array" /\ o = <<"[">>
        \/ node.kind = "dict" /\ o = <<"{">>
    BY <1>5 DEF Opening, Containers
  <2>2. o \in Seq(Chars) /\ Len(o) = 1 /\ o # <<>> /\ Opens(o[1]) /\ o[1] # " " /\ o[Len(o)] # " "
    <3>1. \A x \in Chars : <<x>> \in Seq(Chars) /\ Len(<<x>>) = 1 /\ <<x>>[1] = x /\ <<x>> # <<>>
      BY OneIs
    <3> QED BY <2>1, <3>1, MarksIn DEF Opens
  <2> HIDE DEF o
  <2>3. Len(o) \in Nat /\ Len(o) >= 1
    <3>1. Len(o) = 1
      BY <2>2
    <3> QED BY <3>1
  <2> QED BY <1>5, <2>1, <2>2, <2>3 DEF Containers, o
<1> QED BY <1>1, <1>2, <1>3, <1>4, <1>5 DEF Kinds, Containers

-----------------------------------------------------------------------------
(* The writer's steps, as they change the text and its history. *)

\* The values that have a place in the text.
Places    == DOMAIN span
Inside(q) == q \in DOMAIN written /\ written[q].kind \in Containers
Open(q)   == Inside(q) /\ span[q].last = 0
Subs(p)   == {r \in Places : r # <<>> /\ Front(r) = p}

Spans   == [before : Nat, beg : Nat, colon : Nat, first : Nat, last : Nat, after : Nat]
WFrames == [path : Paths, level : Int, item : Paths]

\* The brackets open after place i.
Nest(i) == IF i = 0 THEN <<>> ELSE nest[i]

Histories ==
    /\ text \in Seq(Chars) /\ nest \in Seq(Seq(Chars)) /\ Len(nest) = Len(text)
    /\ \A q \in Places : span[q] \in Spans

\* The brackets that are open now are those at the end of the text.
LEMMA BracketsIs ==
  ASSUME Histories
  PROVE  Brackets = Nest(Len(text)) /\ Brackets \in Seq(Chars) /\ Len(text) \in Nat
         /\ \A i \in 0..Len(text) : Nest(i) \in Seq(Chars)
<1> DEFINE n == Len(text)
<1>1. nest \in Seq(Seq(Chars)) /\ Len(nest) = n /\ n \in Nat
  BY DEF Histories
<1> HIDE DEF n
<1>2. CASE n = 0
  <2>1. nest = <<>>
    BY <1>1, <1>2
  <2>2. 0..n = {0}
    BY <1>2
  <2> QED BY <1>1, <1>2, <2>1, <2>2 DEF Brackets, Nest, n
<1>3. CASE n # 0
  <2>1. nest # <<>> /\ Last(nest) = nest[n]
    BY <1>1, <1>3 DEF Last
  <2>2. \A i \in 1..n : nest[i] \in Seq(Chars)
    BY <1>1
  <2>3. n \in 1..n /\ \A i \in 0..n : i = 0 \/ i \in 1..n
    BY <1>1, <1>3
  <2>4. <<>> \in Seq(Chars)
    OBVIOUS
  <2> QED BY <1>1, <1>3, <2>1, <2>2, <2>3, <2>4 DEF Brackets, Nest, n
<1> QED BY <1>2, <1>3

\* What a call writes.
Begun(v, q, lead, where, frames, spans, level) ==
    LET n == Len(text)
        h == Len(lead)
        o == Opening(v[q])
        k == Len(o)
        inner == v[q].kind \in Containers
    IN  /\ text' \in Seq(Chars) /\ Len(text') = (n + h) + k /\ n \in Nat /\ h \in Nat /\ k \in Nat
        /\ \A i \in 1..n : text'[i] = text[i]
        /\ At(text', n, lead) /\ At(text', n + h, o)
        /\ nest' \in Seq(Seq(Chars)) /\ Len(nest') = Len(text')
        /\ \A i \in 1..n : nest'[i] = nest[i]
        /\ \A i \in (n + 1)..((n + h) + k) :
               nest'[i] = IF inner /\ i = (n + h) + k THEN Append(Brackets, o[1]) ELSE Brackets
        /\ DOMAIN span' = DOMAIN spans \cup {q}
        /\ span'[q] = [before |-> where[1], beg |-> where[2], colon |-> where[3],
                       first |-> where[4], after |-> 0,
                       last |-> IF inner THEN 0 ELSE where[4] + k - 1]
        /\ \A r \in DOMAIN spans : r # q => span'[r] = spans[r]
        /\ calls' = IF inner THEN Append(frames, [path |-> q, level |-> level, item |-> <<>>])
                    ELSE frames

\* What Begin does to the text and its history.
LEMMA BeginIs ==
  ASSUME Histories, NEW v, IsTree(v), NEW q \in DOMAIN v, NEW lead \in Seq(Chars),
         NEW where, NEW frames, NEW spans, NEW level, Begin(v, q, lead, where, frames, spans, level)
  PROVE  Begun(v, q, lead, where, frames, spans, level)
<1> DEFINE n == Len(text)
           h == Len(lead)
           o == Opening(v[q])
           k == Len(o)
           inner == v[q].kind \in Containers
           chars == lead \o o
           more == [i \in 1..Len(chars) |->
                      IF inner /\ i = Len(chars) THEN Append(Brackets, o[1]) ELSE Brackets]
<1>1. /\ text' = text \o chars /\ nest' = nest \o more
      /\ span' = [r \in DOMAIN spans \cup {q} |->
               IF r # q THEN spans[r]
               ELSE [before |-> where[1], beg |-> where[2], colon |-> where[3],
                     first |-> where[4], after |-> 0,
                     last |-> IF inner THEN 0 ELSE where[4] + k - 1]]
      /\ calls' = IF inner THEN Append(frames, [path |-> q, level |-> level, item |-> <<>>])
                  ELSE frames
  BY DEF Begin
<1>2. /\ o \in Seq(Chars) /\ k \in Nat /\ (inner => k = 1)
  <2>1. NodeOK(v[q])
    BY DEF IsTree, Grove
  <2> HIDE DEF o
  <2> QED BY <2>1, OpeningIs DEF o
<1>3. text \in Seq(Chars) /\ nest \in Seq(Seq(Chars)) /\ Len(nest) = n
  BY DEF Histories
<1>4. Brackets \in Seq(Chars) /\ n \in Nat
  BY BracketsIs
<1> HIDE DEF o, inner
<1>5. chars \in Seq(Chars) /\ Len(chars) = h + k /\ h \in Nat
  BY <1>2, Cat
<1>6. /\ text' \in Seq(Chars) /\ Len(text') = n + (h + k)
      /\ \A i \in 1..n : text'[i] = text[i]
      /\ At(text', n, chars)
  <2> HIDE DEF chars
  <2>1. text \o chars \in Seq(Chars) /\ Len(text \o chars) = n + Len(chars)
    BY <1>3, <1>5, Cat
  <2>2. text' \in Seq(Chars) /\ text' = text \o chars /\ text \in Seq(Chars) /\ chars \in Seq(Chars)
    BY <1>1, <1>3, <1>5, <2>1
  <2>3. At(text', Len(text), chars) /\ \A i \in 1..n : text'[i] = text[i]
    BY <2>2, AtStart
  <2> QED BY <1>1, <1>5, <2>1, <2>2, <2>3
<1>7. At(text', n, lead) /\ At(text', n + h, o)
  <2>1. n \in Int
    BY <1>4
  <2> HIDE DEF n
  <2> QED BY <1>2, <1>6, <2>1, AtParts
<1> HIDE DEF chars
<1>8. /\ nest' \in Seq(Seq(Chars)) /\ Len(nest') = n + (h + k)
      /\ \A i \in 1..n : nest'[i] = nest[i]
      /\ \A i \in 1..(h + k) :
             nest'[n + i] = IF inner /\ i = h + k THEN Append(Brackets, o[1]) ELSE Brackets
  <2>1. inner => Append(Brackets, o[1]) \in Seq(Chars)
    <3> SUFFICES ASSUME inner PROVE Append(Brackets, o[1]) \in Seq(Chars)
      OBVIOUS
    <3>1. o[1] \in Chars
      <4>1. k = 1 /\ o \in Seq(Chars)
        BY <1>2
      <4>2. 1 \in 1..Len(o)
        BY <4>1
      <4> QED BY <4>1, <4>2, SMTT(40)
    <3> QED BY <1>4, <3>1
  <2>2. more \in [1..(h + k) -> Seq(Chars)]
    <3>1. \A i \in 1..(h + k) :
             (IF inner /\ i = h + k THEN Append(Brackets, o[1]) ELSE Brackets) \in Seq(Chars)
      BY <1>4, <2>1
    <3> QED BY <1>5, <3>1
  <2>3. /\ more \in Seq(Seq(Chars)) /\ Len(more) = h + k
        /\ \A i \in 1..(h + k) : more[i] = IF inner /\ i = h + k THEN Append(Brackets, o[1]) ELSE Brackets
    <3>1. h + k \in Nat
      BY <1>2, <1>5
    <3> HIDE DEF h, k
    <3>2. \A i \in 1..(h + k) : more[i] = IF inner /\ i = h + k THEN Append(Brackets, o[1]) ELSE Brackets
      BY <1>5 DEF h, k
    <3> HIDE DEF more
    <3> QED BY <2>2, <3>1, <3>2, SMTT(40)
  <2> HIDE DEF more, h, k
  <2>4. /\ nest \o more \in Seq(Seq(Chars)) /\ Len(nest \o more) = Len(nest) + Len(more)
        /\ \A i \in 1..Len(nest) : (nest \o more)[i] = nest[i]
        /\ \A i \in 1..Len(more) : (nest \o more)[Len(nest) + i] = more[i]
    BY <1>3, <2>3, Cat, SMTT(40)
  <2> QED BY <1>1, <1>3, <2>3, <2>4
<1>9. ASSUME NEW i \in (n + 1)..((n + h) + k)
      PROVE  nest'[i] = IF inner /\ i = (n + h) + k THEN Append(Brackets, o[1]) ELSE Brackets
  <2> HIDE DEF n, h, k
  <2>1. i - n \in 1..(h + k) /\ n + (i - n) = i /\ (i - n = h + k <=> i = (n + h) + k)
    BY <1>2, <1>4, <1>5 DEF h, k
  <2> QED BY <1>8, <2>1
<1>10. /\ DOMAIN span' = DOMAIN spans \cup {q}
       /\ span'[q] = [before |-> where[1], beg |-> where[2], colon |-> where[3],
                      first |-> where[4], after |-> 0,
                      last |-> IF inner THEN 0 ELSE where[4] + k - 1]
       /\ \A r \in DOMAIN spans : r # q => span'[r] = spans[r]
  BY <1>1
<1>11. n + (h + k) = (n + h) + k
  <2> HIDE DEF n, h, k
  <2> QED BY <1>2, <1>4, <1>5 DEF h, k
<1> QED BY <1>1, <1>2, <1>4, <1>5, <1>6, <1>7, <1>8, <1>9, <1>10, <1>11 DEF o, inner, Begun

\* The k-th loop of the writer.
FrameOK(k) ==
    /\ calls[k].path \in Places /\ Open(calls[k].path) /\ Len(calls[k].path) = k - 1
    /\ calls[k].item # <<>> => /\ calls[k].item \in Places \cap DOMAIN written
                               /\ Front(calls[k].item) = calls[k].path
    /\ k < Len(calls) => calls[k].item # <<>> /\ calls[k].item = calls[k + 1].path

\* The loops that write the containers around the place where the text ends.
Frames ==
    /\ calls \in Seq(WFrames)
    /\ \A k \in 1..Len(calls) : FrameOK(k)
    /\ \A q \in Places : /\ span[q].after = 0 <=> q = <<>> \/ \E k \in 1..Len(calls) : q = calls[k].item
                         /\ Open(q) => \E k \in 1..Len(calls) : q = calls[k].path
                         /\ span[q].after <= Len(text)
    /\ calls # <<>> =>
         LET c == Last(calls)
         IN  IF c.item = <<>>
             THEN /\ span[c.path].first = Len(text) /\ Subs(c.path) = {}
                  /\ \A r \in Places : span[r].before < Len(text)
             ELSE ~Open(c.item) /\ span[c.item].last = Len(text)
    /\ calls = <<>> => span[<<>>].last = Len(text)
    /\ Len(Nest(Len(text))) = Len(calls)
    /\ \A k \in 1..Len(calls) : Nest(Len(text))[k] = Opening(written[calls[k].path])[1]

\* The loop that writes now.
LEMMA TopFrame ==
  ASSUME Frames, calls # <<>>
  PROVE  LET c == Last(calls)
             m == Len(calls)
         IN  /\ m \in Nat /\ m >= 1 /\ c = calls[m] /\ c \in WFrames
             /\ c.path \in Paths /\ c.item \in Paths /\ c.level \in Int
             /\ c.path \in Places /\ Open(c.path) /\ Inside(c.path) /\ c.path \in DOMAIN written
             /\ written[c.path].kind \in Containers
             /\ Len(c.path) = m - 1
             /\ c.item # <<>> => /\ c.item \in Places /\ c.item \in DOMAIN written
                                 /\ Front(c.item) = c.path /\ Len(c.item) = m /\ c.item # c.path
                                 /\ ~Open(c.item) /\ span[c.item].last = Len(text)
             /\ c.item = <<>> => /\ span[c.path].first = Len(text) /\ Subs(c.path) = {}
                                 /\ \A r \in Places : span[r].before < Len(text)
<1> DEFINE c == Last(calls)
           m == Len(calls)
<1>1. calls \in Seq(WFrames)
  BY DEF Frames, FrameOK
<1>2. m \in Nat /\ m >= 1 /\ c = calls[m]
  BY <1>1, PathEnd DEF Last
<1>3. m \in 1..m
  BY <1>2
<1>4. /\ c.path \in Places /\ Open(c.path) /\ Len(c.path) = m - 1
      /\ c.item # <<>> => c.item \in Places \cap DOMAIN written /\ Front(c.item) = c.path
  BY <1>2, <1>3 DEF Frames, FrameOK
<1>5. c \in WFrames
  BY <1>1, <1>2, <1>3
<1>6. c.path \in Paths /\ c.item \in Paths /\ c.level \in Int
  BY <1>5 DEF WFrames
<1>7. IF c.item = <<>>
      THEN /\ span[c.path].first = Len(text) /\ Subs(c.path) = {}
           /\ \A r \in Places : span[r].before < Len(text)
      ELSE ~Open(c.item) /\ span[c.item].last = Len(text)
  BY DEF Frames, FrameOK
<1>8. c.item # <<>> => Len(c.item) = m /\ c.item # c.path
  <2> HIDE DEF c, m
  <2> SUFFICES ASSUME c.item # <<>> PROVE Len(c.item) = m /\ c.item # c.path
    OBVIOUS
  <2>1. c.item \in Seq(TreeKeys)
    BY <1>6 DEF Paths
  <2>2. Len(Front(c.item)) = Len(c.item) - 1 /\ Len(c.item) \in Nat
    BY <2>1, PathEnd
  <2> QED BY <1>2, <1>4, <2>2
<1>9. Inside(c.path) /\ c.path \in DOMAIN written /\ written[c.path].kind \in Containers
  BY <1>4 DEF Open, Inside
<1> QED BY <1>2, <1>4, <1>5, <1>6, <1>7, <1>8, <1>9

\* What stands where an entry's label is.
Entry(t, s, label) ==
    /\ s.beg \in {s.before + 1, s.before + 2}
    /\ s.beg = s.before + 2 => t[s.before + 1] = " "
    /\ s.colon = s.beg + Len(label) + 2
    /\ t[s.beg] = Quote /\ At(t, s.beg, label)
    /\ t[s.colon - 1] = Quote /\ t[s.colon] = ":"

\* The step that writes the value at q, with layout or without.
Wrote(q, g) ==
    LET c    == Last(calls)
        m    == Len(calls)
        n    == Len(text)
        b    == IF c.item = <<>> THEN n ELSE n + 1
        dict == written[c.path].kind = "dict"
        o    == Opening(written[q])
        s    == span'[q]
    IN  /\ q \in Inner(written, c.path) \ Places
        /\ dict \/ Last(q) = Indexed(NextIndex(c.item))
        /\ g = Len(Layout(c.level)) /\ IndentEnds(c.level)
        /\ DOMAIN span' = Places \cup {q}
        /\ s \in Spans
        /\ s.before = b /\ s.beg = b + g + 1 /\ s.first = s.colon + g + 1 /\ s.after = 0
        /\ s.colon = IF dict THEN s.beg + Len(Last(q).label) + 2 ELSE b
        /\ s.last = IF written[q].kind \in Containers THEN 0 ELSE s.first + Len(o) - 1
        /\ \A r \in Places : r = <<>> \/ r # c.item => span'[r] = span[r]
        /\ c.item # <<>> => span'[c.item] = [span[c.item] EXCEPT !.after = b]
        /\ text' \in Seq(Chars) /\ Len(text') = s.first + Len(o) - 1
        /\ \A i \in 1..n : text'[i] = text[i]
        /\ c.item # <<>> => text'[b] = ","
        /\ g = 1 => text'[b + 1] = " " /\ text'[s.first - 1] = " "
        /\ dict => Entry(text', s, Last(q).label)
        /\ At(text', s.first - 1, o)
        /\ nest' \in Seq(Seq(Chars)) /\ Len(nest') = Len(text')
        /\ \A i \in 1..n : nest'[i] = nest[i]
        /\ \A i \in (n + 1)..Len(text') :
               nest'[i] = IF written[q].kind \in Containers /\ i = Len(text')
                          THEN Append(Nest(n), o[1]) ELSE Nest(n)
        /\ calls' \in Seq(WFrames)
        /\ Len(calls') = IF written[q].kind \in Containers THEN m + 1 ELSE m
        /\ \A k \in 1..(m - 1) : calls'[k] = calls[k]
        /\ calls'[m] = [c EXCEPT !.item = q]
        /\ written[q].kind \in Containers =>
               calls'[m + 1] = [path |-> q, level |-> NextLevel(c.level), item |-> <<>>]

\* Layout is there at a level that is not negative.
LEMMA LayoutIs ==
  ASSUME NEW level
  PROVE  Layout(level) \in Seq(Chars) /\ Len(Layout(level)) \in {0, 1}
         /\ (Len(Layout(level)) = 0 <=> level < 0)
         /\ (Len(Layout(level)) = 1 => Layout(level) = <<" ">>)
         /\ (Len(Layout(level)) = 0 => Layout(level) = <<>>)
<1>1. CASE level < 0
  <2>1. Layout(level) = <<>>
    BY <1>1 DEF Layout
  <2> QED BY <1>1, <2>1
<1>2. CASE ~(level < 0)
  <2>1. Layout(level) = <<" ">>
    BY <1>2 DEF Layout
  <2>2. <<" ">> \in Seq(Chars) /\ Len(<<" ">>) = 1
    BY MarksIn, OneIs
  <2> DEFINE u == <<" ">>
  <2>3. Layout(level) = u /\ u \in Seq(Chars) /\ Len(u) = 1
    BY <2>1, <2>2
  <2> HIDE DEF u
  <2>4. Layout(level) \in Seq(Chars) /\ Len(Layout(level)) = 1 /\ Layout(level) = u
    BY <2>3
  <2>5. Len(Layout(level)) \in {0, 1} /\ Len(Layout(level)) # 0
    <3>1. Len(Layout(level)) = 1
      BY <2>4
    <3> QED BY <3>1
  <2>6. Layout(level) = <<" ">>
    BY <2>1
  <2> HIDE DEF u
  <2> QED BY <1>2, <2>4, <2>5, <2>6, Zenon
<1> QED BY <1>1, <1>2

\* Where the quotes and the colon of a label are.
LEMMA LabelIs ==
  ASSUME NEW l \in Seq(Chars), NEW t, NEW p \in Int, At(t, p, Quoted(l) \o <<":">>)
  PROVE  /\ t[p + 1] = Quote /\ At(t, p + 1, l)
         /\ t[p + Len(l) + 2] = Quote /\ t[p + Len(l) + 3] = ":"
<1> DEFINE a == <<Quote>>
           k == Len(l)
           col == <<":">>
<1>1. a \in Seq(Chars) /\ Len(a) = 1 /\ col \in Seq(Chars) /\ k \in Nat
  <2>1. Quote \in Chars /\ ":" \in Chars
    BY MarksIn
  <2>2. \A x \in Chars : <<x>> \in Seq(Chars) /\ Len(<<x>>) = 1
    BY OneIs
  <2> QED BY <2>1, <2>2
<1>2. Quoted(l) = a \o l \o a
  BY DEF Quoted
<1>3. Quoted(l) \in Seq(Chars) /\ Len(Quoted(l)) = k + 2
  BY QuotedIs
<1>4. At(t, p, Quoted(l)) /\ At(t, p + Len(Quoted(l)), col)
  <2>1. At(t, p, Quoted(l) \o col)
    OBVIOUS
  <2> HIDE DEF col
  <2> QED BY <1>1, <1>3, <2>1, AtParts
<1>5. a \o l \in Seq(Chars) /\ Len(a \o l) = 1 + k
  <2> HIDE DEF a
  <2>1. a \o l \in Seq(Chars) /\ Len(a \o l) = Len(a) + Len(l)
    <3>1. a \in Seq(Chars)
      BY <1>1
    <3> QED BY <3>1, Cat
  <2> QED BY <1>1, <2>1
<1>6. At(t, p, a \o l) /\ At(t, p + Len(a \o l), a)
  <2>1. At(t, p, (a \o l) \o a)
    BY <1>2, <1>4
  <2>2. a \in Seq(Chars) /\ a \o l \in Seq(Chars)
    BY <1>1, <1>5
  <2> HIDE DEF a
  <2> QED BY <2>1, <2>2, AtParts
<1>7. At(t, p, a) /\ At(t, p + Len(a), l)
  <2>1. a \in Seq(Chars)
    BY <1>1
  <2> HIDE DEF a
  <2> QED BY <1>6, <2>1, AtParts
<1>8. t[p + 1] = Quote
  BY <1>7, AtOne
<1>9. t[(p + (1 + k)) + 1] = Quote
  <2>1. At(t, p + (1 + k), a) /\ p + (1 + k) \in Int
    BY <1>1, <1>5, <1>6
  <2> HIDE DEF k
  <2> QED BY <2>1, AtOne
<1>10. t[(p + (k + 2)) + 1] = ":"
  <2>1. At(t, p + (k + 2), col) /\ p + (k + 2) \in Int
    BY <1>1, <1>3, <1>4
  <2> HIDE DEF k
  <2> QED BY <2>1, AtOne
<1>11. (p + (1 + k)) + 1 = p + k + 2 /\ (p + (k + 2)) + 1 = p + k + 3
  <2> HIDE DEF k
  <2> QED BY <1>1
<1> QED BY <1>1, <1>7, <1>8, <1>9, <1>10, <1>11

\* Its turn is such a step.
LEMMA ItemWrote ==
  ASSUME Histories, Frames, IsTree(written), WriteItem, step' = "writing"
  PROVE  \E q \in Inner(written, Last(calls).path) \ Places, g \in {0, 1} : Wrote(q, g)
<1> DEFINE c == Last(calls)
           m == Len(calls)
           n == Len(text)
           dict  == written[c.path].kind = "dict"
           comma == IF c.item = <<>> THEN <<>> ELSE <<",">>
           lay   == Layout(c.level)
           g     == Len(lay)
           Label(q) == IF dict THEN Quoted(Last(q).label) \o <<":">> ELSE <<>>
           gap   == IF dict THEN lay ELSE <<>>
           b     == n + Len(comma)
           beg   == b + g + 1
           Colon(q) == IF dict THEN beg + Len(Label(q)) - 1 ELSE b
           first(q) == beg + Len(Label(q)) + Len(gap)
           lead(q)  == comma \o lay \o Label(q) \o gap
           low(q)   == [calls EXCEPT ![m].item = q]
           ended    == Ended(c.item, b)
<1>1. calls # <<>> /\ step = "writing"
  BY DEF WriteItem
<1>2. PICK q \in Inner(written, c.path) \ Places :
         /\ dict \/ Last(q) = Indexed(NextIndex(c.item))
         /\ IF IndentEnds(c.level)
            THEN /\ Begin(written, q, lead(q), <<b, beg, Colon(q), first(q)>>, low(q), ended, NextLevel(c.level))
                 /\ UNCHANGED step
            ELSE step' = "loops" /\ UNCHANGED <<text, nest, span, calls>>
  BY DEF WriteItem, Places
<1>3. /\ Begin(written, q, lead(q), <<b, beg, Colon(q), first(q)>>, low(q), ended, NextLevel(c.level))
      /\ IndentEnds(c.level)
  BY <1>2
<1>4. /\ m \in Nat /\ m >= 1 /\ c = calls[m] /\ c \in WFrames
      /\ c.path \in Paths /\ c.item \in Paths /\ c.level \in Int
      /\ c.path \in DOMAIN written /\ c.path \in Places
      /\ written[c.path].kind \in Containers
      /\ c.item # <<>> => c.item \in Places
  BY <1>1, TopFrame
<1>5. /\ q \in DOMAIN written /\ q \notin Places /\ q # <<>> /\ Front(q) = c.path /\ q \in Paths
      /\ Last(q).label \in Seq(Chars)
  <2>1. q \in DOMAIN written /\ q \notin Places /\ q # <<>> /\ Front(q) = c.path
    BY DEF Inner
  <2>2. q \in Seq(TreeKeys)
    BY <2>1 DEF IsTree, Grove, Paths
  <2>3. Last(q) \in TreeKeys
    BY <2>1, <2>2, PathEnd
  <2> QED BY <2>1, <2>2, <2>3 DEF TreeKeys, Paths
<1>6. n \in Nat /\ text \in Seq(Chars) /\ Brackets = Nest(n)
  BY BracketsIs DEF Histories
<1> DEFINE l == Last(q).label
           k == Len(l)
           e == Len(comma)
<1>7. /\ comma \in Seq(Chars) /\ e \in {0, 1} /\ (c.item = <<>> <=> e = 0)
      /\ c.item # <<>> => comma = <<",">>
  <2>1. "," \in Chars
    BY MarksIn
  <2>2. CASE c.item = <<>>
    <3>1. comma = <<>>
      BY <2>2
    <3> QED BY <2>2, <3>1
  <2>3. CASE c.item # <<>>
    <3>1. comma = <<",">>
      BY <2>3
    <3>2. comma \in Seq(Chars) /\ e = 1
      BY <2>1, <3>1, OneIs
    <3> HIDE DEF comma, e, c
    <3>3. e \in {0, 1} /\ e # 0
      BY <3>2
    <3> QED BY <2>3, <3>1, <3>2, <3>3
  <2> QED BY <2>2, <2>3
<1>8. lay \in Seq(Chars) /\ g \in {0, 1} /\ (g = 1 => lay = <<" ">>) /\ (g = 0 => lay = <<>>)
  BY LayoutIs
<1>9. k \in Nat
  BY <1>5
<1> HIDE DEF comma, lay, n
<1>10. /\ Label(q) \in Seq(Chars)
       /\ dict => Len(Label(q)) = k + 3
       /\ ~dict => Label(q) = <<>> /\ Len(Label(q)) = 0
  <2>1. CASE dict
    <3> DEFINE col == <<":">>
    <3>1. Label(q) = Quoted(l) \o col
      BY <2>1
    <3>2. Quoted(l) \in Seq(Chars) /\ Len(Quoted(l)) = k + 2
      BY <1>5, QuotedIs
    <3>3. col \in Seq(Chars) /\ Len(col) = 1
      BY MarksIn, OneIs
    <3> HIDE DEF col, l
    <3>4. Quoted(l) \o col \in Seq(Chars) /\ Len(Quoted(l) \o col) = Len(Quoted(l)) + Len(col)
      BY <3>2, <3>3, Cat
    <3>5. (k + 2) + 1 = k + 3
      <4> HIDE DEF k
      <4> QED BY <1>9
    <3> QED BY <2>1, <3>1, <3>2, <3>3, <3>4, <3>5
  <2>2. CASE ~dict
    <3>1. Label(q) = <<>>
      BY <2>2
    <3> QED BY <2>2, <3>1
  <2> QED BY <2>1, <2>2
<1> DEFINE L == Label(q)
           j == Len(L)
           u == Len(gap)
<1>11. /\ gap \in Seq(Chars) /\ u \in {0, 1} /\ (dict => u = g /\ gap = lay) /\ (~dict => u = 0)
  <2>1. CASE dict
    BY <1>8, <2>1
  <2>2. CASE ~dict
    BY <2>2
  <2> QED BY <2>1, <2>2
<1>12. j \in Nat /\ L \in Seq(Chars)
  BY <1>10
<1> HIDE DEF L, gap
<1> DEFINE l1 == comma \o lay
           l2 == l1 \o L
           l3 == l2 \o gap
<1>13. l1 \in Seq(Chars) /\ Len(l1) = e + g
  <2>1. comma \in Seq(Chars) /\ lay \in Seq(Chars)
    BY <1>7, <1>8
  <2> QED BY <2>1, Cat
<1> HIDE DEF l1
<1>14. l2 \in Seq(Chars) /\ Len(l2) = (e + g) + j
  BY <1>12, <1>13, Cat, ZenonT(60)
<1> HIDE DEF l2
<1>15. l3 \in Seq(Chars) /\ Len(l3) = ((e + g) + j) + u
  BY <1>11, <1>14, Cat, SMTT(40)
<1>16. lead(q) = l3
  BY DEF l1, l2, L
<1> HIDE DEF l3
<1> DEFINE o == Opening(written[q])
           z == Len(o)
           inner == written[q].kind \in Containers
<1>17. o \in Seq(Chars) /\ z \in Nat
  <2>1. NodeOK(written[q])
    BY <1>5 DEF IsTree, Grove
  <2> QED BY <2>1, OpeningIs
<1> HIDE DEF o
<1> DEFINE where == <<b, beg, Colon(q), first(q)>>
<1>18. /\ text' \in Seq(Chars) /\ Len(text') = (n + Len(l3)) + z
       /\ \A i \in 1..n : text'[i] = text[i]
       /\ At(text', n, l3) /\ At(text', n + Len(l3), o)
       /\ nest' \in Seq(Seq(Chars)) /\ Len(nest') = Len(text')
       /\ \A i \in 1..n : nest'[i] = nest[i]
       /\ \A i \in (n + 1)..((n + Len(l3)) + z) :
                nest'[i] = IF inner /\ i = (n + Len(l3)) + z THEN Append(Brackets, o[1]) ELSE Brackets
       /\ DOMAIN span' = DOMAIN ended \cup {q}
       /\ span'[q] = [before |-> where[1], beg |-> where[2], colon |-> where[3],
                      first |-> where[4], after |-> 0,
                      last |-> IF inner THEN 0 ELSE where[4] + z - 1]
       /\ \A r \in DOMAIN ended : r # q => span'[r] = ended[r]
       /\ calls' = IF inner THEN Append(low(q), [path |-> q, level |-> NextLevel(c.level), item |-> <<>>])
                         ELSE low(q)
  <2>1. Begin(written, q, l3, where, low(q), ended, NextLevel(c.level))
    BY <1>3, <1>16
  <2> HIDE DEF where, low, ended, c
  <2>2. Begun(written, q, l3, where, low(q), ended, NextLevel(c.level))
    <3>1. q \in DOMAIN written /\ l3 \in Seq(Chars)
      BY <1>5, <1>15
    <3> QED BY <2>1, <3>1, BeginIs, Zenon
  <2> QED BY <2>2, Zenon DEF n, o, inner, Begun
<1> HIDE DEF inner
<1>19. PICK N \in Nat : N = n
  BY <1>6
<1> DEFINE B == n + e
           C == IF dict THEN B + g + 1 + k + 2 ELSE B
           F == C + g + 1
\* The places, as numbers.
<1>20. /\ b = B /\ beg = B + g + 1 /\ Colon(q) = C /\ first(q) = F
       /\ (n + Len(l3)) + z = F + z - 1 /\ n + Len(l3) = F - 1
       /\ B \in Nat /\ C \in Nat /\ F \in Nat /\ B + g + 1 \in Nat /\ B <= C /\ C < F
       /\ (dict => beg + k + 2 = C)
       /\ F + z - 1 \in Nat
  <2>1. /\ n \in Nat /\ e \in {0, 1} /\ g \in {0, 1} /\ k \in Nat /\ u \in {0, 1} /\ z \in Nat
        /\ (dict => u = g /\ j = k + 3) /\ (~dict => u = 0 /\ j = 0) /\ Len(l3) = ((e + g) + j) + u
    BY <1>6, <1>7, <1>8, <1>9, <1>10, <1>11, <1>15, <1>17 DEF L
  <2>2. /\ b = n + e /\ beg = n + e + g + 1 /\ Colon(q) = IF dict THEN beg + j - 1 ELSE b
        /\ first(q) = beg + j + u
    BY DEF L
  <2>3. dict \/ ~dict
    OBVIOUS
  <2> HIDE DEF n, e, g, k, u, z, j, b, beg, Colon, first, dict
  <2>4. CASE dict
    BY <2>1, <2>2, <2>4
  <2>5. CASE ~dict
    BY <2>1, <2>2, <2>5
  <2> QED BY <2>4, <2>5
<1>35. /\ n \in Nat /\ e \in {0, 1} /\ g \in {0, 1} /\ k \in Nat /\ j \in Nat /\ z \in Nat
       /\ (c.item = <<>> <=> e = 0) /\ (dict => j = k + 3) /\ (~dict => j = 0)
       /\ Len(comma) = e /\ Len(lay) = g /\ Len(L) = j /\ Len(l) = k /\ Len(o) = z
  BY <1>6, <1>7, <1>8, <1>9, <1>10, <1>12, <1>17 DEF L
<1> HIDE DEF e, g, j, k, z, dict
<1>36. n \in Nat /\ e \in {0, 1} /\ g \in {0, 1} /\ k \in Nat /\ j \in Nat /\ z \in Nat
  BY <1>35
<1>21. At(text', n, comma) /\ At(text', B, lay) /\ At(text', B + g, L) /\ At(text', (B + g) + j, gap)
  <2>1. n \in Int /\ n + (e + g) = B + g /\ n + ((e + g) + j) = (B + g) + j
    BY <1>35
  <2>2. comma \in Seq(Chars) /\ lay \in Seq(Chars) /\ L \in Seq(Chars) /\ gap \in Seq(Chars)
    BY <1>7, <1>8, <1>11, <1>12
  <2>6. Len(l2) = (e + g) + j /\ Len(l1) = e + g
    BY <1>13, <1>14, <1>35
  <2>3. At(text', n, l2) /\ At(text', n + ((e + g) + j), gap)
    <3>1. At(text', n, l2 \o gap)
      BY <1>18 DEF l3
    <3>2. At(text', n, l2) /\ At(text', n + Len(l2), gap)
      BY <1>14, <2>1, <2>2, <3>1, AtParts
    <3> QED BY <2>6, <3>2
  <2>4. At(text', n, l1) /\ At(text', n + (e + g), L)
    <3>1. At(text', n, l1 \o L)
      BY <2>3 DEF l2
    <3>2. At(text', n, l1) /\ At(text', n + Len(l1), L)
      BY <1>13, <2>1, <2>2, <3>1, AtParts
    <3> QED BY <2>6, <3>2
  <2>5. At(text', n, comma) /\ At(text', n + e, lay)
    <3>1. At(text', n, comma \o lay)
      BY <2>4 DEF l1
    <3> QED BY <1>35, <2>1, <2>2, <3>1, AtParts
  <2> QED BY <2>1, <2>3, <2>4, <2>5
<1> DEFINE s == span'[q]
<1>22. /\ s = [before |-> B, beg |-> B + g + 1, colon |-> C, first |-> F, after |-> 0,
               last |-> IF inner THEN 0 ELSE F + z - 1]
  <2>1. where[1] = B /\ where[2] = B + g + 1 /\ where[3] = C /\ where[4] = F
    <3> HIDE DEF b, beg, Colon, first, B, C, F
    <3> QED BY <1>20
  <2> HIDE DEF where, F, C, B
  <2> QED BY <1>18, <2>1
<1>23. /\ s.before = B /\ s.beg = B + g + 1 /\ s.colon = C /\ s.first = F /\ s.after = 0
       /\ s.last = IF inner THEN 0 ELSE F + z - 1
       /\ s \in Spans
  <2>1. (IF inner THEN 0 ELSE F + z - 1) \in Nat
    BY <1>20
  <2> HIDE DEF s, B, C, F
  <2> QED BY <1>20, <1>22, <2>1 DEF Spans
<1>24. c.item # <<>> => text'[B] = ","
  <2> SUFFICES ASSUME c.item # <<>> PROVE text'[B] = ","
    OBVIOUS
  <2>1. At(text', n, <<",">>) /\ B = n + 1 /\ n \in Int
    <3>1. comma = <<",">> /\ e # 0
      BY <1>7, <1>35
    <3>2. B = n + 1 /\ n \in Int
      <4>1. e # 0
        BY <3>1
      <4> QED BY <1>36, <4>1
    <3> QED BY <1>21, <3>1, <3>2
  <2> QED BY <2>1, AtOne
<1>25. g = 1 => text'[B + 1] = " " /\ text'[F - 1] = " "
  <2> SUFFICES ASSUME g = 1 PROVE text'[B + 1] = " " /\ text'[F - 1] = " "
    OBVIOUS
  <2>1. lay = <<" ">> /\ B \in Int
    <3>1. lay = <<" ">>
      BY <1>8, <1>35
    <3>2. B \in Int
      BY <1>35
    <3> QED BY <3>1, <3>2
  <2>2. text'[B + 1] = " "
    <3> HIDE DEF B
    <3> QED BY <1>21, <2>1, AtOne
  <2>3. CASE ~dict
    <3>1. F - 1 = B + 1
      BY <1>35, <2>3
    <3> QED BY <2>2, <3>1
  <2>4. CASE dict
    <3>1. At(text', (B + g) + j, <<" ">>) /\ (B + g) + j \in Int /\ ((B + g) + j) + 1 = F - 1
      <4>1. gap = <<" ">> /\ j = k + 3
        BY <1>11, <1>35, <2>1, <2>4
      <4>2. (B + g) + j \in Int /\ ((B + g) + j) + 1 = F - 1
        <5>1. C = B + g + 1 + k + 2 /\ B \in Nat
          BY <1>35, <2>4
        <5> HIDE DEF C, B
        <5>2. j = k + 3
          BY <4>1
        <5> QED BY <1>36, <5>1, <5>2
      <4> QED BY <1>21, <4>1, <4>2
    <3>2. text'[((B + g) + j) + 1] = " "
      <4> HIDE DEF B, j
      <4> QED BY <3>1, AtOne
    <3> QED BY <2>2, <3>1, <3>2
  <2> QED BY <2>3, <2>4
<1>26. dict => Entry(text', s, l)
  <2> SUFFICES ASSUME dict PROVE Entry(text', s, l)
    OBVIOUS
  <2>1. At(text', B + g, Quoted(l) \o <<":">>) /\ B + g \in Int
    <3>1. L = Quoted(l) \o <<":">>
      BY DEF L
    <3>2. B + g \in Int
      BY <1>35
    <3> QED BY <1>21, <3>1, <3>2
  <2>2. /\ text'[(B + g) + 1] = Quote /\ At(text', (B + g) + 1, l)
        /\ text'[(B + g) + Len(l) + 2] = Quote /\ text'[(B + g) + Len(l) + 3] = ":"
    <3> HIDE DEF l, B, g
    <3> QED BY <1>5, <2>1, LabelIs DEF l
  <2>3. /\ (B + g) + 1 = s.beg /\ (B + g) + Len(l) + 2 = s.colon - 1 /\ (B + g) + Len(l) + 3 = s.colon
        /\ s.beg \in {s.before + 1, s.before + 2} /\ (s.beg = s.before + 2 => g = 1)
        /\ s.colon = s.beg + Len(l) + 2
    <3> HIDE DEF s, l
    <3> QED BY <1>23, <1>35
  <2> HIDE DEF s, B, l
  <2> QED BY <1>23, <1>25, <2>2, <2>3 DEF Entry
<1>27. Len(text') = F + z - 1 /\ At(text', F - 1, o)
  BY <1>18, <1>20
<1>28. \A i \in (n + 1)..Len(text') :
          nest'[i] = IF inner /\ i = Len(text') THEN Append(Nest(n), o[1]) ELSE Nest(n)
  BY <1>6, <1>18
<1>29. /\ DOMAIN span' = Places \cup {q}
       /\ \A r \in Places : r = <<>> \/ r # c.item => span'[r] = span[r]
       /\ c.item # <<>> => span'[c.item] = [span[c.item] EXCEPT !.after = B]
  <2>1. DOMAIN ended = Places
    BY DEF Ended, Places
  <2>2. \A r \in Places : r = <<>> \/ r # c.item => ended[r] = span[r]
    BY DEF Ended, Places
  <2>3. c.item # <<>> => ended[c.item] = [span[c.item] EXCEPT !.after = B]
    BY <1>4, <1>20 DEF Ended, Places
  <2> HIDE DEF ended, B, c
  <2> QED BY <1>4, <1>5, <1>18, <2>1, <2>2, <2>3, SMTT(40) DEF c
<1> DEFINE w == [c EXCEPT !.item = q]
           f == [path |-> q, level |-> NextLevel(c.level), item |-> <<>>]
<1>30. w \in WFrames /\ f \in WFrames
  <2>1. <<>> \in Paths
    BY DEF Paths
  <2>2. NextLevel(c.level) \in Int
    <3>1. c.level \in Int /\ Highest \in Int
      BY <1>4, JsonAssumption
    <3> QED BY <3>1 DEF NextLevel, Lowest
  <2> QED BY <1>4, <1>5, <2>1, <2>2 DEF WFrames
<1>31. /\ low(q) \in Seq(WFrames) /\ Len(low(q)) = m /\ low(q)[m] = w
       /\ \A i \in 1..(m - 1) : low(q)[i] = calls[i]
  <2>1. calls \in [1..m -> WFrames] /\ m \in 1..m /\ \A i \in 1..(m - 1) : i \in 1..m /\ i # m
    BY <1>4 DEF Frames
  <2>2. low(q) = [i \in 1..m |-> IF i = m THEN w ELSE calls[i]]
    BY <1>4, <2>1
  <2> HIDE DEF low, w, m
  <2>3. low(q) \in [1..m -> WFrames]
    BY <1>30, <2>1, <2>2
  <2>4. low(q) \in Seq(WFrames) /\ Len(low(q)) = m
    BY <1>4, <2>3
  <2> QED BY <2>1, <2>2, <2>4
<1>32. /\ calls' \in Seq(WFrames) /\ Len(calls') = IF inner THEN m + 1 ELSE m
       /\ \A i \in 1..(m - 1) : calls'[i] = calls[i]
       /\ calls'[m] = w
       /\ inner => calls'[m + 1] = f
  <2> HIDE DEF low, w, f, m
  <2>1. CASE ~inner
    BY <1>18, <1>31, <2>1
  <2>2. CASE inner
    <3>1. calls' = Append(low(q), f)
      BY <1>18, <2>2 DEF f
    <3>2. /\ calls' \in Seq(WFrames) /\ Len(calls') = m + 1 /\ calls'[m + 1] = f
          /\ \A i \in 1..m : calls'[i] = low(q)[i]
      BY <1>30, <1>31, <3>1, PathGrown
    <3>3. m \in 1..m /\ \A i \in 1..(m - 1) : i \in 1..m
      BY <1>4
    <3> QED BY <1>31, <2>2, <3>2, <3>3
  <2> QED BY <2>1, <2>2
<1>33. B = IF c.item = <<>> THEN n ELSE n + 1
  BY <1>35
<1>34. Wrote(q, g)
  <2>1. /\ s.first = s.colon + g + 1 /\ s.beg = s.before + g + 1
        /\ s.colon = IF dict THEN s.beg + Len(Last(q).label) + 2 ELSE s.before
        /\ s.before = IF c.item = <<>> THEN Len(text) ELSE Len(text) + 1
        /\ s.last = (IF inner THEN 0 ELSE s.first + Len(Opening(written[q])) - 1)
        /\ Len(text') = s.first + Len(Opening(written[q])) - 1
    <3>1. /\ Len(Last(q).label) = k /\ Len(Opening(written[q])) = z /\ Len(text) = n
      BY <1>35 DEF o, n
    <3> HIDE DEF s, l, c
    <3> QED BY <1>23, <1>27, <1>33, <1>35, <3>1
  <2> HIDE DEF s, B, C, F
  <2>2. q \in Inner(written, c.path) \ Places /\ (dict \/ Last(q) = Indexed(NextIndex(c.item)))
    BY <1>2
  <2>3. /\ s \in Spans /\ s.after = 0 /\ s.before = B /\ s.first = F
    BY <1>23
  <2>4. /\ text' \in Seq(Chars) /\ \A i \in 1..n : text'[i] = text[i]
        /\ nest' \in Seq(Seq(Chars)) /\ Len(nest') = Len(text') /\ \A i \in 1..n : nest'[i] = nest[i]
    BY <1>18
  <2> QED BY <1>3, <1>24, <1>25, <1>26, <1>27, <1>28, <1>29, <1>32, <2>1, <2>2, <2>3, <2>4, ZenonT(60)
      DEF Wrote, n, o, inner, s, lay, z, g, dict
<1> QED BY <1>34, <1>35

\* Facts about the empty sequence.
LEMMA NothingIs ==
  /\ DOMAIN <<>> = {} /\ Len(<<>>) = 0
  /\ \A S : <<>> \in Seq(S)
  /\ \A x : Append(<<>>, x) = <<x>>
OBVIOUS

\* Layout is there or not.
LEMMA GapIs ==
  ASSUME NEW gap \in {<<>>, <<" ">>}
  PROVE  gap \in Seq(Chars) /\ Len(gap) \in {0, 1} /\ (Len(gap) = 1 => gap = <<" ">>)
<1>1. CASE gap = <<>>
  BY <1>1, NothingIs
<1>2. CASE gap = <<" ">>
  BY <1>2, MarksIn, OneIs
<1> QED BY <1>1, <1>2

\* The step that closes a container, with layout or without.
Closed(g) ==
    LET c    == Last(calls)
        m    == Len(calls)
        n    == Len(text)
        e    == n + g + 1
        hole == c.item = <<>> /\ written[c.path].kind = "array"
        h    == Append(c.path, Indexed(1))
    IN  /\ Inner(written, c.path) \subseteq Places
        /\ g \in {0, 1} /\ g = (IF c.item = <<>> THEN 0 ELSE Len(Layout(c.level)))
        /\ h \notin Places \/ ~hole
        /\ DOMAIN span' = Places \cup (IF hole THEN {h} ELSE {})
        /\ hole => span'[h] = [before |-> n, beg |-> n + 1, colon |-> n,
                               first |-> n + 1, last |-> n, after |-> n + 1]
        /\ span'[c.path] = [span[c.path] EXCEPT !.last = e]
        /\ c.item # <<>> => span'[c.item] = [span[c.item] EXCEPT !.after = e]
        /\ \A r \in Places : r # c.path /\ (r = <<>> \/ r # c.item) => span'[r] = span[r]
        /\ text' \in Seq(Chars) /\ Len(text') = e
        /\ \A i \in 1..n : text'[i] = text[i]
        /\ g = 1 => text'[n + 1] = " "
        /\ text'[e] = Closing(written[c.path])
        /\ nest' \in Seq(Seq(Chars)) /\ Len(nest') = e
        /\ \A i \in 1..n : nest'[i] = nest[i]
        /\ g = 1 => nest'[n + 1] = Nest(n)
        /\ nest'[e] = Front(Nest(n))
        /\ calls' \in Seq(WFrames) /\ Len(calls') = m - 1
        /\ \A k \in 1..(m - 1) : calls'[k] = calls[k]

\* The end of a loop is such a step.
LEMMA CloseDone ==
  ASSUME Histories, Frames, IsTree(written), WriteClose
  PROVE  \E g \in {0, 1} : Closed(g)
<1> DEFINE c == Last(calls)
           m == Len(calls)
           n == Len(text)
           gap == IF c.item = <<>> THEN <<>> ELSE Layout(c.level)
           g == Len(gap)
           end == n + g + 1
           h == Append(c.path, Indexed(1))
           hole == c.item = <<>> /\ written[c.path].kind = "array"
           H == IF hole THEN {h} ELSE {}
           tail == <<Closing(written[c.path])>>
           pad == [i \in 1..g |-> Brackets]
           out == <<Front(Brackets)>>
           rec == [before |-> end - 1, beg |-> end, colon |-> end - 1,
                   first |-> end, last |-> end - 1, after |-> end]
<1>1. /\ calls # <<>> /\ step = "writing" /\ Inner(written, c.path) \subseteq Places
      /\ text' = text \o gap \o tail /\ nest' = nest \o pad \o out
      /\ span' = [q \in Places \cup H |->
                  IF q \in H THEN rec
                  ELSE IF q = c.path THEN [span[q] EXCEPT !.last = end]
                  ELSE Ended(c.item, end)[q]]
      /\ calls' = Front(calls)
  BY DEF WriteClose, Places
<1>2. /\ m \in Nat /\ m >= 1 /\ c = calls[m] /\ c \in WFrames
      /\ c.path \in Paths /\ c.item \in Paths /\ c.level \in Int
      /\ c.path \in DOMAIN written /\ c.path \in Places
      /\ written[c.path].kind \in Containers
      /\ c.item # <<>> => c.item \in Places /\ c.item # c.path
      /\ c.item = <<>> => Subs(c.path) = {}
  BY <1>1, TopFrame
<1>3. n \in Nat /\ text \in Seq(Chars) /\ Brackets = Nest(n) /\ Brackets \in Seq(Chars)
      /\ nest \in Seq(Seq(Chars)) /\ Len(nest) = n
  BY BracketsIs DEF Histories
<1>4. Len(Brackets) = m
  BY <1>3 DEF Frames
<1>0. n \in Nat /\ Len(nest) = n
  BY <1>3
<1>5. gap \in Seq(Chars) /\ g \in {0, 1} /\ (g = 1 => gap = <<" ">>)
  <2>1. CASE c.item = <<>>
    <3>1. gap = <<>>
      BY <2>1
    <3> HIDE DEF gap
    <3> QED BY <3>1, GapIs
  <2>2. CASE c.item # <<>>
    <3>1. gap = Layout(c.level)
      BY <2>2
    <3> QED BY <3>1, LayoutIs
  <2> QED BY <2>1, <2>2
<1>6. g = IF c.item = <<>> THEN 0 ELSE Len(Layout(c.level))
  <2>1. CASE c.item = <<>>
    <3>1. gap = <<>>
      BY <2>1
    <3>2. Len(gap) = 0
      BY <3>1, NothingIs
    <3> QED BY <2>1, <3>2
  <2>2. CASE c.item # <<>>
    <3>1. gap = Layout(c.level)
      BY <2>2
    <3> QED BY <2>2, <3>1
  <2> QED BY <2>1, <2>2
<1>7. tail \in Seq(Chars) /\ Len(tail) = 1 /\ tail[1] = Closing(written[c.path])
  <2>1. Closing(written[c.path]) \in Chars
    BY MarksIn DEF Closing
  <2> QED BY <2>1, OneIs
<1>8. out \in Seq(Seq(Chars)) /\ Len(out) = 1 /\ out[1] = Front(Brackets)
  <2>1. Brackets # <<>>
    BY <1>2, <1>3, <1>4
  <2>2. Front(Brackets) \in Seq(Chars)
    BY <1>3, <2>1, PathEnd
  <2> QED BY <2>2, OneIs
<1>20. g \in {0, 1} /\ g \in Nat /\ Len(gap) = g
  <2>1. Len(gap) = g /\ g \in {0, 1}
    BY <1>5
  <2> HIDE DEF g, gap
  <2> QED BY <2>1
<1> HIDE DEF n, c, m, gap, g, tail, out
<1>9. pad \in Seq(Seq(Chars)) /\ Len(pad) = g /\ \A i \in 1..g : pad[i] = Brackets
  <2>1. pad \in [1..g -> Seq(Chars)] /\ g \in Nat
    BY <1>3, <1>20
  <2>2. \A i \in 1..g : pad[i] = Brackets
    OBVIOUS
  <2> HIDE DEF pad
  <2> QED BY <2>1, <2>2
<1> HIDE DEF pad
<1>10. /\ text' \in Seq(Chars) /\ Len(text') = (n + g) + 1
       /\ \A i \in 1..n : text'[i] = text[i]
       /\ At(text', n, gap) /\ text'[(n + g) + 1] = tail[1]
  <2> DEFINE a == text \o gap
  <2>1. /\ a \in Seq(Chars) /\ Len(a) = n + g /\ \A i \in 1..n : a[i] = text[i]
        /\ At(a, n, gap)
    <3>1. a \in Seq(Chars) /\ Len(a) = Len(text) + Len(gap)
      BY <1>3, <1>5, Cat, ZenonT(60)
    <3>2. At(a, Len(text), gap) /\ \A i \in 1..Len(text) : a[i] = text[i]
      <4>1. a \in Seq(Chars) /\ text \in Seq(Chars) /\ gap \in Seq(Chars)
        BY <1>3, <1>5, <3>1
      <4> QED BY <4>1, AtStart
    <3> QED BY <3>1, <3>2 DEF n, g
  <2>2. text' = a \o tail
    BY <1>1
  <2> HIDE DEF a
  <2>3. /\ text' \in Seq(Chars) /\ Len(text') = (n + g) + 1
        /\ \A i \in 1..(n + g) : text'[i] = a[i]
        /\ \A i \in 1..1 : text'[(n + g) + i] = tail[i]
    <3>1. tail \in Seq(Chars) /\ Len(tail) = 1
      BY <1>7
    <3>2. a \in Seq(Chars) /\ Len(a) = n + g
      BY <2>1
    <3>4. a \in Seq(Chars) /\ tail \in Seq(Chars)
      BY <3>1, <3>2
    <3>3. /\ a \o tail \in Seq(Chars) /\ Len(a \o tail) = Len(a) + Len(tail)
          /\ \A i \in 1..Len(a) : (a \o tail)[i] = a[i]
          /\ \A i \in 1..Len(tail) : (a \o tail)[Len(a) + i] = tail[i]
      BY <3>4, Cat
    <3> QED BY <2>2, <3>1, <3>2, <3>3
  <2>4. At(text', n, gap)
    <3>1. n \in Nat /\ Len(gap) = g /\ n + g <= n + g /\ n + g \in Nat
      BY <1>0, <1>20
    <3>2. gap \in Seq(Chars)
      BY <1>5
    <3>3. (\A i \in 1..(n + g) : text'[i] = a[i]) /\ At(a, n, gap)
      BY <2>1, <2>3
    <3> QED BY <3>1, <3>2, <3>3, AtKept
  <2>5. 1 \in 1..1 /\ \A i \in 1..n : i \in 1..(n + g)
    BY <1>0, <1>20
  <2> QED BY <2>1, <2>3, <2>4, <2>5
<1>11. g = 1 => text'[n + 1] = " "
  <2> SUFFICES ASSUME g = 1 PROVE text'[n + 1] = " "
    OBVIOUS
  <2>1. gap = <<" ">>
    BY <1>5
  <2>2. At(text', n, <<" ">>)
    BY <1>10, <2>1
  <2>3. n \in Int
    BY <1>0
  <2> QED BY <2>2, <2>3, AtOne
<1>12. /\ nest' \in Seq(Seq(Chars)) /\ Len(nest') = (n + g) + 1
       /\ \A i \in 1..n : nest'[i] = nest[i]
       /\ g = 1 => nest'[n + 1] = Brackets
       /\ nest'[(n + g) + 1] = out[1]
  <2> DEFINE a == nest \o pad
  <2>1. /\ a \in Seq(Seq(Chars)) /\ Len(a) = n + g /\ \A i \in 1..n : a[i] = nest[i]
        /\ \A i \in 1..g : a[n + i] = Brackets
    <3>1. /\ a \in Seq(Seq(Chars)) /\ Len(a) = Len(nest) + Len(pad)
          /\ \A i \in 1..Len(nest) : a[i] = nest[i]
          /\ \A i \in 1..Len(pad) : a[Len(nest) + i] = pad[i]
      <4>1. nest \in Seq(Seq(Chars)) /\ pad \in Seq(Seq(Chars))
        BY <1>3, <1>9
      <4> QED BY <4>1, Cat
    <3> HIDE DEF a
    <3> QED BY <1>3, <1>9, <3>1
  <2>2. nest' = a \o out
    BY <1>1
  <2> HIDE DEF a
  <2>3. /\ nest' \in Seq(Seq(Chars)) /\ Len(nest') = (n + g) + 1
        /\ \A i \in 1..(n + g) : nest'[i] = a[i]
        /\ \A i \in 1..1 : nest'[(n + g) + i] = out[i]
    <3>1. out \in Seq(Seq(Chars)) /\ Len(out) = 1
      BY <1>8
    <3>2. a \in Seq(Seq(Chars)) /\ Len(a) = n + g
      BY <2>1
    <3>4. a \in Seq(Seq(Chars)) /\ out \in Seq(Seq(Chars))
      BY <3>1, <3>2
    <3>3. /\ a \o out \in Seq(Seq(Chars)) /\ Len(a \o out) = Len(a) + Len(out)
          /\ \A i \in 1..Len(a) : (a \o out)[i] = a[i]
          /\ \A i \in 1..Len(out) : (a \o out)[Len(a) + i] = out[i]
      BY <3>4, Cat
    <3> QED BY <2>2, <3>1, <3>2, <3>3
  <2>5. 1 \in 1..1 /\ (\A i \in 1..n : i \in 1..(n + g)) /\ (g = 1 => n + 1 \in 1..(n + g) /\ 1 \in 1..g)
    BY <1>0, <1>20
  <2> QED BY <2>1, <2>3, <2>5
<1>13. hole => h \notin Places /\ h # c.path
  <2> SUFFICES ASSUME hole PROVE h \notin Places /\ h # c.path
    OBVIOUS
  <2>1. c.path \in Seq(TreeKeys) /\ Indexed(1) \in TreeKeys
    BY <1>2, KeyOf DEF Paths
  <2>2. h # <<>> /\ Front(h) = c.path /\ Len(h) = Len(c.path) + 1 /\ Len(c.path) \in Nat
    BY <2>1, PathGrown
  <2>3. h \notin Subs(c.path)
    BY <1>2
  <2> HIDE DEF h
  <2> QED BY <2>2, <2>3 DEF Subs
<1> HIDE DEF h
<1>14. /\ DOMAIN span' = Places \cup H
       /\ hole => span'[h] = rec
       /\ span'[c.path] = [span[c.path] EXCEPT !.last = end]
       /\ c.item # <<>> => span'[c.item] = [span[c.item] EXCEPT !.after = end]
       /\ \A r \in Places : r # c.path /\ (r = <<>> \/ r # c.item) => span'[r] = span[r]
  <2> DEFINE E == Ended(c.item, end)
  <2>1. /\ c.item # <<>> => E[c.item] = [span[c.item] EXCEPT !.after = end]
        /\ \A r \in Places : r = <<>> \/ r # c.item => E[r] = span[r]
    BY <1>2 DEF Ended, Places
  <2>2. span' = [q \in Places \cup H |->
                  IF q \in H THEN rec
                  ELSE IF q = c.path THEN [span[q] EXCEPT !.last = end]
                  ELSE E[q]]
    BY <1>1
  <2>3. \A r \in Places : r \notin H
    BY <1>13
  <2>4. hole => h \in H
    OBVIOUS
  <2> HIDE DEF E, H, rec, hole
  <2>5. DOMAIN span' = Places \cup H /\ (hole => span'[h] = rec)
    BY <2>2, <2>4
  <2>6. \A r \in Places : span'[r] = IF r = c.path THEN [span[r] EXCEPT !.last = end] ELSE E[r]
    BY <2>2, <2>3
  <2> QED BY <1>2, <2>1, <2>5, <2>6
<1>15. calls' \in Seq(WFrames) /\ Len(calls') = m - 1 /\ \A k \in 1..(m - 1) : calls'[k] = calls[k]
  <2>1. calls \in Seq(WFrames)
    BY DEF Frames
  <2> QED BY <1>1, <2>1, PathEnd DEF m
<1>16. hole => rec = [before |-> n, beg |-> n + 1, colon |-> n, first |-> n + 1, last |-> n, after |-> n + 1]
  <2> SUFFICES ASSUME hole
               PROVE rec = [before |-> n, beg |-> n + 1, colon |-> n, first |-> n + 1, last |-> n, after |-> n + 1]
    OBVIOUS
  <2>1. end = n + 1 /\ end - 1 = n
    BY <1>3, <1>6
  <2> HIDE DEF end
  <2> QED BY <2>1
<1>17. end = (n + g) + 1
  BY <1>3, <1>5
<1>18. Closed(g)
  <2> HIDE DEF rec, h
  <2>1. h \notin Places \/ ~hole
    BY <1>13
  <2>2. hole => span'[h] = [before |-> n, beg |-> n + 1, colon |-> n, first |-> n + 1, last |-> n, after |-> n + 1]
    BY <1>14, <1>16
  <2>3. nest'[end] = Front(Nest(n)) /\ (g = 1 => nest'[n + 1] = Nest(n)) /\ Len(nest') = end
    BY <1>3, <1>8, <1>12, <1>17
  <2>4. text'[end] = Closing(written[c.path]) /\ Len(text') = end
    BY <1>7, <1>10, <1>17
  <2>5. nest' \in Seq(Seq(Chars)) /\ \A i \in 1..n : nest'[i] = nest[i]
    BY <1>12
  <2>6. text' \in Seq(Chars) /\ \A i \in 1..n : text'[i] = text[i]
    BY <1>10
  <2>7. /\ span'[c.path] = [span[c.path] EXCEPT !.last = end]
        /\ c.item # <<>> => span'[c.item] = [span[c.item] EXCEPT !.after = end]
        /\ \A r \in Places : r # c.path /\ (r = <<>> \/ r # c.item) => span'[r] = span[r]
        /\ DOMAIN span' = Places \cup H
    BY <1>14
  <2> QED BY <1>1, <1>5, <1>6, <1>11, <1>15, <2>1, <2>2, <2>3, <2>4, <2>5, <2>6, <2>7, ZenonT(60)
       DEF Closed, n, m, c, h
<1> QED BY <1>5, <1>18

\* Nothing is written yet.
Blank == text = <<>> /\ nest = <<>> /\ span = <<>> /\ calls = <<>>

\* The step that begins to write a tree, after a character of layout or none.
Began(h) ==
    LET v == written'
        o == Opening(v[<<>>])
        inner == v[<<>>].kind \in Containers
    IN  /\ h \in {0, 1} /\ step' = "writing" /\ pretty' \in BOOLEAN
        /\ \E x \in Holders : v = tree[x]
        /\ text' \in Seq(Chars) /\ Len(text') = h + Len(o)
        /\ h = 1 => text'[1] = " "
        /\ At(text', h, o)
        /\ nest' \in Seq(Seq(Chars)) /\ Len(nest') = Len(text')
        /\ \A i \in 1..Len(text') : nest'[i] = IF inner /\ i = Len(text') THEN <<o[1]>> ELSE <<>>
        /\ DOMAIN span' = {<<>>}
        /\ span'[<<>>] = [before |-> 0, beg |-> 0, colon |-> h, first |-> h + 1, after |-> 0,
                          last |-> IF inner THEN 0 ELSE h + Len(o)]
        /\ calls' = IF inner THEN <<[path |-> <<>>, level |-> FirstLevel(pretty'), item |-> <<>>]>> ELSE <<>>

\* Write is such a step.
LEMMA WriteBegan ==
  ASSUME Typed, Blank, NEW x \in Holders, NEW p \in BOOLEAN, Write(x, p)
  PROVE  \E h \in {0, 1} : Began(h)
<1> DEFINE v == tree[x]
<1>1. /\ written' = v /\ pretty' = p /\ step' = "writing"
      /\ \E lead \in {<<>>, <<" ">>} :
           Begin(v, <<>>, lead, <<0, 0, Len(lead), Len(lead) + 1>>, <<>>, <<>>, FirstLevel(p))
  BY DEF Write
<1>2. PICK lead :
         /\ lead \in {<<>>, <<" ">>}
         /\ Begin(v, <<>>, lead, <<0, 0, Len(lead), Len(lead) + 1>>, <<>>, <<>>, FirstLevel(p))
  BY <1>1
<1>3. IsTree(v) /\ <<>> \in DOMAIN v
  BY DEF Typed, IsTree
<1> HIDE DEF v
<1> DEFINE h == Len(lead)
           o == Opening(v[<<>>])
           k == Len(o)
           inner == v[<<>>].kind \in Containers
           where == <<0, 0, h, h + 1>>
           f == [path |-> <<>>, level |-> FirstLevel(p), item |-> <<>>]
<1>4. lead \in Seq(Chars) /\ h \in {0, 1} /\ (h = 1 => lead = <<" ">>)
  BY <1>2, GapIs
<1>5. Histories /\ Len(text) = 0
  BY NothingIs DEF Histories, Blank, Places
<1>6. Begun(v, <<>>, lead, where, <<>>, <<>>, FirstLevel(p))
  <2>1. Begin(v, <<>>, lead, where, <<>>, <<>>, FirstLevel(p))
    BY <1>2
  <2> HIDE DEF where
  <2> QED BY <1>3, <1>4, <1>5, <2>1, BeginIs, Zenon
<1>7. Brackets = <<>>
  BY DEF Brackets, Blank
<1>8. DOMAIN span' = {<<>>}
      /\ span'[<<>>] = [before |-> 0, beg |-> 0, colon |-> h, first |-> h + 1, after |-> 0,
                        last |-> IF inner THEN 0 ELSE (h + 1) + k - 1]
      /\ calls' = IF inner THEN Append(<<>>, f) ELSE <<>>
  <2>1. DOMAIN <<>> = {}
    BY NothingIs
  <2>2. where[1] = 0 /\ where[2] = 0 /\ where[3] = h /\ where[4] = h + 1
    BY <1>4
  <2>3. /\ DOMAIN span' = DOMAIN <<>> \cup {<<>>}
        /\ span'[<<>>] = [before |-> where[1], beg |-> where[2], colon |-> where[3],
                          first |-> where[4], after |-> 0,
                          last |-> IF inner THEN 0 ELSE where[4] + k - 1]
        /\ calls' = IF inner THEN Append(<<>>, f) ELSE <<>>
    BY <1>6, Zenon DEF Begun
  <2> HIDE DEF where, inner, f, k, h
  <2> QED BY <2>1, <2>2, <2>3
<1>9. /\ text' \in Seq(Chars) /\ Len(text') = (0 + h) + k /\ k \in Nat /\ At(text', 0, lead) /\ At(text', 0 + h, o)
      /\ nest' \in Seq(Seq(Chars)) /\ Len(nest') = Len(text')
      /\ \A i \in (0 + 1)..((0 + h) + k) :
             nest'[i] = IF inner /\ i = (0 + h) + k THEN Append(Brackets, o[1]) ELSE Brackets
  <2>1. LET n == Len(text) IN
      /\ text' \in Seq(Chars) /\ Len(text') = (n + h) + k /\ k \in Nat /\ At(text', n, lead) /\ At(text', n + h, o)
      /\ nest' \in Seq(Seq(Chars)) /\ Len(nest') = Len(text')
      /\ \A i \in (n + 1)..((n + h) + k) :
             nest'[i] = IF inner /\ i = (n + h) + k THEN Append(Brackets, o[1]) ELSE Brackets
    BY <1>6, Zenon DEF Begun
  <2> HIDE DEF h, k, o, inner
  <2> QED BY <1>5, <2>1
<1>10. 0 + h = h /\ (h + 1) + k - 1 = h + k /\ 0 + 1 = 1 /\ (0 + h) + k = h + k
  <2>1. h \in {0, 1} /\ k \in Nat
    BY <1>4, <1>9
  <2> HIDE DEF h, k
  <2>2. \A i, j \in Nat : 0 + i = i /\ (i + 1) + j - 1 = i + j /\ 0 + 1 = 1 /\ (0 + i) + j = i + j
    OBVIOUS
  <2> QED BY <2>1, <2>2
<1>11. h = 1 => text'[1] = " "
  <2> SUFFICES ASSUME h = 1 PROVE text'[1] = " "
    OBVIOUS
  <2>1. At(text', 0, lead) /\ lead = <<" ">>
    BY <1>4, <1>9
  <2>2. At(text', 0, <<" ">>)
    BY <2>1
  <2>3. text'[0 + 1] = " "
    <3>1. 0 \in Int
      OBVIOUS
    <3> QED BY <2>2, <3>1, AtOne, Zenon
  <2>4. 0 + 1 = 1
    OBVIOUS
  <2> QED BY <2>3, <2>4, Zenon
<1>12. Append(<<>>, o[1]) = <<o[1]>> /\ Append(<<>>, f) = <<f>>
  BY NothingIs, Zenon
<1>13. Began(h)
  <2>1. \A i \in 1..Len(text') : nest'[i] = IF inner /\ i = Len(text') THEN <<o[1]>> ELSE <<>>
    <3> HIDE DEF h, k, o, inner
    <3>1. Len(text') = h + k /\ \A i \in 1..(h + k) :
             nest'[i] = IF inner /\ i = h + k THEN Append(<<>>, o[1]) ELSE <<>>
      BY <1>7, <1>9, <1>10
    <3> QED BY <1>12, <3>1
  <2>2. Len(text') = h + k /\ At(text', h, o)
    <3> HIDE DEF h, k, o
    <3> QED BY <1>9, <1>10
  <2>3. span'[<<>>] = [before |-> 0, beg |-> 0, colon |-> h, first |-> h + 1, after |-> 0,
                       last |-> IF inner THEN 0 ELSE h + k]
    <3> HIDE DEF h, k, inner
    <3> QED BY <1>8, <1>10
  <2>4. calls' = IF inner THEN <<f>> ELSE <<>>
    BY <1>8, <1>12
  <2>5. text' \in Seq(Chars) /\ nest' \in Seq(Seq(Chars)) /\ Len(nest') = Len(text')
    BY <1>9
  <2>6. \E y \in Holders : v = tree[y]
    BY DEF v
  <2>7. v = written' /\ step' = "writing" /\ pretty' = p /\ h \in {0, 1} /\ DOMAIN span' = {<<>>}
    BY <1>1, <1>4, <1>8
  <2> HIDE DEF h
  <2> QED BY <1>11, <2>1, <2>2, <2>3, <2>4, <2>5, <2>6, <2>7, ZenonT(60) DEF Began
<1> QED BY <1>4, <1>13

-----------------------------------------------------------------------------
(* Where the values are, and in which order. *)

\* The place of one value.
PlaceOK(q) ==
    /\ q # <<>> => Front(q) \in Places /\ Inside(Front(q))
    /\ span[q].before <= span[q].colon /\ span[q].colon < span[q].first
    /\ span[q].first <= Len(text) + 1 /\ span[q].last <= Len(text)
    /\ Inside(q) => span[q].first <= Len(text)
    /\ ~Open(q) => span[q].first <= span[q].last + 1
    /\ span[q].after # 0 => span[q].last < span[q].after /\ ~Open(q)

\* The places, as numbers.
SpanOK ==
    /\ Places \subseteq DOMAIN written \cup Holes(written) /\ <<>> \in Places
    /\ \A q \in Places : PlaceOK(q)
    /\ span[<<>>].before = 0 /\ span[<<>>].first \in {1, 2}
    /\ \A i \in 1..(span[<<>>].first - 1) : text[i] = " "

\* Where the value at r is from the one at q.
Apart(q, r) ==
    /\ r # q => span[r].before # span[q].before
    /\ ~Inside(q) => \/ span[r].before <= span[q].before
                     \/ span[q].after # 0 /\ span[r].before >= span[q].after
    /\ Inside(q) => span[r].before <= span[q].before \/ span[r].before >= span[q].first
    /\ Inside(q) /\ span[q].last # 0 =>
           \/ span[r].before < span[q].last
           \/ span[q].after # 0 /\ span[r].before >= span[q].after
Order == \A q, r \in Places : Apart(q, r)

\* The value that follows the one at q, and the first in it.
Starts(p, r, i) == r \in Subs(p) /\ (written[p].kind = "array" => Last(r) = Indexed(i))
Linked(q) ==
    /\ q # <<>> /\ span[q].after # 0 =>
         \/ span[q].after = span[Front(q)].last
         \/ \E r \in Places : Starts(Front(q), r, Last(q).at + 1) /\ span[r].before = span[q].after
    /\ Inside(q) /\ Subs(q) # {} => \E r \in Places : Starts(q, r, 1) /\ span[r].before = span[q].first
    /\ Inside(q) /\ ~Open(q) =>
         /\ Inner(written, q) \subseteq Places
         /\ written[q].kind = "array" /\ Inner(written, q) = {} => Append(q, Indexed(1)) \in Places
Chain == \A q \in Places : Linked(q)

\* The places are those of values, and of holes below them.
LEMMA PlacePaths ==
  ASSUME IsTree(written), SpanOK
  PROVE  /\ Places \subseteq Paths
         /\ \A q \in Places : \/ q \in DOMAIN written
                              \/ /\ q \in Holes(written) /\ q \notin DOMAIN written /\ q # <<>>
                                 /\ Front(q) \in DOMAIN written /\ Last(q) = Indexed(1)
                                 /\ written[Front(q)].kind = "array" /\ Inner(written, Front(q)) = {}
<1>1. DOMAIN written \subseteq Paths
  BY DEF IsTree, Grove
<1> SUFFICES ASSUME NEW q \in Places, q \notin DOMAIN written
             PROVE  /\ q \in Paths /\ q \in Holes(written) /\ q # <<>>
                    /\ Front(q) \in DOMAIN written /\ Last(q) = Indexed(1)
                    /\ written[Front(q)].kind = "array" /\ Inner(written, Front(q)) = {}
  BY <1>1
<1>2. q \in Holes(written)
  BY DEF SpanOK
<1>3. PICK p \in DOMAIN written :
         written[p].kind = "array" /\ Inner(written, p) = {} /\ q = Append(p, Indexed(1))
  BY <1>2 DEF Holes
<1>4. p \in Seq(TreeKeys) /\ Indexed(1) \in TreeKeys
  BY <1>1, KeyOf DEF Paths
<1>5. q \in Seq(TreeKeys) /\ q # <<>> /\ Front(q) = p /\ Last(q) = Indexed(1)
  BY <1>3, <1>4, PathGrown
<1> QED BY <1>2, <1>3, <1>5 DEF Paths

\* What the step that writes a value makes of the places.
Added(q, b) ==
    LET c == Last(calls)
        n == Len(text)
    IN  /\ Places' = Places \cup {q} /\ q \notin Places /\ q \in DOMAIN written
        /\ q # <<>> /\ Front(q) = c.path /\ c.path # q
        /\ written[c.path].kind = "array" => Last(q) = Indexed(NextIndex(c.item))
        /\ c.path \in Places /\ Inside(c.path) /\ span[c.path].last = 0
        /\ n \in Nat /\ Len(text') \in Nat /\ n <= Len(text')
        /\ b \in {n, n + 1} /\ (c.item = <<>> <=> b = n) /\ b <= Len(text')
        /\ \A r \in Places :
              /\ span'[r].before = span[r].before /\ span'[r].beg = span[r].beg
              /\ span'[r].colon = span[r].colon /\ span'[r].first = span[r].first
              /\ span'[r].last = span[r].last
              /\ r = <<>> \/ r # c.item => span'[r].after = span[r].after
        /\ c.item # <<>> => /\ c.item \in Places /\ c.item # c.path /\ Front(c.item) = c.path
                            /\ span[c.item].after = 0 /\ span'[c.item].after = b
                            /\ span[c.item].last = n /\ ~Open(c.item)
        /\ span'[q].before = b /\ b <= span'[q].colon /\ span'[q].colon < span'[q].first
        /\ span'[q].after = 0 /\ span'[q].first <= Len(text') + 1 /\ span'[q].first \in Nat
        /\ Inside(q) => span'[q].last = 0 /\ span'[q].first = Len(text')
        /\ ~Inside(q) => span'[q].last + 1 = span'[q].first + Len(Opening(written[q])) /\ span'[q].last = Len(text')
        /\ span'[q] \in Spans
        /\ \A r \in Places' : span'[r] \in Spans

\* Its step does that.
LEMMA WroteAdds ==
  ASSUME Histories, Frames, SpanOK, IsTree(written), written' = written, calls # <<>>,
         NEW q, NEW g \in {0, 1}, Wrote(q, g)
  PROVE  Added(q, IF Last(calls).item = <<>> THEN Len(text) ELSE Len(text) + 1)
<1> DEFINE c == Last(calls)
           n == Len(text)
           b == IF c.item = <<>> THEN n ELSE n + 1
           o == Opening(written[q])
           s == span'[q]
           k == Len(o)
           dict == written[c.path].kind = "dict"
           l == Last(q).label
           w == Len(l)
<1>1. /\ q \in DOMAIN written /\ q \notin Places /\ q # <<>> /\ Front(q) = c.path
  BY DEF Wrote, Inner
<1>2. l \in Seq(Chars) /\ w \in Nat /\ NodeOK(written[q])
  <2>1. q \in Seq(TreeKeys) /\ NodeOK(written[q])
    BY <1>1 DEF IsTree, Grove, Paths
  <2>2. Last(q) \in TreeKeys
    BY <1>1, <2>1, PathEnd
  <2> QED BY <2>1, <2>2 DEF TreeKeys
<1>3. /\ k \in Nat /\ (written[q].kind \in Containers => k = 1)
  BY <1>2, OpeningIs
<1>4. n \in Nat
  BY DEF Histories
<1>5. /\ c.path \in Places /\ Inside(c.path) /\ Open(c.path) /\ c.path \in Paths
      /\ c.item # <<>> => /\ c.item \in Places /\ c.item # c.path /\ Front(c.item) = c.path
                          /\ span[c.item].last = n /\ ~Open(c.item)
  BY TopFrame
<1>6. c.item # <<>> => span[c.item].after = 0
  <2> SUFFICES ASSUME c.item # <<>> PROVE span[c.item].after = 0
    OBVIOUS
  <2>1. Len(calls) \in Nat /\ Len(calls) >= 1 /\ c = calls[Len(calls)]
    BY TopFrame
  <2>2. Len(calls) \in 1..Len(calls)
    BY <2>1
  <2> QED BY <1>5, <2>1, <2>2 DEF Frames
<1>7. c.path # q
  BY <1>1, <1>5
<1>8. /\ s \in Spans /\ s.before = b /\ s.beg = b + g + 1 /\ s.first = s.colon + g + 1 /\ s.after = 0
      /\ s.colon = (IF dict THEN s.beg + w + 2 ELSE b)
      /\ s.last = (IF written[q].kind \in Containers THEN 0 ELSE s.first + k - 1)
      /\ Len(text') = s.first + k - 1
  BY DEF Wrote
<1>9. /\ DOMAIN span' = Places \cup {q}
      /\ dict \/ Last(q) = Indexed(NextIndex(c.item))
      /\ \A r \in Places : r = <<>> \/ r # c.item => span'[r] = span[r]
      /\ c.item # <<>> => span'[c.item] = [span[c.item] EXCEPT !.after = b]
  BY DEF Wrote
<1>10. /\ s.before \in Nat /\ s.beg \in Nat /\ s.colon \in Nat /\ s.first \in Nat /\ s.last \in Nat
  BY <1>8 DEF Spans
<1>11. written[c.path].kind = "array" => ~dict
  OBVIOUS
<1>12. Inside(q) <=> written[q].kind \in Containers
  BY <1>1 DEF Inside
<1>13. /\ b \in Nat /\ b \in {n, n + 1} /\ (c.item = <<>> <=> b = n)
  <2> HIDE DEF n, c
  <2> QED BY <1>4
<1>14. \A r \in Places : span[r] \in Spans
  BY DEF Histories
<1>15. \A r \in Places : /\ span'[r].before = span[r].before /\ span'[r].beg = span[r].beg
                         /\ span'[r].colon = span[r].colon /\ span'[r].first = span[r].first
                         /\ span'[r].last = span[r].last
                         /\ r = <<>> \/ r # c.item => span'[r].after = span[r].after
                         /\ span'[r] \in Spans
  <2> SUFFICES ASSUME NEW r \in Places
               PROVE  /\ span'[r].before = span[r].before /\ span'[r].beg = span[r].beg
                      /\ span'[r].colon = span[r].colon /\ span'[r].first = span[r].first
                      /\ span'[r].last = span[r].last
                      /\ r = <<>> \/ r # c.item => span'[r].after = span[r].after
                      /\ span'[r] \in Spans
    OBVIOUS
  <2> HIDE DEF b
  <2>1. CASE r = <<>> \/ r # c.item
    BY <1>9, <1>14, <2>1
  <2>2. CASE r = c.item /\ c.item # <<>>
    BY <1>9, <1>13, <1>14, <2>2, SMTT(40) DEF Spans
  <2> QED BY <2>1, <2>2
<1>16. c.item # <<>> => span'[c.item].after = b
  <2> SUFFICES ASSUME c.item # <<>> PROVE span'[c.item].after = b
    OBVIOUS
  <2> HIDE DEF b
  <2> QED BY <1>5, <1>9, <1>14 DEF Spans
<1>17. b <= s.colon /\ s.colon < s.first /\ s.first <= Len(text') + 1 /\ b <= Len(text') /\ n <= Len(text')
       /\ Len(text') \in Nat
  <2> DEFINE t == Len(text')
             col == s.colon
             fir == s.first
             bg == s.beg
  <2>1. b \in Nat /\ n \in Nat /\ (b = n \/ b = n + 1) /\ k \in Nat /\ w \in Nat /\ col \in Nat /\ fir \in Nat
    <3> HIDE DEF b, s, k, w, n
    <3> QED BY <1>2, <1>3, <1>4, <1>10, <1>13
  <2>2. bg = b + g + 1 /\ fir = col + g + 1 /\ t = fir + k - 1 /\ (col = bg + w + 2 \/ col = b)
    <3> HIDE DEF b, s, k, w, n, dict
    <3> QED BY <1>8
  <2>3. col = b => fir = b + g + 1
    BY <2>2
  <2> HIDE DEF b, s, k, w, dict, n, t, col, fir, bg
  <2>4. b <= col /\ col < fir /\ fir <= t + 1 /\ b <= t /\ n <= t /\ t \in Nat
    BY <2>1, <2>2
  <2> QED BY <2>4 DEF t, col, fir
<1>18. /\ Inside(q) => s.last = 0 /\ s.first = Len(text')
       /\ ~Inside(q) => s.last + 1 = s.first + k /\ s.last = Len(text')
  <2>1. CASE Inside(q)
    <3>1. s.last = 0 /\ k = 1 /\ Len(text') = s.first + k - 1 /\ s.first \in Nat
      BY <1>3, <1>8, <1>10, <1>12, <2>1
    <3> HIDE DEF s, k
    <3> QED BY <2>1, <3>1
  <2>2. CASE ~Inside(q)
    <3>1. s.last = s.first + k - 1 /\ k \in Nat /\ Len(text') = s.first + k - 1 /\ s.first \in Nat
      BY <1>3, <1>8, <1>10, <1>12, <2>2
    <3> HIDE DEF s, k
    <3> QED BY <2>2, <3>1
  <2> QED BY <2>1, <2>2
<1> HIDE DEF b, s, n
<1>19. Added(q, b)
  <2>1. \A r \in Places \cup {q} : span'[r] \in Spans
    BY <1>8, <1>15 DEF s
  <2>2. Places' = Places \cup {q}
    BY <1>9 DEF Places
  <2>3. span[c.path].last = 0
    BY <1>5 DEF Open
  <2> QED BY <1>1, <1>4, <1>5, <1>6, <1>7, <1>8, <1>9, <1>10, <1>13, <1>15, <1>16, <1>17, <1>18, <2>1, <2>2, <2>3,
       ZenonT(60) DEF Added, c, s, k, o, n
<1> QED BY <1>19 DEF b, n

\* What the step that closes a container makes of the places.
Shut(e) ==
    LET c == Last(calls)
        n == Len(text)
        hole == c.item = <<>> /\ written[c.path].kind = "array"
        h    == Append(c.path, Indexed(1))
    IN  /\ Places' = Places \cup (IF hole THEN {h} ELSE {})
        /\ Inner(written, c.path) \subseteq Places
        /\ c.path \in Places /\ Inside(c.path) /\ span[c.path].last = 0 /\ span[c.path].after = 0
        /\ n \in Nat /\ e \in {n + 1, n + 2} /\ Len(text') = e
        /\ hole => /\ h \notin Places /\ h \notin DOMAIN written /\ h \in Holes(written) /\ h # <<>>
                   /\ Front(h) = c.path /\ Last(h) = Indexed(1) /\ h # c.path /\ e = n + 1
                   /\ span'[h].before = n /\ span'[h].colon = n /\ span'[h].first = n + 1
                   /\ span'[h].last = n /\ span'[h].after = n + 1
        /\ \A r \in Places :
              /\ span'[r].before = span[r].before /\ span'[r].beg = span[r].beg
              /\ span'[r].colon = span[r].colon /\ span'[r].first = span[r].first
              /\ r # c.path => span'[r].last = span[r].last
              /\ r = <<>> \/ r # c.item => span'[r].after = span[r].after
        /\ span'[c.path].last = e
        /\ c.item # <<>> => /\ c.item \in Places /\ c.item # c.path /\ Front(c.item) = c.path
                            /\ span[c.item].after = 0 /\ span'[c.item].after = e
                            /\ span[c.item].last = n /\ ~Open(c.item)
        /\ \A r \in Places' : span'[r] \in Spans

\* A loop that ends writes its bracket so.
LEMMA ClosedShuts ==
  ASSUME Histories, Frames, SpanOK, IsTree(written), written' = written, calls # <<>>,
         NEW g \in {0, 1}, Closed(g)
  PROVE  Shut(Len(text) + g + 1)
<1> DEFINE c == Last(calls)
           n == Len(text)
           hole == c.item = <<>> /\ written[c.path].kind = "array"
           h    == Append(c.path, Indexed(1))
           e == n + g + 1
<1>1. n \in Nat
  BY DEF Histories
<1>2. e \in {n + 1, n + 2} /\ e \in Nat
  <2> HIDE DEF n
  <2> QED BY <1>1
<1>3. /\ c.path \in Places /\ Inside(c.path) /\ Open(c.path) /\ c.path \in Paths /\ c.path \in DOMAIN written
      /\ c.item # <<>> => /\ c.item \in Places /\ c.item # c.path /\ Front(c.item) = c.path
                          /\ span[c.item].last = n /\ ~Open(c.item)
  BY TopFrame
<1>4. c.item # <<>> => span[c.item].after = 0
  <2> SUFFICES ASSUME c.item # <<>> PROVE span[c.item].after = 0
    OBVIOUS
  <2>1. Len(calls) \in Nat /\ Len(calls) >= 1 /\ c = calls[Len(calls)]
    BY TopFrame
  <2>2. Len(calls) \in 1..Len(calls)
    BY <2>1
  <2> QED BY <1>3, <2>1, <2>2 DEF Frames
<1>5. span[c.path].last = 0 /\ span[c.path].after = 0
  BY <1>3 DEF Open, SpanOK, PlaceOK
<1> HIDE DEF e
<1>6. /\ Inner(written, c.path) \subseteq Places
      /\ g = (IF c.item = <<>> THEN 0 ELSE Len(Layout(c.level)))
      /\ h \notin Places \/ ~hole
      /\ DOMAIN span' = Places \cup (IF hole THEN {h} ELSE {})
      /\ hole => span'[h] = [before |-> n, beg |-> n + 1, colon |-> n,
                             first |-> n + 1, last |-> n, after |-> n + 1]
      /\ span'[c.path] = [span[c.path] EXCEPT !.last = e]
      /\ c.item # <<>> => span'[c.item] = [span[c.item] EXCEPT !.after = e]
      /\ \A r \in Places : r # c.path /\ (r = <<>> \/ r # c.item) => span'[r] = span[r]
      /\ Len(text') = e
  BY ZenonT(60) DEF Closed, e
<1>7. hole => /\ h \notin DOMAIN written /\ h \in Holes(written) /\ h # <<>>
              /\ Front(h) = c.path /\ Last(h) = Indexed(1) /\ h # c.path /\ e = n + 1
  <2> SUFFICES ASSUME hole
               PROVE  /\ h \notin DOMAIN written /\ h \in Holes(written) /\ h # <<>>
                      /\ Front(h) = c.path /\ Last(h) = Indexed(1) /\ h # c.path /\ e = n + 1
    OBVIOUS
  <2>1. c.path \in Seq(TreeKeys) /\ Indexed(1) \in TreeKeys
    BY <1>3, KeyOf DEF Paths
  <2>2. h # <<>> /\ Front(h) = c.path /\ Last(h) = Indexed(1) /\ h # c.path
    BY <2>1, PathGrown
  <2>3. Subs(c.path) = {}
    BY TopFrame
  <2>4. Inner(written, c.path) = {}
    BY <1>6, <2>3 DEF Subs, Inner
  <2>5. h \notin DOMAIN written
    <3> HIDE DEF h
    <3> QED BY <2>2, <2>4 DEF Inner
  <2>6. h \in Holes(written)
    BY <1>3, <2>4 DEF Holes
  <2>7. g = 0
    BY <1>6
  <2>8. e = n + 1
    <3> HIDE DEF n
    <3> QED BY <1>1, <2>7 DEF e
  <2> QED BY <2>2, <2>5, <2>6, <2>8
<1> HIDE DEF h
<1>8. \A r \in Places : span[r] \in Spans
  BY DEF Histories
<1>9. \A r \in Places : /\ span'[r].before = span[r].before /\ span'[r].beg = span[r].beg
                        /\ span'[r].colon = span[r].colon /\ span'[r].first = span[r].first
                        /\ r # c.path => span'[r].last = span[r].last
                        /\ r = <<>> \/ r # c.item => span'[r].after = span[r].after
                        /\ span'[r] \in Spans
  <2> SUFFICES ASSUME NEW r \in Places
               PROVE  /\ span'[r].before = span[r].before /\ span'[r].beg = span[r].beg
                      /\ span'[r].colon = span[r].colon /\ span'[r].first = span[r].first
                      /\ r # c.path => span'[r].last = span[r].last
                      /\ r = <<>> \/ r # c.item => span'[r].after = span[r].after
                      /\ span'[r] \in Spans
    OBVIOUS
  <2>1. CASE r # c.path /\ (r = <<>> \/ r # c.item)
    BY <1>6, <1>8, <2>1
  <2>2. CASE r = c.item /\ c.item # <<>>
    BY <1>2, <1>3, <1>6, <1>8, <2>2, ZenonT(60) DEF Spans
  <2>3. CASE r = c.path
    BY <1>2, <1>3, <1>6, <1>8, <2>3, ZenonT(60) DEF Spans
  <2> QED BY <2>1, <2>2, <2>3
<1>10. /\ c.item # <<>> => span'[c.item].after = e
       /\ span'[c.path].last = e
  BY <1>2, <1>3, <1>6, <1>8 DEF Spans
<1>11. hole => /\ span'[h].before = n /\ span'[h].colon = n /\ span'[h].first = n + 1
               /\ span'[h].last = n /\ span'[h].after = n + 1 /\ span'[h] \in Spans
  <2> HIDE DEF hole, n
  <2> QED BY <1>1, <1>6 DEF Spans
<1>12. Places' = Places \cup (IF hole THEN {h} ELSE {})
  BY <1>6 DEF Places
<1>13. \A r \in Places' : span'[r] \in Spans
  <2> HIDE DEF hole
  <2> QED BY <1>9, <1>11, <1>12
<1>14. Shut(e)
  BY <1>1, <1>2, <1>3, <1>4, <1>5, <1>6, <1>7, <1>9, <1>10, <1>11, <1>12, <1>13, ZenonT(60)
     DEF Shut, c, n, hole, h
<1> QED BY <1>14 DEF e

\* The places stay numbers in order when a value is written, and when a
\* container is closed.
LEMMA AddedSpanOK ==
  ASSUME Histories, SpanOK, written' = written, NEW q, NEW b, Added(q, b),
         \A i \in 1..Len(text) : text'[i] = text[i], IsTree(written)
  PROVE  SpanOK'
<1> DEFINE c == Last(calls)
           n == Len(text)
           t == Len(text')
<1>1. /\ Places' = Places \cup {q} /\ q \notin Places /\ q \in DOMAIN written
      /\ q # <<>> /\ Front(q) = c.path
      /\ c.path \in Places /\ Inside(c.path)
      /\ n \in Nat /\ t \in Nat /\ n <= t
      /\ b \in {n, n + 1} /\ (c.item = <<>> <=> b = n) /\ b <= t
  BY DEF Added
<1>2. \A r : Inside(r)' <=> Inside(r)
  BY DEF Inside
<1>3. \A r \in Places : /\ span'[r].before = span[r].before /\ span'[r].beg = span[r].beg
                        /\ span'[r].colon = span[r].colon /\ span'[r].first = span[r].first
                        /\ span'[r].last = span[r].last
                        /\ r = <<>> \/ r # c.item => span'[r].after = span[r].after
  BY DEF Added
<1>4. c.item # <<>> => /\ c.item \in Places /\ span'[c.item].after = b
                       /\ span[c.item].last = n /\ ~Open(c.item)
  BY DEF Added
<1>5. \A r \in Places : Open(r)' <=> Open(r)
  BY <1>2, <1>3 DEF Open
<1>6. \A r \in Places : /\ span[r].before \in Nat /\ span[r].colon \in Nat /\ span[r].first \in Nat
                        /\ span[r].last \in Nat /\ span[r].after \in Nat
  BY DEF Histories, Spans
<1>7. \A r \in Places :
          /\ r # <<>> => Front(r) \in Places /\ Inside(Front(r))
          /\ span[r].before <= span[r].colon /\ span[r].colon < span[r].first
          /\ span[r].first <= n + 1 /\ span[r].last <= n
          /\ Inside(r) => span[r].first <= n
          /\ ~Open(r) => span[r].first <= span[r].last + 1
          /\ span[r].after # 0 => span[r].last < span[r].after /\ ~Open(r)
  BY DEF SpanOK, PlaceOK
<1>8. /\ span'[q].before = b /\ b <= span'[q].colon /\ span'[q].colon < span'[q].first
      /\ span'[q].after = 0 /\ span'[q].first <= t + 1 /\ span'[q].first \in Nat
      /\ Inside(q) => span'[q].last = 0 /\ span'[q].first = t
      /\ ~Inside(q) => span'[q].last + 1 = span'[q].first + Len(Opening(written[q])) /\ span'[q].last = t
  BY DEF Added
<1>9. Places' \subseteq DOMAIN written' \cup Holes(written)' /\ <<>> \in Places'
  BY <1>1 DEF SpanOK, Holes
<1>10. /\ span'[<<>>].before = 0 /\ span'[<<>>].first \in {1, 2}
       /\ \A i \in 1..(span'[<<>>].first - 1) : text'[i] = " "
  <2>1. <<>> \in Places /\ span[<<>>].before = 0 /\ span[<<>>].first \in {1, 2}
        /\ \A i \in 1..(span[<<>>].first - 1) : text[i] = " "
    BY DEF SpanOK
  <2>2. span'[<<>>].before = 0 /\ span'[<<>>].first = span[<<>>].first
    BY <1>3, <2>1
  <2>3. span[<<>>].first <= n + 1
    BY <1>7, <2>1
  <2>4. \A i \in 1..(span[<<>>].first - 1) : i \in 1..n
    <3> DEFINE f == span[<<>>].first
    <3>1. f \in {1, 2} /\ f <= n + 1 /\ n \in Nat
      BY <1>1, <2>1, <2>3
    <3> HIDE DEF f, n
    <3>2. \A i \in 1..(f - 1) : i \in 1..n
      BY <3>1
    <3> QED BY <3>2 DEF f
  <2> HIDE DEF n
  <2> QED BY <2>1, <2>2, <2>4 DEF n
<1>11. ASSUME NEW r \in Places
       PROVE  /\ r # <<>> => Front(r) \in Places' /\ Inside(Front(r))'
              /\ span'[r].before <= span'[r].colon /\ span'[r].colon < span'[r].first
              /\ span'[r].first <= t + 1 /\ span'[r].last <= t
              /\ Inside(r)' => span'[r].first <= t
              /\ ~Open(r)' => span'[r].first <= span'[r].last + 1
              /\ span'[r].after # 0 => span'[r].last < span'[r].after /\ ~Open(r)'
  <2>1. r # <<>> => Front(r) \in Places' /\ Inside(Front(r))'
    BY <1>1, <1>2, <1>7
  <2> HIDE DEF n, t
  <2>2. /\ span'[r].before <= span'[r].colon /\ span'[r].colon < span'[r].first
        /\ span'[r].first <= t + 1 /\ span'[r].last <= t
        /\ Inside(r) => span'[r].first <= t
    BY <1>1, <1>3, <1>6, <1>7, SMTT(40)
  <2>3. ~Open(r) => span'[r].first <= span'[r].last + 1
    BY <1>3, <1>7
  <2>4. span'[r].after # 0 => span'[r].last < span'[r].after /\ ~Open(r)
    <3>1. CASE r = <<>> \/ r # c.item
      BY <1>3, <1>7, <3>1
    <3>2. CASE r = c.item /\ c.item # <<>>
      <4>1. span'[r].after = b /\ span'[r].last = n /\ ~Open(r) /\ b # n
        BY <1>1, <1>3, <1>4, <3>2
      <4> QED BY <1>1, <4>1
    <3> QED BY <3>1, <3>2
  <2> QED BY <1>2, <1>5, <2>1, <2>2, <2>3, <2>4
<1>12. /\ q # <<>> => Front(q) \in Places' /\ Inside(Front(q))'
       /\ span'[q].before <= span'[q].colon /\ span'[q].colon < span'[q].first
       /\ span'[q].first <= t + 1 /\ span'[q].last <= t
       /\ Inside(q)' => span'[q].first <= t
       /\ ~Open(q)' => span'[q].first <= span'[q].last + 1
       /\ span'[q].after # 0 => span'[q].last < span'[q].after /\ ~Open(q)'
  <2>1. q # <<>> => Front(q) \in Places' /\ Inside(Front(q))'
    BY <1>1, <1>2
  <2>2. /\ Open(q)' <=> Inside(q) /\ span'[q].last = 0
        /\ Inside(q)' <=> Inside(q)
    BY <1>2 DEF Open
  <2>3. Len(Opening(written[q])) \in Nat
    <3>1. NodeOK(written[q])
      BY <1>1 DEF IsTree, Grove
    <3> QED BY <3>1, OpeningIs
  <2>4. span'[q].last \in Nat
    BY DEF Added, Spans
  <2> DEFINE k == Len(Opening(written[q]))
  <2>5. CASE Inside(q)
    <3>1. span'[q].last = 0 /\ span'[q].first = t /\ Open(q)' /\ Inside(q)'
      BY <1>8, <2>2, <2>5
    <3> HIDE DEF t
    <3> QED BY <1>1, <1>8, <2>1, <3>1
  <2>6. CASE ~Inside(q)
    <3>1. span'[q].last + 1 = span'[q].first + k /\ span'[q].last = t /\ ~Open(q)' /\ ~Inside(q)' /\ k \in Nat
      BY <1>8, <2>2, <2>3, <2>6
    <3> HIDE DEF t, k
    <3> QED BY <1>1, <1>8, <2>1, <2>4, <3>1
  <2> QED BY <2>5, <2>6
<1>13. \A r \in Places' : PlaceOK(r)'
  BY <1>1, <1>11, <1>12 DEF PlaceOK, t
<1> QED BY <1>9, <1>10, <1>13 DEF SpanOK

\* The end of a loop keeps the places consistent.
LEMMA ShutSpanOK ==
  ASSUME Histories, SpanOK, written' = written, NEW e, Shut(e),
         \A i \in 1..Len(text) : text'[i] = text[i]
  PROVE  SpanOK'
<1> DEFINE c == Last(calls)
           n == Len(text)
           hole == c.item = <<>> /\ written[c.path].kind = "array"
           h    == Append(c.path, Indexed(1))
<1>1. /\ Places' = Places \cup (IF hole THEN {h} ELSE {})
      /\ c.path \in Places /\ Inside(c.path) /\ span[c.path].last = 0 /\ span[c.path].after = 0
      /\ n \in Nat /\ e \in {n + 1, n + 2} /\ Len(text') = e
  BY DEF Shut
<1>2. \A r : Inside(r)' <=> Inside(r)
  BY DEF Inside
<1>3. \A r \in Places : /\ span'[r].before = span[r].before /\ span'[r].beg = span[r].beg
                        /\ span'[r].colon = span[r].colon /\ span'[r].first = span[r].first
                        /\ r # c.path => span'[r].last = span[r].last
                        /\ r = <<>> \/ r # c.item => span'[r].after = span[r].after
  BY DEF Shut
<1>4. /\ span'[c.path].last = e
      /\ c.item # <<>> => /\ c.item \in Places /\ span'[c.item].after = e /\ c.item # c.path
                          /\ span[c.item].last = n /\ ~Open(c.item)
  BY DEF Shut
<1>5. hole => /\ h \in Holes(written) /\ h # <<>> /\ h \notin DOMAIN written
              /\ Front(h) = c.path /\ e = n + 1
              /\ span'[h].before = n /\ span'[h].colon = n /\ span'[h].first = n + 1
              /\ span'[h].last = n /\ span'[h].after = n + 1
  BY DEF Shut
<1>6. \A r \in Places : /\ span[r].before \in Nat /\ span[r].colon \in Nat /\ span[r].first \in Nat
                        /\ span[r].last \in Nat /\ span[r].after \in Nat
  BY DEF Histories, Spans
<1>7. \A r \in Places :
          /\ r # <<>> => Front(r) \in Places /\ Inside(Front(r))
          /\ span[r].before <= span[r].colon /\ span[r].colon < span[r].first
          /\ span[r].first <= n + 1 /\ span[r].last <= n
          /\ Inside(r) => span[r].first <= n
          /\ ~Open(r) => span[r].first <= span[r].last + 1
          /\ span[r].after # 0 => span[r].last < span[r].after /\ ~Open(r)
  BY DEF SpanOK, PlaceOK
<1>8. Places' \subseteq DOMAIN written' \cup Holes(written)' /\ <<>> \in Places'
  BY <1>1, <1>5 DEF SpanOK, Holes
<1>9. /\ span'[<<>>].before = 0 /\ span'[<<>>].first \in {1, 2}
       /\ \A i \in 1..(span'[<<>>].first - 1) : text'[i] = " "
  <2>1. <<>> \in Places /\ span[<<>>].before = 0 /\ span[<<>>].first \in {1, 2}
        /\ \A i \in 1..(span[<<>>].first - 1) : text[i] = " "
    BY DEF SpanOK
  <2>2. span'[<<>>].before = 0 /\ span'[<<>>].first = span[<<>>].first
    BY <1>3, <2>1
  <2>3. span[<<>>].first <= n + 1
    BY <1>7, <2>1
  <2>4. \A i \in 1..(span[<<>>].first - 1) : i \in 1..n
    <3> DEFINE f == span[<<>>].first
    <3>1. f \in {1, 2} /\ f <= n + 1 /\ n \in Nat
      BY <1>1, <2>1, <2>3
    <3> HIDE DEF f, n
    <3>2. \A i \in 1..(f - 1) : i \in 1..n
      BY <3>1
    <3> QED BY <3>2 DEF f
  <2> HIDE DEF n
  <2> QED BY <2>1, <2>2, <2>4 DEF n
<1> HIDE DEF n, h, hole
<1>10. e \in Nat /\ n < e /\ e # 0
  BY <1>1
<1>11. \A r \in Places : Open(r)' <=> Open(r) /\ r # c.path
  BY <1>2, <1>3, <1>4, <1>10 DEF Open
<1>12. ASSUME NEW r \in Places PROVE PlaceOK(r)'
  <2>1. r # <<>> => Front(r) \in Places' /\ Inside(Front(r))'
    BY <1>1, <1>2, <1>7
  <2>2. /\ span'[r].before <= span'[r].colon /\ span'[r].colon < span'[r].first
        /\ span'[r].first <= e + 1 /\ span'[r].last <= e
        /\ Inside(r) => span'[r].first <= e
    BY <1>1, <1>3, <1>4, <1>6, <1>7, <1>10, SMTT(40)
  <2>3. ~Open(r)' => span'[r].first <= span'[r].last + 1
    BY <1>1, <1>3, <1>4, <1>6, <1>7, <1>10, <1>11, SMTT(40)
  <2>4. span'[r].after # 0 => span'[r].last < span'[r].after /\ ~Open(r)'
    <3>1. CASE r = c.path
      BY <1>1, <1>3, <1>4, <1>11, <3>1
    <3>2. CASE r # c.path /\ (r = <<>> \/ r # c.item)
      BY <1>3, <1>7, <1>11, <3>2
    <3>3. CASE r = c.item /\ c.item # <<>>
      BY <1>3, <1>4, <1>10, <1>11, <3>3
    <3> QED BY <3>1, <3>2, <3>3
  <2> QED BY <1>1, <1>2, <2>1, <2>2, <2>3, <2>4 DEF PlaceOK
<1>13. ASSUME NEW r, hole, r = h PROVE PlaceOK(r)'
  <2>1. r # <<>> => Front(r) \in Places' /\ Inside(Front(r))'
    BY <1>1, <1>2, <1>5, <1>13
  <2>2. ~Inside(r)' /\ ~Open(r)'
    BY <1>2, <1>5, <1>13 DEF Inside, Open
  <2>3. /\ span'[r].before <= span'[r].colon /\ span'[r].colon < span'[r].first
        /\ span'[r].first <= e + 1 /\ span'[r].last <= e
        /\ span'[r].first <= span'[r].last + 1 /\ span'[r].last < span'[r].after
    BY <1>1, <1>5, <1>13
  <2> QED BY <1>1, <2>1, <2>2, <2>3 DEF PlaceOK
<1>14. \A r \in Places' : PlaceOK(r)'
  BY <1>1, <1>12, <1>13
<1> QED BY <1>8, <1>9, <1>14 DEF SpanOK

\* Only the top loop's item is complete and not yet left behind.
LEMMA OnlyLast ==
  ASSUME Frames, calls # <<>>, NEW r \in Places, ~Open(r), span[r].after = 0
  PROVE  r = Last(calls).item /\ r # <<>>
<1> DEFINE m == Len(calls)
<1>1. m \in Nat /\ m >= 1 /\ Last(calls) = calls[m]
  BY TopFrame
<1>2. r = <<>> \/ \E k \in 1..m : r = calls[k].item
  BY DEF Frames, FrameOK
<1>3. r # <<>>
  <2>1. 1 \in 1..m
    BY <1>1
  <2>2. Open(calls[1].path) /\ Len(calls[1].path) = 0 /\ calls \in Seq(WFrames)
    <3>1. Open(calls[1].path) /\ Len(calls[1].path) = 1 - 1 /\ calls \in Seq(WFrames)
      BY <2>1 DEF Frames, FrameOK
    <3> QED BY <3>1
  <2>3. calls[1].path \in Seq(TreeKeys)
    <3>1. calls[1] \in WFrames
      BY <2>1, <2>2
    <3> QED BY <3>1 DEF WFrames, Paths
  <2>4. calls[1].path = <<>>
    BY <2>2, <2>3
  <2> QED BY <2>2, <2>4
<1>4. PICK k \in 1..m : r = calls[k].item
  BY <1>2, <1>3
<1>5. k = m
  <2> SUFFICES ASSUME k # m PROVE FALSE
    OBVIOUS
  <2>1. k < m /\ k + 1 \in 1..m
    BY <1>1
  <2>2. r = calls[k + 1].path
    BY <1>4, <2>1 DEF Frames, FrameOK
  <2>3. Open(calls[k + 1].path)
    BY <2>1 DEF Frames, FrameOK
  <2> QED BY <2>2, <2>3
<1> QED BY <1>1, <1>3, <1>4, <1>5

\* So the order of the values stays as it is.
LEMMA AddedOrder ==
  ASSUME Histories, SpanOK, Frames, Order, calls # <<>>, written' = written, NEW q, NEW b, Added(q, b)
  PROVE  Order'
<1> DEFINE c == Last(calls)
           n == Len(text)
<1>1. /\ Places' = Places \cup {q} /\ q \notin Places
      /\ n \in Nat /\ b \in {n, n + 1} /\ (c.item = <<>> <=> b = n)
  BY DEF Added
<1>2. \A r : Inside(r)' <=> Inside(r)
  BY DEF Inside
<1>3. \A r \in Places : /\ span'[r].before = span[r].before
                        /\ span'[r].first = span[r].first
                        /\ span'[r].last = span[r].last
                        /\ r = <<>> \/ r # c.item => span'[r].after = span[r].after
  BY DEF Added
<1>4. c.item # <<>> => span'[c.item].after = b /\ span[c.item].after = 0
  BY DEF Added
<1>5. \A r \in Places : /\ span[r].before \in Nat /\ span[r].colon \in Nat /\ span[r].first \in Nat
                        /\ span[r].last \in Nat /\ span[r].after \in Nat
  BY DEF Histories, Spans
<1>6. \A r \in Places : /\ span[r].before <= n
                        /\ Inside(r) => span[r].first <= n
                        /\ span[r].after <= n
  <2>1. \A r \in Places : /\ span[r].before <= span[r].colon /\ span[r].colon < span[r].first
                          /\ span[r].first <= n + 1
                          /\ Inside(r) => span[r].first <= n
    BY DEF SpanOK, PlaceOK
  <2>2. \A r \in Places : span[r].after <= n
    BY DEF Frames, FrameOK
  <2> HIDE DEF n
  <2> QED BY <1>1, <1>5, <2>1, <2>2
<1>7. c.item = <<>> => \A r \in Places : span[r].before < n
  BY TopFrame
<1>8. /\ span'[q].before = b /\ (Inside(q) => span'[q].last = 0)
  BY DEF Added
<1>9. \A r \in Places : span[r].before < b
  <2> HIDE DEF n
  <2> QED BY <1>1, <1>5, <1>6, <1>7
<1>10. \A r \in Places : span'[r].after # 0 \/ Open(r)
  <2> SUFFICES ASSUME NEW r \in Places, ~Open(r) PROVE span'[r].after # 0
    OBVIOUS
  <2>1. CASE span[r].after # 0
    <3>1. r = <<>> \/ r # c.item
      BY <1>4, <2>1
    <3> QED BY <1>3, <2>1, <3>1
  <2>2. CASE span[r].after = 0
    <3>1. r = c.item /\ r # <<>>
      BY <2>2, OnlyLast
    <3>2. b # 0
      <4> HIDE DEF n
      <4> QED BY <1>1, <3>1
    <3> QED BY <1>4, <3>1, <3>2
  <2> QED BY <2>1, <2>2
<1>11. \A r \in Places : span'[r].after <= b /\ (span[r].after # 0 => span'[r].after = span[r].after)
  <2> SUFFICES ASSUME NEW r \in Places PROVE span'[r].after <= b /\ (span[r].after # 0 => span'[r].after = span[r].after)
    OBVIOUS
  <2>1. CASE r = <<>> \/ r # c.item
    <3>1. span'[r].after = span[r].after /\ span[r].after <= n
      BY <1>3, <1>6, <2>1
    <3> HIDE DEF n
    <3> QED BY <1>1, <1>5, <3>1
  <2>2. CASE r = c.item /\ r # <<>>
    BY <1>1, <1>4, <2>2
  <2> QED BY <2>1, <2>2
<1> HIDE DEF n
<1>12. ASSUME NEW r \in Places, NEW u \in Places PROVE Apart(r, u)'
  <2>1. Apart(r, u)
    BY DEF Order
  <2>2. Inside(r)' <=> Inside(r)
    BY <1>2
  <2>3. /\ span'[r].before = span[r].before /\ span'[u].before = span[u].before
        /\ span'[r].first = span[r].first /\ span'[r].last = span[r].last
        /\ span[r].after # 0 => span'[r].after = span[r].after
    BY <1>3, <1>11
  <2> QED BY <2>1, <2>2, <2>3 DEF Apart
<1>13. ASSUME NEW r \in Places PROVE Apart(r, q)'
  <2>1. span'[q].before # span'[r].before
    BY <1>3, <1>5, <1>8, <1>9
  <2>2. ~Inside(r) => span'[r].after # 0 /\ span'[q].before >= span'[r].after
    BY <1>8, <1>10, <1>11 DEF Open
  <2>3. Inside(r) => span'[q].before >= span'[r].first
    <3> SUFFICES ASSUME Inside(r) PROVE span'[q].before >= span'[r].first
      OBVIOUS
    <3>1. span[r].first <= n /\ n <= b
      BY <1>1, <1>6
    <3> QED BY <1>1, <1>3, <1>5, <1>8, <3>1
  <2>4. Inside(r) /\ span'[r].last # 0 => span'[r].after # 0 /\ span'[q].before >= span'[r].after
    BY <1>3, <1>8, <1>10, <1>11 DEF Open
  <2> QED BY <1>2, <2>1, <2>2, <2>3, <2>4 DEF Apart
<1>14. ASSUME NEW u \in Places \cup {q} PROVE Apart(q, u)'
  <2>1. CASE u = q
    <3>1. span'[q].before <= span'[q].before
      BY <1>1, <1>8
    <3> QED BY <1>2, <1>8, <2>1, <3>1 DEF Apart
  <2>2. CASE u \in Places /\ u # q
    <3>1. span'[u].before <= span'[q].before /\ span'[u].before # span'[q].before
      BY <1>3, <1>5, <1>8, <1>9, <2>2, <1>1
    <3> QED BY <1>2, <1>8, <2>2, <3>1 DEF Apart
  <2> QED BY <2>1, <2>2
<1> QED BY <1>1, <1>12, <1>13, <1>14 DEF Order

\* The end of a loop keeps the order of the values.
LEMMA ShutOrder ==
  ASSUME Histories, SpanOK, Frames, Order, calls # <<>>, written' = written, NEW e, Shut(e)
  PROVE  Order'
<1> DEFINE c == Last(calls)
           n == Len(text)
           hole == c.item = <<>> /\ written[c.path].kind = "array"
<1>1. PICK q : q = Append(c.path, Indexed(1))
  OBVIOUS
<1>2. /\ Places' = Places \cup (IF hole THEN {q} ELSE {})
      /\ c.path \in Places /\ Inside(c.path) /\ span[c.path].last = 0 /\ span[c.path].after = 0
      /\ n \in Nat /\ e \in {n + 1, n + 2}
  BY <1>1 DEF Shut
<1>3. \A r : Inside(r)' <=> Inside(r)
  BY DEF Inside
<1>4. \A r \in Places : /\ span'[r].before = span[r].before
                        /\ span'[r].first = span[r].first
                        /\ r # c.path => span'[r].last = span[r].last
                        /\ r = <<>> \/ r # c.item => span'[r].after = span[r].after
  BY DEF Shut
<1>5. /\ span'[c.path].last = e
      /\ c.item # <<>> => span'[c.item].after = e /\ span[c.item].after = 0
  BY DEF Shut
<1>6. \A r \in Places : /\ span[r].before \in Nat /\ span[r].colon \in Nat /\ span[r].first \in Nat
                        /\ span[r].last \in Nat /\ span[r].after \in Nat
  BY DEF Histories, Spans
<1>7. \A r \in Places : /\ span[r].before <= n
                        /\ Inside(r) => span[r].first <= n
                        /\ span[r].after <= n
  <2>1. \A r \in Places : /\ span[r].before <= span[r].colon /\ span[r].colon < span[r].first
                          /\ span[r].first <= n + 1
                          /\ Inside(r) => span[r].first <= n
    BY DEF SpanOK, PlaceOK
  <2>2. \A r \in Places : span[r].after <= n
    BY DEF Frames, FrameOK
  <2> HIDE DEF n
  <2> QED BY <1>2, <1>6, <2>1, <2>2
<1>8. hole => /\ q \notin DOMAIN written /\ q \notin Places /\ e = n + 1
              /\ span'[q].before = n /\ span'[q].after = n + 1
              /\ \A r \in Places : span[r].before < n
  BY <1>1, TopFrame DEF Shut
<1> HIDE DEF n
<1>9. \A r \in Places : span[r].after # 0 => span'[r].after = span[r].after
  BY <1>4, <1>5
<1>10. hole => \A r \in Places : ~Open(r) => span'[r].after # 0 /\ span'[r].after <= n
  BY <1>4, <1>7, OnlyLast
<1>11. ASSUME NEW r \in Places, NEW u \in Places PROVE Apart(r, u)'
  <2>1. Apart(r, u)
    BY DEF Order
  <2>2. Inside(r)' <=> Inside(r)
    BY <1>3
  <2>3. /\ span'[r].before = span[r].before /\ span'[u].before = span[u].before
        /\ span'[r].first = span[r].first
        /\ span[r].after # 0 => span'[r].after = span[r].after
    BY <1>4, <1>9
  <2>4. CASE r # c.path
    <3>1. span'[r].last = span[r].last
      BY <1>4, <2>4
    <3> QED BY <2>1, <2>2, <2>3, <3>1 DEF Apart
  <2>5. CASE r = c.path
    <3>1. span'[u].before < span'[r].last
      BY <1>2, <1>4, <1>5, <1>6, <1>7, <2>5
    <3> QED BY <1>2, <2>1, <2>2, <2>3, <2>5, <3>1 DEF Apart
  <2> QED BY <2>4, <2>5
<1>12. ASSUME hole, NEW r \in Places PROVE Apart(r, q)'
  <2>1. span'[q].before # span'[r].before
    BY <1>4, <1>6, <1>8, <1>12
  <2>2. ~Inside(r) => span'[r].after # 0 /\ span'[q].before >= span'[r].after
    BY <1>8, <1>10, <1>12, <1>2, <1>4, <1>6 DEF Open
  <2>3. Inside(r) => span'[q].before >= span'[r].first
    BY <1>2, <1>4, <1>6, <1>7, <1>8, <1>12
  <2>4. Inside(r) /\ span'[r].last # 0 => \/ span'[q].before < span'[r].last
                                          \/ span'[r].after # 0 /\ span'[q].before >= span'[r].after
    <3> SUFFICES ASSUME Inside(r), span'[r].last # 0
                 PROVE  \/ span'[q].before < span'[r].last
                        \/ span'[r].after # 0 /\ span'[q].before >= span'[r].after
      OBVIOUS
    <3>1. CASE r = c.path
      BY <1>2, <1>5, <1>8, <1>12, <3>1
    <3>2. CASE r # c.path
      <4>1. ~Open(r)
        BY <1>4, <3>2 DEF Open
      <4> QED BY <1>2, <1>8, <1>10, <1>12, <4>1
    <3> QED BY <3>1, <3>2
  <2> QED BY <1>3, <2>1, <2>2, <2>3, <2>4 DEF Apart
<1>13. ASSUME hole, NEW u \in Places \cup {q} PROVE Apart(q, u)'
  <2>1. ~Inside(q)'
    BY <1>3, <1>8, <1>13 DEF Inside
  <2>2. CASE u = q
    <3>1. span'[q].before <= span'[q].before
      BY <1>2, <1>8, <1>13
    <3> QED BY <2>1, <2>2, <3>1 DEF Apart
  <2>3. CASE u \in Places /\ u # q
    <3>1. span'[u].before <= span'[q].before /\ span'[u].before # span'[q].before
      BY <1>2, <1>4, <1>6, <1>8, <1>13, <2>3
    <3> QED BY <2>1, <2>3, <3>1 DEF Apart
  <2> QED BY <2>2, <2>3
<1> QED BY <1>2, <1>11, <1>12, <1>13 DEF Order

\* So each value stays followed by the next one.
LEMMA AddedChain ==
  ASSUME Histories, SpanOK, Frames, Chain, calls # <<>>, written' = written, NEW q, NEW b, Added(q, b)
  PROVE  Chain'
<1> DEFINE c == Last(calls)
           n == Len(text)
<1>1. PICK p : p = c.path
  OBVIOUS
<1>2. /\ Places' = Places \cup {q} /\ q \notin Places /\ q # <<>> /\ Front(q) = p /\ p # q
      /\ written[p].kind = "array" => Last(q) = Indexed(NextIndex(c.item))
      /\ p \in Places
      /\ c.item = <<>> <=> b = n
  BY <1>1 DEF Added
<1>3. \A r : Inside(r)' <=> Inside(r)
  BY DEF Inside
<1>4. \A r \in Places : /\ span'[r].before = span[r].before
                        /\ span'[r].first = span[r].first
                        /\ span'[r].last = span[r].last
                        /\ r = <<>> \/ r # c.item => span'[r].after = span[r].after
  BY DEF Added
<1>5. c.item # <<>> => span'[c.item].after = b /\ Front(c.item) = p /\ c.item \in Places
  BY <1>1 DEF Added
<1>6. /\ span'[q].before = b /\ span'[q].after = 0 /\ (Inside(q) => span'[q].last = 0)
  BY DEF Added
<1>7. \A r : Subs(r)' = IF r = p THEN Subs(r) \cup {q} ELSE Subs(r)
  <2> SUFFICES ASSUME NEW r PROVE Subs(r)' = IF r = p THEN Subs(r) \cup {q} ELSE Subs(r)
    OBVIOUS
  <2>1. Subs(r)' = {u \in Places' : u # <<>> /\ Front(u) = r}
    BY DEF Subs
  <2>2. Subs(r) = {u \in Places : u # <<>> /\ Front(u) = r}
    BY DEF Subs
  <2> QED BY <1>2, <2>1, <2>2
<1>8. \A r, u, i : Starts(r, u, i) => Starts(r, u, i)'
  BY <1>7 DEF Starts
<1>9. Subs(q)' = {}
  <2>1. \A r \in Places : r # <<>> => Front(r) \in Places
    BY DEF SpanOK, PlaceOK
  <2>2. Subs(q) = {}
    BY <1>2, <2>1 DEF Subs
  <2> QED BY <1>2, <1>7, <2>2
<1>10. c.item = <<>> => span[p].first = n
  BY <1>1, TopFrame
<1>11. ASSUME NEW i, (c.item = <<>> /\ i = 1) \/ (c.item # <<>> /\ i = Last(c.item).at + 1)
       PROVE  Starts(p, q, i)'
  <2>1. NextIndex(c.item) = i
    BY <1>11 DEF NextIndex
  <2>2. q \in Subs(p)'
    BY <1>7
  <2>3. written'[p].kind = "array" => Last(q) = Indexed(i)
    BY <1>2, <2>1
  <2> QED BY <2>2, <2>3 DEF Starts
<1>12. ASSUME NEW r \in Places PROVE Linked(r)'
  <2>1. Linked(r)
    BY DEF Chain
  <2>2. Inside(r)' <=> Inside(r)
    BY <1>3
  <2>3. Open(r)' <=> Open(r)
    BY <1>3, <1>4 DEF Open
  <2>4. r # <<>> /\ span'[r].after # 0 =>
           \/ span'[r].after = span'[Front(r)].last
           \/ \E u \in Places' : Starts(Front(r), u, Last(r).at + 1)' /\ span'[u].before = span'[r].after
    <3>1. CASE r = <<>>
      BY <3>1
    <3>2. CASE r # <<>> /\ r # c.item
      <4>1. span'[r].after = span[r].after
        BY <1>4, <3>2
      <4>2. Front(r) \in Places
        BY <3>2 DEF SpanOK, PlaceOK
      <4>3. span'[Front(r)].last = span[Front(r)].last
        BY <1>4, <4>2
      <4> SUFFICES ASSUME span[r].after # 0
                   PROVE \/ span[r].after = span[Front(r)].last
                         \/ \E u \in Places' : Starts(Front(r), u, Last(r).at + 1)' /\ span'[u].before = span[r].after
        BY <4>1, <4>3
      <4>4. \/ span[r].after = span[Front(r)].last
            \/ \E u \in Places : Starts(Front(r), u, Last(r).at + 1) /\ span[u].before = span[r].after
        BY <2>1, <3>2 DEF Linked
      <4> QED BY <1>2, <1>4, <1>8, <4>4
    <3>3. CASE r # <<>> /\ r = c.item
      <4>1. Front(r) = p /\ span'[r].after = b /\ q \in Places' /\ span'[q].before = b
        BY <1>2, <1>5, <1>6, <3>3
      <4>2. Starts(p, q, Last(r).at + 1)'
        BY <1>11, <3>3
      <4> QED BY <4>1, <4>2
    <3> QED BY <3>1, <3>2, <3>3
  <2>5. Inside(r) /\ Subs(r)' # {} => \E u \in Places' : Starts(r, u, 1)' /\ span'[u].before = span'[r].first
    <3> SUFFICES ASSUME Inside(r), Subs(r)' # {}
                 PROVE  \E u \in Places' : Starts(r, u, 1)' /\ span'[u].before = span'[r].first
      OBVIOUS
    <3>1. CASE Subs(r) # {}
      <4>1. \E u \in Places : Starts(r, u, 1) /\ span[u].before = span[r].first
        BY <2>1, <3>1 DEF Linked
      <4> QED BY <1>2, <1>4, <1>8, <4>1
    <3>2. CASE Subs(r) = {}
      <4>1. r = p
        BY <1>7, <3>2
      <4>2. c.item = <<>>
        BY <1>5, <3>2, <4>1 DEF Subs
      <4>3. Starts(p, q, 1)'
        <5>1. NextIndex(c.item) = 1
          BY <4>2 DEF NextIndex
        <5>2. q \in Subs(p)' /\ (written'[p].kind = "array" => Last(q) = Indexed(1))
          BY <1>2, <1>7, <5>1
        <5> QED BY <5>2 DEF Starts
      <4>4. q \in Places' /\ span'[q].before = span'[p].first
        BY <1>2, <1>4, <1>6, <1>10, <4>2
      <4> QED BY <4>1, <4>3, <4>4
    <3> QED BY <3>1, <3>2
  <2>6. Inside(r) /\ ~Open(r) =>
         /\ Inner(written', r) \subseteq Places'
         /\ written'[r].kind = "array" /\ Inner(written', r) = {} => Append(r, Indexed(1)) \in Places'
    BY <1>2, <2>1 DEF Linked
  <2> QED BY <2>2, <2>3, <2>4, <2>5, <2>6 DEF Linked
<1>13. Linked(q)'
  <2>1. Inside(q)' => Open(q)'
    BY <1>3, <1>6 DEF Open
  <2> QED BY <1>6, <1>9, <2>1 DEF Linked
<1> QED BY <1>2, <1>12, <1>13 DEF Chain

\* The end of a loop keeps each value behind the one before.
LEMMA ShutChain ==
  ASSUME Histories, SpanOK, Frames, Chain, calls # <<>>, written' = written, NEW e, Shut(e)
  PROVE  Chain'
<1> DEFINE c == Last(calls)
           n == Len(text)
<1>1. PICK p, q, hole : p = c.path /\ q = Append(p, Indexed(1))
                        /\ hole = (c.item = <<>> /\ written[c.path].kind = "array")
  OBVIOUS
<1>2. /\ Places' = Places \cup (IF hole THEN {q} ELSE {})
      /\ p \in Places /\ Inside(p) /\ span[p].last = 0 /\ span[p].after = 0
      /\ n \in Nat /\ e \in {n + 1, n + 2} /\ Inner(written, p) \subseteq Places
  BY <1>1 DEF Shut
<1>3. \A r : Inside(r)' <=> Inside(r)
  BY DEF Inside
<1>4. \A r \in Places : /\ span'[r].before = span[r].before
                        /\ span'[r].first = span[r].first
                        /\ r # p => span'[r].last = span[r].last
                        /\ r = <<>> \/ r # c.item => span'[r].after = span[r].after
  BY <1>1 DEF Shut
<1>5. /\ span'[p].last = e
      /\ c.item # <<>> => span'[c.item].after = e /\ Front(c.item) = p /\ c.item \in Places
  BY <1>1 DEF Shut
<1>6. hole => /\ q \notin DOMAIN written /\ q \notin Places /\ e = n + 1 /\ q # <<>> /\ Front(q) = p /\ q # p
              /\ Last(q) = Indexed(1) /\ span'[q].before = n /\ span'[q].after = n + 1
              /\ span[p].first = n
  BY <1>1, TopFrame DEF Shut
<1>7. \A r : Subs(r)' = IF hole /\ r = p THEN Subs(r) \cup {q} ELSE Subs(r)
  <2> SUFFICES ASSUME NEW r PROVE Subs(r)' = IF hole /\ r = p THEN Subs(r) \cup {q} ELSE Subs(r)
    OBVIOUS
  <2>1. Subs(r)' = {u \in Places' : u # <<>> /\ Front(u) = r}
    BY DEF Subs
  <2>2. Subs(r) = {u \in Places : u # <<>> /\ Front(u) = r}
    BY DEF Subs
  <2> QED BY <1>2, <1>6, <2>1, <2>2
<1>8. \A r, u, i : Starts(r, u, i) => Starts(r, u, i)'
  BY <1>7 DEF Starts
<1>9. hole => Subs(q)' = {}
  <2> SUFFICES ASSUME hole PROVE Subs(q)' = {}
    OBVIOUS
  <2>1. \A r \in Places : r # <<>> => Front(r) \in Places
    BY DEF SpanOK, PlaceOK
  <2>2. Subs(q) = {}
    BY <1>6, <2>1 DEF Subs
  <2> QED BY <1>6, <1>7, <2>2
<1>10. Places \subseteq Places' /\ e # 0
  <2>1. e # 0
    BY <1>2
  <2> QED BY <1>2, <2>1
<1>11. ASSUME NEW r \in Places PROVE Linked(r)'
  <2>1. Linked(r)
    BY DEF Chain
  <2>2. Inside(r)' <=> Inside(r)
    BY <1>3
  <2>3. Open(r)' <=> Open(r) /\ r # p
    BY <1>3, <1>4, <1>5, <1>10 DEF Open
  <2>4. r # <<>> /\ span'[r].after # 0 =>
           \/ span'[r].after = span'[Front(r)].last
           \/ \E u \in Places' : Starts(Front(r), u, Last(r).at + 1)' /\ span'[u].before = span'[r].after
    <3>1. CASE r = <<>>
      BY <3>1
    <3>2. CASE r # <<>> /\ r # c.item
      <4>1. span'[r].after = span[r].after
        BY <1>4, <3>2
      <4>2. Front(r) \in Places
        BY <3>2 DEF SpanOK, PlaceOK
      <4> SUFFICES ASSUME span[r].after # 0
                   PROVE \/ span[r].after = span'[Front(r)].last
                         \/ \E u \in Places' : Starts(Front(r), u, Last(r).at + 1)' /\ span'[u].before = span[r].after
        BY <4>1
      <4>3. \/ span[r].after = span[Front(r)].last
            \/ \E u \in Places : Starts(Front(r), u, Last(r).at + 1) /\ span[u].before = span[r].after
        BY <2>1, <3>2 DEF Linked
      <4>4. CASE span[r].after = span[Front(r)].last
        <5>1. Front(r) # p
          BY <1>2, <4>4
        <5> QED BY <1>4, <4>2, <4>4, <5>1
      <4>5. CASE \E u \in Places : Starts(Front(r), u, Last(r).at + 1) /\ span[u].before = span[r].after
        BY <1>4, <1>8, <1>10, <4>5
      <4> QED BY <4>3, <4>4, <4>5
    <3>3. CASE r # <<>> /\ r = c.item
      BY <1>5, <3>3
    <3> QED BY <3>1, <3>2, <3>3
  <2>5. Inside(r) /\ Subs(r)' # {} => \E u \in Places' : Starts(r, u, 1)' /\ span'[u].before = span'[r].first
    <3> SUFFICES ASSUME Inside(r), Subs(r)' # {}
                 PROVE  \E u \in Places' : Starts(r, u, 1)' /\ span'[u].before = span'[r].first
      OBVIOUS
    <3>1. CASE Subs(r) # {}
      <4>1. \E u \in Places : Starts(r, u, 1) /\ span[u].before = span[r].first
        BY <2>1, <3>1 DEF Linked
      <4> QED BY <1>4, <1>8, <1>10, <4>1
    <3>2. CASE Subs(r) = {}
      <4>1. r = p /\ hole
        BY <1>7, <3>2
      <4>2. Starts(p, q, 1)'
        BY <1>6, <1>7, <4>1 DEF Starts
      <4>3. q \in Places' /\ span'[q].before = span'[p].first
        BY <1>2, <1>4, <1>6, <4>1
      <4> QED BY <4>1, <4>2, <4>3
    <3> QED BY <3>1, <3>2
  <2>6. Inside(r) /\ ~Open(r)' =>
         /\ Inner(written', r) \subseteq Places'
         /\ written'[r].kind = "array" /\ Inner(written', r) = {} => Append(r, Indexed(1)) \in Places'
    <3>1. CASE r # p
      BY <1>10, <2>1, <2>3, <3>1 DEF Linked
    <3>2. CASE r = p
      <4>1. written[p].kind = "array" /\ Inner(written, p) = {} => hole
        <5>1. c.item # <<>> => c.item \in Inner(written, p)
          BY <1>1, TopFrame DEF Inner
        <5> QED BY <1>1, <5>1
      <4> QED BY <1>1, <1>2, <1>10, <3>2, <4>1
    <3> QED BY <3>1, <3>2
  <2> QED BY <2>2, <2>3, <2>4, <2>5, <2>6 DEF Linked
<1>12. ASSUME hole PROVE Linked(q)'
  <2>1. ~Inside(q)'
    BY <1>3, <1>6, <1>12 DEF Inside
  <2>2. span'[q].after = span'[Front(q)].last
    BY <1>5, <1>6, <1>12
  <2> QED BY <1>9, <1>12, <2>1, <2>2 DEF Linked
<1> QED BY <1>2, <1>11, <1>12 DEF Chain

-----------------------------------------------------------------------------
(* What stands there. *)

\* There is layout from i to j.
Blanks(t, i, j) == \A k \in i..j : t[k] = " "

\* What stands at the place of the value at q.
TextOK(q) ==
    /\ q # <<>> =>
          /\ Blanks(text, span[q].colon + 1, span[q].first - 1)
          /\ written[Front(q)].kind = "dict" => Entry(text, span[q], Last(q).label)
          /\ written[Front(q)].kind # "dict" => span[q].colon = span[q].before
    /\ span[q].after # 0 => Blanks(text, span[q].last + 1, span[q].after - 1)
    /\ q \notin DOMAIN written => span[q].last + 1 = span[q].first
    /\ q \in DOMAIN written /\ ~Inside(q) =>
          /\ span[q].last + 1 = span[q].first + Len(Opening(written[q]))
          /\ At(text, span[q].first - 1, Opening(written[q]))
    /\ Inside(q) => /\ text[span[q].first] = Opening(written[q])[1]
                    /\ ~Open(q) => /\ span[q].first < span[q].last
                                   /\ text[span[q].last] = Closing(written[q])
\* What stands at all places.
Texts == \A q \in Places : TextOK(q)

\* What was written of a value stays.
LEMMA EntryKept ==
  ASSUME NEW t, NEW u, NEW n \in Nat, \A i \in 1..n : u[i] = t[i], NEW l \in Seq(Chars),
         NEW s \in Spans, NEW s2, s.colon <= n,
         s2.before = s.before, s2.beg = s.beg, s2.colon = s.colon, Entry(t, s, l)
  PROVE  Entry(u, s2, l)
<1> DEFINE k == Len(l)
<1>1. s.before \in Nat /\ s.beg \in Nat /\ s.colon \in Nat /\ k \in Nat
  BY DEF Spans
<1>2. /\ s.beg \in {s.before + 1, s.before + 2}
      /\ s.beg = s.before + 2 => t[s.before + 1] = " "
      /\ s.colon = s.beg + k + 2
      /\ t[s.beg] = Quote /\ At(t, s.beg, l)
      /\ t[s.colon - 1] = Quote /\ t[s.colon] = ":"
  BY DEF Entry
<1> HIDE DEF k
<1>3. s.before + 1 \in 1..n /\ s.beg \in 1..n /\ s.colon - 1 \in 1..n /\ s.colon \in 1..n /\ s.beg + k <= n
  <2> DEFINE x == s.before
             y == s.beg
             z == s.colon
  <2>1. /\ y = x + 1 \/ y = x + 2
        /\ z = y + k + 2 /\ z <= n
        /\ x \in Nat /\ y \in Nat /\ z \in Nat /\ k \in Nat
    BY <1>1, <1>2
  <2> HIDE DEF x, y, z
  <2>2. x + 1 \in 1..n /\ y \in 1..n /\ z - 1 \in 1..n /\ z \in 1..n /\ y + k <= n
    BY <2>1
  <2> QED BY <2>2 DEF x, y, z
<1>4. At(u, s.beg, l)
  BY <1>1, <1>2, <1>3, AtKept DEF k
<1> QED BY <1>2, <1>3, <1>4 DEF Entry, k

\* What stands at a place still does when the text grows.
LEMMA TextKept ==
  ASSUME Histories, IsTree(written), SpanOK, written' = written, \A i \in 1..Len(text) : text'[i] = text[i],
         NEW r \in Places, TextOK(r), 
         span'[r].before = span[r].before, span'[r].beg = span[r].beg, span'[r].colon = span[r].colon,
         span'[r].first = span[r].first,
         \/ span'[r].last = span[r].last
         \/ Inside(r) /\ span[r].first < span'[r].last /\ text'[span'[r].last] = Closing(written[r]),
         span'[r].after # 0 => Blanks(text', span'[r].last + 1, span'[r].after - 1)
  PROVE  TextOK(r)'
<1> DEFINE n == Len(text)
           s == span[r]
           o == Opening(written[r])
<1>1. /\ n \in Nat /\ s \in Spans
      /\ s.before \in Nat /\ s.beg \in Nat /\ s.colon \in Nat /\ s.first \in Nat /\ s.last \in Nat
  <2>1. n \in Nat /\ s \in Spans
    BY DEF Histories
  <2> QED BY <2>1 DEF Spans
<1>2. /\ s.before <= s.colon /\ s.colon < s.first /\ s.first <= n + 1 /\ s.last <= n
      /\ Inside(r) => s.first <= n
      /\ ~Open(r) => s.first <= s.last + 1
  BY DEF SpanOK, PlaceOK
<1>3. Inside(r)' <=> Inside(r)
  BY DEF Inside
<1>4. r # <<>> => Last(r).label \in Seq(Chars)
  <2> SUFFICES ASSUME r # <<>> PROVE Last(r).label \in Seq(Chars)
    OBVIOUS
  <2>1. r \in Seq(TreeKeys)
    BY PlacePaths DEF Paths
  <2>2. Last(r) \in TreeKeys
    BY <2>1, PathEnd
  <2> QED BY <2>2 DEF TreeKeys
<1>5. r \in DOMAIN written => o \in Seq(Chars) /\ Len(o) \in Nat
  BY OpeningIs DEF IsTree, Grove
<1>6. r # <<>> => /\ Blanks(text', s.colon + 1, s.first - 1)
                  /\ written[Front(r)].kind = "dict" => Entry(text', span'[r], Last(r).label)
                  /\ written[Front(r)].kind # "dict" => span'[r].colon = span'[r].before
  <2> SUFFICES ASSUME r # <<>>
               PROVE  /\ Blanks(text', s.colon + 1, s.first - 1)
                      /\ written[Front(r)].kind = "dict" => Entry(text', span'[r], Last(r).label)
                      /\ written[Front(r)].kind # "dict" => span'[r].colon = span'[r].before
    OBVIOUS
  <2>1. /\ Blanks(text, s.colon + 1, s.first - 1)
        /\ written[Front(r)].kind = "dict" => Entry(text, s, Last(r).label)
        /\ written[Front(r)].kind # "dict" => s.colon = s.before
    BY DEF TextOK
  <2>2. \A i \in (s.colon + 1)..(s.first - 1) : i \in 1..n
    <3> HIDE DEF s, n
    <3> QED BY <1>1, <1>2
  <2>3. s.colon <= n
    <3> HIDE DEF s, n
    <3> QED BY <1>1, <1>2
  <2>4. written[Front(r)].kind = "dict" => Entry(text', span'[r], Last(r).label)
    BY <1>1, <1>4, <2>1, <2>3, EntryKept
  <2>5. Blanks(text', s.colon + 1, s.first - 1)
    <3> HIDE DEF s, n
    <3> QED BY <2>1, <2>2 DEF Blanks, n
  <2> QED BY <2>1, <2>4, <2>5
<1>7. r \notin DOMAIN written => span'[r].last + 1 = span'[r].first
  BY DEF TextOK, Inside
<1>8. r \in DOMAIN written /\ ~Inside(r) =>
          /\ span'[r].last + 1 = span'[r].first + Len(o)
          /\ At(text', span'[r].first - 1, o)
  <2> SUFFICES ASSUME r \in DOMAIN written, ~Inside(r)
               PROVE  /\ span'[r].last + 1 = span'[r].first + Len(o)
                      /\ At(text', span'[r].first - 1, o)
    OBVIOUS
  <2>1. s.last + 1 = s.first + Len(o) /\ At(text, s.first - 1, o)
    BY DEF TextOK
  <2>2. s.first - 1 \in Nat /\ (s.first - 1) + Len(o) <= n
    <3> HIDE DEF s, n, o
    <3> QED BY <1>1, <1>2, <1>5, <2>1, SMTT(40)
  <2>3. At(text', s.first - 1, o)
    <3>1. n \in Nat /\ o \in Seq(Chars) /\ \A i \in 1..n : text'[i] = text[i]
      BY <1>1, <1>5
    <3> DEFINE p == s.first - 1
    <3>2. p \in Nat /\ p + Len(o) <= n /\ At(text, p, o)
      BY <2>1, <2>2
    <3> HIDE DEF o, n, p
    <3>3. At(text', p, o)
      BY <3>1, <3>2, AtKept
    <3> QED BY <3>3 DEF p
  <2> QED BY <2>1, <2>3
<1>9. Inside(r) => /\ text'[span'[r].first] = o[1]
                   /\ ~Open(r)' => /\ span'[r].first < span'[r].last
                                   /\ text'[span'[r].last] = Closing(written[r])
  <2> SUFFICES ASSUME Inside(r)
               PROVE  /\ text'[s.first] = o[1]
                      /\ ~Open(r)' => /\ s.first < span'[r].last
                                      /\ text'[span'[r].last] = Closing(written[r])
    OBVIOUS
  <2>1. /\ text[s.first] = o[1]
        /\ ~Open(r) => /\ s.first < s.last
                       /\ text[s.last] = Closing(written[r])
    BY DEF TextOK
  <2>2. s.first \in 1..n
    <3> HIDE DEF s, n
    <3> QED BY <1>1, <1>2
  <2>3. CASE span'[r].last = s.last
    <3>1. Open(r)' <=> Open(r)
      BY <1>3, <2>3 DEF Open
    <3>2. s.first < s.last => s.last \in 1..n
      <4> HIDE DEF s, n
      <4> QED BY <1>1, <1>2
    <3> QED BY <2>1, <2>2, <2>3, <3>1, <3>2
  <2>4. CASE span'[r].last # s.last
    BY <2>1, <2>2, <2>4
  <2> QED BY <2>3, <2>4
<1> QED BY <1>3, <1>6, <1>7, <1>8, <1>9 DEF TextOK

\* So all values stay written as they are.
LEMMA WroteTexts ==
  ASSUME Histories, IsTree(written), SpanOK, Frames, Texts, calls # <<>>, written' = written,
         NEW q, NEW g \in {0, 1}, Wrote(q, g)
  PROVE  Texts'
<1> DEFINE c == Last(calls)
           n == Len(text)
           t == Len(text')
           s == span'[q]
           o == Opening(written[q])
<1>1. PICK b : b = IF c.item = <<>> THEN n ELSE n + 1
  OBVIOUS
<1>2. Added(q, b)
  BY <1>1, WroteAdds
<1>3. PICK p : p = c.path
  OBVIOUS
<1>4. /\ Places' = Places \cup {q} /\ q \notin Places /\ q \in DOMAIN written
      /\ q # <<>> /\ Front(q) = p
      /\ n \in Nat /\ t \in Nat /\ n <= t
      /\ b \in {n, n + 1} /\ (c.item = <<>> <=> b = n) /\ b <= t
  BY <1>2, <1>3 DEF Added
<1>5. \A r \in Places : /\ span'[r].before = span[r].before /\ span'[r].beg = span[r].beg
                        /\ span'[r].colon = span[r].colon /\ span'[r].first = span[r].first
                        /\ span'[r].last = span[r].last
                        /\ r = <<>> \/ r # c.item => span'[r].after = span[r].after
  BY <1>2 DEF Added
<1>6. c.item # <<>> => /\ span'[c.item].after = b /\ span[c.item].last = n /\ c.item \in Places
  BY <1>2 DEF Added
<1>7. \A i \in 1..n : text'[i] = text[i]
  BY DEF Wrote
<1>8. ASSUME NEW r \in Places PROVE TextOK(r)'
  <2>1. TextOK(r)
    BY DEF Texts
  <2>2. span'[r].after # 0 => Blanks(text', span'[r].last + 1, span'[r].after - 1)
    <3> SUFFICES ASSUME span'[r].after # 0 PROVE Blanks(text', span'[r].last + 1, span'[r].after - 1)
      OBVIOUS
    <3>1. CASE r = <<>> \/ r # c.item
      <4>1. span'[r].after = span[r].after /\ span'[r].last = span[r].last
        BY <1>5, <3>1
      <4>2. Blanks(text, span[r].last + 1, span[r].after - 1)
        BY <2>1, <4>1 DEF TextOK
      <4>3. span[r].after <= n /\ span[r] \in Spans
        BY DEF Frames, Histories
      <4>4. \A i \in (span[r].last + 1)..(span[r].after - 1) : i \in 1..n
        <5>1. span[r].after \in Nat /\ span[r].last \in Nat
          BY <4>3 DEF Spans
        <5> HIDE DEF n
        <5> QED BY <1>4, <4>3, <5>1
      <4> HIDE DEF n
      <4> QED BY <1>7, <4>1, <4>2, <4>4 DEF Blanks
    <3>2. CASE r = c.item /\ r # <<>>
      <4>1. span'[r].after = n + 1 /\ span'[r].last = n
        BY <1>1, <1>5, <1>6, <3>2
      <4>2. (n + 1)..((n + 1) - 1) = {}
        <5> HIDE DEF n
        <5> QED BY <1>4
      <4> HIDE DEF n
      <4> QED BY <4>1, <4>2 DEF Blanks
    <3> QED BY <3>1, <3>2
  <2> QED BY <1>5, <1>7, <2>1, <2>2, TextKept
<1>9. TextOK(q)'
  <2>1. /\ s.before = b /\ s.first = s.colon + g + 1 /\ s.after = 0
        /\ written[p].kind # "dict" => s.colon = b
        /\ s.last = IF written[q].kind \in Containers THEN 0 ELSE s.first + Len(o) - 1
        /\ g = 1 => text'[s.first - 1] = " "
        /\ written[p].kind = "dict" => Entry(text', s, Last(q).label)
        /\ At(text', s.first - 1, o)
    BY <1>1, <1>3 DEF Wrote
  <2>2. s.colon \in Nat /\ s.first \in Nat
    <3>1. s \in Spans
      BY <1>2 DEF Added
    <3> QED BY <3>1 DEF Spans
  <2>3. Blanks(text', s.colon + 1, s.first - 1)
    <3>1. \A i \in (s.colon + 1)..(s.first - 1) : g = 1 /\ i = s.first - 1
      <4>1. s.first = s.colon + g + 1
        BY <2>1
      <4> HIDE DEF s
      <4> QED BY <2>2, <4>1
    <3>2. g = 1 => text'[s.first - 1] = " "
      BY <2>1
    <3> QED BY <3>1, <3>2 DEF Blanks
  <2>4. written[p].kind = "dict" => Entry(text', s, Last(q).label)
    BY <2>1
  <2>5. written[p].kind # "dict" => s.colon = s.before
    BY <2>1
  <2>6. NodeOK(written[q])
    BY <1>4 DEF IsTree, Grove
  <2>7. Inside(q)' <=> written[q].kind \in Containers
    BY <1>4 DEF Inside
  <2>8. ~Inside(q)' => s.last + 1 = s.first + Len(o) /\ At(text', s.first - 1, o)
    <3> SUFFICES ASSUME ~Inside(q)' PROVE s.last + 1 = s.first + Len(o) /\ At(text', s.first - 1, o)
      OBVIOUS
    <3>1. s.last = s.first + Len(o) - 1 /\ Len(o) \in Nat
      BY <2>1, <2>6, <2>7, OpeningIs
    <3>2. s.last + 1 = s.first + Len(o)
      <4> HIDE DEF s, o
      <4> QED BY <2>2, <3>1
    <3> QED BY <2>1, <3>2
  <2>9. Inside(q)' => text'[s.first] = o[1] /\ Open(q)'
    <3> SUFFICES ASSUME Inside(q)' PROVE text'[s.first] = o[1] /\ Open(q)'
      OBVIOUS
    <3>1. Len(o) = 1 /\ s.last = 0
      BY <2>1, <2>6, <2>7, OpeningIs
    <3>2. 1 \in 1..Len(o) /\ (s.first - 1) + 1 = s.first
      <4> HIDE DEF s, o
      <4> QED BY <2>2, <3>1
    <3>3. text'[(s.first - 1) + 1] = o[1]
      BY <2>1, <3>2 DEF At
    <3> QED BY <3>1, <3>2, <3>3 DEF Open
  <2> HIDE DEF o
  <2> QED BY <1>4, <2>1, <2>3, <2>4, <2>5, <2>8, <2>9, Zenon DEF TextOK, o, s
<1> QED BY <1>4, <1>8, <1>9 DEF Texts

\* The end of a loop keeps what stands there.
LEMMA ClosedTexts ==
  ASSUME Histories, IsTree(written), SpanOK, Frames, Texts, calls # <<>>, written' = written,
         NEW g \in {0, 1}, Closed(g)
  PROVE  Texts'
<1> DEFINE c == Last(calls)
           n == Len(text)
<1>1. PICK e : e = n + g + 1
  OBVIOUS
<1>2. Shut(e)
  BY <1>1, ClosedShuts
<1>3. PICK p, q, hole : p = c.path /\ q = Append(p, Indexed(1))
                        /\ hole = (c.item = <<>> /\ written[c.path].kind = "array")
  OBVIOUS
<1>4. /\ Places' = Places \cup (IF hole THEN {q} ELSE {})
      /\ p \in Places /\ Inside(p) /\ span[p].last = 0 /\ span[p].after = 0
      /\ n \in Nat /\ e \in {n + 1, n + 2}
  BY <1>2, <1>3 DEF Shut
<1>5. \A r \in Places : /\ span'[r].before = span[r].before /\ span'[r].beg = span[r].beg
                        /\ span'[r].colon = span[r].colon /\ span'[r].first = span[r].first
                        /\ r # p => span'[r].last = span[r].last
                        /\ r = <<>> \/ r # c.item => span'[r].after = span[r].after
  BY <1>2, <1>3 DEF Shut
<1>6. /\ span'[p].last = e
      /\ c.item # <<>> => span'[c.item].after = e /\ span[c.item].last = n /\ c.item \in Places /\ c.item # p
  BY <1>2, <1>3 DEF Shut
<1>7. hole => /\ q \notin DOMAIN written /\ q # <<>> /\ Front(q) = p
              /\ span'[q].before = n /\ span'[q].colon = n /\ span'[q].first = n + 1
              /\ span'[q].last = n /\ span'[q].after = n + 1 /\ written[p].kind = "array"
  BY <1>2, <1>3 DEF Shut
<1>8. /\ \A i \in 1..n : text'[i] = text[i]
      /\ g = 1 => text'[n + 1] = " "
      /\ text'[e] = Closing(written[p])
  BY <1>1, <1>3 DEF Closed
<1>9. ASSUME NEW r \in Places PROVE TextOK(r)'
  <2>1. TextOK(r)
    BY DEF Texts
  <2>2. span'[r].after # 0 => Blanks(text', span'[r].last + 1, span'[r].after - 1)
    <3> SUFFICES ASSUME span'[r].after # 0 PROVE Blanks(text', span'[r].last + 1, span'[r].after - 1)
      OBVIOUS
    <3>1. CASE r = <<>> \/ r # c.item
      <4>1. span'[r].after = span[r].after /\ span'[r].last = span[r].last
        BY <1>4, <1>5, <3>1
      <4>2. Blanks(text, span[r].last + 1, span[r].after - 1)
        BY <2>1, <4>1 DEF TextOK
      <4>3. span[r].after <= n /\ span[r] \in Spans
        BY DEF Frames, Histories
      <4>4. \A i \in (span[r].last + 1)..(span[r].after - 1) : i \in 1..n
        <5>1. span[r].after \in Nat /\ span[r].last \in Nat
          BY <4>3 DEF Spans
        <5> HIDE DEF n
        <5> QED BY <1>4, <4>3, <5>1
      <4> HIDE DEF n
      <4> QED BY <1>8, <4>1, <4>2, <4>4 DEF Blanks
    <3>2. CASE r = c.item /\ r # <<>>
      <4>1. span'[r].after = e /\ span'[r].last = n
        BY <1>5, <1>6, <3>2
      <4>2. \A i \in (n + 1)..(e - 1) : g = 1 /\ i = n + 1
        <5> HIDE DEF n
        <5> QED BY <1>1, <1>4
      <4>3. g = 1 => text'[n + 1] = " "
        BY <1>8
      <4> HIDE DEF n
      <4> QED BY <4>1, <4>2, <4>3 DEF Blanks
    <3> QED BY <3>1, <3>2
  <2>3. \/ span'[r].last = span[r].last
        \/ Inside(r) /\ span[r].first < span'[r].last /\ text'[span'[r].last] = Closing(written[r])
    <3>1. CASE r # p
      BY <1>5, <3>1
    <3>2. CASE r = p
      <4>1. span[p].first <= n /\ span[p] \in Spans
        BY <1>4 DEF SpanOK, PlaceOK, Histories
      <4>2. span[p].first < e
        <5>1. span[p].first \in Nat
          BY <4>1 DEF Spans
        <5> HIDE DEF n
        <5> QED BY <1>4, <4>1, <5>1
      <4> QED BY <1>4, <1>6, <1>8, <3>2, <4>2
    <3> QED BY <3>1, <3>2
  <2> QED BY <1>5, <1>8, <2>1, <2>2, <2>3, TextKept
<1>10. ASSUME hole PROVE TextOK(q)'
  <2>1. \A i : i \notin (n + 1)..((n + 1) - 1)
    <3> HIDE DEF n
    <3> QED BY <1>4
  <2> HIDE DEF n
  <2>2. Blanks(text', span'[q].colon + 1, span'[q].first - 1) /\ Blanks(text', span'[q].last + 1, span'[q].after - 1)
    BY <1>7, <1>10, <2>1 DEF Blanks
  <2>3. ~Inside(q)'
    BY <1>7, <1>10 DEF Inside
  <2>4. written[Front(q)].kind # "dict" /\ span'[q].colon = span'[q].before /\ span'[q].last + 1 = span'[q].first
    BY <1>7, <1>10
  <2> QED BY <1>7, <1>10, <2>2, <2>3, <2>4 DEF TextOK
<1> QED BY <1>4, <1>9, <1>10 DEF Texts

-----------------------------------------------------------------------------
(* The loops that are left. *)

\* The depths of a text stay when it grows.
LEMMA NestKept ==
  ASSUME NEW n \in Nat, \A i \in 1..n : nest'[i] = nest[i], NEW i \in 0..n
  PROVE  Nest(i)' = Nest(i)
<1>1. i = 0 \/ i \in 1..n
  OBVIOUS
<1> QED BY <1>1 DEF Nest

\* The value a loop waits for is open; the one it has just written is not.
LEMMA FrameIs ==
  ASSUME Frames, calls # <<>>, NEW k \in 1..Len(calls)
  PROVE  LET m == Len(calls)
         IN  /\ m \in Nat /\ calls[k] \in WFrames /\ calls[k].path \in Places /\ Open(calls[k].path)
             /\ Len(calls[k].path) = k - 1
             /\ calls[k].item # <<>> => /\ calls[k].item \in Places /\ calls[k].item \in DOMAIN written
                                        /\ Front(calls[k].item) = calls[k].path
             /\ k < m => /\ k + 1 \in 1..m /\ calls[k].item # <<>> /\ calls[k].item = calls[k + 1].path
                         /\ Open(calls[k].item) /\ calls[k].item # Last(calls).item
             /\ k # m => k < m /\ calls[k].path # Last(calls).path
<1> DEFINE m == Len(calls)
<1>1. m \in Nat /\ m >= 1 /\ Last(calls) = calls[m] /\ Len(Last(calls).path) = m - 1
      /\ (Last(calls).item # <<>> => ~Open(Last(calls).item))
  BY TopFrame
<1>2. /\ calls \in Seq(WFrames) /\ calls[k].path \in Places /\ Open(calls[k].path)
      /\ Len(calls[k].path) = k - 1
      /\ calls[k].item # <<>> => calls[k].item \in Places \cap DOMAIN written /\ Front(calls[k].item) = calls[k].path
      /\ k < m => calls[k].item # <<>> /\ calls[k].item = calls[k + 1].path
  BY DEF Frames, FrameOK
<1>3. k < m => k + 1 \in 1..m
  BY <1>1
<1>4. k < m => Open(calls[k].item)
  <2> SUFFICES ASSUME k < m PROVE Open(calls[k].item)
    OBVIOUS
  <2>1. Open(calls[k + 1].path)
    BY <1>3 DEF Frames, FrameOK
  <2> QED BY <1>2, <2>1
<1>5. k < m => calls[k].item # Last(calls).item
  BY <1>1, <1>2, <1>4
<1>6. k # m => k < m /\ calls[k].path # Last(calls).path
  BY <1>1, <1>2
<1>7. calls[k] \in WFrames
  BY <1>2
<1> QED BY <1>1, <1>2, <1>3, <1>4, <1>5, <1>6, <1>7

\* The loops follow the text.
LEMMA WroteFrames ==
  ASSUME Histories, IsTree(written), SpanOK, Frames, calls # <<>>, written' = written,
         NEW q, NEW g \in {0, 1}, Wrote(q, g)
  PROVE  Histories' /\ Frames'
<1>1. PICK c, n, t, m, p, o : /\ c = Last(calls) /\ n = Len(text) /\ t = Len(text') /\ m = Len(calls)
                              /\ p = c.path /\ o = Opening(written[q])
  OBVIOUS
<1>2. PICK b : b = IF c.item = <<>> THEN n ELSE n + 1
  OBVIOUS
<1>3. Added(q, b)
  BY <1>1, <1>2, WroteAdds
<1>4. /\ Places' = Places \cup {q} /\ q \notin Places /\ q \in DOMAIN written
      /\ q # <<>> /\ Front(q) = p
      /\ n \in Nat /\ t \in Nat /\ n <= t
      /\ b \in {n, n + 1} /\ (c.item = <<>> <=> b = n) /\ b <= t
      /\ \A r \in Places' : span'[r] \in Spans
  BY <1>1, <1>3 DEF Added
<1>5. \A r \in Places : /\ span'[r].before = span[r].before
                        /\ span'[r].last = span[r].last
                        /\ r = <<>> \/ r # c.item => span'[r].after = span[r].after
  BY <1>1, <1>3 DEF Added
<1>6. /\ c.item # <<>> => /\ span'[c.item].after = b /\ c.item \in Places /\ ~Open(c.item)
      /\ span'[q].before = b /\ b <= span'[q].colon /\ span'[q].colon < span'[q].first
      /\ span'[q].after = 0
      /\ Inside(q) => span'[q].last = 0 /\ span'[q].first = t
      /\ ~Inside(q) => span'[q].last = t
  BY <1>1, <1>3 DEF Added
<1>7. /\ text' \in Seq(Chars) /\ nest' \in Seq(Seq(Chars)) /\ Len(nest') = t
      /\ \A i \in 1..n : nest'[i] = nest[i]
      /\ \A i \in (n + 1)..t : nest'[i] = IF written[q].kind \in Containers /\ i = t
                                          THEN Append(Nest(n), o[1]) ELSE Nest(n)
  BY <1>1 DEF Wrote
<1>8. /\ calls' \in Seq(WFrames)
      /\ Len(calls') = IF written[q].kind \in Containers THEN m + 1 ELSE m
      /\ \A k \in 1..(m - 1) : calls'[k] = calls[k]
      /\ calls'[m] = [c EXCEPT !.item = q]
      /\ written[q].kind \in Containers =>
             calls'[m + 1] = [path |-> q, level |-> NextLevel(c.level), item |-> <<>>]
  BY <1>1 DEF Wrote
<1>9. Histories'
  BY <1>1, <1>4, <1>7 DEF Histories
<1>10. \A r : Inside(r)' <=> Inside(r)
  BY DEF Inside
<1>11. \A r \in Places : Open(r)' <=> Open(r)
  BY <1>5, <1>10 DEF Open
<1>12. Inside(q) <=> written[q].kind \in Containers
  BY <1>4 DEF Inside
<1>13. Open(q)' <=> Inside(q)
  <2>1. CASE Inside(q)
    BY <1>6, <1>10, <2>1 DEF Open
  <2>2. CASE ~Inside(q)
    BY <1>10, <2>2 DEF Open
  <2> QED BY <2>1, <2>2
<1>14. /\ m \in Nat /\ m >= 1 /\ c = calls[m] /\ c \in WFrames /\ p \in Paths /\ Len(p) = m - 1
       /\ p \in Places /\ Open(p)
  BY <1>1, TopFrame
<1>15. Len(q) = m
  <2>1. q \in Seq(TreeKeys)
    BY <1>4 DEF IsTree, Grove, Paths
  <2>2. Len(Front(q)) = Len(q) - 1 /\ Len(q) \in Nat
    BY <1>4, <2>1, PathEnd
  <2> QED BY <1>4, <1>14, <2>2
<1>16. calls'[m].path = p /\ calls'[m].item = q
  BY <1>1, <1>8, <1>14 DEF WFrames
<1>17. Inside(q) => calls'[m + 1].path = q /\ calls'[m + 1].item = <<>>
  BY <1>8, <1>12
<1>18. Len(calls') = (IF Inside(q) THEN m + 1 ELSE m)
  BY <1>8, <1>12
<1>19. ASSUME NEW k \in 1..Len(calls') PROVE FrameOK(k)'
  <2>1. k \in 1..(m - 1) \/ k = m \/ (k = m + 1 /\ Inside(q))
    BY <1>14, <1>18
  <2>2. CASE k \in 1..(m - 1)
    <3>1. k \in 1..m /\ k < m /\ (k + 1 \in 1..(m - 1) \/ k + 1 = m)
      BY <1>14, <2>2
    <3>2. /\ calls[k].path \in Places /\ Open(calls[k].path) /\ Len(calls[k].path) = k - 1
          /\ calls[k].item \in Places /\ calls[k].item \in DOMAIN written
          /\ Front(calls[k].item) = calls[k].path
          /\ calls[k].item # <<>> /\ calls[k].item = calls[k + 1].path
      BY <1>1, <3>1, FrameIs
    <3>3. calls'[k + 1].path = calls[k + 1].path /\ calls'[k] = calls[k]
      BY <1>1, <1>8, <1>14, <1>16, <2>2, <3>1
    <3>4. PICK r : r = calls[k].path
      OBVIOUS
    <3>5. Open(r)' /\ calls'[k].path = r
      BY <1>11, <3>2, <3>3, <3>4
    <3> QED BY <1>4, <3>1, <3>2, <3>3, <3>5 DEF FrameOK, Open, Inside
  <2>3. CASE k = m
    <3>1. Open(p)' /\ calls'[k].path = p
      BY <1>11, <1>14, <1>16, <2>3
    <3>2. m < Len(calls') => Inside(q)
      BY <1>14, <1>18
    <3> QED BY <1>4, <1>14, <1>16, <1>17, <2>3, <3>1, <3>2 DEF FrameOK, Open, Inside
  <2>4. CASE k = m + 1 /\ Inside(q)
    <3>1. Open(q)' /\ calls'[k].path = q
      BY <1>13, <1>17, <2>4
    <3>2. ~(k < Len(calls')) /\ m = k - 1
      BY <1>14, <1>18, <2>4
    <3> QED BY <1>4, <1>15, <1>17, <2>4, <3>1, <3>2 DEF FrameOK, Open, Inside
  <2> QED BY <2>1, <2>2, <2>3, <2>4
<1>20. \A k \in 1..m : /\ k \in 1..Len(calls') /\ calls'[k].path = calls[k].path
                       /\ k # m => k \in 1..(m - 1) /\ calls'[k].item = calls[k].item
  <2> SUFFICES ASSUME NEW k \in 1..m
               PROVE  /\ k \in 1..Len(calls') /\ calls'[k].path = calls[k].path
                      /\ k # m => k \in 1..(m - 1) /\ calls'[k].item = calls[k].item
    OBVIOUS
  <2>1. k \in 1..Len(calls')
    BY <1>14, <1>18
  <2>2. k # m => k \in 1..(m - 1)
    BY <1>14
  <2>3. CASE k = m
    BY <1>1, <1>14, <1>16, <2>1, <2>3
  <2>4. CASE k # m
    BY <1>8, <2>1, <2>2, <2>4
  <2> QED BY <2>3, <2>4
<1>21. ASSUME NEW r \in Places'
       PROVE  /\ span'[r].after = 0 <=> r = <<>> \/ \E k \in 1..Len(calls') : r = calls'[k].item
              /\ Open(r)' => \E k \in 1..Len(calls') : r = calls'[k].path
              /\ span'[r].after <= t
  <2>1. CASE r = q
    <3>1. m \in 1..Len(calls')
      BY <1>14, <1>18
    <3>2. Inside(q) => m + 1 \in 1..Len(calls')
      BY <1>14, <1>18
    <3>3. 0 <= t
      BY <1>4
    <3> QED BY <1>6, <1>13, <1>16, <1>17, <2>1, <3>1, <3>2, <3>3
  <2>2. CASE r \in Places
    <3>1. /\ span[r].after = 0 <=> r = <<>> \/ \E k \in 1..m : r = calls[k].item
          /\ Open(r) => \E k \in 1..m : r = calls[k].path
          /\ span[r].after <= n
      BY <1>1, <2>2 DEF Frames
    <3>2. Open(r)' => \E k \in 1..Len(calls') : r = calls'[k].path
      BY <1>11, <1>20, <2>2, <3>1
    <3>3. span'[r].after <= t
      <4>1. CASE r = <<>> \/ r # c.item
        <5>1. span'[r].after = span[r].after /\ span'[r].after \in Nat
          BY <1>4, <1>5, <2>2, <4>1 DEF Spans
        <5> QED BY <1>4, <3>1, <5>1
      <4>2. CASE r = c.item /\ r # <<>>
        BY <1>4, <1>6, <4>2
      <4> QED BY <4>1, <4>2
    <3>4. ASSUME span'[r].after = 0, r # <<>> PROVE \E k \in 1..Len(calls') : r = calls'[k].item
      <4>1. r # c.item
        <5> SUFFICES ASSUME r = c.item PROVE FALSE
          OBVIOUS
        <5>1. b # 0
          BY <1>4, <3>4
        <5> QED BY <1>6, <3>4, <5>1
      <4>2. span[r].after = 0
        BY <1>5, <2>2, <3>4, <4>1
      <4>3. PICK k \in 1..m : r = calls[k].item
        BY <3>1, <3>4, <4>2
      <4>4. k # m
        BY <1>14, <4>1, <4>3
      <4> QED BY <1>20, <4>3, <4>4
    <3>5. ASSUME r = <<>> \/ \E k \in 1..Len(calls') : r = calls'[k].item PROVE span'[r].after = 0
      <4>1. CASE r = <<>>
        BY <1>5, <2>2, <3>1, <4>1
      <4>2. CASE r # <<>>
        <5>1. PICK k \in 1..Len(calls') : r = calls'[k].item
          BY <3>5, <4>2
        <5>2. k # m
          BY <1>4, <1>16, <2>2, <5>1
        <5>3. k \in 1..m /\ k # m /\ k < m
          BY <1>14, <1>17, <1>18, <4>2, <5>1, <5>2
        <5>4. r = calls[k].item /\ r # c.item
          <6>1. calls[k].item # Last(calls).item
            BY <1>1, <5>3, FrameIs
          <6> QED BY <1>1, <1>20, <5>1, <5>3, <6>1
        <5>5. span[r].after = 0
          BY <3>1, <5>3, <5>4
        <5> QED BY <1>5, <2>2, <5>4, <5>5
      <4> QED BY <4>1, <4>2
    <3> QED BY <3>2, <3>3, <3>4, <3>5
  <2> QED BY <1>4, <2>1, <2>2
<1>22. PICK top, len : top = Last(calls') /\ len = Len(calls')
  OBVIOUS
<1>23. len \in Nat /\ len >= 1 /\ calls' # <<>> /\ top = calls'[len]
  <2>1. len \in Nat /\ len >= 1
    BY <1>14, <1>18, <1>22
  <2>2. calls' # <<>>
    BY <2>1, <1>22
  <2> QED BY <1>22, <2>1, <2>2 DEF Last
<1>24. \A r \in Places' : Inside(q) => span'[r].before < t
  <2> SUFFICES ASSUME Inside(q), NEW r \in Places' PROVE span'[r].before < t
    OBVIOUS
  <2>1. b < t
    <3>1. span'[q].colon \in Nat /\ span'[q].first \in Nat
      BY <1>4 DEF Spans
    <3> QED BY <1>4, <1>6, <3>1
  <2>2. CASE r = q
    BY <1>6, <2>1, <2>2
  <2>3. CASE r \in Places
    <3>1. span'[r].before = span[r].before /\ span[r] \in Spans /\ PlaceOK(r)
      BY <1>5, <2>3 DEF SpanOK, Histories
    <3>2. span[r].before <= span[r].colon /\ span[r].colon < span[r].first /\ span[r].first <= n + 1
      BY <1>1, <3>1 DEF PlaceOK
    <3>3. span[r].before \in Nat /\ span[r].colon \in Nat /\ span[r].first \in Nat
      BY <3>1 DEF Spans
    <3>4. c.item = <<>> => span[r].before < n
      BY <1>1, <2>3, TopFrame
    <3>5. span[r].before < b
      BY <1>4, <3>2, <3>3, <3>4
    <3> QED BY <1>4, <2>1, <3>1, <3>3, <3>5
  <2> QED BY <1>4, <2>2, <2>3
<1>25. Subs(q)' = {}
  <2>1. \A r \in Places : r # <<>> => Front(r) \in Places
    BY DEF SpanOK, PlaceOK
  <2> QED BY <1>4, <1>14, <2>1 DEF Subs
<1>26. IF top.item = <<>>
       THEN /\ span'[top.path].first = t /\ Subs(top.path)' = {}
            /\ \A r \in Places' : span'[r].before < t
       ELSE ~Open(top.item)' /\ span'[top.item].last = t
  <2>1. CASE Inside(q)
    <3>1. top.path = q /\ top.item = <<>>
      BY <1>17, <1>18, <1>22, <1>23, <2>1
    <3> QED BY <1>6, <1>24, <1>25, <2>1, <3>1
  <2>2. CASE ~Inside(q)
    <3>1. top.item = q
      BY <1>16, <1>18, <1>22, <1>23, <2>2
    <3> QED BY <1>4, <1>6, <1>13, <2>2, <3>1
  <2> QED BY <2>1, <2>2
<1>27. Len(Nest(t)') = len /\ \A k \in 1..len : Nest(t)'[k] = Opening(written[calls'[k].path])[1]
  <2>1. /\ Nest(n) \in Seq(Chars) /\ Len(Nest(n)) = m
        /\ \A k \in 1..m : Nest(n)[k] = Opening(written[calls[k].path])[1]
    <3>1. Nest(n) \in Seq(Chars)
      BY <1>1, <1>4, BracketsIs
    <3> QED BY <1>1, <3>1 DEF Frames
  <2>2. n \in 0..n
    BY <1>4
  <2>3. Nest(n)' = Nest(n)
    BY <1>4, <1>7, <2>2, NestKept
  <2>4. CASE Inside(q)
    <3>1. t \in (n + 1)..t /\ t # 0
      <4>1. span'[q].first = t /\ span'[q].colon \in Nat /\ span'[q].first \in Nat
        BY <1>4, <1>6, <2>4 DEF Spans
      <4>2. n # t
        <5> SUFFICES ASSUME n = t PROVE FALSE
          OBVIOUS
        <5>1. b <= span'[q].colon /\ span'[q].colon < t /\ b \in {n, n + 1}
          BY <1>4, <1>6, <4>1
        <5> QED BY <1>4, <4>1, <5>1
      <4> QED BY <1>4, <4>2
    <3>2. Nest(t)' = Append(Nest(n), o[1])
      BY <1>7, <1>12, <2>4, <3>1 DEF Nest
    <3>3. len = m + 1 /\ 1 \in 1..Len(o) /\ o \in Seq(Chars)
      <4>1. NodeOK(written[q])
        BY <1>4 DEF IsTree, Grove
      <4>2. Len(o) = 1 /\ o \in Seq(Chars)
        BY <1>1, <1>12, <2>4, <4>1, OpeningIs
      <4> QED BY <1>18, <1>22, <2>4, <4>2
    <3>4. o[1] \in Chars
      BY <3>3
    <3>5. /\ Len(Nest(t)') = m + 1 /\ Nest(t)'[m + 1] = o[1]
          /\ \A k \in 1..m : Nest(t)'[k] = Nest(n)[k]
      BY <2>1, <3>2, <3>4, PathGrown
    <3>6. \A k \in 1..(m + 1) : k \in 1..m \/ k = m + 1
      BY <1>14
    <3> QED BY <1>1, <1>17, <1>20, <2>1, <2>4, <3>3, <3>5, <3>6, ZenonT(60)
  <2>5. CASE ~Inside(q)
    <3>1. Nest(t)' = Nest(n)
      <4>1. CASE t = n
        BY <2>3, <4>1
      <4>2. CASE t # n
        <5>1. t \in (n + 1)..t /\ t # 0
          BY <1>4, <4>2
        <5> QED BY <1>7, <1>12, <2>5, <5>1 DEF Nest
      <4> QED BY <4>1, <4>2
    <3> QED BY <1>18, <1>20, <1>22, <2>1, <2>5, <3>1
  <2> QED BY <2>4, <2>5
<1>28. Frames'
  <2>1. \A r \in Places' : /\ span'[r].after = 0 <=> r = <<>> \/ \E k \in 1..Len(calls') : r = calls'[k].item
                           /\ Open(r)' => \E k \in 1..Len(calls') : r = calls'[k].path
                           /\ span'[r].after <= Len(text')
    BY <1>1, <1>21
  <2>2. calls' \in Seq(WFrames) /\ \A k \in 1..Len(calls') : FrameOK(k)'
    BY <1>8, <1>19
  <2>3. IF Last(calls').item = <<>>
        THEN /\ span'[Last(calls').path].first = Len(text') /\ Subs(Last(calls).path)' = {}
             /\ \A r \in Places' : span'[r].before < Len(text')
        ELSE ~Open(Last(calls).item)' /\ span'[Last(calls').item].last = Len(text')
    BY <1>1, <1>22, <1>26 DEF Subs, Open, Inside
  <2>4. /\ Len(Nest(Len(text))') = Len(calls')
        /\ \A k \in 1..Len(calls') : Nest(Len(text))'[k] = Opening(written'[calls'[k].path])[1]
    BY <1>1, <1>22, <1>27 DEF Nest
  <2> QED BY <1>23, <2>1, <2>2, <2>3, <2>4 DEF Frames
<1> QED BY <1>9, <1>28

\* So they do when one of them ends.
LEMMA ClosedFrames ==
  ASSUME Histories, IsTree(written), SpanOK, Frames, calls # <<>>, written' = written,
         NEW g \in {0, 1}, Closed(g)
  PROVE  Histories' /\ Frames'
<1>1. PICK c, n, m, p : c = Last(calls) /\ n = Len(text) /\ m = Len(calls) /\ p = c.path
  OBVIOUS
<1>2. PICK e, q, hole : /\ e = n + g + 1 /\ q = Append(p, Indexed(1))
                        /\ hole = (c.item = <<>> /\ written[c.path].kind = "array")
  OBVIOUS
<1>3. Shut(e)
  BY <1>1, <1>2, ClosedShuts
<1>4. /\ Places' = Places \cup (IF hole THEN {q} ELSE {})
      /\ p \in Places /\ Inside(p)
      /\ n \in Nat /\ e \in {n + 1, n + 2} /\ Len(text') = e
      /\ \A r \in Places' : span'[r] \in Spans
  BY <1>1, <1>2, <1>3 DEF Shut
<1>5. \A r \in Places : /\ r # p => span'[r].last = span[r].last
                        /\ r = <<>> \/ r # c.item => span'[r].after = span[r].after
  BY <1>1, <1>3 DEF Shut
<1>6. /\ span'[p].last = e
      /\ c.item # <<>> => /\ c.item \in Places /\ span'[c.item].after = e
      /\ hole => q \notin DOMAIN written /\ q \notin Places /\ q # <<>> /\ span'[q].after = n + 1 /\ e = n + 1
  BY <1>1, <1>2, <1>3 DEF Shut
<1>7. /\ text' \in Seq(Chars) /\ nest' \in Seq(Seq(Chars)) /\ Len(nest') = e
      /\ \A i \in 1..n : nest'[i] = nest[i]
      /\ nest'[e] = Front(Nest(n))
      /\ calls' \in Seq(WFrames) /\ Len(calls') = m - 1
      /\ \A k \in 1..(m - 1) : calls'[k] = calls[k]
  BY <1>1, <1>2 DEF Closed
<1>8. e \in Nat /\ e # 0 /\ n <= e
  BY <1>4
<1>9. Histories'
  BY <1>4, <1>7 DEF Histories
<1>10. \A r : Inside(r)' <=> Inside(r)
  BY DEF Inside
<1>11. \A r \in Places : r # p => (Open(r)' <=> Open(r))
  BY <1>5, <1>10 DEF Open
<1>12. ~Open(p)' /\ (hole => ~Open(q)')
  BY <1>6, <1>8, <1>10 DEF Open, Inside
<1>13. /\ m \in Nat /\ m >= 1 /\ c = calls[m] /\ p \in Paths /\ Len(p) = m - 1
       /\ c.item # <<>> => ~Open(c.item)
  BY <1>1, TopFrame
<1>14. ASSUME NEW k \in 1..(m - 1)
       PROVE  /\ k \in 1..m /\ k < m /\ calls'[k] = calls[k]
              /\ calls[k].path \in Places /\ Open(calls[k].path) /\ Len(calls[k].path) = k - 1
              /\ calls[k].path # p
              /\ calls[k].item # <<>> /\ calls[k].item \in Places /\ calls[k].item \in DOMAIN written
              /\ Front(calls[k].item) = calls[k].path
              /\ calls[k].item = calls[k + 1].path /\ Open(calls[k].item) /\ calls[k].item # c.item
  <2>1. k \in 1..m /\ k < m /\ k # m
    BY <1>13
  <2> QED BY <1>1, <1>7, <2>1, FrameIs
<1>15. ASSUME NEW k \in 1..Len(calls') PROVE FrameOK(k)'
  <2>1. k \in 1..(m - 1)
    BY <1>7
  <2>2. PICK r : r = calls[k].path
    OBVIOUS
  <2>3. Open(r)' /\ calls'[k].path = r /\ calls'[k] = calls[k]
    BY <1>11, <1>14, <2>1, <2>2
  <2>4. k < Len(calls') => calls'[k + 1] = calls[k + 1]
    <3>1. k < Len(calls') => k + 1 \in 1..(m - 1)
      BY <1>7, <1>13, <2>1
    <3> QED BY <1>7, <3>1
  <2>5. calls[k].path \in Places' /\ calls[k].item \in Places'
    BY <1>4, <1>14, <2>1
  <2>6. /\ calls[k].path \in Places /\ Len(calls[k].path) = k - 1
        /\ calls[k].item # <<>> /\ calls[k].item \in DOMAIN written
        /\ Front(calls[k].item) = calls[k].path
        /\ calls[k].item = calls[k + 1].path
    BY <1>14, <2>1
  <2>7. Open(calls[k].path)' <=> Inside(r)' /\ span'[r].last = 0
    BY <2>3 DEF Open, Inside
  <2>8. Inside(r)' /\ span'[r].last = 0
    BY <2>3 DEF Open
  <2>9. Len(calls[k].path)' = k - 1
    BY <2>3, <2>6
  <2> QED BY <2>3, <2>4, <2>5, <2>6, <2>7, <2>8, <2>9 DEF FrameOK
<1>16. ASSUME NEW r \in Places'
       PROVE  /\ span'[r].after = 0 <=> r = <<>> \/ \E k \in 1..Len(calls') : r = calls'[k].item
              /\ Open(r)' => \E k \in 1..Len(calls') : r = calls'[k].path
              /\ span'[r].after <= e
  <2>1. CASE hole /\ r = q
    <3>1. ASSUME NEW k \in 1..Len(calls') PROVE q # calls'[k].item
      BY <1>6, <1>7, <1>14, <2>1, SMTT(40)
    <3>2. n + 1 # 0 /\ n + 1 <= e
      BY <1>4
    <3> QED BY <1>6, <1>12, <2>1, <3>1, <3>2
  <2>2. CASE r \in Places
    <3>1. /\ span[r].after = 0 <=> r = <<>> \/ \E k \in 1..m : r = calls[k].item
          /\ Open(r) => \E k \in 1..m : r = calls[k].path
          /\ span[r].after <= n
      BY <1>1, <2>2 DEF Frames
    <3>2. \A k \in 1..m : k = m \/ k \in 1..(m - 1)
      BY <1>13
    <3>3. Open(r)' => \E k \in 1..Len(calls') : r = calls'[k].path
      <4> SUFFICES ASSUME Open(r)' PROVE \E k \in 1..Len(calls') : r = calls'[k].path
        OBVIOUS
      <4>1. r # p /\ Open(r)
        BY <1>11, <1>12, <2>2
      <4>2. PICK k \in 1..m : r = calls[k].path
        BY <3>1, <4>1
      <4>3. k \in 1..(m - 1)
        BY <1>1, <1>13, <3>2, <4>1, <4>2
      <4> QED BY <1>7, <4>2, <4>3
    <3>4. span'[r].after <= e
      <4>1. CASE r = <<>> \/ r # c.item
        <5>1. span'[r].after = span[r].after /\ span'[r].after \in Nat
          BY <1>4, <1>5, <2>2, <4>1 DEF Spans
        <5> QED BY <1>4, <1>8, <3>1, <5>1
      <4>2. CASE r = c.item /\ r # <<>>
        BY <1>6, <1>8, <4>2
      <4> QED BY <4>1, <4>2
    <3>5. ASSUME span'[r].after = 0, r # <<>> PROVE \E k \in 1..Len(calls') : r = calls'[k].item
      <4>1. r # c.item
        BY <1>6, <1>8, <3>5
      <4>2. span[r].after = 0
        BY <1>5, <2>2, <3>5, <4>1
      <4>3. PICK k \in 1..m : r = calls[k].item
        BY <3>1, <3>5, <4>2
      <4>4. k \in 1..(m - 1)
        BY <1>13, <3>2, <4>1, <4>3
      <4> QED BY <1>7, <4>3, <4>4
    <3>6. ASSUME r = <<>> \/ \E k \in 1..Len(calls') : r = calls'[k].item PROVE span'[r].after = 0
      <4>1. CASE r = <<>>
        BY <1>5, <2>2, <3>1, <4>1
      <4>2. CASE r # <<>>
        <5>1. PICK k \in 1..(m - 1) : r = calls'[k].item
          BY <1>7, <3>6, <4>2
        <5>2. k \in 1..m /\ r = calls[k].item /\ r # c.item
          BY <1>14, <5>1
        <5> QED BY <1>5, <2>2, <3>1, <5>2
      <4> QED BY <4>1, <4>2
    <3> QED BY <3>3, <3>4, <3>5, <3>6
  <2> QED BY <1>4, <2>1, <2>2
<1>17. /\ Nest(n) \in Seq(Chars) /\ Len(Nest(n)) = m /\ Nest(n) # <<>>
       /\ \A k \in 1..m : Nest(n)[k] = Opening(written[calls[k].path])[1]
  <2>1. Nest(n) \in Seq(Chars)
    BY <1>1, <1>4, BracketsIs
  <2>2. Len(Nest(n)) = m
    BY <1>1 DEF Frames
  <2>3. Nest(n) # <<>>
    BY <1>13, <2>1, <2>2
  <2> QED BY <1>1, <2>1, <2>2, <2>3 DEF Frames
<1>18. Len(Nest(e)') = m - 1 /\ \A k \in 1..(m - 1) : Nest(e)'[k] = Opening(written[calls'[k].path])[1]
  <2>1. Nest(e)' = Front(Nest(n))
    BY <1>7, <1>8 DEF Nest
  <2>2. Len(Front(Nest(n))) = m - 1 /\ \A i \in 1..(m - 1) : Front(Nest(n))[i] = Nest(n)[i]
    BY <1>17, PathEnd
  <2>3. ASSUME NEW k \in 1..(m - 1) PROVE Nest(n)[k] = Opening(written[calls'[k].path])[1]
    <3>1. k \in 1..m /\ calls'[k] = calls[k]
      BY <1>7, <1>13
    <3> QED BY <1>17, <3>1
  <2> QED BY <2>1, <2>2, <2>3
<1>19. calls' # <<>> => ~Open(Last(calls).item)' /\ span'[Last(calls').item].last = e /\ Last(calls').item # <<>>
  <2> SUFFICES ASSUME calls' # <<>>
               PROVE  ~Open(Last(calls).item)' /\ span'[Last(calls').item].last = e /\ Last(calls').item # <<>>
    OBVIOUS
  <2>1. Last(calls') = calls'[m - 1] /\ m - 1 \in 1..(m - 1) /\ (m - 1) + 1 = m
    <3>1. Len(calls') \in Nat /\ Len(calls') >= 1
      BY <1>7, <1>13
    <3> QED BY <1>7, <1>13, <3>1 DEF Last
  <2>2. calls[m - 1].item = calls[m].path /\ calls[m - 1].item # <<>> /\ calls'[m - 1] = calls[m - 1]
    BY <1>14, <2>1
  <2>3. Last(calls').item = p
    BY <1>1, <1>13, <2>1, <2>2
  <2> QED BY <1>6, <1>12, <2>1, <2>2, <2>3 DEF Open, Inside
<1>20. calls' = <<>> => span'[<<>>].last = e
  <2> SUFFICES ASSUME calls' = <<>> PROVE span'[<<>>].last = e
    OBVIOUS
  <2>1. Len(p) = 0 /\ p \in Seq(TreeKeys)
    BY <1>7, <1>13 DEF Paths
  <2>2. p = <<>>
    BY <2>1
  <2> QED BY <1>6, <2>2
<1>21. Frames'
  <2>1. calls' \in Seq(WFrames) /\ \A k \in 1..Len(calls') : FrameOK(k)'
    BY <1>7, <1>15
  <2>2. \A r \in Places' : /\ span'[r].after = 0 <=> r = <<>> \/ \E k \in 1..Len(calls') : r = calls'[k].item
                           /\ Open(r)' => \E k \in 1..Len(calls') : r = calls'[k].path
                           /\ span'[r].after <= Len(text')
    BY <1>4, <1>16
  <2>3. calls' # <<>> =>
          IF Last(calls').item = <<>>
          THEN /\ span'[Last(calls').path].first = Len(text') /\ Subs(Last(calls).path)' = {}
               /\ \A r \in Places' : span'[r].before < Len(text')
          ELSE ~Open(Last(calls).item)' /\ span'[Last(calls').item].last = Len(text')
    BY <1>4, <1>19
  <2>4. calls' = <<>> => span'[<<>>].last = Len(text')
    BY <1>4, <1>20
  <2>5. /\ Len(Nest(Len(text))') = Len(calls')
        /\ \A k \in 1..Len(calls') : Nest(Len(text))'[k] = Opening(written'[calls'[k].path])[1]
    BY <1>4, <1>7, <1>18 DEF Nest
  <2> QED BY <2>1, <2>2, <2>3, <2>4, <2>5 DEF Frames
<1> QED BY <1>9, <1>21

\* The writer, whatever the tree.
WriterOK == Histories /\ SpanOK /\ Order /\ Chain /\ Texts /\ Frames

\* It begins so.
LEMMA BeganOK ==
  ASSUME NEW h \in {0, 1}, Began(h), IsTree(written')
  PROVE  WriterOK'
<1>1. PICK v, t, s, c : v = written' /\ t = Len(text') /\ s = span'[<<>>] /\ c = calls'
  OBVIOUS
<1>2. PICK o, k : o = Opening(v[<<>>]) /\ k = Len(o)
  OBVIOUS
<1>3. PICK inner \in BOOLEAN : inner <=> v[<<>>].kind \in Containers
  OBVIOUS
<1>4. /\ text' \in Seq(Chars) /\ t = h + k
      /\ h = 1 => text'[1] = " "
      /\ At(text', h, o)
      /\ nest' \in Seq(Seq(Chars)) /\ Len(nest') = t
      /\ \A i \in 1..t : nest'[i] = IF inner /\ i = t THEN <<o[1]>> ELSE <<>>
      /\ Places' = {<<>>}
      /\ s = [before |-> 0, beg |-> 0, colon |-> h, first |-> h + 1, after |-> 0,
              last |-> IF inner THEN 0 ELSE h + k]
      /\ c = IF inner THEN <<[path |-> <<>>, level |-> FirstLevel(pretty'), item |-> <<>>]>> ELSE <<>>
  BY <1>1, <1>2, <1>3 DEF Began, Places
<1>5. <<>> \in DOMAIN v /\ NodeOK(v[<<>>])
  BY <1>1 DEF IsTree, Grove
<1>6. /\ o \in Seq(Chars) /\ k \in Nat /\ (inner => k = 1)
  BY <1>2, <1>3, <1>5, OpeningIs
<1>7. /\ s.before = 0 /\ s.beg = 0 /\ s.colon = h /\ s.first = h + 1 /\ s.after = 0
      /\ s.last = IF inner THEN 0 ELSE h + k
  BY <1>4
<1>19. t = h + k
  BY <1>4
<1>20. k \in Nat /\ (inner => k = 1)
  BY <1>6
<1>8. t \in Nat /\ h \in Nat /\ h + k \in Nat
  BY <1>19, <1>20
<1>9. s \in Spans
  <2>1. (IF inner THEN 0 ELSE h + k) \in Nat
    BY <1>8
  <2>2. /\ s = [before |-> 0, beg |-> 0, colon |-> h, first |-> h + 1, after |-> 0,
                last |-> IF inner THEN 0 ELSE h + k]
    BY <1>4
  <2>3. h + 1 \in Nat
    BY <1>8
  <2> QED BY <1>8, <2>1, <2>2, <2>3 DEF Spans
<1>10. Inside(<<>>)' <=> inner
  BY <1>1, <1>3, <1>5 DEF Inside
<1>11. Open(<<>>)' <=> inner
  BY <1>1, <1>7, <1>10 DEF Open
<1>12. Histories'
  BY <1>1, <1>4, <1>9 DEF Histories
<1>13. SpanOK'
  <2>1. PlaceOK(<<>>)'
    <3>1. s.before <= s.colon /\ s.colon < s.first /\ s.first <= t + 1 /\ s.last <= t
          /\ (inner => s.first <= t) /\ (~inner => s.first <= s.last + 1)
      BY <1>7, <1>8, <1>19, <1>20
    <3> QED BY <1>1, <1>7, <1>10, <1>11, <3>1 DEF PlaceOK
  <2>2. /\ span'[<<>>].before = 0 /\ span'[<<>>].first \in {1, 2}
        /\ \A i \in 1..(span'[<<>>].first - 1) : text'[i] = " "
    <3>1. \A i \in 1..((h + 1) - 1) : h = 1 /\ i = 1
      OBVIOUS
    <3>2. h + 1 \in {1, 2}
      OBVIOUS
    <3> QED BY <1>1, <1>4, <1>7, <3>1, <3>2
  <2> QED BY <1>1, <1>4, <1>5, <2>1, <2>2 DEF SpanOK
<1>14. Order'
  <2>1. Apart(<<>>, <<>>)'
    <3>1. s.before <= s.before
      BY <1>7
    <3> QED BY <1>1, <1>7, <1>10, <3>1 DEF Apart
  <2> QED BY <1>4, <2>1 DEF Order
<1>15. Subs(<<>>)' = {}
  BY <1>4 DEF Subs
<1>16. Chain'
  <2>1. Linked(<<>>)'
    BY <1>10, <1>11, <1>15 DEF Linked
  <2> QED BY <1>4, <2>1 DEF Chain
<1>17. Texts'
  <2>1. inner => text'[s.first] = o[1]
    <3> SUFFICES ASSUME inner PROVE text'[s.first] = o[1]
      OBVIOUS
    <3>1. 1 \in 1..k
      BY <1>6
    <3> QED BY <1>2, <1>4, <1>7, <3>1 DEF At
  <2>2. ~inner => s.last + 1 = s.first + k /\ At(text', s.first - 1, o)
    <3>1. (h + k) + 1 = (h + 1) + k /\ (h + 1) - 1 = h
      BY <1>6
    <3> QED BY <1>4, <1>7, <3>1
  <2>3. TextOK(<<>>)'
    BY <1>1, <1>2, <1>5, <1>7, <1>10, <1>11, <2>1, <2>2 DEF TextOK
  <2> QED BY <1>4, <2>3 DEF Texts
<1>18. Frames'
  <2>1. CASE ~inner
    <3>1. c = <<>>
      BY <1>4, <2>1
    <3>2. Len(<<>>) = 0 /\ <<>> \in Seq(WFrames) /\ 1..0 = {}
      OBVIOUS
    <3>3. Nest(t)' = <<>>
      <4>1. t = 0 \/ t \in 1..t
        BY <1>8
      <4> QED BY <1>4, <2>1, <4>1 DEF Nest
    <3>4. Nest(Len(text))' = <<>>
      BY <1>1, <3>3 DEF Nest
    <3>5. span'[<<>>].last = Len(text')
      BY <1>1, <1>4, <1>7, <2>1
    <3>6. span'[<<>>].after = 0 /\ ~Open(<<>>)' /\ 0 <= t
      BY <1>1, <1>7, <1>8, <1>11, <2>1
    <3> QED BY <1>1, <1>4, <3>1, <3>2, <3>4, <3>5, <3>6 DEF Frames
  <2>2. CASE inner
    <3> DEFINE f == [path |-> <<>>, level |-> FirstLevel(pretty'), item |-> <<>>]
    <3>1. c = <<f>>
      BY <1>4, <2>2
    <3>2. f.path = <<>> /\ f.item = <<>>
      OBVIOUS
    <3>3. f \in WFrames
      <4>1. <<>> \in Paths
        BY DEF Paths
      <4>2. FirstLevel(pretty') \in Int
        BY JsonAssumption DEF FirstLevel, Lowest
      <4> QED BY <4>1, <4>2 DEF WFrames
    <3> HIDE DEF f
    <3>4. c \in Seq(WFrames) /\ Len(c) = 1 /\ c[1] = f /\ c # <<>> /\ Last(c) = f
      <4>1. <<f>> \in Seq(WFrames) /\ Len(<<f>>) = 1 /\ <<f>>[1] = f /\ <<f>> # <<>>
        BY <3>3, OneIs
      <4>2. Last(c) = c[Len(c)]
        BY DEF Last
      <4> QED BY <3>1, <4>1, <4>2
    <3>5. FrameOK(1)'
      <4>1. Len(<<>>) = 1 - 1 /\ ~(1 < 1)
        OBVIOUS
      <4>2. calls'[1].path = <<>> /\ calls'[1].item = <<>> /\ Len(calls') = 1
        BY <1>1, <3>2, <3>4
      <4>3. Inside(<<>>)' /\ span'[<<>>].last = 0
        BY <1>1, <1>7, <1>10, <2>2
      <4> QED BY <1>4, <4>1, <4>2, <4>3 DEF FrameOK, Open, Inside
    <3>6. t \in 1..t /\ t # 0 /\ t = h + 1 /\ 0 < t
      BY <1>8, <1>19, <1>20, <2>2
    <3>7. Nest(t)' = <<o[1]>>
      BY <1>4, <2>2, <3>6 DEF Nest
    <3>8. Len(Nest(t)') = 1 /\ Nest(t)'[1] = o[1]
      BY <3>7
    <3>9. span'[<<>>].first = t /\ span'[<<>>].after = 0 /\ span'[<<>>].before < t
      BY <1>1, <1>7, <3>6
    <3>10. \A r \in Places' : /\ span'[r].after = 0 <=> r = <<>> \/ \E k1 \in 1..Len(calls') : r = calls'[k1].item
                              /\ Open(r)' => \E k1 \in 1..Len(calls') : r = calls'[k1].path
                              /\ span'[r].after <= Len(text')
      <4>1. 1 \in 1..Len(calls') /\ calls'[1].path = <<>> /\ 0 <= t
        BY <1>1, <1>8, <3>2, <3>4
      <4> QED BY <1>1, <1>4, <3>9, <4>1
    <3>11. calls' \in Seq(WFrames) /\ \A k1 \in 1..Len(calls') : FrameOK(k1)'
      <4>1. \A k1 \in 1..Len(calls') : k1 = 1
        BY <1>1, <3>4
      <4> QED BY <1>1, <3>4, <3>5, <4>1
    <3>12. /\ span'[Last(calls').path].first = Len(text') /\ Subs(Last(calls).path)' = {}
           /\ \A r \in Places' : span'[r].before < Len(text')
      <4>1. Last(calls').path = <<>>
        BY <1>1, <3>2, <3>4
      <4>2. Subs(Last(calls).path)' = {}
        BY <1>4, <4>1 DEF Subs
      <4> QED BY <1>1, <1>4, <3>9, <4>1, <4>2
    <3>13. Last(calls').item = <<>>
      BY <1>1, <3>2, <3>4
    <3>14. /\ Len(Nest(Len(text))') = Len(calls')
           /\ \A k1 \in 1..Len(calls') : Nest(Len(text))'[k1] = Opening(written'[calls'[k1].path])[1]
      <4>1. \A k1 \in 1..Len(calls') : k1 = 1 /\ calls'[k1].path = <<>>
        BY <1>1, <3>2, <3>4
      <4>2. Nest(Len(text))' = Nest(t)'
        BY <1>1 DEF Nest
      <4> QED BY <1>1, <1>2, <3>4, <3>8, <4>1, <4>2
    <3> QED BY <1>1, <3>4, <3>10, <3>11, <3>12, <3>13, <3>14 DEF Frames
  <2> QED BY <2>1, <2>2
<1> QED BY <1>12, <1>13, <1>14, <1>16, <1>17, <1>18 DEF WriterOK

-----------------------------------------------------------------------------
(* How deep the text is. *)

\* The characters that FindChar tells apart.
LEMMA MarksAre ==
  /\ \A x : Opens(x) => ~Closes(x) /\ x # "," /\ \A stack : StackAfter(x, stack) = Append(stack, x)
  /\ \A x : Closes(x) => ~Opens(x) /\ x # "," /\ \A stack : StackAfter(x, stack) = Front(stack)
  /\ \A x : ~Opens(x) /\ ~Closes(x) => \A stack : StackAfter(x, stack) = stack
  /\ \A x : x \notin Structure => ~Opens(x) /\ ~Closes(x) /\ x # ","
  /\ ~Opens(",") /\ ~Closes(",")
  /\ " " \notin Structure \cup {":"} /\ Quote \notin Structure \cup {":"} /\ ":" \notin Structure
<1>1. /\ \A x : Opens(x) => ~Closes(x) /\ x # "," /\ \A stack : StackAfter(x, stack) = Append(stack, x)
      /\ \A x : Closes(x) => ~Opens(x) /\ x # "," /\ \A stack : StackAfter(x, stack) = Front(stack)
      /\ \A x : ~Opens(x) /\ ~Closes(x) => \A stack : StackAfter(x, stack) = stack
  BY DEF Opens, Closes, StackAfter
<1>2. /\ \A x : x \notin Structure => ~Opens(x) /\ ~Closes(x) /\ x # ","
      /\ ~Opens(",") /\ ~Closes(",")
  BY DEF Opens, Closes, Structure
<1>3. " " \notin Structure \cup {":"} /\ Quote \notin Structure \cup {":"} /\ ":" \notin Structure
  BY QuoteIs DEF Structure
<1> QED BY <1>1, <1>2, <1>3

\* A legible container has no structure in its labels and strings.
LEMMA LegibleIs ==
  ASSUME NEW v, IsTree(v), Legible(v), v[<<>>].kind \in Containers, NEW q \in DOMAIN v
  PROVE  /\ v[q].kind = "string" => Plain(v[q].chars)
         /\ q # <<>> => /\ Last(q).label \in Seq(Chars)
                        /\ \A i \in 1..Len(Last(q).label) : Last(q).label[i] \notin Structure \cup {":"}
         /\ v[q].kind = "dict" => Inner(v, q) # {}
<1>1. v[<<>>].kind # "string"
  BY DEF Containers
<1>2. /\ v[q].kind = "string" => Structure \cap ToSet(v[q].chars) = {}
      /\ q # <<>> => (Structure \cup {":"}) \cap ToSet(Last(q).label) = {}
      /\ v[q].kind = "dict" => Inner(v, q) # {}
  BY <1>1 DEF Legible
<1>3. v[q].kind = "string" => Plain(v[q].chars)
  BY <1>2 DEF Plain, ToSet
<1>4. q # <<>> => Last(q).label \in Seq(Chars)
  <2> SUFFICES ASSUME q # <<>> PROVE Last(q).label \in Seq(Chars)
    OBVIOUS
  <2>1. q \in Seq(TreeKeys)
    BY DEF IsTree, Grove, Paths
  <2>2. Last(q) \in TreeKeys
    BY <2>1, PathEnd
  <2> QED BY <2>2 DEF TreeKeys
<1>5. q # <<>> => \A i \in 1..Len(Last(q).label) : Last(q).label[i] \notin Structure \cup {":"}
  BY <1>2 DEF ToSet
<1> QED BY <1>2, <1>3, <1>4, <1>5

\* What is written of an entry before its value, and a value with nothing in
\* it, are no structure.
LEMMA PlainText ==
  ASSUME NEW v, IsTree(v), Legible(v), v[<<>>].kind \in Containers, NEW q \in DOMAIN v, q # <<>>,
         NEW t, NEW s \in Spans, Blanks(t, s.colon + 1, s.first - 1),
         NEW dict \in BOOLEAN, dict => Entry(t, s, Last(q).label), ~dict => s.colon = s.before,
         v[q].kind \notin Containers => /\ s.last + 1 = s.first + Len(Opening(v[q]))
                                        /\ At(t, s.first - 1, Opening(v[q]))
  PROVE  /\ \A i \in (s.before + 1)..(s.first - 1) : t[i] \notin Structure
         /\ dict => \A i \in (s.before + 1)..(s.colon - 1) : t[i] \notin Structure \cup {":"}
         /\ v[q].kind \notin Containers => \A i \in s.first..s.last : t[i] \notin Structure
<1>1. PICK l, k, o, j : l = Last(q).label /\ k = Len(l) /\ o = Opening(v[q]) /\ j = Len(o)
  OBVIOUS
<1>2. PICK x, b, col, f, e : x = s.before /\ b = s.beg /\ col = s.colon /\ f = s.first /\ e = s.last
  OBVIOUS
<1>3. x \in Nat /\ b \in Nat /\ col \in Nat /\ f \in Nat /\ e \in Nat
  BY <1>2 DEF Spans
<1>4. l \in Seq(Chars) /\ k \in Nat /\ \A i \in 1..k : l[i] \notin Structure \cup {":"}
  BY <1>1, LegibleIs
<1>5. " " \notin Structure \cup {":"} /\ Quote \notin Structure \cup {":"} /\ ":" \notin Structure
  BY MarksAre
<1>6. dict => \A i \in (x + 1)..(col - 1) : t[i] \notin Structure \cup {":"}
  <2> SUFFICES ASSUME dict, NEW i \in (x + 1)..(col - 1) PROVE t[i] \notin Structure \cup {":"}
    OBVIOUS
  <2>1. /\ b \in {x + 1, x + 2} /\ (b = x + 2 => t[x + 1] = " ")
        /\ col = b + k + 2 /\ t[b] = Quote /\ At(t, b, l) /\ t[col - 1] = Quote
    BY <1>1, <1>2 DEF Entry
  <2>2. \/ i = x + 1 /\ b = x + 2
        \/ i = b \/ i = col - 1
        \/ i - b \in 1..k /\ b + (i - b) = i
    <3>1. b = x + 1 \/ b = x + 2
      BY <2>1
    <3>2. col = b + k + 2
      BY <2>1
    <3>3. i \in Int /\ x + 1 <= i /\ i <= col - 1
      BY <1>3
    <3>4. i = x + 1 \/ i >= b
      BY <1>3, <3>1, <3>3
    <3>5. k \in Nat /\ b \in Nat
      BY <1>3, <1>4
    <3>6. i > b /\ i # col - 1 => i - b \in 1..k /\ b + (i - b) = i
      BY <3>2, <3>3, <3>5
    <3>7. i = x + 1 => b = x + 2 \/ i = b
      BY <3>1
    <3> QED BY <3>3, <3>4, <3>5, <3>6, <3>7
  <2>3. CASE i - b \in 1..k /\ b + (i - b) = i
    <3>1. t[b + (i - b)] = l[i - b]
      BY <1>1, <2>1, <2>3 DEF At
    <3>2. l[i - b] \notin Structure \cup {":"}
      BY <1>4, <2>3
    <3>3. b + (i - b) = i
      BY <2>3
    <3> QED BY <3>1, <3>2, <3>3, Zenon
  <2> QED BY <1>5, <2>1, <2>2, <2>3
<1>7. \A i \in (x + 1)..(f - 1) : t[i] \notin Structure
  <2> SUFFICES ASSUME NEW i \in (x + 1)..(f - 1) PROVE t[i] \notin Structure
    OBVIOUS
  <2>1. i \in (col + 1)..(f - 1) \/ (dict /\ (i = col \/ i \in (x + 1)..(col - 1)))
    <3>1. ~dict => col = x
      BY <1>2
    <3> QED BY <1>3, <3>1
  <2>2. CASE i \in (col + 1)..(f - 1)
    BY <1>2, <1>5, <2>2 DEF Blanks
  <2>3. CASE dict /\ i = col
    <3>1. t[col] = ":"
      BY <1>2, <2>3 DEF Entry
    <3> QED BY <1>5, <2>3, <3>1
  <2> QED BY <1>6, <2>1, <2>2, <2>3
<1>8. v[q].kind \notin Containers => \A i \in f..e : t[i] \notin Structure
  <2> SUFFICES ASSUME v[q].kind \notin Containers, NEW i \in f..e PROVE t[i] \notin Structure
    OBVIOUS
  <2>1. NodeOK(v[q])
    BY DEF IsTree, Grove
  <2>2. Plain(o) /\ j \in Nat
    BY <1>1, <2>1, OpeningIs, LegibleIs
  <2>3. e + 1 = f + j /\ At(t, f - 1, o)
    BY <1>1, <1>2
  <2>4. e + 1 = f + j
    BY <2>3
  <2>5. i - f + 1 \in 1..j /\ (f - 1) + (i - f + 1) = i
    BY <1>3, <2>2, <2>4
  <2> QED BY <1>1, <2>2, <2>3, <2>5 DEF At, Plain
<1> QED BY <1>2, <1>6, <1>7, <1>8

\* FindChar's stack, if it began at the root, follows the text.
Matched ==
    \A i \in 1..Len(text) :
        /\ nest[i] = StackAfter(text[i], Nest(i - 1))
        /\ Closes(text[i]) => Nest(i - 1) # <<>> /\ Last(Nest(i - 1)) = Opener(text[i])

\* The value at q is between two commas, or brackets, as deep as it is.
DeepOK(q) ==
    /\ Len(Nest(span[q].before)) = Len(q)
    /\ \A i \in (span[q].before + 1)..Len(text) :
           span[q].after = 0 \/ i < span[q].after =>
               Len(nest[i]) >= Len(q) /\ (text[i] = "," => Len(nest[i]) > Len(q))
    /\ q # <<>> /\ span[q].after # 0 =>
           IF span[q].after = span[Front(q)].last THEN Len(nest[span[q].after]) = Len(q) - 1
           ELSE text[span[q].after] = "," /\ Len(nest[span[q].after]) = Len(q)
    /\ q # <<>> /\ written[Front(q)].kind = "dict" =>
           \A i \in (span[q].before + 1)..(span[q].colon - 1) : text[i] \notin Structure \cup {":"}
\* How deep the text is, at each of its characters and around each value.
Nests == Matched /\ \A q \in Places : DeepOK(q)

\* That is so in the text of a legible container.
Rooted == written[<<>>].kind \in Containers /\ Legible(written)

\* The depth is right when the writer begins, when it writes a value, and when it
\* closes a container.
LEMMA BeganNests ==
  ASSUME NEW h \in {0, 1}, Began(h), IsTree(written'), Rooted'
  PROVE  Nests'
<1>1. PICK v, t, s : v = written' /\ t = Len(text') /\ s = span'[<<>>]
  OBVIOUS
<1>2. PICK o : o = Opening(v[<<>>])
  OBVIOUS
<1>3. NodeOK(v[<<>>]) /\ v[<<>>].kind \in Containers
  BY <1>1 DEF IsTree, Grove, Rooted
<1>4. o \in Seq(Chars) /\ Len(o) = 1 /\ Opens(o[1])
  BY <1>2, <1>3, OpeningIs
<1>9. /\ t = h + Len(o)
      /\ h = 1 => text'[1] = " "
      /\ At(text', h, o)
      /\ \A i \in 1..t : nest'[i] = IF v[<<>>].kind \in Containers /\ i = t THEN <<o[1]>> ELSE <<>>
      /\ Places' = {<<>>} /\ s.before = 0
  <2>1. t = h + Len(o) /\ At(text', h, o) /\ (h = 1 => text'[1] = " ")
    BY <1>1, <1>2 DEF Began
  <2>2. \A i \in 1..t : nest'[i] = IF v[<<>>].kind \in Containers /\ i = t THEN <<o[1]>> ELSE <<>>
    BY <1>1, <1>2 DEF Began
  <2>3. Places' = {<<>>} /\ s.before = 0
    <3>1. PICK last : last = (IF v[<<>>].kind \in Containers THEN 0 ELSE h + Len(o))
      OBVIOUS
    <3>2. /\ Places' = {<<>>}
          /\ s = [before |-> 0, beg |-> 0, colon |-> h, first |-> h + 1, after |-> 0, last |-> last]
      BY <1>1, <1>2, <3>1 DEF Began, Places
    <3> QED BY <3>2
  <2> QED BY <2>1, <2>2, <2>3
<1>11. nest' \in Seq(Seq(Chars)) /\ Len(nest') = t
  BY <1>1 DEF Began
<1>5. /\ h = 1 => text'[1] = " "
      /\ \A i \in 1..t : nest'[i] = IF i = t THEN <<o[1]>> ELSE <<>>
      /\ Places' = {<<>>} /\ s.before = 0
  BY <1>3, <1>9
<1>10. t = h + 1
  BY <1>4, <1>9
<1>6. text'[h + 1] = o[1]
  <2>1. 1 \in 1..Len(o)
    BY <1>4
  <2> QED BY <1>9, <2>1 DEF At
<1>7. Matched'
  <2> SUFFICES ASSUME NEW i \in 1..t
               PROVE  /\ nest'[i] = StackAfter(text'[i], Nest(i - 1)')
                      /\ ~Closes(text'[i])
    BY <1>1 DEF Matched, Nest
  <2>1. (h = 1 /\ i = 1 /\ i # t) \/ i = t
    BY <1>10
  <2>2. Nest(i - 1)' = <<>>
    <3>1. i - 1 = 0 \/ (i - 1 \in 1..t /\ i - 1 # t)
      BY <1>10
    <3> QED BY <1>5, <3>1 DEF Nest
  <2>3. CASE i = t
    <3>1. Append(<<>>, o[1]) = <<o[1]>>
      BY NothingIs
    <3>2. nest'[i] = <<o[1]>> /\ text'[i] = o[1]
      BY <1>5, <1>6, <1>10, <2>3
    <3>3. ~Closes(o[1]) /\ StackAfter(o[1], <<>>) = Append(<<>>, o[1])
      BY <1>4, MarksAre
    <3> QED BY <2>2, <3>1, <3>2, <3>3
  <2>4. CASE h = 1 /\ i = 1 /\ i # t
    BY <1>5, <2>2, <2>4, MarksAre, ZenonT(60)
  <2> QED BY <2>1, <2>3, <2>4
<1>8. DeepOK(<<>>)'
  <2>1. Len(<<>>) = 0 /\ Nest(0)' = <<>>
    BY NothingIs DEF Nest
  <2>2. ASSUME NEW i \in (0 + 1)..t PROVE Len(nest'[i]) >= Len(<<>>) /\ text'[i] # ","
    <3>1. nest'[i] \in Seq(Chars)
      BY <1>11
    <3>2. Len(nest'[i]) \in Nat
      BY <3>1
    <3>3. (h = 1 /\ i = 1) \/ i = h + 1
      BY <1>10
    <3>4. text'[i] # ","
      <4>1. " " # "," /\ o[1] # ","
        BY <1>4, MarksAre
      <4> QED BY <1>5, <1>6, <3>3, <4>1
    <3>5. Len(nest'[i]) >= Len(<<>>)
      BY <2>1, <3>2
    <3> QED BY <3>4, <3>5
  <2>3. span'[<<>>].before = 0 /\ Len(text') = t
    BY <1>1, <1>5
  <2>4. Len(Nest(span[<<>>].before)') = Len(<<>>)
    <3>1. Nest(span[<<>>].before)' = Nest(0)'
      BY <2>3 DEF Nest
    <3> QED BY <2>1, <3>1
  <2> QED BY <2>2, <2>3, <2>4 DEF DeepOK, Nest
<1> QED BY <1>5, <1>7, <1>8 DEF Nests

\* The values that are not left behind lie around the place where the text
\* ends, and the one before it.
LEMMA Around ==
  ASSUME IsTree(written), Frames, calls # <<>>, NEW r \in Places, span[r].after = 0
  PROVE  \/ r = Last(calls).item /\ r # <<>> /\ Len(r) = Len(calls)
         \/ Len(r) \in Nat /\ Len(r) <= Len(calls) - 1 /\ (r = <<>> \/ r # Last(calls).item)
<1>1. PICK m, c : m = Len(calls) /\ c = Last(calls)
  OBVIOUS
<1>2. m \in Nat /\ m >= 1 /\ c = calls[m] /\ (c.item # <<>> => Len(c.item) = m)
  BY <1>1, TopFrame
<1>3. r = <<>> \/ \E k \in 1..m : r = calls[k].item
  BY <1>1 DEF Frames
<1>4. CASE r = <<>>
  <2>1. Len(r) = 0
    BY <1>4, NothingIs
  <2> QED BY <1>1, <1>2, <1>4, <2>1
<1>5. CASE r # <<>>
  <2>1. PICK k \in 1..m : r = calls[k].item
    BY <1>3, <1>5
  <2>2. CASE k = m
    BY <1>1, <1>2, <1>5, <2>1, <2>2
  <2>3. CASE k # m
    <3>1. /\ r \in DOMAIN written /\ Front(r) = calls[k].path /\ Len(calls[k].path) = k - 1
          /\ r # c.item
      <4>1. k < m
        BY <1>2, <2>3
      <4> QED BY <1>1, <1>5, <2>1, <4>1, FrameIs
    <3>2. r \in Seq(TreeKeys)
      BY <3>1 DEF IsTree, Grove, Paths
    <3>3. Len(Front(r)) = Len(r) - 1 /\ Len(r) \in Nat
      BY <1>5, <3>2, PathEnd
    <3> QED BY <1>1, <1>2, <2>3, <3>1, <3>3
  <2> QED BY <2>2, <2>3
<1> QED BY <1>4, <1>5

\* A value that is written keeps the depths.
LEMMA WroteNests ==
  ASSUME WriterOK, Rooted, Nests, IsTree(written), calls # <<>>, written' = written,
         NEW q, NEW g \in {0, 1}, Wrote(q, g)
  PROVE  Nests'
<1> USE DEF WriterOK
<1>1. PICK c, n, t, m, p, o : /\ c = Last(calls) /\ n = Len(text) /\ t = Len(text') /\ m = Len(calls)
                              /\ p = c.path /\ o = Opening(written[q])
  OBVIOUS
<1>2. PICK b, s, top : /\ b = (IF c.item = <<>> THEN n ELSE n + 1) /\ s = span'[q] /\ top = Nest(n)
  OBVIOUS
<1>3. Added(q, b)
  BY <1>1, <1>2, WroteAdds
<1>4. /\ Places' = Places \cup {q} /\ q \notin Places /\ q \in DOMAIN written
      /\ q # <<>> /\ Front(q) = p /\ p \in Places /\ Inside(p) /\ span[p].last = 0
      /\ n \in Nat /\ t \in Nat /\ n <= t
      /\ b \in {n, n + 1} /\ (c.item = <<>> <=> b = n) /\ b <= t
      /\ \A r \in Places' : span'[r] \in Spans
  BY <1>1, <1>3 DEF Added
<1>5. \A r \in Places : /\ span'[r].before = span[r].before /\ span'[r].colon = span[r].colon
                        /\ span'[r].last = span[r].last
                        /\ r = <<>> \/ r # c.item => span'[r].after = span[r].after
  BY <1>1, <1>3 DEF Added
<1>6. /\ c.item # <<>> => /\ span'[c.item].after = b /\ c.item \in Places /\ Front(c.item) = p
      /\ s.before = b /\ b <= s.colon /\ s.colon < s.first /\ s.after = 0
      /\ Inside(q) => s.last = 0 /\ s.first = t
      /\ ~Inside(q) => s.last = t
      /\ s \in Spans
  BY <1>1, <1>2, <1>3 DEF Added
<1>7. /\ nest' \in Seq(Seq(Chars)) /\ Len(nest') = t
      /\ \A i \in 1..n : nest'[i] = nest[i]
      /\ \A i \in (n + 1)..t : nest'[i] = IF written[q].kind \in Containers /\ i = t
                                          THEN Append(top, o[1]) ELSE top
  BY <1>1, <1>2 DEF Wrote
<1>8. /\ \A i \in 1..n : text'[i] = text[i]
      /\ c.item # <<>> => text'[b] = ","
  BY <1>1, <1>2 DEF Wrote
<1>9. /\ top \in Seq(Chars) /\ Len(top) = m /\ m \in Nat /\ m >= 1
  <2>1. top \in Seq(Chars)
    BY <1>1, <1>2, <1>4, BracketsIs
  <2>2. Len(Nest(Len(text))) = Len(calls)
    BY DEF Frames
  <2> QED BY <1>1, <1>2, <2>1, <2>2, TopFrame
<1>10. Inside(q) <=> written[q].kind \in Containers
  BY <1>4 DEF Inside
<1>11. TextOK(q)'
  <2>1. Texts'
    BY <1>1, WroteTexts
  <2> QED BY <1>4, <2>1 DEF Texts
<1>12. PICK dict \in BOOLEAN : dict <=> written[p].kind = "dict"
  OBVIOUS
<1>13. /\ \A i \in (b + 1)..(s.first - 1) : text'[i] \notin Structure
       /\ dict => \A i \in (b + 1)..(s.colon - 1) : text'[i] \notin Structure \cup {":"}
       /\ ~Inside(q) => \A i \in s.first..t : text'[i] \notin Structure
  <2>1. /\ Blanks(text', s.colon + 1, s.first - 1)
        /\ dict => Entry(text', s, Last(q).label)
        /\ ~dict => s.colon = s.before
    BY <1>2, <1>4, <1>11, <1>12 DEF TextOK
  <2>2. written[q].kind \notin Containers => /\ s.last + 1 = s.first + Len(Opening(written[q]))
                                             /\ At(text', s.first - 1, Opening(written[q]))
    BY <1>2, <1>4, <1>10, <1>11 DEF TextOK, Inside
  <2>3. Legible(written) /\ written[<<>>].kind \in Containers
    BY DEF Rooted
  <2>4. /\ \A i \in (s.before + 1)..(s.first - 1) : text'[i] \notin Structure
        /\ dict => \A i \in (s.before + 1)..(s.colon - 1) : text'[i] \notin Structure \cup {":"}
        /\ written[q].kind \notin Containers => \A i \in s.first..s.last : text'[i] \notin Structure
    BY <1>4, <1>6, <2>1, <2>2, <2>3, PlainText
  <2> QED BY <1>6, <1>10, <2>4
<1>14. Inside(q) => /\ text'[t] = o[1] /\ Opens(o[1]) /\ o[1] \in Chars /\ b < t
  <2> SUFFICES ASSUME Inside(q) PROVE text'[t] = o[1] /\ Opens(o[1]) /\ o[1] \in Chars /\ b < t
    OBVIOUS
  <2>1. text'[t] = o[1]
    BY <1>1, <1>2, <1>4, <1>6, <1>11 DEF TextOK, Inside
  <2>2. NodeOK(written[q]) /\ written[q].kind \in Containers
    BY <1>4, <1>10 DEF IsTree, Grove
  <2>3. o \in Seq(Chars) /\ Len(o) = 1 /\ Opens(o[1])
    BY <1>1, <2>2, OpeningIs
  <2>4. o[1] \in Chars
    BY <2>3
  <2>5. b < t
    <3>1. s.colon \in Nat /\ s.first \in Nat
      BY <1>6 DEF Spans
    <3> QED BY <1>4, <1>6, <3>1
  <2> QED BY <2>1, <2>3, <2>4, <2>5
<1>15. \A i \in 0..n : Nest(i)' = Nest(i)
  BY <1>4, <1>7, NestKept
<1>16. \A i \in (n + 1)..t : /\ ~(Inside(q) /\ i = t) => nest'[i] = top
                             /\ Inside(q) /\ i = t => nest'[i] = Append(top, o[1])
  BY <1>7, <1>10
<1>17. \A i \in (n + 1)..t : Nest(i - 1)' = top
  <2> SUFFICES ASSUME NEW i \in (n + 1)..t PROVE Nest(i - 1)' = top
    OBVIOUS
  <2>1. CASE i = n + 1
    BY <1>2, <1>4, <1>15, <2>1
  <2>2. CASE i # n + 1
    <3>1. i - 1 \in (n + 1)..t /\ i - 1 # t /\ i - 1 # 0
      BY <1>4, <2>2
    <3> QED BY <1>16, <3>1 DEF Nest
  <2> QED BY <2>1, <2>2
<1>18. \A i \in (n + 1)..t : \/ i = b /\ c.item # <<>> /\ i = n + 1
                             \/ i # b /\ i > b /\ ~(Inside(q) /\ i = t) /\ text'[i] \notin Structure
                             \/ i # b /\ Inside(q) /\ i = t
  <2> SUFFICES ASSUME NEW i \in (n + 1)..t
               PROVE  \/ i = b /\ c.item # <<>> /\ i = n + 1
                      \/ i # b /\ i > b /\ ~(Inside(q) /\ i = t) /\ text'[i] \notin Structure
                      \/ i # b /\ Inside(q) /\ i = t
    OBVIOUS
  <2>1. CASE i = b
    <3>1. b = n + 1
      BY <1>4, <2>1
    <3> QED BY <1>4, <2>1, <3>1
  <2>2. CASE i # b
    <3>1. i > b
      BY <1>4, <2>2
    <3>2. CASE Inside(q) /\ i = t
      BY <2>2, <3>2
    <3>3. CASE ~(Inside(q) /\ i = t)
      <4>1. i \in (b + 1)..(s.first - 1) \/ (~Inside(q) /\ i \in s.first..t)
        <5>1. s.first \in Nat
          BY <1>6 DEF Spans
        <5> QED BY <1>4, <1>6, <3>1, <3>3, <5>1
      <4> QED BY <1>13, <2>2, <3>1, <3>3, <4>1
    <3> QED BY <3>2, <3>3
  <2> QED BY <2>1, <2>2
<1>24. Inside(q) => b < t
  BY <1>14
<1>25. Len(top) >= m
  BY <1>9
<1>19. \A i \in (n + 1)..t : /\ nest'[i] = StackAfter(text'[i], top) /\ ~Closes(text'[i])
                             /\ Len(nest'[i]) >= m /\ (text'[i] = "," => i = b)
  <2> SUFFICES ASSUME NEW i \in (n + 1)..t
               PROVE  /\ nest'[i] = StackAfter(text'[i], top) /\ ~Closes(text'[i])
                      /\ Len(nest'[i]) >= m /\ (text'[i] = "," => i = b)
    OBVIOUS
  <2>1. CASE i = b /\ c.item # <<>> /\ i = n + 1
    <3>1. text'[i] = "," /\ ~(Inside(q) /\ i = t)
      <4>1. text'[i] = ","
        BY <1>8, <2>1
      <4>2. ~(Inside(q) /\ i = t)
        BY <1>4, <1>24, <2>1
      <4> QED BY <4>1, <4>2
    <3>2. nest'[i] = top
      BY <1>16, <3>1
    <3>3. StackAfter(text'[i], top) = top /\ ~Closes(text'[i])
      BY <3>1, MarksAre
    <3> QED BY <1>25, <2>1, <3>2, <3>3
  <2>2. CASE i # b /\ i > b /\ ~(Inside(q) /\ i = t) /\ text'[i] \notin Structure
    <3>1. nest'[i] = top
      BY <1>16, <2>2
    <3>2. StackAfter(text'[i], top) = top /\ ~Closes(text'[i]) /\ text'[i] # ","
      BY <2>2, MarksAre
    <3> QED BY <1>25, <3>1, <3>2
  <2>3. CASE i # b /\ Inside(q) /\ i = t
    <3>1. nest'[i] = Append(top, o[1]) /\ text'[i] = o[1] /\ o[1] \in Chars /\ Opens(o[1])
      BY <1>14, <1>16, <2>3
    <3>2. Len(nest'[i]) = m + 1
      BY <1>9, <3>1, PathGrown
    <3>3. Len(nest'[i]) >= m
      BY <1>9, <3>2
    <3> QED BY <3>1, <3>3, MarksAre
  <2> QED BY <1>18, <2>1, <2>2, <2>3
<1>26. \A i \in (n + 1)..t : Len(nest'[i]) >= m
  BY <1>19
<1>20. Matched'
  <2> SUFFICES ASSUME NEW i \in 1..t
               PROVE  /\ nest'[i] = StackAfter(text'[i], Nest(i - 1)')
                      /\ Closes(text'[i]) => Nest(i - 1)' # <<>> /\ Last(Nest(i - 1)') = Opener(text'[i])
    BY <1>1 DEF Matched, Nest
  <2>1. CASE i <= n
    <3>1. i \in 1..n /\ i - 1 \in 0..n
      BY <1>4, <2>1
    <3>2. /\ nest[i] = StackAfter(text[i], Nest(i - 1))
          /\ Closes(text[i]) => Nest(i - 1) # <<>> /\ Last(Nest(i - 1)) = Opener(text[i])
      BY <1>1, <3>1 DEF Nests, Matched
    <3> QED BY <1>7, <1>8, <1>15, <3>1, <3>2
  <2>2. CASE i > n
    <3>1. i \in (n + 1)..t
      BY <1>4, <2>2
    <3> QED BY <1>17, <1>19, <3>1
  <2>3. i <= n \/ i > n
    BY <1>4
  <2> QED BY <2>1, <2>2, <2>3
<1>21. ASSUME NEW r \in Places PROVE DeepOK(r)'
  <2>1. PICK x, a, k : x = span[r].before /\ a = span'[r].after /\ k = Len(r)
    OBVIOUS
  <2>2. /\ x \in Nat /\ a \in Nat /\ span[r].colon \in Nat /\ span[r].colon <= n /\ x <= n
    <3>1. span[r] \in Spans /\ span'[r] \in Spans /\ PlaceOK(r)
      BY <1>4 DEF Histories, SpanOK
    <3>2. x <= span[r].colon /\ span[r].colon < span[r].first /\ span[r].first <= n + 1
      BY <1>1, <2>1, <3>1 DEF PlaceOK
    <3>3. x \in Nat /\ a \in Nat /\ span[r].colon \in Nat /\ span[r].first \in Nat
      BY <2>1, <3>1 DEF Spans
    <3> QED BY <1>4, <3>2, <3>3
  <2>3. DeepOK(r) /\ span'[r].before = x /\ span'[r].colon = span[r].colon
    BY <1>5, <2>1 DEF Nests
  <2>4. Len(Nest(x)') = k
    <3>1. Len(Nest(x)) = k /\ x \in 0..n
      <4>1. Len(Nest(x)) = k
        BY <2>1, <2>3 DEF DeepOK
      <4>2. x \in 0..n
        BY <1>4, <2>2
      <4> QED BY <4>1, <4>2
    <3> QED BY <1>15, <3>1
  <2>5. span[r].after # 0 => span[r].after <= n
    BY <1>1 DEF Frames
  <2>6. r # <<>> /\ r = c.item => span[r].after = 0 /\ a = b /\ b = n + 1 /\ k = m /\ c.item # <<>> /\ Front(r) = p
    <3> SUFFICES ASSUME r # <<>>, r = c.item
                 PROVE  span[r].after = 0 /\ a = b /\ b = n + 1 /\ k = m /\ c.item # <<>> /\ Front(r) = p
      OBVIOUS
    <3>1. b = n + 1
      BY <1>4
    <3> QED BY <1>1, <1>3, <1>6, <2>1, <3>1, TopFrame DEF Added
  <2>7. r = <<>> \/ r # c.item => a = span[r].after
    BY <1>5, <2>1
  <2>8. ASSUME NEW i \in (x + 1)..t, a = 0 \/ i < a
        PROVE  Len(nest'[i]) >= k /\ (text'[i] = "," => Len(nest'[i]) > k)
    <3>1. CASE i <= n
      <4>1. span[r].after = 0 \/ i < span[r].after
        BY <2>6, <2>7, <2>8
      <4>2. i \in (x + 1)..n /\ i \in 1..n
        BY <1>4, <2>2, <3>1
      <4>3. Len(nest[i]) >= k /\ (text[i] = "," => Len(nest[i]) > k)
        BY <1>1, <2>1, <2>3, <4>1, <4>2 DEF DeepOK
      <4> QED BY <1>7, <1>8, <4>2, <4>3
    <3>2. CASE i > n
      <4>1. i \in (n + 1)..t
        BY <1>4, <2>2, <3>2
      <4>2. ~(r # <<>> /\ r = c.item)
        BY <1>4, <2>2, <2>6, <2>8, <3>2
      <4>3. span[r].after = 0
        BY <1>4, <2>2, <2>5, <2>7, <2>8, <3>2, <4>2
      <4>4. k \in Nat /\ k <= m - 1
        BY <1>1, <2>1, <4>2, <4>3, Around
      <4>5. nest'[i] \in Seq(Chars) /\ i \in 1..t
        BY <1>4, <1>7, <4>1
      <4>6. Len(nest'[i]) \in Nat /\ Len(nest'[i]) >= m
        BY <1>26, <4>1, <4>5
      <4>7. Len(nest'[i]) > k
        BY <1>9, <4>4, <4>6
      <4>8. Len(nest'[i]) >= k
        BY <4>4, <4>6, <4>7
      <4> QED BY <4>7, <4>8
    <3>3. i <= n \/ i > n
      BY <1>4, <2>2
    <3> QED BY <3>1, <3>2, <3>3
  <2>9. r # <<>> /\ a # 0 =>
           IF a = span'[Front(r)].last THEN Len(nest'[a]) = k - 1
           ELSE text'[a] = "," /\ Len(nest'[a]) = k
    <3> SUFFICES ASSUME r # <<>>, a # 0
                 PROVE  IF a = span'[Front(r)].last THEN Len(nest'[a]) = k - 1
                        ELSE text'[a] = "," /\ Len(nest'[a]) = k
      OBVIOUS
    <3>1. CASE r = c.item
      <4>1. a = n + 1 /\ a = b /\ k = m /\ Front(r) = p /\ a \in (n + 1)..t
        BY <1>4, <2>6, <3>1
      <4>2. span'[p].last = 0
        BY <1>4, <1>5
      <4>3. text'[a] = "," /\ ~(Inside(q) /\ a = t)
        <5>1. text'[a] = ","
          BY <1>8, <2>6, <3>1, <4>1
        <5>2. ~(Inside(q) /\ a = t)
          BY <1>4, <1>24, <4>1
        <5> QED BY <5>1, <5>2
      <4>4. nest'[a] = top
        BY <1>16, <4>1, <4>3
      <4> QED BY <1>9, <4>1, <4>2, <4>3, <4>4
    <3>2. CASE r # c.item
      <4>1. a = span[r].after /\ a \in 1..n
        BY <1>4, <2>2, <2>5, <2>7, <3>2
      <4>2. Front(r) \in Places
        BY DEF SpanOK, PlaceOK
      <4>3. span'[Front(r)].last = span[Front(r)].last
        BY <1>5, <4>2
      <4>4. IF a = span[Front(r)].last THEN Len(nest[a]) = k - 1
            ELSE text[a] = "," /\ Len(nest[a]) = k
        BY <2>1, <2>3, <4>1 DEF DeepOK
      <4> QED BY <1>7, <1>8, <4>1, <4>3, <4>4
    <3> QED BY <3>1, <3>2
  <2>10. r # <<>> /\ written[Front(r)].kind = "dict" =>
            \A i \in (x + 1)..(span[r].colon - 1) : text'[i] \notin Structure \cup {":"}
    <3> SUFFICES ASSUME r # <<>>, written[Front(r)].kind = "dict", NEW i \in (x + 1)..(span[r].colon - 1)
                 PROVE  text'[i] \notin Structure \cup {":"}
      OBVIOUS
    <3>1. text[i] \notin Structure \cup {":"}
      BY <2>1, <2>3 DEF DeepOK
    <3>2. i \in 1..n
      BY <1>4, <2>2
    <3> QED BY <1>8, <3>1, <3>2
  <2> QED BY <1>1, <2>1, <2>3, <2>4, <2>8, <2>9, <2>10 DEF DeepOK, Nest
<1>22. DeepOK(q)'
  <2>1. Len(q) = m
    <3>1. q \in Seq(TreeKeys)
      BY <1>4 DEF IsTree, Grove, Paths
    <3>2. Len(Front(q)) = Len(q) - 1 /\ Len(q) \in Nat
      BY <1>4, <3>1, PathEnd
    <3>3. Len(p) = m - 1
      BY <1>1, TopFrame
    <3> QED BY <1>4, <1>9, <3>2, <3>3
  <2>2. Len(Nest(b)') = m
    <3>1. CASE b = n
      <4>1. b \in 0..n
        BY <1>4, <3>1
      <4> QED BY <1>2, <1>9, <1>15, <3>1, <4>1
    <3>2. CASE b # n
      <4>1. b \in (n + 1)..t /\ b # 0
        BY <1>4, <3>2
      <4>2. ~(Inside(q) /\ b = t)
        BY <1>4, <1>14
      <4> QED BY <1>9, <1>16, <4>1, <4>2 DEF Nest
    <3> QED BY <3>1, <3>2
  <2>3. ASSUME NEW i \in (b + 1)..t PROVE Len(nest'[i]) >= m /\ text'[i] # ","
    <3>1. i \in (n + 1)..t /\ i # b
      BY <1>4
    <3> QED BY <1>19, <3>1
  <2>4. written[p].kind = "dict" => \A i \in (b + 1)..(s.colon - 1) : text'[i] \notin Structure \cup {":"}
    BY <1>12, <1>13
  <2> QED BY <1>1, <1>2, <1>4, <1>6, <2>1, <2>2, <2>3, <2>4 DEF DeepOK, Nest
<1> QED BY <1>4, <1>20, <1>21, <1>22 DEF Nests

\* The closing bracket of a container closes its opening one.
LEMMA ClosingIs ==
  ASSUME NEW node, node.kind \in Containers
  PROVE  Closes(Closing(node)) /\ Opener(Closing(node)) = Opening(node)[1] /\ Closing(node) # " "
<1>1. CASE node.kind = "array"
  BY <1>1 DEF Closes, Closing, Opener, Opening
<1>2. CASE node.kind = "dict"
  BY <1>2 DEF Closes, Closing, Opener, Opening
<1> QED BY <1>1, <1>2 DEF Containers

\* The end of a loop keeps the depths.
LEMMA ClosedNests ==
  ASSUME WriterOK, Rooted, Nests, IsTree(written), calls # <<>>, written' = written,
         NEW g \in {0, 1}, Closed(g)
  PROVE  Nests'
<1> USE DEF WriterOK
<1>1. PICK c, n, e, m, p : /\ c = Last(calls) /\ n = Len(text) /\ e = n + g + 1 /\ m = Len(calls)
                           /\ p = c.path
  OBVIOUS
<1>2. PICK top, h, hole : /\ top = Nest(n) /\ h = Append(p, Indexed(1))
                          /\ hole = (c.item = <<>> /\ written[c.path].kind = "array")
  OBVIOUS
<1>3. Shut(e)
  BY <1>1, ClosedShuts
<1>4. /\ Places' = Places \cup (IF hole THEN {h} ELSE {})
      /\ p \in Places /\ Inside(p) /\ span[p].last = 0 /\ span[p].after = 0
      /\ n \in Nat /\ e \in {n + 1, n + 2} /\ Len(text') = e
      /\ \A r \in Places' : span'[r] \in Spans
  BY <1>1, <1>2, <1>3 DEF Shut
<1>5. \A r \in Places : /\ span'[r].before = span[r].before /\ span'[r].colon = span[r].colon
                        /\ r # p => span'[r].last = span[r].last
                        /\ r = <<>> \/ r # c.item => span'[r].after = span[r].after
  BY <1>1, <1>3 DEF Shut
<1>6. /\ span'[p].last = e
      /\ c.item # <<>> => /\ span'[c.item].after = e /\ c.item \in Places /\ c.item # p
                          /\ Front(c.item) = p /\ span[c.item].after = 0
  BY <1>1, <1>3 DEF Shut
<1>7. hole => /\ h \notin Places /\ h # <<>> /\ Front(h) = p
              /\ span'[h].before = n /\ span'[h].colon = n /\ span'[h].after = n + 1 /\ e = n + 1
              /\ written[p].kind = "array"
  BY <1>1, <1>2, <1>3 DEF Shut
<1>8. /\ nest' \in Seq(Seq(Chars)) /\ Len(nest') = e
      /\ \A i \in 1..n : nest'[i] = nest[i]
      /\ g = 1 => nest'[n + 1] = top
      /\ nest'[e] = Front(top)
  BY <1>1, <1>2 DEF Closed
<1>9. /\ \A i \in 1..n : text'[i] = text[i]
      /\ g = 1 => text'[n + 1] = " "
      /\ text'[e] = Closing(written[p])
  BY <1>1 DEF Closed
<1>10. m \in Nat /\ m >= 1 /\ c = calls[m] /\ p \in Paths /\ Len(p) = m - 1 /\ m \in 1..m
       /\ written[p].kind \in Containers
  <2>1. m \in Nat /\ m >= 1 /\ c = calls[m] /\ p \in Paths /\ Len(p) = m - 1 /\ written[p].kind \in Containers
    BY <1>1, TopFrame
  <2> QED BY <2>1
<1>11. /\ top \in Seq(Chars) /\ Len(top) = m /\ top # <<>>
       /\ Last(top) = Opening(written[p])[1] /\ Front(top) \in Seq(Chars) /\ Len(Front(top)) = m - 1
  <2>1. top \in Seq(Chars)
    BY <1>1, <1>2, <1>4, BracketsIs
  <2>2. Len(top) = m /\ top[m] = Opening(written[p])[1]
    BY <1>1, <1>2, <1>10 DEF Frames
  <2>3. top # <<>>
    BY <1>10, <2>2, NothingIs
  <2>4. Last(top) = top[m]
    BY <2>2 DEF Last
  <2> QED BY <2>1, <2>2, <2>3, <2>4, PathEnd
<1>12. \A i \in 0..n : Nest(i)' = Nest(i)
  BY <1>4, <1>8, NestKept
<1>13. \A i \in (n + 1)..e : i = e \/ (g = 1 /\ i = n + 1 /\ i # e)
  BY <1>1, <1>4
<1>14. \A i \in (n + 1)..e : Nest(i - 1)' = top
  <2> SUFFICES ASSUME NEW i \in (n + 1)..e PROVE Nest(i - 1)' = top
    OBVIOUS
  <2>1. CASE i = n + 1
    BY <1>2, <1>4, <1>12, <2>1
  <2>2. CASE i # n + 1
    <3>1. i - 1 = n + 1 /\ g = 1 /\ n + 1 # 0
      BY <1>1, <1>4, <2>2
    <3> QED BY <1>8, <3>1 DEF Nest
  <2> QED BY <2>1, <2>2
<1>15. \A i \in (n + 1)..e : /\ nest'[i] = StackAfter(text'[i], top)
                             /\ Closes(text'[i]) => Last(top) = Opener(text'[i])
                             /\ text'[i] # ","
  <2> SUFFICES ASSUME NEW i \in (n + 1)..e
               PROVE  /\ nest'[i] = StackAfter(text'[i], top)
                      /\ Closes(text'[i]) => Last(top) = Opener(text'[i])
                      /\ text'[i] # ","
    OBVIOUS
  <2>1. CASE i = e
    <3>1. Closes(text'[i]) /\ Opener(text'[i]) = Last(top)
      BY <1>9, <1>10, <1>11, <2>1, ClosingIs
    <3> QED BY <1>8, <2>1, <3>1, MarksAre
  <2>2. CASE g = 1 /\ i = n + 1
    <3>1. ~Closes(" ") /\ " " # "," /\ StackAfter(" ", top) = top
      BY MarksAre
    <3> QED BY <1>8, <1>9, <2>2, <3>1
  <2> QED BY <1>13, <2>1, <2>2
<1>16. \A i \in (n + 1)..e : Len(nest'[i]) >= m - 1 /\ (i # e => Len(nest'[i]) = m)
  <2> SUFFICES ASSUME NEW i \in (n + 1)..e PROVE Len(nest'[i]) >= m - 1 /\ (i # e => Len(nest'[i]) = m)
    OBVIOUS
  <2>1. i = e => Len(nest'[i]) = m - 1
    BY <1>8, <1>11
  <2>2. i # e => Len(nest'[i]) = m
    BY <1>8, <1>11, <1>13
  <2> QED BY <1>10, <2>1, <2>2
<1>17. Matched'
  <2> SUFFICES ASSUME NEW i \in 1..e
               PROVE  /\ nest'[i] = StackAfter(text'[i], Nest(i - 1)')
                      /\ Closes(text'[i]) => Nest(i - 1)' # <<>> /\ Last(Nest(i - 1)') = Opener(text'[i])
    BY <1>4 DEF Matched, Nest
  <2>1. CASE i <= n
    <3>1. i \in 1..n /\ i - 1 \in 0..n
      BY <1>4, <2>1
    <3>2. /\ nest[i] = StackAfter(text[i], Nest(i - 1))
          /\ Closes(text[i]) => Nest(i - 1) # <<>> /\ Last(Nest(i - 1)) = Opener(text[i])
      BY <1>1, <3>1 DEF Nests, Matched
    <3> QED BY <1>8, <1>9, <1>12, <3>1, <3>2
  <2>2. CASE i > n
    <3>1. i \in (n + 1)..e
      BY <1>4, <2>2
    <3> QED BY <1>11, <1>14, <1>15, <3>1
  <2>3. i <= n \/ i > n
    BY <1>4
  <2> QED BY <2>1, <2>2, <2>3
<1>18. \A i \in (n + 1)..e : text'[i] # ","
  BY <1>15
<1>21. ASSUME NEW r \in Places PROVE DeepOK(r)'
  <2>1. PICK x, a, k : x = span[r].before /\ a = span'[r].after /\ k = Len(r)
    OBVIOUS
  <2>2. /\ x \in Nat /\ a \in Nat /\ span[r].colon \in Nat /\ span[r].colon <= n /\ x <= n
    <3>1. span[r] \in Spans /\ span'[r] \in Spans /\ PlaceOK(r)
      BY <1>4 DEF Histories, SpanOK
    <3>2. x <= span[r].colon /\ span[r].colon < span[r].first /\ span[r].first <= n + 1
      BY <1>1, <2>1, <3>1 DEF PlaceOK
    <3>3. x \in Nat /\ a \in Nat /\ span[r].colon \in Nat /\ span[r].first \in Nat
      BY <2>1, <3>1 DEF Spans
    <3> QED BY <1>4, <3>2, <3>3
  <2>3. DeepOK(r) /\ span'[r].before = x /\ span'[r].colon = span[r].colon
    BY <1>5, <2>1 DEF Nests
  <2>4. Len(Nest(x)') = k
    <3>1. Len(Nest(x)) = k
      BY <2>1, <2>3 DEF DeepOK
    <3>2. x \in 0..n
      BY <1>4, <2>2
    <3> QED BY <1>12, <3>1, <3>2
  <2>5. span[r].after # 0 => span[r].after <= n
    BY <1>1 DEF Frames
  <2>6. r # <<>> /\ r = c.item => span[r].after = 0 /\ a = e /\ k = m /\ c.item # <<>> /\ Front(r) = p
    BY <1>1, <1>6, <2>1, TopFrame
  <2>7. r = <<>> \/ r # c.item => a = span[r].after
    BY <1>5, <2>1
  <2>8. ASSUME NEW i \in (x + 1)..e, a = 0 \/ i < a
        PROVE  Len(nest'[i]) >= k /\ (text'[i] = "," => Len(nest'[i]) > k)
    <3>1. CASE i <= n
      <4>1. span[r].after = 0 \/ i < span[r].after
        BY <2>6, <2>7, <2>8
      <4>2. i \in (x + 1)..n /\ i \in 1..n
        BY <1>4, <2>2, <3>1
      <4>3. Len(nest[i]) >= k /\ (text[i] = "," => Len(nest[i]) > k)
        BY <1>1, <2>1, <2>3, <4>1, <4>2 DEF DeepOK
      <4> QED BY <1>8, <1>9, <4>2, <4>3
    <3>2. CASE i > n
      <4>1. i \in (n + 1)..e
        BY <1>4, <2>2, <3>2
      <4>2. Len(nest'[i]) >= k
        <5>1. CASE r # <<>> /\ r = c.item
          <6>1. a = e /\ k = m
            BY <2>6, <5>1
          <6>2. i # e
            BY <1>4, <2>2, <2>8, <4>1, <6>1
          <6> QED BY <1>10, <1>16, <4>1, <6>1, <6>2
        <5>2. CASE ~(r # <<>> /\ r = c.item)
          <6>3. span[r].after = 0
            BY <1>4, <2>2, <2>5, <2>7, <2>8, <3>2, <5>2
          <6>4. k \in Nat /\ k <= m - 1
            BY <1>1, <2>1, <5>2, <6>3, Around
          <6>5. nest'[i] \in Seq(Chars)
            <7>1. i \in 1..e
              BY <1>4, <4>1
            <7> QED BY <1>8, <7>1
          <6>6. Len(nest'[i]) \in Nat /\ Len(nest'[i]) >= m - 1
            BY <1>16, <4>1, <6>5
          <6> QED BY <1>10, <6>4, <6>6
        <5> QED BY <5>1, <5>2
      <4> QED BY <1>18, <4>1, <4>2
    <3>3. i <= n \/ i > n
      BY <1>4, <2>2
    <3> QED BY <3>1, <3>2, <3>3
  <2>9. r # <<>> /\ a # 0 =>
           IF a = span'[Front(r)].last THEN Len(nest'[a]) = k - 1
           ELSE text'[a] = "," /\ Len(nest'[a]) = k
    <3> SUFFICES ASSUME r # <<>>, a # 0
                 PROVE  IF a = span'[Front(r)].last THEN Len(nest'[a]) = k - 1
                        ELSE text'[a] = "," /\ Len(nest'[a]) = k
      OBVIOUS
    <3>1. CASE r = c.item
      <4>1. a = e /\ k = m /\ Front(r) = p
        BY <2>6, <3>1
      <4> QED BY <1>6, <1>8, <1>11, <4>1
    <3>2. CASE r # c.item
      <4>1. a = span[r].after /\ a \in 1..n
        BY <1>4, <2>2, <2>5, <2>7, <3>2
      <4>2. Front(r) \in Places
        BY DEF SpanOK, PlaceOK
      <4>3. IF a = span[Front(r)].last THEN Len(nest[a]) = k - 1
            ELSE text[a] = "," /\ Len(nest[a]) = k
        BY <2>1, <2>3, <4>1 DEF DeepOK
      <4>4. (a = span'[Front(r)].last) <=> (a = span[Front(r)].last)
        <5>1. CASE Front(r) = p
          BY <1>4, <1>6, <4>1, <5>1
        <5>2. CASE Front(r) # p
          BY <1>5, <4>2, <5>2
        <5> QED BY <5>1, <5>2
      <4> QED BY <1>8, <1>9, <4>1, <4>3, <4>4
    <3> QED BY <3>1, <3>2
  <2>10. r # <<>> /\ written[Front(r)].kind = "dict" =>
            \A i \in (x + 1)..(span[r].colon - 1) : text'[i] \notin Structure \cup {":"}
    <3> SUFFICES ASSUME r # <<>>, written[Front(r)].kind = "dict", NEW i \in (x + 1)..(span[r].colon - 1)
                 PROVE  text'[i] \notin Structure \cup {":"}
      OBVIOUS
    <3>1. text[i] \notin Structure \cup {":"}
      BY <2>1, <2>3 DEF DeepOK
    <3>2. i \in 1..n
      BY <1>4, <2>2
    <3> QED BY <1>9, <3>1, <3>2
  <2> QED BY <1>4, <2>1, <2>3, <2>4, <2>8, <2>9, <2>10 DEF DeepOK, Nest
<1>22. ASSUME hole PROVE DeepOK(h)'
  <2>1. Len(h) = m
    <3>1. p \in Seq(TreeKeys) /\ Indexed(1) \in TreeKeys
      BY <1>10, KeyOf DEF Paths
    <3> QED BY <1>2, <1>10, <3>1, PathGrown
  <2>2. n \in 0..n
    BY <1>4
  <2>3. Len(Nest(n)') = m
    BY <1>2, <1>11, <1>12, <2>2
  <2>4. \A i \in (n + 1)..e : ~(i < n + 1)
    BY <1>4
  <2>5. Len(nest'[n + 1]) = m - 1 /\ n + 1 # 0
    BY <1>4, <1>7, <1>8, <1>11, <1>22
  <2>6. span'[Front(h)].last = n + 1 /\ written[Front(h)].kind # "dict"
    BY <1>6, <1>7, <1>22
  <2> QED BY <1>4, <1>7, <1>22, <2>1, <2>3, <2>4, <2>5, <2>6 DEF DeepOK, Nest
<1> QED BY <1>4, <1>17, <1>21, <1>22 DEF Nests

\* What is in a container that is closed is left behind before its end.
HeldOK(r) ==
    r # <<>> /\ span[Front(r)].last # 0 =>
        span[r].after # 0 /\ span[r].after <= span[Front(r)].last
Held == \A r \in Places : HeldOK(r)

\* A value that is added is held by its container.
LEMMA AddedHeld ==
  ASSUME WriterOK, Held, NEW q, NEW b, Added(q, b)
  PROVE  Held'
<1>1. PICK p, c : p = c.path /\ c = Last(calls)
  OBVIOUS
<1>2. /\ Places' = Places \cup {q} /\ Front(q) = p /\ p \in Places /\ span[p].last = 0
      /\ \A r \in Places : /\ span'[r].last = span[r].last
                           /\ r = <<>> \/ r # c.item => span'[r].after = span[r].after
      /\ c.item # <<>> => span[c.item].after = 0
  BY <1>1 DEF Added
<1>3. ASSUME NEW r \in Places PROVE HeldOK(r)'
  <2>1. HeldOK(r) /\ (r # <<>> => Front(r) \in Places)
    BY DEF Held, WriterOK, SpanOK, PlaceOK
  <2> QED BY <1>2, <2>1 DEF HeldOK
<1>4. HeldOK(q)'
  BY <1>2 DEF HeldOK
<1> QED BY <1>2, <1>3, <1>4 DEF Held

\* The end of a loop keeps what each container holds.
LEMMA ShutHeld ==
  ASSUME WriterOK, Held, IsTree(written), calls # <<>>, NEW e, Shut(e)
  PROVE  Held'
<1>1. PICK p, c, m, n, h, hole :
          /\ p = c.path /\ c = Last(calls) /\ m = Len(calls) /\ n = Len(text)
          /\ h = Append(p, Indexed(1)) /\ hole = (c.item = <<>> /\ written[c.path].kind = "array")
  OBVIOUS
<1>2. /\ Places' = Places \cup (IF hole THEN {h} ELSE {})
      /\ \A r \in Places : /\ r # p => span'[r].last = span[r].last
                           /\ r = <<>> \/ r # c.item => span'[r].after = span[r].after
      /\ span'[p].last = e
      /\ c.item # <<>> => span'[c.item].after = e /\ Front(c.item) = p
      /\ hole => Front(h) = p /\ span'[h].after = n + 1 /\ e = n + 1
      /\ n \in Nat /\ e \in {n + 1, n + 2}
  BY <1>1 DEF Shut
<1>3. ASSUME NEW r \in Places PROVE HeldOK(r)'
  <2>1. HeldOK(r) /\ (r # <<>> => Front(r) \in Places)
    BY DEF Held, WriterOK, SpanOK, PlaceOK
  <2>2. CASE r # <<>> /\ Front(r) = p
    <3>1. CASE r = c.item
      <4>1. e # 0 /\ e <= e
        BY <1>2
      <4> QED BY <1>2, <2>2, <3>1, <4>1 DEF HeldOK
    <3>2. CASE r # c.item
      <4>1. span[r].after # 0
        <5> SUFFICES ASSUME span[r].after = 0 PROVE FALSE
          OBVIOUS
        <5>1. Len(r) <= m - 1 /\ Len(r) \in Nat
          BY <1>1, <2>2, <3>2, Around DEF WriterOK
        <5>2. Len(p) = m - 1 /\ m \in Nat
          BY <1>1, TopFrame DEF WriterOK
        <5>3. r \in Seq(TreeKeys)
          BY PlacePaths DEF WriterOK, Paths
        <5>4. Len(Front(r)) = Len(r) - 1
          BY <2>2, <5>3, PathEnd
        <5> QED BY <2>2, <5>1, <5>2, <5>4
      <4>2. span[r].after <= n /\ span[r].after \in Nat
        <5>1. span[r].after <= n /\ span[r] \in Spans
          BY <1>1 DEF WriterOK, Frames, Histories
        <5> QED BY <5>1 DEF Spans
      <4>3. span[r].after <= e
        BY <1>2, <4>2
      <4> QED BY <1>2, <2>2, <3>2, <4>1, <4>3 DEF HeldOK
    <3> QED BY <3>1, <3>2
  <2>3. CASE r # <<>> /\ Front(r) # p
    <3>1. r # c.item
      BY <1>2, <2>3
    <3> QED BY <1>2, <2>1, <2>3, <3>1 DEF HeldOK
  <2>4. CASE r = <<>>
    BY <2>4 DEF HeldOK
  <2> QED BY <2>2, <2>3, <2>4
<1>4. hole => HeldOK(h)'
  <2>1. n + 1 # 0 /\ n + 1 <= n + 1
    BY <1>2
  <2> QED BY <1>2, <2>1 DEF HeldOK
<1> QED BY <1>2, <1>3, <1>4 DEF Held

-----------------------------------------------------------------------------
(* The whole text. *)

\* The step after which the whole text is there, with layout at its end or
\* without.
Finished(h) ==
    LET n == Len(text)
        s == span[<<>>]
    IN  /\ s.first = h + 1 /\ s.last = n /\ s.after = 0 /\ n \in Nat
        /\ text' \in Seq(Chars) /\ Len(text') = n + h
        /\ \A i \in 1..n : text'[i] = text[i]
        /\ h = 1 => text'[n + 1] = " "
        /\ nest' \in Seq(Seq(Chars)) /\ Len(nest') = n + h
        /\ \A i \in 1..n : nest'[i] = nest[i]
        /\ h = 1 => nest'[n + 1] = <<>>
        /\ Nest(n) = <<>>
        /\ Places' = Places
        /\ span'[<<>>] = [s EXCEPT !.after = n + 1]
        /\ \A r \in Places : r # <<>> => span'[r] = span[r]

\* WriteEnds is such a step.
LEMMA EndFinishes ==
  ASSUME WriterOK, WriteEnds
  PROVE  \E h \in {0, 1} : Finished(h)
<1> USE DEF WriterOK
<1>1. PICK n, s : n = Len(text) /\ s = span[<<>>]
  OBVIOUS
<1>2. /\ text \in Seq(Chars) /\ nest \in Seq(Seq(Chars)) /\ Len(nest) = n /\ <<>> \in Places
      /\ s \in Spans /\ s.first \in {1, 2}
  BY <1>1 DEF Histories, SpanOK
<1>17. \A i \in 1..(s.first - 1) : text[i] = " "
  BY <1>1 DEF SpanOK
<1>3. n \in Nat
  BY <1>1, <1>2
<1>4. s.last = n /\ s.after = 0 /\ Len(Nest(n)) = 0 /\ Nest(n) \in Seq(Chars)
  <2>1. calls = <<>>
    BY DEF WriteEnds
  <2>2. Len(Nest(n)) = Len(calls)
    BY <1>1 DEF Frames
  <2>3. Nest(n) \in Seq(Chars)
    BY <1>1, <1>3, BracketsIs
  <2> QED BY <1>1, <1>2, <2>1, <2>2, <2>3, NothingIs DEF Frames
<1>5. Nest(n) = <<>> /\ Brackets = <<>>
  <2>1. Nest(n) = <<>>
    BY <1>4
  <2> QED BY <1>1, <2>1, BracketsIs
<1>6. PICK h \in {0, 1} : s.first = h + 1
  <2>1. s.first = 0 + 1 \/ s.first = 1 + 1
    BY <1>2
  <2> QED BY <2>1
<1>7. h <= n
  <2>1. PlaceOK(<<>>)
    BY <1>2 DEF SpanOK
  <2>2. s.first <= n + 1
    BY <1>1, <2>1 DEF PlaceOK
  <2> QED BY <1>3, <1>6, <2>2
<1>8. PICK pad : pad = SubSeq(text, 1, h)
  OBVIOUS
<1>9. pad \in Seq(Chars) /\ Len(pad) = h /\ (h = 1 => pad[1] = text[1])
  <2>1. /\ SubSeq(text, 1, h) \in Seq(Chars) /\ Len(SubSeq(text, 1, h)) = h + 1 - 1
        /\ \A i \in 1..(h + 1 - 1) : SubSeq(text, 1, h)[i] = text[1 + i - 1]
    <3>1. h <= Len(text) /\ 1 <= h + 1 /\ h \in Nat
      BY <1>1, <1>7
    <3>2. h \in Nat /\ 1 \in Nat /\ 1 >= 1
      OBVIOUS
    <3> QED BY <1>2, <3>1, <3>2, SubIs
  <2>2. h + 1 - 1 = h
    OBVIOUS
  <2>3. h = 1 => 1 \in 1..(h + 1 - 1) /\ 1 + 1 - 1 = 1
    OBVIOUS
  <2> QED BY <1>8, <2>1, <2>2, <2>3
<1>10. h = 1 => pad[1] = " "
  <2>1. h = 1 => 1 \in 1..(s.first - 1)
    BY <1>6
  <2> QED BY <1>9, <1>17, <2>1
<1>11. PICK more : more = [i \in 1..h |-> <<>>]
  OBVIOUS
<1>12. more \in Seq(Seq(Chars)) /\ Len(more) = h /\ (h = 1 => more[1] = <<>>)
  <2>1. <<>> \in Seq(Chars)
    BY NothingIs
  <2>2. h = 1 => 1 \in 1..h
    OBVIOUS
  <2> QED BY <1>11, <2>1, <2>2
<1>13. /\ text' = text \o pad /\ nest' = nest \o more /\ span' = [span EXCEPT ![<<>>].after = n + 1]
  <2>1. (h + 1) - 1 = h
    OBVIOUS
  <2>2. SubSeq(text, 1, span[<<>>].first - 1) = pad
    BY <1>1, <1>6, <1>8, <2>1, SMTT(40)
  <2>3. text' = text \o pad /\ nest' = nest \o [i \in 1..Len(pad) |-> Brackets]
    BY <2>2 DEF WriteEnds
  <2>4. span' = [span EXCEPT ![<<>>].after = n + 1]
    BY <1>1 DEF WriteEnds
  <2> QED BY <1>5, <1>9, <1>11, <2>3, <2>4
<1>14. /\ text' \in Seq(Chars) /\ Len(text') = n + h
       /\ \A i \in 1..n : text'[i] = text[i]
       /\ h = 1 => text'[n + 1] = " "
  <2>1. /\ text \o pad \in Seq(Chars) /\ Len(text \o pad) = n + h
        /\ \A i \in 1..n : (text \o pad)[i] = text[i]
        /\ \A i \in 1..h : (text \o pad)[n + i] = pad[i]
    <3>1. pad \in Seq(Chars) /\ text \in Seq(Chars) /\ Len(pad) = h
      BY <1>2, <1>9
    <3> QED BY <1>1, <3>1, Cat
  <2>2. h = 1 => 1 \in 1..h
    OBVIOUS
  <2> QED BY <1>10, <1>13, <2>1, <2>2
<1>15. /\ nest' \in Seq(Seq(Chars)) /\ Len(nest') = n + h
       /\ \A i \in 1..n : nest'[i] = nest[i]
       /\ h = 1 => nest'[n + 1] = <<>>
  <2>1. /\ nest \o more \in Seq(Seq(Chars)) /\ Len(nest \o more) = n + h
        /\ \A i \in 1..n : (nest \o more)[i] = nest[i]
        /\ \A i \in 1..h : (nest \o more)[n + i] = more[i]
    <3>1. more \in Seq(Seq(Chars)) /\ nest \in Seq(Seq(Chars)) /\ Len(more) = h /\ Len(nest) = n
      BY <1>2, <1>12
    <3>2. /\ nest \o more \in Seq(Seq(Chars)) /\ Len(nest \o more) = Len(nest) + Len(more)
          /\ \A i \in 1..Len(nest) : (nest \o more)[i] = nest[i]
          /\ \A i \in 1..Len(more) : (nest \o more)[Len(nest) + i] = more[i]
      BY <3>1, Cat
    <3> QED BY <3>1, <3>2
  <2>2. h = 1 => 1 \in 1..h
    OBVIOUS
  <2> QED BY <1>12, <1>13, <2>1, <2>2
<1>16. /\ Places' = Places /\ span'[<<>>] = [s EXCEPT !.after = n + 1]
       /\ \A r \in Places : r # <<>> => span'[r] = span[r]
  BY <1>1, <1>2, <1>13 DEF Places
<1> QED BY <1>1, <1>3, <1>4, <1>5, <1>6, <1>14, <1>15, <1>16 DEF Finished

\* The text when all of it is there.
Laid ==
    /\ Histories /\ SpanOK /\ Order /\ Chain /\ Texts /\ Held
    /\ Rooted => Nests
    /\ Places = DOMAIN written \cup Holes(written)
    /\ \A q \in Places : span[q].after # 0 /\ (q # <<>> => span[q].after <= Len(text))
    /\ \A q \in Places : span[q].before < span[<<>>].after
    /\ span[<<>>].after = span[<<>>].last + 1
    /\ Len(text) = span[<<>>].last + span[<<>>].first - 1
    /\ Blanks(text, span[<<>>].after, Len(text))

\* When no loop is left, all values have been written.
LEMMA AllPlaced ==
  ASSUME WriterOK, IsTree(written), calls = <<>>
  PROVE  Places = DOMAIN written \cup Holes(written)
<1> USE DEF WriterOK
<1>1. \A q \in Places : ~Open(q)
  <2>1. 1..Len(<<>>) = {}
    BY NothingIs
  <2> QED BY <2>1 DEF Frames
<1>2. \A q \in Places : Inside(q) => Inner(written, q) \subseteq Places
  BY <1>1 DEF Chain, Linked
<1>3. DOMAIN written \subseteq Paths /\ \A q \in DOMAIN written : q # <<>> => HasParent(written, q)
  BY DEF IsTree, Grove
<1> DEFINE P(i) == \A q \in DOMAIN written : Len(q) = i => q \in Places
<1>4. P(0)
  <2> SUFFICES ASSUME NEW q \in DOMAIN written, Len(q) = 0 PROVE q \in Places
    OBVIOUS
  <2>1. q \in Seq(TreeKeys)
    BY <1>3 DEF Paths
  <2>2. q = <<>>
    BY <2>1
  <2> QED BY <2>2 DEF SpanOK
<1>5. ASSUME NEW i \in Nat, P(i) PROVE P(i + 1)
  <2> SUFFICES ASSUME NEW q \in DOMAIN written, Len(q) = i + 1 PROVE q \in Places
    OBVIOUS
  <2>1. q \in Seq(TreeKeys) /\ q # <<>>
    <3>1. q \in Seq(TreeKeys)
      BY <1>3 DEF Paths
    <3>2. q # <<>>
      BY NothingIs
    <3> QED BY <3>1, <3>2
  <2>2. Len(Front(q)) = Len(q) - 1
    BY <2>1, PathEnd
  <2>3. Front(q) \in DOMAIN written /\ written[Front(q)].kind \in Containers
    BY <1>3, <2>1 DEF HasParent
  <2>4. Len(Front(q)) = i
    BY <2>2
  <2>5. Front(q) \in Places
    BY <1>5, <2>3, <2>4
  <2>6. Inside(Front(q)) /\ q \in Inner(written, Front(q))
    BY <2>1, <2>3 DEF Inside, Inner
  <2> QED BY <1>2, <2>5, <2>6
<1>6. \A i \in Nat : P(i)
  <2> DEFINE S == {i \in Nat : P(i)}
  <2> HIDE DEF P
  <2>1. 0 \in S /\ \A i \in Nat : i \in S => i + 1 \in S
    BY <1>4, <1>5
  <2> HIDE DEF S
  <2>2. Nat \subseteq S
    BY <2>1, NatInduct
  <2> QED BY <2>2 DEF S
<1>7. DOMAIN written \subseteq Places
  <2> SUFFICES ASSUME NEW q \in DOMAIN written PROVE q \in Places
    OBVIOUS
  <2>1. Len(q) \in Nat
    <3>1. q \in Seq(TreeKeys)
      BY <1>3 DEF Paths
    <3> QED BY <3>1
  <2> QED BY <1>6, <2>1
<1>8. ASSUME NEW q \in Holes(written) PROVE q \in Places
  <2>1. PICK p \in DOMAIN written : q = Append(p, Indexed(1)) /\ written[p].kind = "array" /\ Inner(written, p) = {}
    BY DEF Holes
  <2>2. p \in Places /\ Inside(p)
    BY <1>7, <2>1 DEF Inside, Containers
  <2> QED BY <1>1, <2>1, <2>2 DEF Chain, Linked
<1> QED BY <1>7, <1>8 DEF SpanOK

\* The text that is all there is still the text of the values.
LEMMA FinishedPlaces ==
  ASSUME WriterOK, IsTree(written), calls = <<>>, written' = written, NEW h \in {0, 1}, Finished(h)
  PROVE  Histories' /\ SpanOK' /\ Order' /\ Chain' /\ Texts'
<1> USE DEF WriterOK
<1>1. PICK n, s, t : n = Len(text) /\ s = span[<<>>] /\ t = n + h
  OBVIOUS
<1>2. /\ s.first = h + 1 /\ s.last = n /\ s.after = 0 /\ n \in Nat
      /\ Places' = Places /\ <<>> \in Places
      /\ span'[<<>>] = [s EXCEPT !.after = n + 1]
      /\ \A r \in Places : r # <<>> => span'[r] = span[r]
  BY <1>1 DEF Finished, SpanOK
<1>3. /\ text' \in Seq(Chars) /\ Len(text') = t
      /\ nest' \in Seq(Seq(Chars)) /\ Len(nest') = t
      /\ \A i \in 1..n : text'[i] = text[i]
  BY <1>1 DEF Finished
<1>4. s \in Spans
  BY <1>1, <1>2 DEF Histories
<1>5. n \in Nat /\ t \in Nat /\ n <= t
  BY <1>1, <1>2
<1>6. /\ span'[<<>>] \in Spans
      /\ span'[<<>>].before = s.before /\ span'[<<>>].beg = s.beg /\ span'[<<>>].colon = s.colon
      /\ span'[<<>>].first = s.first /\ span'[<<>>].last = s.last /\ span'[<<>>].after = n + 1
  BY <1>2, <1>4, <1>5 DEF Spans
<1>7. \A r \in Places : /\ span'[r].before = span[r].before /\ span'[r].beg = span[r].beg
                        /\ span'[r].colon = span[r].colon /\ span'[r].first = span[r].first
                        /\ span'[r].last = span[r].last
                        /\ span[r].after # 0 => span'[r].after = span[r].after
                        /\ r # <<>> => span'[r].after = span[r].after
  BY <1>1, <1>2, <1>6
<1>8. Histories'
  BY <1>2, <1>3, <1>6 DEF Histories
<1>9. /\ \A r : Inside(r)' <=> Inside(r)
      /\ \A r \in Places : Open(r)' <=> Open(r)
  <2>1. \A r : Inside(r)' <=> Inside(r)
    BY DEF Inside
  <2> QED BY <1>7, <2>1 DEF Open
<1>10. \A r \in Places : ~Open(r)
  <2>1. 1..Len(<<>>) = {}
    BY NothingIs
  <2> QED BY <2>1 DEF Frames
<1>11. ASSUME NEW r \in Places PROVE PlaceOK(r)'
  <2>1. PlaceOK(r) /\ span[r] \in Spans
    BY DEF SpanOK, Histories
  <2>2. /\ span[r].first <= n + 1 => span[r].first <= t + 1
        /\ span[r].last <= n => span[r].last <= t
        /\ span[r].first <= n => span[r].first <= t
    <3>1. span[r].first \in Nat /\ span[r].last \in Nat
      BY <2>1 DEF Spans
    <3> QED BY <1>5, <3>1
  <2>3. span'[r].after # 0 => span'[r].last < span'[r].after /\ ~Open(r)'
    <3>1. CASE r = <<>>
      <4>1. n < n + 1
        BY <1>5
      <4> QED BY <1>2, <1>6, <1>9, <1>10, <3>1, <4>1
    <3>2. CASE r # <<>>
      BY <1>7, <1>9, <1>10, <2>1, <3>2 DEF PlaceOK
    <3> QED BY <3>1, <3>2
  <2>4. r # <<>> => Front(r) \in Places' /\ Inside(Front(r))'
    BY <1>2, <1>9, <2>1 DEF PlaceOK
  <2> QED BY <1>1, <1>3, <1>7, <1>9, <2>1, <2>2, <2>3, <2>4 DEF PlaceOK
<1>12. SpanOK'
  <2>1. /\ Places \subseteq DOMAIN written \cup Holes(written)
        /\ span[<<>>].before = 0 /\ span[<<>>].first \in {1, 2}
    BY DEF SpanOK
  <2>2. \A i \in 1..(span[<<>>].first - 1) : text[i] = " "
    BY DEF SpanOK
  <2>3. s.first <= n + 1 /\ s.first \in Nat
    BY <1>1, <1>2, <1>4 DEF SpanOK, PlaceOK, Spans
  <2>4. \A i \in 1..(s.first - 1) : i \in 1..n
    BY <1>5, <2>3
  <2> QED BY <1>1, <1>2, <1>3, <1>6, <1>11, <2>1, <2>2, <2>4, ZenonT(60) DEF SpanOK
<1>13. Order'
  <2> SUFFICES ASSUME NEW q \in Places, NEW r \in Places PROVE Apart(q, r)'
    BY <1>2 DEF Order
  <2>1. Apart(q, r)
    BY DEF Order
  <2> QED BY <1>7, <1>9, <2>1 DEF Apart
<1>14. Chain'
  <2> SUFFICES ASSUME NEW q \in Places PROVE Linked(q)'
    BY <1>2 DEF Chain
  <2>1. Linked(q)
    BY DEF Chain
  <2>2. q # <<>> => Front(q) \in Places
    BY DEF SpanOK, PlaceOK
  <2>3. \A p : Subs(p)' = Subs(p)
    BY <1>2 DEF Subs
  <2>4. \A p, r, i : Starts(p, r, i)' <=> Starts(p, r, i)
    BY <2>3 DEF Starts
  <2>5. q # <<>> /\ span'[q].after # 0 =>
           \/ span'[q].after = span'[Front(q)].last
           \/ \E r \in Places' : Starts(Front(q), r, Last(q).at + 1)' /\ span'[r].before = span'[q].after
    BY <1>2, <1>7, <2>1, <2>2, <2>4 DEF Linked
  <2>6. Inside(q)' /\ Subs(q)' # {} => \E r \in Places' : Starts(q, r, 1)' /\ span'[r].before = span'[q].first
    BY <1>2, <1>7, <1>9, <2>1, <2>3, <2>4 DEF Linked
  <2>7. Inside(q)' /\ ~Open(q)' =>
           /\ Inner(written, q) \subseteq Places'
           /\ written[q].kind = "array" /\ Inner(written, q) = {} => Append(q, Indexed(1)) \in Places'
    BY <1>2, <1>9, <2>1 DEF Linked
  <2> QED BY <2>5, <2>6, <2>7 DEF Linked
<1>15. Texts'
  <2> SUFFICES ASSUME NEW r \in Places PROVE TextOK(r)'
    BY <1>2 DEF Texts
  <2>1. TextOK(r)
    BY DEF Texts
  <2>2. span'[r].after # 0 => Blanks(text', span'[r].last + 1, span'[r].after - 1)
    <3>1. CASE r = <<>>
      <4>1. \A i : i \notin (n + 1)..((n + 1) - 1)
        BY <1>5
      <4>2. span'[r].last = n /\ span'[r].after = n + 1
        BY <1>2, <1>6, <3>1
      <4> QED BY <4>1, <4>2 DEF Blanks
    <3>2. CASE r # <<>>
      <4>1. span[r].after # 0 => Blanks(text, span[r].last + 1, span[r].after - 1)
        BY <2>1 DEF TextOK
      <4>2. span[r].after <= n /\ span[r] \in Spans
        BY <1>1 DEF Frames, Histories
      <4>3. \A i \in (span[r].last + 1)..(span[r].after - 1) : i \in 1..n
        <5>1. span[r].after \in Nat /\ span[r].last \in Nat
          BY <4>2 DEF Spans
        <5> QED BY <1>5, <4>2, <5>1
      <4> QED BY <1>3, <1>7, <3>2, <4>1, <4>3 DEF Blanks
    <3> QED BY <3>1, <3>2
  <2> QED BY <1>1, <1>3, <1>7, <2>1, <2>2, TextKept
<1> QED BY <1>8, <1>12, <1>13, <1>14, <1>15

\* The end of the text keeps the depths.
LEMMA FinishedNests ==
  ASSUME WriterOK, Nests, IsTree(written), calls = <<>>, written' = written, NEW h \in {0, 1}, Finished(h)
  PROVE  Nests'
<1> USE DEF WriterOK
<1>1. PICK n, s, t : n = Len(text) /\ s = span[<<>>] /\ t = n + h
  OBVIOUS
<1>2. /\ s.after = 0 /\ n \in Nat
      /\ Places' = Places /\ <<>> \in Places
      /\ span'[<<>>] = [s EXCEPT !.after = n + 1]
      /\ \A r \in Places : r # <<>> => span'[r] = span[r]
      /\ s \in Spans
  BY <1>1 DEF Finished, SpanOK, Histories
<1>3. /\ text' \in Seq(Chars) /\ Len(text') = t
      /\ nest' \in Seq(Seq(Chars)) /\ Len(nest') = t
      /\ \A i \in 1..n : text'[i] = text[i]
      /\ \A i \in 1..n : nest'[i] = nest[i]
      /\ h = 1 => nest'[n + 1] = <<>>
      /\ Nest(n) = <<>>
  BY <1>1 DEF Finished
<1>4. h = 1 => text'[n + 1] = " "
  BY <1>1 DEF Finished
<1>5. n \in Nat /\ t \in Nat /\ n <= t
  BY <1>1, <1>2
<1>6. \A i \in 1..t : i \in 1..n \/ (h = 1 /\ i = n + 1)
  BY <1>1, <1>5
<1>7. \A i \in 0..n : Nest(i)' = Nest(i)
  BY <1>3, <1>5, NestKept
<1>8. \A r \in Places : /\ span'[r].before = span[r].before
                        /\ span'[r].colon = span[r].colon /\ span'[r].last = span[r].last
                        /\ r # <<>> => span'[r].after = span[r].after
  BY <1>1, <1>2, SMTT(40) DEF Spans
<1>9. Matched'
  <2> SUFFICES ASSUME NEW i \in 1..t
               PROVE  /\ nest'[i] = StackAfter(text'[i], Nest(i - 1)')
                      /\ Closes(text'[i]) => Nest(i - 1)' # <<>> /\ Last(Nest(i - 1)') = Opener(text'[i])
    BY <1>3 DEF Matched, Nest
  <2>1. CASE i \in 1..n
    <3>1. i - 1 \in 0..n
      BY <1>5, <2>1
    <3>2. /\ nest[i] = StackAfter(text[i], Nest(i - 1))
          /\ Closes(text[i]) => Nest(i - 1) # <<>> /\ Last(Nest(i - 1)) = Opener(text[i])
      BY <1>1, <2>1 DEF Nests, Matched
    <3> QED BY <1>3, <1>7, <2>1, <3>1, <3>2
  <2>2. CASE h = 1 /\ i = n + 1
    <3>1. i - 1 = n /\ n \in 0..n
      BY <1>5, <2>2
    <3>2. Nest(i - 1)' = <<>>
      BY <1>3, <1>7, <3>1
    <3>3. ~Closes(" ") /\ StackAfter(" ", <<>>) = <<>>
      BY MarksAre
    <3> QED BY <1>3, <1>4, <2>2, <3>2, <3>3
  <2> QED BY <1>6, <2>1, <2>2
<1>10. ASSUME NEW r \in Places PROVE DeepOK(r)'
  <2>1. PICK x, a, k : x = span[r].before /\ a = span'[r].after /\ k = Len(r)
    OBVIOUS
  <2>2. /\ x \in Nat /\ span[r].colon \in Nat /\ span[r].colon <= n /\ x <= n
        /\ span[r].after \in Nat /\ span[r].after <= n
    <3>1. span[r] \in Spans /\ PlaceOK(r) /\ span[r].after <= n
      BY <1>1 DEF Histories, SpanOK, Frames
    <3>2. x <= span[r].colon /\ span[r].colon < span[r].first /\ span[r].first <= n + 1
      BY <1>1, <2>1, <3>1 DEF PlaceOK
    <3>3. x \in Nat /\ span[r].colon \in Nat /\ span[r].first \in Nat /\ span[r].after \in Nat
      BY <2>1, <3>1 DEF Spans
    <3> QED BY <1>5, <3>1, <3>2, <3>3
  <2>3. DeepOK(r) /\ span'[r].before = x /\ span'[r].colon = span[r].colon
    BY <1>8, <2>1 DEF Nests
  <2>4. Len(Nest(x)') = k
    <3>1. Len(Nest(x)) = k
      BY <2>1, <2>3 DEF DeepOK
    <3>2. x \in 0..n
      BY <1>5, <2>2
    <3> QED BY <1>7, <3>1, <3>2
  <2>5. r = <<>> => a = n + 1 /\ span[r].after = 0 /\ k = 0
    <3>1. r = <<>> => a = n + 1
      BY <1>2, <2>1 DEF Spans
    <3> QED BY <1>1, <1>2, <2>1, <3>1, NothingIs
  <2>6. r # <<>> => a = span[r].after /\ a # 0
    <3>1. r # <<>> => span[r].after # 0
      <4>1. 1..Len(<<>>) = {}
        BY NothingIs
      <4> QED BY <4>1 DEF Frames
    <3> QED BY <1>8, <2>1, <3>1
  <2>7. ASSUME NEW i \in (x + 1)..t, a = 0 \/ i < a
        PROVE  Len(nest'[i]) >= k /\ (text'[i] = "," => Len(nest'[i]) > k)
    <3>1. i \in (x + 1)..n /\ i \in 1..n
      BY <1>5, <2>2, <2>5, <2>6, <2>7
    <3>2. span[r].after = 0 \/ i < span[r].after
      BY <2>5, <2>6, <2>7
    <3>3. Len(nest[i]) >= k /\ (text[i] = "," => Len(nest[i]) > k)
      BY <1>1, <2>1, <2>3, <3>1, <3>2 DEF DeepOK
    <3> QED BY <1>3, <3>1, <3>3
  <2>8. r # <<>> /\ a # 0 =>
           IF a = span'[Front(r)].last THEN Len(nest'[a]) = k - 1
           ELSE text'[a] = "," /\ Len(nest'[a]) = k
    <3> SUFFICES ASSUME r # <<>>, a # 0
                 PROVE  IF a = span'[Front(r)].last THEN Len(nest'[a]) = k - 1
                        ELSE text'[a] = "," /\ Len(nest'[a]) = k
      OBVIOUS
    <3>1. a = span[r].after /\ a \in 1..n
      BY <1>5, <2>2, <2>6
    <3>2. Front(r) \in Places
      BY DEF SpanOK, PlaceOK
    <3>3. IF a = span[Front(r)].last THEN Len(nest[a]) = k - 1
          ELSE text[a] = "," /\ Len(nest[a]) = k
      BY <2>1, <2>3, <3>1 DEF DeepOK
    <3> QED BY <1>3, <1>8, <3>1, <3>2, <3>3
  <2>9. r # <<>> /\ written[Front(r)].kind = "dict" =>
            \A i \in (x + 1)..(span[r].colon - 1) : text'[i] \notin Structure \cup {":"}
    <3> SUFFICES ASSUME r # <<>>, written[Front(r)].kind = "dict", NEW i \in (x + 1)..(span[r].colon - 1)
                 PROVE  text'[i] \notin Structure \cup {":"}
      OBVIOUS
    <3>1. text[i] \notin Structure \cup {":"}
      BY <2>1, <2>3 DEF DeepOK
    <3>2. i \in 1..n
      BY <1>5, <2>2, SMTT(40)
    <3> QED BY <1>3, <3>1, <3>2
  <2> QED BY <1>3, <2>1, <2>3, <2>4, <2>7, <2>8, <2>9 DEF DeepOK, Nest
<1> QED BY <1>2, <1>9, <1>10 DEF Nests

\* The writer leaves such a text.
LEMMA EndLays ==
  ASSUME WriterOK, Rooted => Nests, Held, IsTree(written), WriteEnds
  PROVE  Laid'
<1>1. PICK h \in {0, 1} : Finished(h)
  BY EndFinishes
<1>2. written' = written /\ calls = <<>>
  BY DEF WriteEnds
<1>3. Histories' /\ SpanOK' /\ Order' /\ Chain' /\ Texts'
  BY <1>1, <1>2, FinishedPlaces
<1>4. Rooted' => Nests'
  <2>1. Rooted' => Rooted
    BY <1>2 DEF Rooted
  <2> QED BY <1>1, <1>2, <2>1, FinishedNests
<1>5. PICK n, s : n = Len(text) /\ s = span[<<>>]
  OBVIOUS
<1>6. /\ s.first = h + 1 /\ s.last = n /\ s.after = 0 /\ n \in Nat /\ Len(text') = n + h
      /\ Places' = Places /\ <<>> \in Places /\ s \in Spans
      /\ span'[<<>>] = [s EXCEPT !.after = n + 1]
      /\ \A r \in Places : r # <<>> => span'[r] = span[r]
  BY <1>1, <1>5 DEF Finished, WriterOK, SpanOK, Histories
<1>7. span'[<<>>].first = h + 1 /\ span'[<<>>].last = n /\ span'[<<>>].after = n + 1
  BY <1>6 DEF Spans
<1>8. Places' = DOMAIN written' \cup Holes(written')
  BY <1>2, <1>6, AllPlaced
<1>9. \A q \in Places' : span'[q].after # 0 /\ (q # <<>> => span'[q].after <= Len(text'))
  <2> SUFFICES ASSUME NEW q \in Places PROVE span'[q].after # 0 /\ (q # <<>> => span'[q].after <= n + h)
    BY <1>6
  <2>1. CASE q = <<>>
    <3>1. n \in Nat
      BY <1>6
    <3>2. n + 1 # 0
      BY <3>1
    <3> QED BY <1>7, <2>1, <3>2
  <2>2. CASE q # <<>>
    <3>1. 1..Len(<<>>) = {}
      BY NothingIs
    <3>2. span[q].after # 0 /\ span[q].after <= n /\ span[q] \in Spans
      BY <1>2, <1>5, <2>2, <3>1 DEF WriterOK, Frames, Histories
    <3>3. span[q].after \in Nat
      BY <3>2 DEF Spans
    <3> QED BY <1>6, <2>2, <3>2, <3>3
  <2> QED BY <2>1, <2>2
<1>10. Len(text') = span'[<<>>].last + span'[<<>>].first - 1
  BY <1>6, <1>7
<1>11. Blanks(text', span'[<<>>].after, Len(text'))
  <2>1. \A i \in (n + 1)..(n + h) : h = 1 /\ i = n + 1
    BY <1>6
  <2>2. h = 1 => text'[n + 1] = " "
    BY <1>1, <1>5 DEF Finished
  <2> QED BY <1>6, <1>7, <2>1, <2>2 DEF Blanks
<1>12. Held'
  <2> SUFFICES ASSUME NEW q \in Places PROVE HeldOK(q)'
    BY <1>6 DEF Held
  <2>1. HeldOK(q) /\ (q # <<>> => Front(q) \in Places)
    BY DEF Held, WriterOK, SpanOK, PlaceOK
  <2>2. \A r \in Places : span'[r].last = span[r].last
    BY <1>5, <1>6, <1>7
  <2> QED BY <1>6, <2>1, <2>2 DEF HeldOK
<1>13. \A q \in Places' : span'[q].before < span'[<<>>].after
  <2> SUFFICES ASSUME NEW q \in Places PROVE span'[q].before < n + 1
    BY <1>6, <1>7
  <2>1. span'[q].before = span[q].before
    BY <1>5, <1>6 DEF Spans
  <2>2. PlaceOK(q) /\ span[q] \in Spans
    BY DEF WriterOK, SpanOK, Histories
  <2>3. span[q].before <= span[q].colon /\ span[q].colon < span[q].first /\ span[q].first <= n + 1
    BY <1>5, <2>2 DEF PlaceOK
  <2>4. span[q].before \in Nat /\ span[q].colon \in Nat /\ span[q].first \in Nat
    BY <2>2 DEF Spans
  <2> QED BY <1>6, <2>1, <2>3, <2>4
<1> QED BY <1>3, <1>4, <1>7, <1>8, <1>9, <1>10, <1>11, <1>12, <1>13 DEF Laid

-----------------------------------------------------------------------------
(* Levels and layout. *)

\* The level of the k-th loop, while Pretty's type has it.
LevelOK(k) ==
    IF pretty THEN k <= Highest => calls[k].level = k
    ELSE Lowest + k - 1 <= Highest => calls[k].level = Lowest + k - 1
\* The levels of all loops.
Levels == \A k \in 1..Len(calls) : LevelOK(k)

Deeper(n) == \E p \in DOMAIN written : Len(p) >= n
Tight(q) ==
    q # <<>> => /\ span[q].beg = span[q].before + 1 /\ span[q].first = span[q].colon + 1
                /\ span[q].after \in {0, span[q].last + 1}
\* From this level on the counter of the blanks wraps round before it ends.
Limit == Highest \div Indent + 1

\* DepthLimits in these terms.
LEMMA DepthIs ==
  DepthLimits <=> /\ step = "loops" => Deeper(IF pretty THEN Limit ELSE Limit + 1 - Lowest)
                  /\ ~pretty /\ ~Deeper(1 - Lowest) => \A q \in Places : Tight(q)
BY DEF DepthLimits, Deeper, Tight, Limit, Places

\* Highest and Lowest are opposite, and the indented levels are some of those.
LEMMA Bounds ==
  /\ Highest \in Nat /\ Lowest \in Int /\ Lowest = -Highest - 1
  /\ Limit \in Int /\ Limit >= 1 /\ Limit <= Highest + 1 /\ Highest \div Indent \in Int
<1>1. Highest \in Nat /\ Indent \in Nat /\ Indent >= 1
  <2>1. Highest \in Nat /\ Indent \in Nat \ {0}
    BY JsonAssumption
  <2> QED BY <2>1
<1>2. Lowest = -Highest - 1 /\ Lowest \in Int
  BY <1>1 DEF Lowest
<1>3. Highest \div Indent \in Int /\ Highest \div Indent >= 0 /\ Highest \div Indent <= Highest
  BY <1>1
<1> QED BY <1>1, <1>2, <1>3 DEF Limit

\* Blanks that do not end are beyond the limit of the counter.
LEMMA Indents ==
  ASSUME NEW level \in Int, ~IndentEnds(level)
  PROVE  level >= Limit
<1>1. Highest \div Indent \in Int
  BY Bounds
<1> QED BY <1>1 DEF IndentEnds, Limit

\* A level is the depth of its loop, unless it has wrapped round.
LEMMA BeganLevels ==
  ASSUME NEW h \in {0, 1}, Began(h)
  PROVE  Levels'
<1>1. PICK v : v = written'
  OBVIOUS
<1>2. pretty' \in BOOLEAN
  BY DEF Began
<1>3. CASE v[<<>>].kind \in Containers
  <2>1. PICK f : f = [path |-> <<>>, level |-> FirstLevel(pretty'), item |-> <<>>]
    OBVIOUS
  <2>2. calls' = <<f>>
    BY <1>1, <1>3, <2>1 DEF Began
  <2>3. Len(calls') = 1 /\ calls'[1].level = FirstLevel(pretty')
    BY <2>1, <2>2
  <2>4. \A k \in 1..Len(calls') : k = 1
    BY <2>3
  <2>5. FirstLevel(TRUE) = 1 /\ FirstLevel(FALSE) = Lowest
    BY DEF FirstLevel
  <2>6. Lowest + 1 - 1 = Lowest
    BY Bounds
  <2> QED BY <1>2, <2>3, <2>4, <2>5, <2>6 DEF Levels, LevelOK
<1>4. CASE v[<<>>].kind \notin Containers
  <2>1. calls' = <<>>
    BY <1>1, <1>4 DEF Began
  <2>2. 1..Len(calls') = {}
    BY <2>1, NothingIs
  <2> QED BY <2>2 DEF Levels
<1> QED BY <1>3, <1>4

\* A value that is written keeps the levels of the loops.
LEMMA WroteLevels ==
  ASSUME WriterOK, Levels, calls # <<>>, pretty \in BOOLEAN, pretty' = pretty,
         NEW q, NEW g \in {0, 1}, Wrote(q, g)
  PROVE  Levels'
<1>1. PICK m, c : m = Len(calls) /\ c = Last(calls)
  OBVIOUS
<1>2. /\ m \in Nat /\ m >= 1 /\ c = calls[m] /\ c \in WFrames /\ c.level \in Int
  BY <1>1, TopFrame DEF WriterOK
<1>10. /\ Len(calls') = (IF written[q].kind \in Containers THEN m + 1 ELSE m)
       /\ \A k \in 1..(m - 1) : calls'[k] = calls[k]
       /\ calls'[m] = [c EXCEPT !.item = q]
       /\ written[q].kind \in Containers =>
              calls'[m + 1] = [path |-> q, level |-> NextLevel(c.level), item |-> <<>>]
  BY <1>1 DEF Wrote
<1>3. /\ Len(calls') = m + 1 \/ Len(calls') = m
      /\ \A k \in 1..(m - 1) : calls'[k] = calls[k]
      /\ calls'[m] = [c EXCEPT !.item = q]
      /\ Len(calls') # m => calls'[m + 1].level = NextLevel(c.level)
  <2>1. CASE written[q].kind \in Containers
    BY <1>10, <2>1
  <2>2. CASE written[q].kind \notin Containers
    BY <1>10, <2>2
  <2> QED BY <2>1, <2>2
<1>4. calls'[m].level = c.level
  BY <1>2, <1>3 DEF WFrames
<1>5. m \in 1..m
  BY <1>2
<1>6. IF pretty THEN m <= Highest => c.level = m
      ELSE Lowest + m - 1 <= Highest => c.level = Lowest + m - 1
  BY <1>1, <1>2, <1>5 DEF Levels, LevelOK
<1>7. \A k \in 1..m : LevelOK(k)'
  <2> SUFFICES ASSUME NEW k \in 1..m PROVE LevelOK(k)'
    OBVIOUS
  <2>1. calls'[k].level = calls[k].level
    <3>1. k \in 1..(m - 1) \/ k = m
      BY <1>2
    <3> QED BY <1>2, <1>3, <1>4, <3>1
  <2>2. LevelOK(k)
    BY <1>1 DEF Levels
  <2> QED BY <2>1, <2>2 DEF LevelOK
<1>8. Len(calls') # m => LevelOK(m + 1)'
  <2> SUFFICES ASSUME Len(calls') # m PROVE LevelOK(m + 1)'
    OBVIOUS
  <2>1. calls'[m + 1].level = IF c.level = Highest THEN Lowest ELSE c.level + 1
    BY <1>3 DEF NextLevel
  <2>2. CASE pretty
    <3>1. m + 1 <= Highest => c.level = m /\ c.level # Highest
      BY <1>2, <1>6, <2>2, Bounds
    <3> QED BY <2>1, <2>2, <3>1 DEF LevelOK
  <2>3. CASE ~pretty
    <3>1. Lowest + (m + 1) - 1 <= Highest => c.level = Lowest + m - 1 /\ c.level # Highest
      BY <1>2, <1>6, <2>3, Bounds
    <3>2. (Lowest + m - 1) + 1 = Lowest + (m + 1) - 1
      BY <1>2, Bounds
    <3> QED BY <2>1, <2>3, <3>1, <3>2 DEF LevelOK
  <2> QED BY <2>2, <2>3
<1>9. \A k \in 1..Len(calls') : k \in 1..m \/ (k = m + 1 /\ Len(calls') # m)
  BY <1>2, <1>3
<1> QED BY <1>7, <1>8, <1>9 DEF Levels

\* The end of a loop keeps the levels of the others.
LEMMA ClosedLevels ==
  ASSUME WriterOK, Levels, calls # <<>>, pretty' = pretty, NEW g \in {0, 1}, Closed(g)
  PROVE  Levels'
<1>1. PICK m : m = Len(calls)
  OBVIOUS
<1>2. m \in Nat /\ m >= 1
  BY <1>1, TopFrame DEF WriterOK
<1>3. Len(calls') = m - 1 /\ \A k \in 1..(m - 1) : calls'[k] = calls[k]
  BY <1>1 DEF Closed
<1>4. ASSUME NEW k \in 1..(m - 1) PROVE LevelOK(k)'
  <2>1. k \in 1..m
    BY <1>2
  <2>2. LevelOK(k)
    BY <1>1, <2>1 DEF Levels
  <2> QED BY <1>3, <2>2 DEF LevelOK
<1> QED BY <1>3, <1>4 DEF Levels

\* Compact output of a tree that is not too deep has no layout.
LEMMA NoLayout ==
  ASSUME WriterOK, Levels, IsTree(written), calls # <<>>, ~pretty, ~Deeper(1 - Lowest),
         NEW q \in DOMAIN written, Len(q) = Len(calls)
  PROVE  Len(Layout(Last(calls).level)) = 0
<1>1. PICK m, c : m = Len(calls) /\ c = Last(calls)
  OBVIOUS
<1>2. m \in Nat /\ m >= 1 /\ c = calls[m] /\ m \in 1..m
  <2>1. m \in Nat /\ m >= 1 /\ c = calls[m]
    BY <1>1, TopFrame DEF WriterOK
  <2> QED BY <2>1
<1>3. ~(m >= 1 - Lowest)
  BY <1>1 DEF Deeper
<1>4. Lowest + m - 1 <= Highest => c.level = Lowest + m - 1
  BY <1>1, <1>2 DEF Levels, LevelOK
<1>5. c.level < 0
  <2>1. Highest \in Nat /\ Lowest = -Highest - 1
    BY Bounds
  <2> QED BY <1>2, <1>3, <1>4, <2>1
<1> QED BY <1>1, <1>5, LayoutIs

\* So there is no layout around what is written, either.
LEMMA WroteTight ==
  ASSUME WriterOK, Levels, IsTree(written), calls # <<>>, ~pretty, ~Deeper(1 - Lowest), written' = written,
         \A r \in Places : Tight(r), NEW q, NEW g \in {0, 1}, Wrote(q, g)
  PROVE  \A r \in Places' : Tight(r)'
<1> USE DEF WriterOK
<1>1. PICK c, n, m, b : /\ c = Last(calls) /\ n = Len(text) /\ m = Len(calls)
                        /\ b = IF c.item = <<>> THEN n ELSE n + 1
  OBVIOUS
<1>2. Added(q, b)
  BY <1>1, WroteAdds
<1>3. /\ Places' = Places \cup {q} /\ q \notin Places /\ q \in DOMAIN written /\ q # <<>> /\ Front(q) = c.path
      /\ n \in Nat /\ (c.item = <<>> <=> b = n) /\ b \in {n, n + 1}
      /\ \A r \in Places :
            /\ span'[r].before = span[r].before /\ span'[r].beg = span[r].beg
            /\ span'[r].colon = span[r].colon /\ span'[r].first = span[r].first
            /\ span'[r].last = span[r].last
            /\ r = <<>> \/ r # c.item => span'[r].after = span[r].after
      /\ c.item # <<>> => span'[c.item].after = b /\ span[c.item].last = n
      /\ span'[q].after = 0
  BY <1>1, <1>2 DEF Added
<1>4. Len(q) = m
  <2>1. q \in Seq(TreeKeys)
    BY <1>3 DEF IsTree, Grove, Paths
  <2>2. Len(Front(q)) = Len(q) - 1 /\ Len(q) \in Nat
    BY <1>3, <2>1, PathEnd
  <2>3. Len(c.path) = m - 1 /\ m \in Nat
    BY <1>1, TopFrame
  <2> QED BY <1>3, <2>2, <2>3
<1>5. g = 0
  BY <1>1, <1>3, <1>4, NoLayout DEF Wrote
<1>6. /\ span'[q].before = b /\ span'[q].beg = b + g + 1 /\ span'[q].first = span'[q].colon + g + 1
      /\ span'[q] \in Spans
  BY <1>1 DEF Wrote
<1>7. Tight(q)'
  <2>1. span'[q].colon \in Nat
    BY <1>6 DEF Spans
  <2>2. b + 0 + 1 = b + 1 /\ span'[q].colon + 0 + 1 = span'[q].colon + 1
    BY <1>3, <2>1
  <2> QED BY <1>3, <1>5, <1>6, <2>2 DEF Tight
<1>8. ASSUME NEW r \in Places PROVE Tight(r)'
  <2>1. Tight(r)
    OBVIOUS
  <2>2. CASE r = c.item /\ r # <<>>
    <3>1. b = n + 1
      BY <1>3, <2>2
    <3> QED BY <1>3, <2>1, <2>2, <3>1 DEF Tight
  <2>3. CASE ~(r = c.item /\ r # <<>>)
    BY <1>3, <2>1, <2>3 DEF Tight
  <2> QED BY <2>2, <2>3
<1> QED BY <1>3, <1>7, <1>8

\* Where compact output has no layout, closing a loop adds none.
LEMMA ClosedTight ==
  ASSUME WriterOK, Levels, IsTree(written), calls # <<>>, ~pretty, ~Deeper(1 - Lowest), written' = written,
         \A r \in Places : Tight(r), NEW g \in {0, 1}, Closed(g)
  PROVE  \A r \in Places' : Tight(r)'
<1> USE DEF WriterOK
<1>1. PICK c, n, m, p, e : /\ c = Last(calls) /\ n = Len(text) /\ m = Len(calls) /\ p = c.path /\ e = n + g + 1
  OBVIOUS
<1>2. PICK hole, h : h = Append(p, Indexed(1)) /\ hole = (c.item = <<>> /\ written[c.path].kind = "array")
  OBVIOUS
<1>3. Shut(e)
  BY <1>1, ClosedShuts
<1>4. /\ Places' = Places \cup (IF hole THEN {h} ELSE {})
      /\ n \in Nat /\ span[p].after = 0 /\ p \in Places
      /\ \A r \in Places :
            /\ span'[r].before = span[r].before /\ span'[r].beg = span[r].beg
            /\ span'[r].colon = span[r].colon /\ span'[r].first = span[r].first
            /\ r # p => span'[r].last = span[r].last
            /\ r = <<>> \/ r # c.item => span'[r].after = span[r].after
      /\ c.item # <<>> => span'[c.item].after = e /\ span[c.item].last = n /\ c.item # p
  BY <1>1, <1>2, <1>3 DEF Shut
<1>5. hole => span'[h] = [before |-> n, beg |-> n + 1, colon |-> n, first |-> n + 1, last |-> n, after |-> n + 1]
  BY <1>1, <1>2 DEF Closed
<1>6. hole => Tight(h)'
  BY <1>5 DEF Tight
<1>7. c.item # <<>> => g = 0
  <2> SUFFICES ASSUME c.item # <<>> PROVE g = 0
    OBVIOUS
  <2>1. c.item \in DOMAIN written /\ Len(c.item) = m
    BY <1>1, TopFrame
  <2>2. Len(Layout(c.level)) = 0
    BY <1>1, <2>1, NoLayout
  <2> QED BY <1>1, <2>2 DEF Closed
<1>8. ASSUME NEW r \in Places PROVE Tight(r)'
  <2>1. Tight(r)
    OBVIOUS
  <2>2. CASE r = c.item /\ r # <<>>
    <3>1. e = n + 1
      BY <1>1, <1>4, <1>7, <2>2
    <3> QED BY <1>4, <2>1, <2>2, <3>1 DEF Tight
  <2>3. CASE ~(r = c.item /\ r # <<>>)
    <3>1. span'[r].after = span[r].after
      BY <1>4, <2>3
    <3>2. r = p => span'[r].after = 0
      BY <1>4, <3>1
    <3>3. r # p => span'[r].last = span[r].last
      BY <1>4
    <3> QED BY <1>4, <2>1, <3>1, <3>2, <3>3 DEF Tight
  <2> QED BY <2>2, <2>3
<1> QED BY <1>4, <1>6, <1>8

\* The loop that indents does not end.
LEMMA LoopsDeep ==
  ASSUME WriterOK, Levels, IsTree(written), pretty \in BOOLEAN, WriteItem, step' # "writing"
  PROVE  /\ UNCHANGED <<text, nest, span, calls, written, pretty>> /\ step' = "loops"
         /\ Deeper(IF pretty THEN Limit ELSE Limit + 1 - Lowest)
<1> USE DEF WriterOK
<1>1. PICK m, c : m = Len(calls) /\ c = Last(calls)
  OBVIOUS
<1>2. calls # <<>> /\ UNCHANGED <<written, pretty>>
  BY DEF WriteItem
<1>3. PICK q \in Inner(written, c.path) : ~IndentEnds(c.level) /\ step' = "loops" /\ UNCHANGED <<text, nest, span, calls>>
  BY <1>1 DEF WriteItem
<1>4. /\ m \in Nat /\ m >= 1 /\ c = calls[m] /\ Len(c.path) = m - 1 /\ c.level \in Int
  BY <1>1, <1>2, TopFrame
<1>5. q \in DOMAIN written /\ q # <<>> /\ Front(q) = c.path
  BY DEF Inner
<1>6. Len(q) = m
  <2>1. q \in Seq(TreeKeys)
    BY <1>5 DEF IsTree, Grove, Paths
  <2>2. Len(Front(q)) = Len(q) - 1 /\ Len(q) \in Nat
    BY <1>5, <2>1, PathEnd
  <2> QED BY <1>4, <1>5, <2>2
<1>7. m \in 1..m
  BY <1>4
<1>8. IF pretty THEN m <= Highest => c.level = m
      ELSE Lowest + m - 1 <= Highest => c.level = Lowest + m - 1
  BY <1>1, <1>4, <1>7 DEF Levels, LevelOK
<1>9. c.level >= Limit
  BY <1>3, <1>4, Indents
<1>10. m >= IF pretty THEN Limit ELSE Limit + 1 - Lowest
  <2>1. Highest \in Nat /\ Lowest \in Int /\ Limit \in Int /\ Limit <= Highest + 1
    BY Bounds
  <2>2. CASE pretty
    BY <1>4, <1>8, <1>9, <2>1, <2>2
  <2>3. CASE ~pretty
    BY <1>4, <1>8, <1>9, <2>1, <2>3
  <2> QED BY <2>2, <2>3
<1> QED BY <1>2, <1>3, <1>5, <1>6, <1>10 DEF Deeper

-----------------------------------------------------------------------------
(* The writer, step by step. *)

\* The writer: what is written, how deep, and at which levels.
WriterAll == WriterOK /\ Held /\ Levels /\ (Rooted => Nests)

\* DepthLimits is about what is written only.
LEMMA DepthKept ==
  ASSUME UNCHANGED <<written, pretty>>, DepthLimits, step' # "loops",
         ~pretty /\ ~Deeper(1 - Lowest) /\ (\A q \in Places : Tight(q)) => \A q \in Places' : Tight(q)'
  PROVE  DepthLimits'
<1>1. ~pretty /\ ~Deeper(1 - Lowest) => \A q \in Places : Tight(q)
  BY DepthIs
<1>2. pretty' = pretty /\ written' = written
  OBVIOUS
<1> QED BY <1>1, <1>2 DEF DepthLimits, Deeper, Tight, Places

\* The steps of the writer keep that, until its text is laid.
LEMMA WriteStep ==
  ASSUME Typed, Blank, NEW x \in Holders, NEW p \in BOOLEAN, Write(x, p)
  PROVE  step' = "writing" /\ IsTree(written') /\ pretty' \in BOOLEAN /\ WriterAll' /\ DepthLimits'
         /\ \E y \in Holders : written' = tree[y]
<1>1. PICK h \in {0, 1} : Began(h)
  BY WriteBegan
<1>2. step' = "writing" /\ pretty' \in BOOLEAN /\ \E y \in Holders : written' = tree[y]
  BY <1>1 DEF Began
<1>3. IsTree(written')
  BY <1>2 DEF Typed
<1>4. WriterOK' /\ Levels' /\ (Rooted' => Nests')
  BY <1>1, <1>3, BeganOK, BeganLevels, BeganNests
<1>5. Places' = {<<>>}
  <2>1. DOMAIN span' = {<<>>}
    BY <1>1 DEF Began
  <2> QED BY <2>1 DEF Places
<1>6. Held'
  BY <1>5 DEF Held, HeldOK
<1>7. DepthLimits'
  BY <1>2, <1>5 DEF DepthLimits, Places
<1> QED BY <1>2, <1>3, <1>4, <1>6, <1>7 DEF WriterAll

\* A step that writes an item keeps that.
LEMMA ItemStep ==
  ASSUME IsTree(written), pretty \in BOOLEAN, WriterAll, DepthLimits, WriteItem
  PROVE  /\ UNCHANGED <<written, pretty>> /\ DepthLimits' /\ step' \in {"writing", "loops"}
         /\ step' = "writing" => WriterAll'
<1> USE DEF WriterAll
<1>1. step = "writing" /\ calls # <<>> /\ written' = written /\ pretty' = pretty
  BY DEF WriteItem
<1>2. CASE step' # "writing"
  <2>1. /\ UNCHANGED <<text, nest, span, calls, written, pretty>> /\ step' = "loops"
        /\ Deeper(IF pretty THEN Limit ELSE Limit + 1 - Lowest)
    BY <1>2, LoopsDeep DEF WriterOK
  <2>2. /\ span' = span /\ written' = written /\ pretty' = pretty
        /\ ~pretty /\ ~Deeper(1 - Lowest) => \A q \in Places : Tight(q)
    BY <2>1, DepthIs
  <2>3. DepthLimits'
    BY <2>1, <2>2 DEF DepthLimits, Deeper, Tight, Places, Limit
  <2> QED BY <1>1, <1>2, <2>1, <2>3
<1>3. CASE step' = "writing"
  <2>1. PICK q \in Inner(written, Last(calls).path) \ Places, g \in {0, 1} : Wrote(q, g)
    BY <1>3, ItemWrote DEF WriterOK
  <2>2. PICK b : Added(q, b)
    BY <1>1, <2>1, WroteAdds DEF WriterOK
  <2>3. \A i \in 1..Len(text) : text'[i] = text[i]
    BY <2>1 DEF Wrote
  <2>4. Histories' /\ Frames' /\ Texts'
    BY <1>1, <2>1, WroteFrames, WroteTexts DEF WriterOK
  <2>5. SpanOK' /\ Order' /\ Chain'
    BY <1>1, <2>2, <2>3, AddedSpanOK, AddedOrder, AddedChain DEF WriterOK
  <2>6. Held' /\ Levels'
    BY <1>1, <2>1, <2>2, AddedHeld, WroteLevels
  <2>7. Rooted' => Nests'
    <3>1. Rooted' => Rooted
      BY <1>1 DEF Rooted
    <3> QED BY <1>1, <2>1, <3>1, WroteNests
  <2>8. DepthLimits'
    <3>1. ~pretty /\ ~Deeper(1 - Lowest) /\ (\A r \in Places : Tight(r)) => \A r \in Places' : Tight(r)'
      BY <1>1, <2>1, WroteTight
    <3> QED BY <1>1, <1>3, <3>1, DepthKept
  <2> QED BY <1>1, <1>3, <2>4, <2>5, <2>6, <2>7, <2>8 DEF WriterOK
<1> QED BY <1>2, <1>3

\* A step that closes a container keeps that.
LEMMA CloseStep ==
  ASSUME IsTree(written), WriterAll, DepthLimits, WriteClose
  PROVE  UNCHANGED <<written, pretty>> /\ DepthLimits' /\ step' = "writing" /\ WriterAll'
<1> USE DEF WriterAll
<1>1. step = "writing" /\ calls # <<>> /\ written' = written /\ pretty' = pretty /\ step' = "writing"
  BY DEF WriteClose
<1>2. PICK g \in {0, 1} : Closed(g)
  BY CloseDone DEF WriterOK
<1>3. PICK e : Shut(e)
  BY <1>1, <1>2, ClosedShuts DEF WriterOK
<1>4. \A i \in 1..Len(text) : text'[i] = text[i]
  BY <1>2 DEF Closed
<1>5. Histories' /\ Frames' /\ Texts'
  BY <1>1, <1>2, ClosedFrames, ClosedTexts DEF WriterOK
<1>6. SpanOK' /\ Order' /\ Chain'
  BY <1>1, <1>3, <1>4, ShutSpanOK, ShutOrder, ShutChain DEF WriterOK
<1>7. Held' /\ Levels'
  BY <1>1, <1>2, <1>3, ShutHeld, ClosedLevels
<1>8. Rooted' => Nests'
  <2>1. Rooted' => Rooted
    BY <1>1 DEF Rooted
  <2> QED BY <1>1, <1>2, <2>1, ClosedNests
<1>9. DepthLimits'
  <2>1. ~pretty /\ ~Deeper(1 - Lowest) /\ (\A r \in Places : Tight(r)) => \A r \in Places' : Tight(r)'
    BY <1>1, <1>2, ClosedTight
  <2>2. step' # "loops"
    BY <1>1
  <2> QED BY <1>1, <2>1, <2>2, DepthKept
<1> QED BY <1>1, <1>5, <1>6, <1>7, <1>8, <1>9 DEF WriterOK

\* The last step of the writer leaves the text laid.
LEMMA EndStep ==
  ASSUME IsTree(written), WriterAll, DepthLimits, WriteEnds
  PROVE  UNCHANGED <<written, pretty>> /\ DepthLimits' /\ step' = "written" /\ Laid'
<1> USE DEF WriterAll
<1>1. written' = written /\ pretty' = pretty /\ step' = "written"
  BY DEF WriteEnds
<1>2. Laid'
  BY EndLays
<1>3. PICK h \in {0, 1} : Finished(h)
  BY EndFinishes
<1>4. Places' = Places /\ \A r \in Places : r # <<>> => span'[r] = span[r]
  BY <1>3 DEF Finished
<1>5. (\A r \in Places : Tight(r)) => \A r \in Places' : Tight(r)'
  BY <1>4 DEF Tight
<1>6. DepthLimits'
  BY <1>1, <1>5, DepthKept
<1> QED BY <1>1, <1>2, <1>6

=============================================================================
