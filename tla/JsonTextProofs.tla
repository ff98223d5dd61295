--------------------------- MODULE JsonTextProofs ---------------------------
(***************************************************************************)
(* Proofs about the second half of JsonText, and its theorems: what is     *)
(* written of a tree is read back, layout ends and stays out where it      *)
(* should, and copies meet no hole.  JsonWriterProofs says what the text   *)
(* is; once it is all there, BuildJsonHelper has made at each place of it  *)
(* the values that begin before that place.                                *)
(***************************************************************************)
EXTENDS JsonWriterProofs

(* What reading the text makes of it. *)

\* The reader is given the text of a legible tree.
Reading == Laid /\ IsTree(written) /\ Legible(written)

\* The place that is not layout is the one NextChar and PrevChar find.
LEMMA NextCharOne ==
  ASSUME text \in Seq(Chars), NEW first \in Nat, first <= Len(text), NEW last \in Int,
         NEW q \in (first + 1)..(Len(text) + 1), ~IsSpace(q) \/ q >= last,
         \A r \in (first + 1)..(q - 1) : IsSpace(r) /\ r < last
  PROVE  NextChar(first, last) = q
<1>1. PICK u, n : u = NextChar(first, last) /\ n = Len(text)
  OBVIOUS
<1>2. /\ u \in (first + 1)..(n + 1) /\ (~IsSpace(u) \/ u >= last)
      /\ \A r \in (first + 1)..(u - 1) : IsSpace(r) /\ r < last
  BY <1>1, NextCharIs
<1>3. n \in Nat
  BY <1>1
<1>4. u \in Int /\ q \in Int /\ u >= first + 1 /\ q >= first + 1
  BY <1>1, <1>2, <1>3
<1>5. ~(u < q)
  <2> SUFFICES ASSUME u < q PROVE FALSE
    OBVIOUS
  <2>1. u \in (first + 1)..(q - 1)
    BY <1>4
  <2> QED BY <1>2, <1>4, <2>1
<1>6. ~(q < u)
  <2> SUFFICES ASSUME q < u PROVE FALSE
    OBVIOUS
  <2>1. q \in (first + 1)..(u - 1)
    BY <1>4
  <2> QED BY <1>2, <1>4, <2>1
<1> QED BY <1>1, <1>4, <1>5, <1>6

\* The place that is not layout is the one PrevChar finds, from the other side.
LEMMA PrevCharOne ==
  ASSUME text \in Seq(Chars), NEW last \in Nat, last >= 1, NEW first \in Int,
         NEW q \in 0..(last - 1), ~IsSpace(q) \/ q <= first,
         \A r \in (q + 1)..(last - 1) : IsSpace(r) /\ r > first
  PROVE  PrevChar(first, last) = q
<1>1. PICK u : u = PrevChar(first, last)
  OBVIOUS
<1>2. /\ u \in 0..(last - 1) /\ (~IsSpace(u) \/ u <= first)
      /\ \A r \in (u + 1)..(last - 1) : IsSpace(r) /\ r > first
  BY <1>1, PrevCharIs
<1>4. u \in Int /\ q \in Int /\ u <= last - 1 /\ q <= last - 1
  BY <1>2
<1>5. ~(q < u)
  <2> SUFFICES ASSUME q < u PROVE FALSE
    OBVIOUS
  <2>1. u \in (q + 1)..(last - 1)
    BY <1>4
  <2> QED BY <1>2, <1>4, <2>1
<1>6. ~(u < q)
  <2> SUFFICES ASSUME u < q PROVE FALSE
    OBVIOUS
  <2>1. q \in (u + 1)..(last - 1)
    BY <1>4
  <2> QED BY <1>2, <1>4, <2>1
<1> QED BY <1>1, <1>4, <1>5, <1>6

\* Layout is a blank in the text.
LEMMA SpaceIs ==
  ASSUME text \in Seq(Chars), NEW p \in Int
  PROVE  IsSpace(p) <=> 1 <= p /\ p <= Len(text) /\ text[p] = " "
<1>1. p \in DOMAIN text <=> 1 <= p /\ p <= Len(text)
  OBVIOUS
<1> QED BY <1>1 DEF IsSpace

\* Only a container has values in it.
LEMMA RootIs ==
  ASSUME NEW v, IsTree(v), NEW q \in DOMAIN v, q # <<>>
  PROVE  v[<<>>].kind \in Containers
<1> DEFINE P(i) == \A r \in DOMAIN v : Len(r) = i + 1 => v[<<>>].kind \in Containers
<1>1. ASSUME NEW r \in DOMAIN v, r # <<>>
      PROVE  /\ Len(r) \in Nat /\ Len(r) >= 1 /\ Front(r) \in DOMAIN v /\ Len(Front(r)) = Len(r) - 1
             /\ v[Front(r)].kind \in Containers /\ Front(r) \in Seq(TreeKeys)
  <2>1. r \in Seq(TreeKeys)
    BY DEF IsTree, Grove, Paths
  <2>2. Len(Front(r)) = Len(r) - 1 /\ Len(r) \in Nat /\ Len(r) >= 1 /\ Front(r) \in Seq(TreeKeys)
    BY <1>1, <2>1, PathEnd
  <2>3. Front(r) \in DOMAIN v /\ v[Front(r)].kind \in Containers
    BY <1>1 DEF IsTree, Grove, HasParent
  <2> QED BY <2>2, <2>3
<1>2. P(0)
  <2> SUFFICES ASSUME NEW r \in DOMAIN v, Len(r) = 0 + 1 PROVE v[<<>>].kind \in Containers
    OBVIOUS
  <2>1. r # <<>>
    BY NothingIs
  <2>4. Len(Front(r)) = Len(r) - 1 /\ Front(r) \in Seq(TreeKeys)
    BY <1>1, <2>1
  <2>2. Len(Front(r)) = 0
    BY <2>4
  <2>3. Front(r) = <<>>
    BY <2>2, <2>4
  <2> QED BY <1>1, <2>1, <2>3
<1>3. ASSUME NEW i \in Nat, P(i) PROVE P(i + 1)
  <2> SUFFICES ASSUME NEW r \in DOMAIN v, Len(r) = (i + 1) + 1 PROVE v[<<>>].kind \in Containers
    OBVIOUS
  <2>1. r # <<>>
    BY NothingIs
  <2>2. Front(r) \in DOMAIN v /\ Len(Front(r)) = Len(r) - 1
    BY <1>1, <2>1
  <2>3. Len(Front(r)) = i + 1
    BY <2>2
  <2> QED BY <1>3, <2>2, <2>3
<1>4. \A i \in Nat : P(i)
  <2> DEFINE S == {i \in Nat : P(i)}
  <2> HIDE DEF P
  <2>1. 0 \in S /\ \A i \in Nat : i \in S => i + 1 \in S
    BY <1>2, <1>3
  <2> HIDE DEF S
  <2>2. Nat \subseteq S
    BY <2>1, NatInduct
  <2> QED BY <2>2 DEF S
<1>5. PICK i : i = Len(q) - 1
  OBVIOUS
<1>6. i \in Nat /\ Len(q) = i + 1
  BY <1>1, <1>5
<1> QED BY <1>4, <1>6

\* Where there is a loop, the text begins with a bracket.
LEMMA RootedIs ==
  ASSUME Reading, NEW q, Inside(q)
  PROVE  Rooted /\ Nests
<1>1. q \in DOMAIN written /\ written[q].kind \in Containers
  BY DEF Inside
<1>2. written[<<>>].kind \in Containers
  BY <1>1, RootIs DEF Reading
<1> QED BY <1>2 DEF Reading, Rooted, Laid

\* The places are numbers in order.
LEMMA PlaceNumbers ==
  ASSUME Laid, NEW q \in Places
  PROVE  LET s == span[q]
         IN  /\ s \in Spans /\ s.before \in Nat /\ s.beg \in Nat /\ s.colon \in Nat /\ s.first \in Nat
             /\ s.last \in Nat /\ s.after \in Nat /\ Len(text) \in Nat
             /\ s.before <= s.colon /\ s.colon < s.first /\ s.first <= s.last + 1 /\ s.last < s.after
             /\ s.last <= Len(text) /\ s.after <= Len(text) + 1 /\ s.after # 0 /\ s.before < s.after
             /\ ~Open(q)
             /\ q # <<>> => /\ Front(q) \in Places /\ Inside(Front(q)) /\ s.after <= span[Front(q)].last
                            /\ s.after <= Len(text)
<1>1. PICK s, n : s = span[q] /\ n = Len(text)
  OBVIOUS
<1>2. PlaceOK(q) /\ s \in Spans /\ s.after # 0 /\ (q # <<>> => s.after <= n)
  BY <1>1 DEF Laid, SpanOK, Histories
<1>3. ~Open(q) /\ s.last < s.after
  BY <1>1, <1>2 DEF PlaceOK
<1>4. n \in Nat
  BY <1>1 DEF Laid, Histories
<1>5. /\ s.before \in Nat /\ s.beg \in Nat /\ s.colon \in Nat /\ s.first \in Nat
      /\ s.last \in Nat /\ s.after \in Nat
  BY <1>2 DEF Spans
<1>6. /\ s.before <= s.colon /\ s.colon < s.first /\ s.first <= s.last + 1 /\ s.last <= n
  BY <1>1, <1>2, <1>3 DEF PlaceOK
<1>7. q # <<>> => Front(q) \in Places /\ Inside(Front(q))
  BY <1>2 DEF PlaceOK
<1>8. q # <<>> => s.after <= span[Front(q)].last
  <2> SUFFICES ASSUME q # <<>> PROVE s.after <= span[Front(q)].last
    OBVIOUS
  <2>1. PlaceOK(Front(q)) /\ span[Front(q)].after # 0 /\ Inside(Front(q))
    BY <1>7 DEF Laid, SpanOK
  <2>2. span[Front(q)].last # 0
    BY <2>1 DEF PlaceOK, Open
  <2>3. HeldOK(q)
    BY DEF Laid, Held
  <2> QED BY <1>1, <2>2, <2>3 DEF HeldOK
<1>9. s.after <= n + 1
  <2>1. CASE q # <<>>
    BY <1>2, <1>4, <1>5, <2>1
  <2>2. CASE q = <<>>
    <3>1. s.after = s.last + 1
      BY <1>1, <2>2 DEF Laid
    <3> QED BY <1>4, <1>5, <1>6, <3>1
  <2> QED BY <2>1, <2>2
<1>10. s.before < s.after
  BY <1>3, <1>5, <1>6
<1> QED BY <1>1, <1>2, <1>3, <1>4, <1>5, <1>6, <1>7, <1>8, <1>9, <1>10

\* What reading makes of the value at q.
LEMMA ReadAs ==
  ASSUME Reading, NEW q \in Places
  PROVE  /\ q \in DOMAIN AsRead(written) /\ AsRead(written)[q] \in Nodes
         /\ q \notin DOMAIN written => AsRead(written)[q] = Node("undefined", <<>>)
         /\ q \in DOMAIN written =>
               LET o == Opening(written[q])
               IN  AsRead(written)[q] =
                       IF written[q].kind # "scalar" THEN written[q]
                       ELSE IF Len(o) = 1 THEN Node("undefined", <<>>) ELSE Node("scalar", o)
         /\ Inside(q) => AsRead(written)[q] = written[q]
<1>1. DOMAIN AsRead(written) = DOMAIN written \cup Holes(written)
  BY DEF AsRead
<1>2. Places = DOMAIN written \cup Holes(written)
  BY DEF Reading, Laid
<1>3. \A r \in Holes(written) : r \notin DOMAIN written
  <2> SUFFICES ASSUME NEW r \in Holes(written), r \in DOMAIN written PROVE FALSE
    OBVIOUS
  <2>1. PICK p \in DOMAIN written : r = Append(p, Indexed(1)) /\ Inner(written, p) = {}
    BY DEF Holes
  <2>2. p \in Seq(TreeKeys) /\ Indexed(1) \in TreeKeys
    BY KeyOf DEF Reading, IsTree, Grove, Paths
  <2>3. r # <<>> /\ Front(r) = p
    BY <2>1, <2>2, PathGrown
  <2>4. r \in Inner(written, p)
    BY <2>3 DEF Inner
  <2> QED BY <2>1, <2>4
<1>4. q \notin DOMAIN written => AsRead(written)[q] = Node("undefined", <<>>)
  BY <1>1, <1>2 DEF AsRead
<1>5. q \in DOMAIN written => AsRead(written)[q] = NodeAsRead(written[q])
  BY <1>1, <1>2, <1>3 DEF AsRead
<1>6. q \in DOMAIN written => NodeOK(written[q])
  BY DEF Reading, IsTree, Grove
<1>7. q \in DOMAIN written =>
          LET o == Opening(written[q])
          IN  AsRead(written)[q] =
                  IF written[q].kind # "scalar" THEN written[q]
                  ELSE IF Len(o) = 1 THEN Node("undefined", <<>>) ELSE Node("scalar", o)
  <2> SUFFICES ASSUME q \in DOMAIN written
               PROVE  LET o == Opening(written[q])
                      IN  AsRead(written)[q] =
                              IF written[q].kind # "scalar" THEN written[q]
                              ELSE IF Len(o) = 1 THEN Node("undefined", <<>>) ELSE Node("scalar", o)
    OBVIOUS
  <2>1. CASE written[q].kind # "scalar"
    BY <1>5, <2>1 DEF NodeAsRead
  <2>2. CASE written[q].kind = "scalar"
    <3>1. Opening(written[q]) = Printed(written[q].chars)
      BY <1>6, <2>2, OpeningIs
    <3> QED BY <1>5, <2>2, <3>1 DEF NodeAsRead
  <2> QED BY <2>1, <2>2
<1>8. Inside(q) => AsRead(written)[q] = written[q]
  BY <1>7 DEF Inside, Containers
<1>9. AsRead(written)[q] \in Nodes
  <2>1. Node("undefined", <<>>) \in Nodes
    BY NodeIs DEF NodeOK
  <2>2. q \in DOMAIN written => written[q] \in Nodes /\ Opening(written[q]) \in Seq(Chars)
    BY <1>6, OpeningIs DEF NodeOK
  <2>3. \A o \in Seq(Chars) : Node("scalar", o) \in Nodes
    BY DEF Node, Nodes, Kinds
  <2> QED BY <1>4, <1>7, <2>1, <2>2, <2>3
<1> QED BY <1>1, <1>2, <1>4, <1>7, <1>8, <1>9

\* What reading makes of the values that begin before a place of the text.
Cutoff(x) == [r \in {r \in Places : span[r].before < x} |-> AsRead(written)[r]]

\* b with a value at p.
Grown(b, p, node) == [q \in DOMAIN b \cup {p} |-> IF q = p THEN node ELSE b[q]]

\* The next value is the one value that begins there.
LEMMA CutoffGrown ==
  ASSUME Reading, NEW q \in Places, NEW x \in Nat, span[q].before < x,
         \A r \in Places : span[r].before <= span[q].before \/ span[r].before >= x
  PROVE  /\ q \notin DOMAIN Cutoff(span[q].before)
         /\ Cutoff(x) = Grown(Cutoff(span[q].before), q, AsRead(written)[q])
<1>1. \A r \in Places : span[r].before \in Nat
  BY DEF Reading, Laid, Histories, Spans
<1>2. \A r \in Places : r # q => span[r].before # span[q].before
  BY DEF Reading, Laid, Order, Apart
<1>3. \A r \in Places : span[r].before < x <=> span[r].before < span[q].before \/ r = q
  BY <1>1, <1>2
<1>4. DOMAIN Cutoff(span[q].before) = {r \in Places : span[r].before < span[q].before}
  BY DEF Cutoff
<1>5. q \notin DOMAIN Cutoff(span[q].before)
  BY <1>1, <1>4
<1>6. {r \in Places : span[r].before < x} = DOMAIN Cutoff(span[q].before) \cup {q}
  BY <1>3, <1>4
<1>7. \A r \in DOMAIN Cutoff(span[q].before) : Cutoff(span[q].before)[r] = AsRead(written)[r]
  BY DEF Cutoff
<1>8. Cutoff(x) = [r \in DOMAIN Cutoff(span[q].before) \cup {q} |-> AsRead(written)[r]]
  BY <1>6 DEF Cutoff
<1>9. [r \in DOMAIN Cutoff(span[q].before) \cup {q} |-> AsRead(written)[r]] =
      [r \in DOMAIN Cutoff(span[q].before) \cup {q} |->
          IF r = q THEN AsRead(written)[q] ELSE Cutoff(span[q].before)[r]]
  BY <1>7
<1> QED BY <1>5, <1>8, <1>9 DEF Grown

\* What reading a value, or entering a container, adds.
LEMMA CutoffNext ==
  ASSUME Reading, NEW q \in Places
  PROVE  /\ q \notin DOMAIN Cutoff(span[q].before)
         /\ ~Inside(q) => Cutoff(span[q].after) = Grown(Cutoff(span[q].before), q, AsRead(written)[q])
         /\ Inside(q) => /\ Cutoff(span[q].first) = Grown(Cutoff(span[q].before), q, AsRead(written)[q])
                         /\ Cutoff(span[q].last) = Cutoff(span[q].after)
<1>1. /\ span[q].before \in Nat /\ span[q].first \in Nat /\ span[q].after \in Nat /\ span[q].last \in Nat
      /\ span[q].before < span[q].first /\ span[q].before < span[q].after
      /\ span[q].after # 0 /\ span[q].last < span[q].after /\ ~Open(q)
  BY PlaceNumbers, SMTT(40) DEF Reading
<1>2. \A r \in Places : Apart(q, r)
  BY DEF Reading, Laid, Order
<1>3. \A r \in Places : span[r].before \in Nat
  BY DEF Reading, Laid, Histories, Spans
<1>4. CASE ~Inside(q)
  <2>1. \A r \in Places : span[r].before <= span[q].before \/ span[r].before >= span[q].after
    BY <1>2, <1>4 DEF Apart
  <2> QED BY <1>1, <1>4, <2>1, CutoffGrown
<1>5. CASE Inside(q)
  <2>1. \A r \in Places : span[r].before <= span[q].before \/ span[r].before >= span[q].first
    BY <1>2, <1>5 DEF Apart
  <2>2. span[q].last # 0
    BY <1>1, <1>5 DEF Open
  <2>3. \A r \in Places : span[r].before < span[q].last \/ span[r].before >= span[q].after
    BY <1>2, <1>5, <2>2 DEF Apart
  <2>4. \A r \in Places : span[r].before < span[q].last <=> span[r].before < span[q].after
    BY <1>1, <1>3, <2>3
  <2>5. {r \in Places : span[r].before < span[q].last} = {r \in Places : span[r].before < span[q].after}
    BY <2>4
  <2>6. Cutoff(span[q].last) = Cutoff(span[q].after)
    BY <2>5 DEF Cutoff
  <2> QED BY <1>1, <1>5, <2>1, <2>6, CutoffGrown
<1> QED BY <1>4, <1>5

\* The whole text gives the whole tree.
LEMMA CutoffAll ==
  ASSUME Reading
  PROVE  Cutoff(span[<<>>].after) = AsRead(written) /\ Cutoff(0) = <<>>
<1>1. Places = DOMAIN written \cup Holes(written)
  BY DEF Reading, Laid
<1>2. {r \in Places : span[r].before < span[<<>>].after} = Places
  BY DEF Reading, Laid
<1>3. Cutoff(span[<<>>].after) = [r \in Places |-> AsRead(written)[r]]
  BY <1>2 DEF Cutoff
<1>4. AsRead(written) = [r \in Places |-> AsRead(written)[r]]
  BY <1>1 DEF AsRead
<1>5. \A r \in Places : span[r].before \in Nat
  BY DEF Reading, Laid, Histories, Spans
<1>6. {r \in Places : span[r].before < 0} = {}
  BY <1>5
<1>7. Cutoff(0) = [r \in {} |-> AsRead(written)[r]]
  BY <1>6 DEF Cutoff
<1>8. <<>> = [r \in {} |-> AsRead(written)[r]]
  BY NothingIs
<1> QED BY <1>3, <1>4, <1>7, <1>8

\* A tree with a value has those around it.
LEMMA WithPrefix ==
  ASSUME NEW v, Grove(v), NEW q \in DOMAIN v, NEW p \in Paths, IsPrefix(p, q)
  PROVE  p \in DOMAIN v
<1> DEFINE P(i) == \A r \in DOMAIN v : Len(r) = Len(p) + i /\ IsPrefix(p, r) => p \in DOMAIN v
<1>1. ASSUME NEW r \in DOMAIN v
      PROVE  r \in Seq(TreeKeys) /\ Len(r) \in Nat /\ Len(p) \in Nat
  BY DEF Grove, Paths
<1>2. P(0)
  <2> SUFFICES ASSUME NEW r \in DOMAIN v, Len(r) = Len(p) + 0, IsPrefix(p, r) PROVE p \in DOMAIN v
    OBVIOUS
  <2>1. p \in Seq(TreeKeys) /\ Len(p) = Len(r)
    BY <1>1 DEF Paths
  <2>2. \A i \in 1..Len(p) : p[i] = r[i]
    BY <1>1, <2>1, PrefixIs
  <2>3. p = r
    BY <1>1, <2>1, <2>2, SamePath
  <2> QED BY <2>3
<1>3. ASSUME NEW i \in Nat, P(i) PROVE P(i + 1)
  <2> SUFFICES ASSUME NEW r \in DOMAIN v, Len(r) = Len(p) + (i + 1), IsPrefix(p, r) PROVE p \in DOMAIN v
    OBVIOUS
  <2>1. r \in Seq(TreeKeys) /\ Len(r) \in Nat /\ Len(p) \in Nat /\ p \in Seq(TreeKeys)
    BY <1>1 DEF Paths
  <2>2. r # <<>> /\ p # r
    BY <2>1, NothingIs
  <2>3. IsPrefix(p, Front(r)) /\ Len(Front(r)) = Len(r) - 1
    BY <2>1, <2>2, PrefixOfFront, PathEnd
  <2>4. Front(r) \in DOMAIN v
    BY <2>2 DEF Grove, HasParent
  <2>5. Len(Front(r)) = Len(p) + i
    BY <2>1, <2>3
  <2> QED BY <1>3, <2>3, <2>4, <2>5
<1>4. \A i \in Nat : P(i)
  <2> DEFINE S == {i \in Nat : P(i)}
  <2> HIDE DEF P
  <2>1. 0 \in S /\ \A i \in Nat : i \in S => i + 1 \in S
    BY <1>2, <1>3
  <2> HIDE DEF S
  <2>2. Nat \subseteq S
    BY <2>1, NatInduct
  <2> QED BY <2>2 DEF S
<1>5. Len(p) <= Len(q)
  BY <1>1, PrefixIs DEF Paths
<1>6. PICK i : i = Len(q) - Len(p)
  OBVIOUS
<1>7. i \in Nat /\ Len(q) = Len(p) + i
  BY <1>1, <1>5, <1>6
<1> QED BY <1>4, <1>7

\* A number that begins with a digit is read as it is written.
LEMMA NumberSame ==
  ASSUME NEW s \in Seq(Chars), IsNumber(s), s[1] \in Digit
  PROVE  /\ (\A i \in 1..Len(s) : s[i] # ".") => Number(s, FALSE) = s
         /\ (\E i \in 1..Len(s) : s[i] = ".") => Number(s, TRUE) = s
<1>1. PICK m : m = Len(s)
  OBVIOUS
<1>2. m \in Nat
  BY <1>1
<1>3. "." \notin Digit /\ "-" \notin Digit
  BY DEF Digit
<1>4. PICK i \in {1, 2} :
          /\ i = 2 => s[1] = "-"
          /\ \/ AreDigits(s, i, Len(s))
             \/ \E d \in i..Len(s) : s[d] = "." /\ AreDigits(s, i, d - 1) /\ AreDigits(s, d + 1, Len(s))
  BY DEF IsNumber
<1>5. i = 1
  BY <1>3, <1>4
<1>6. CASE AreDigits(s, 1, Len(s))
  <2>1. 1 <= m /\ \A k \in 1..m : s[k] \in Digit
    BY <1>1, <1>6 DEF AreDigits
  <2>2. LastDigit(s, 1) = m
    <3>1. 1 \in 1..(Len(s) + 1) /\ m \in (1 - 1)..Len(s)
      BY <1>1, <1>2
    <3> QED BY <1>1, <2>1, <3>1, DigitsEnd
  <2>3. SubSeq(s, 1, m) = s
    BY <1>1
  <2>4. s \o <<>> = s
    OBVIOUS
  <2>5. Number(s, FALSE) = s
    BY <2>2, <2>3, <2>4, Zenon DEF Number
  <2> QED BY <1>1, <1>3, <2>1, <2>5
<1>7. CASE \E d \in 1..Len(s) : s[d] = "." /\ AreDigits(s, 1, d - 1) /\ AreDigits(s, d + 1, Len(s))
  <2>1. PICK d \in 1..m : s[d] = "." /\ AreDigits(s, 1, d - 1) /\ AreDigits(s, d + 1, m)
    BY <1>1, <1>7
  <2>2. /\ 1 <= d - 1 /\ d + 1 <= m
        /\ \A k \in 1..(d - 1) : s[k] \in Digit
        /\ \A k \in (d + 1)..m : s[k] \in Digit
    BY <2>1 DEF AreDigits
  <2>3. d \in Nat /\ d - 1 \in Nat /\ d - 1 < m /\ d - 1 + 1 = d /\ d - 1 + 2 = d + 1 /\ 1 - 1 = 0
        /\ d + 1 - 1 = d
    BY <1>2, <2>2
  <2>4. LastDigit(s, 1) = d - 1
    <3>1. 1 \in 1..(Len(s) + 1) /\ d - 1 \in (1 - 1)..Len(s)
      BY <1>1, <1>2, <2>2, <2>3
    <3>2. s[d - 1 + 1] \notin Digit
      BY <1>3, <2>1, <2>3
    <3> QED BY <2>2, <3>1, <3>2, DigitsEnd
  <2>5. LastDigit(s, d + 1) = m
    <3>1. d + 1 \in 1..(Len(s) + 1) /\ m \in (d + 1 - 1)..Len(s)
      BY <1>1, <1>2, <2>2, <2>3
    <3> QED BY <1>1, <2>2, <3>1, DigitsEnd
  <2>6. /\ SubSeq(s, d + 1, m) # <<>>
        /\ s = SubSeq(s, 1, d - 1) \o (<<".">> \o SubSeq(s, d + 1, m))
    <3>1. SubSeq(s, d + 1, m) # <<>>
      <4>1. Len(SubSeq(s, d + 1, m)) = m + 1 - (d + 1)
        BY <1>1, <1>2, <2>2, <2>3, SubIs
      <4>2. m + 1 - (d + 1) # 0
        BY <1>2, <2>2, <2>3
      <4> HIDE DEF Chars
      <4> QED BY <4>1, <4>2, NothingIs
    <3>2. SubSeq(s, d, d) = <<".">>
      BY <1>1, <2>1, SubSeqOne
    <3>3. SubSeq(s, d, d) \o SubSeq(s, d + 1, m) = SubSeq(s, d, m)
      <4>1. /\ d \in 1..(Len(s) + 1) /\ d + 1 \in d..(Len(s) + 1) /\ m \in (d + 1 - 1)..Len(s)
        BY <1>1, <1>2, <2>2, <2>3
      <4>2. SubSeq(s, d, d + 1 - 1) \o SubSeq(s, d + 1, m) = SubSeq(s, d, m)
        BY <4>1, SubSeqJoins
      <4> QED BY <2>3, <4>2
    <3>4. SubSeq(s, 1, d - 1) \o SubSeq(s, d, m) = SubSeq(s, 1, m)
      <4>1. /\ 1 \in 1..(Len(s) + 1) /\ d \in 1..(Len(s) + 1) /\ m \in (d - 1)..Len(s)
        BY <1>1, <1>2, <2>2, <2>3
      <4> QED BY <4>1, SubSeqJoins
    <3>5. SubSeq(s, 1, m) = s
      BY <1>1
    <3> QED BY <3>1, <3>2, <3>3, <3>4, <3>5, Zenon
  <2>7. Number(s, TRUE) = SubSeq(s, 1, d - 1) \o (<<".">> \o SubSeq(s, d + 1, m))
    <3>1. LastDigit(s, 1) < Len(s) /\ LastDigit(s, 1) + 1 = d /\ LastDigit(s, 1) + 2 = d + 1
      BY <1>1, <2>3, <2>4
    <3> QED BY <2>1, <2>4, <2>5, <2>6, <3>1, Zenon DEF Number
  <2> QED BY <1>1, <2>1, <2>6, <2>7
<1> QED BY <1>4, <1>5, <1>6, <1>7

\* The text of a value begins and ends with what is no layout.
LEMMA EndsAre ==
  ASSUME Reading, NEW q \in Places
  PROVE  /\ span[q].first <= span[q].last => text[span[q].first] # " " /\ text[span[q].last] # " "
         /\ q \notin DOMAIN written \/ written[q].kind = "undefined" => span[q].last + 1 = span[q].first
         /\ q \in DOMAIN written /\ ~Inside(q) =>
               /\ span[q].last + 1 = span[q].first + Len(Opening(written[q]))
               /\ At(text, span[q].first - 1, Opening(written[q]))
         /\ Inside(q) => /\ span[q].first < span[q].last
                         /\ text[span[q].first] = Opening(written[q])[1]
                         /\ text[span[q].last] = Closing(written[q])
<1>1. TextOK(q) /\ ~Open(q) /\ span[q].first \in Nat /\ span[q].last \in Nat
  BY PlaceNumbers DEF Reading, Laid, Texts
<1>2. q \in DOMAIN written => NodeOK(written[q])
  BY DEF Reading, IsTree, Grove
<1>3. CASE q \notin DOMAIN written
  <2>1. ~Inside(q) /\ span[q].last + 1 = span[q].first
    BY <1>1, <1>3 DEF Inside, TextOK
  <2>2. ~(span[q].first <= span[q].last)
    BY <1>1, <2>1
  <2> QED BY <1>3, <2>1, <2>2
<1>4. CASE q \in DOMAIN written /\ ~Inside(q)
  <2>1. PICK o, k : o = Opening(written[q]) /\ k = Len(o)
    OBVIOUS
  <2>2. span[q].last + 1 = span[q].first + k /\ At(text, span[q].first - 1, o)
    BY <1>1, <1>4, <2>1 DEF TextOK
  <2>3. k \in Nat /\ (written[q].kind = "undefined" => k = 0)
    BY <1>2, <1>4, <2>1, OpeningIs
  <2>4. written[q].kind = "undefined" => span[q].last + 1 = span[q].first
    BY <1>1, <2>2, <2>3
  <2>5. ASSUME span[q].first <= span[q].last
        PROVE  text[span[q].first] # " " /\ text[span[q].last] # " "
    <3>1. k >= 1
      BY <1>1, <2>2, <2>3, <2>5
    <3>2. o # <<>>
      BY <2>1, <3>1, NothingIs
    <3>3. o[1] # " " /\ o[k] # " "
      BY <1>2, <1>4, <2>1, <3>2, OpeningIs
    <3>4. 1 \in 1..k /\ k \in 1..k
      BY <2>3, <3>1
    <3>5. text[span[q].first - 1 + 1] = o[1] /\ text[span[q].first - 1 + k] = o[k]
      BY <2>1, <2>2, <3>4 DEF At
    <3>6. span[q].first - 1 + 1 = span[q].first /\ span[q].first - 1 + k = span[q].last
      BY <1>1, <2>2, <2>3
    <3> QED BY <3>3, <3>5, <3>6
  <2> QED BY <1>4, <2>1, <2>2, <2>4, <2>5
<1>5. CASE Inside(q)
  <2>1. q \in DOMAIN written /\ written[q].kind \in Containers
    BY <1>5 DEF Inside
  <2>2. /\ span[q].first < span[q].last /\ text[span[q].first] = Opening(written[q])[1]
        /\ text[span[q].last] = Closing(written[q])
    BY <1>1, <1>5 DEF TextOK
  <2>4. written[q].kind # "undefined"
    BY <2>1 DEF Containers
  <2>5. Opening(written[q]) # <<>>
    BY <1>2, <2>1, <2>4, OpeningIs
  <2>3. Opening(written[q])[1] # " " /\ Closing(written[q]) # " "
    BY <1>2, <2>1, <2>5, OpeningIs, ClosingIs, Zenon
  <2> QED BY <1>5, <2>1, <2>2, <2>3, <2>4
<1> QED BY <1>3, <1>4, <1>5 DEF Inside

\* The call for a value is for its text, without the layout around it; a value
\* with no text has none.
Trim(c, s) == IF s.first <= s.last THEN c.first = s.first /\ c.last = s.last ELSE c.first >= c.last

\* That is what NextChar and PrevChar do at its colon and its comma.
LEMMA Trimmed ==
  ASSUME Reading, NEW q \in Places, q # <<>>
  PROVE  Trim(Call(q, NextChar(span[q].colon, span[q].after), PrevChar(span[q].colon, span[q].after)),
              span[q])
<1>1. PICK n, colon, first, last, after :
          /\ n = Len(text) /\ colon = span[q].colon /\ first = span[q].first /\ last = span[q].last
          /\ after = span[q].after
  OBVIOUS
<1>2. /\ n \in Nat /\ colon \in Nat /\ first \in Nat /\ last \in Nat /\ after \in Nat
      /\ colon < first /\ first <= last + 1 /\ last < after /\ last <= n /\ after <= n /\ after # 0
  BY <1>1, PlaceNumbers DEF Reading
<1>0. n = Len(text)
  BY <1>1
<1>3. text \in Seq(Chars)
  BY DEF Reading, Laid, Histories
<1>4. Blanks(text, colon + 1, first - 1) /\ Blanks(text, last + 1, after - 1)
  BY <1>1, <1>2 DEF Reading, Laid, Texts, TextOK
<1>5. /\ \A i \in (colon + 1)..(first - 1) : IsSpace(i)
      /\ \A i \in (last + 1)..(after - 1) : IsSpace(i)
  <2>1. ASSUME NEW i \in (colon + 1)..(first - 1) PROVE i \in Int /\ 1 <= i /\ i <= Len(text)
    BY <1>0, <1>2
  <2>2. ASSUME NEW i \in (last + 1)..(after - 1) PROVE i \in Int /\ 1 <= i /\ i <= Len(text)
    BY <1>0, <1>2
  <2>3. ASSUME NEW i \in (colon + 1)..(first - 1) PROVE IsSpace(i)
    BY <1>3, <1>4, <2>1, SpaceIs DEF Blanks
  <2>4. ASSUME NEW i \in (last + 1)..(after - 1) PROVE IsSpace(i)
    BY <1>3, <1>4, <2>2, SpaceIs DEF Blanks
  <2> QED BY <2>3, <2>4
<1>6. CASE first <= last
  <2>1. ~IsSpace(first) /\ ~IsSpace(last)
    <3>1. text[first] # " " /\ text[last] # " "
      BY <1>1, <1>6, EndsAre
    <3>2. first \in Int /\ last \in Int
      BY <1>2
    <3> QED BY <1>3, <3>1, <3>2, SpaceIs
  <2>2. NextChar(colon, after) = first
    <3>1. /\ first \in (colon + 1)..(Len(text) + 1) /\ colon <= Len(text)
          /\ \A i \in (colon + 1)..(first - 1) : i < after
      BY <1>0, <1>2, <1>6
    <3> QED BY <1>2, <1>3, <1>5, <2>1, <3>1, NextCharOne
  <2>3. PrevChar(colon, after) = last
    <3>1. /\ last \in 0..(after - 1) /\ after >= 1
          /\ \A i \in (last + 1)..(after - 1) : i > colon
      BY <1>0, <1>2, <1>6
    <3> QED BY <1>2, <1>3, <1>5, <2>1, <3>1, PrevCharOne
  <2> QED BY <1>1, <1>6, <2>2, <2>3 DEF Trim, Call
<1>7. CASE ~(first <= last)
  <2>1. first = last + 1
    BY <1>2, <1>7
  <2>2. \A i \in (colon + 1)..(after - 1) : IsSpace(i)
    <3>1. \A i \in (colon + 1)..(after - 1) : i \in (colon + 1)..(first - 1) \/ i \in (last + 1)..(after - 1)
      BY <1>2, <2>1
    <3> QED BY <1>5, <3>1
  <2>3. NextChar(colon, after) = after
    <3>1. /\ after \in (colon + 1)..(Len(text) + 1) /\ colon <= Len(text) /\ after >= after
          /\ \A i \in (colon + 1)..(after - 1) : i < after
      BY <1>0, <1>2, <2>1
    <3> QED BY <1>2, <1>3, <2>2, <3>1, NextCharOne
  <2>4. PrevChar(colon, after) = colon
    <3>1. /\ colon \in 0..(after - 1) /\ after >= 1 /\ colon <= colon
          /\ \A i \in (colon + 1)..(after - 1) : i > colon
      BY <1>0, <1>2, <2>1
    <3> QED BY <1>2, <1>3, <2>2, <3>1, PrevCharOne
  <2>5. after >= colon
    BY <1>2, <2>1
  <2> QED BY <1>1, <1>7, <2>3, <2>4, <2>5 DEF Trim, Call
<1> QED BY <1>6, <1>7

\* The label of an entry is read as it is written.
LEMMA LabelSame ==
  ASSUME Reading, NEW q \in Places, q # <<>>, written[Front(q)].kind = "dict"
  PROVE  LET beg == NextChar(span[q].before, span[q].colon)
         IN  /\ beg <= Len(text) /\ span[q].before < span[q].colon /\ text[span[q].colon] = ":"
             /\ Append(Front(q),
                       Labelled(Substr(beg + 1, PrevChar(span[q].before, span[q].colon) - beg - 1))) = q
<1>1. PICK n, before, beg, colon, l, k :
          /\ n = Len(text) /\ before = span[q].before /\ beg = span[q].beg /\ colon = span[q].colon
          /\ l = Last(q).label /\ k = Len(l)
  OBVIOUS
<1>2. n \in Nat /\ before \in Nat /\ beg \in Nat /\ colon \in Nat /\ colon <= n
  <2>1. span[q].first \in Nat /\ span[q].last \in Nat /\ span[q].colon < span[q].first
        /\ span[q].first <= span[q].last + 1 /\ span[q].last <= Len(text)
    BY PlaceNumbers DEF Reading
  <2>2. n \in Nat /\ before \in Nat /\ beg \in Nat /\ colon \in Nat
    BY <1>1, PlaceNumbers DEF Reading
  <2> QED BY <1>1, <2>1, <2>2
<1>0. n = Len(text) /\ k = Len(l)
  BY <1>1
<1>3. text \in Seq(Chars)
  BY DEF Reading, Laid, Histories
<1>4. q \in DOMAIN written /\ q \in Seq(TreeKeys)
  <2>1. IsTree(written) /\ SpanOK
    BY DEF Reading, Laid
  <2>2. q \in DOMAIN written \/ written[Front(q)].kind = "array"
    BY <2>1, PlacePaths
  <2>3. q \in DOMAIN written
    BY <2>2
  <2> QED BY <2>1, <2>3 DEF IsTree, Grove, Paths
<1>5. Last(q) = Labelled(l) /\ l \in Seq(Chars)
  <2>1. Last(q) = Labelled(l)
    BY <1>1, <1>4 DEF Reading, IsTree, Grove, HasParent
  <2>2. Last(q) \in TreeKeys
    BY <1>4, PathEnd
  <2> QED BY <1>1, <2>1, <2>2 DEF TreeKeys
<1>6. Entry(text, span[q], l)
  BY <1>1 DEF Reading, Laid, Texts, TextOK
<1>7. k \in Nat /\ beg \in {before + 1, before + 2} /\ colon = beg + k + 2
  <2>1. k \in Nat
    BY <1>0, <1>5
  <2>2. beg \in {before + 1, before + 2} /\ colon = beg + Len(l) + 2
    BY <1>1, <1>6, Zenon DEF Entry
  <2> QED BY <1>0, <2>1, <2>2
<1>8. beg = before + 2 => IsSpace(before + 1)
  <2> SUFFICES ASSUME beg = before + 2 PROVE IsSpace(before + 1)
    OBVIOUS
  <2>1. text[before + 1] = " "
    BY <1>1, <1>6 DEF Entry
  <2>2. before + 1 \in Int /\ 1 <= before + 1 /\ before + 1 <= Len(text)
    BY <1>0, <1>2, <1>7
  <2> QED BY <1>3, <2>1, <2>2, SpaceIs
<1>9. ~IsSpace(beg) /\ ~IsSpace(colon - 1)
  <2>1. text[beg] = Quote /\ text[colon - 1] = Quote
    BY <1>1, <1>6 DEF Entry
  <2>2. beg \in Int /\ colon - 1 \in Int
    BY <1>2
  <2>3. text[beg] # " " /\ text[colon - 1] # " "
    BY <2>1, QuoteIs
  <2> QED BY <1>3, <2>2, <2>3, SpaceIs
<1>10. NextChar(before, colon) = beg
  <2>1. /\ beg \in (before + 1)..(Len(text) + 1) /\ before <= Len(text)
        /\ \A i \in (before + 1)..(beg - 1) : i = before + 1 /\ beg = before + 2 /\ i < colon
    BY <1>0, <1>2, <1>7
  <2>2. \A i \in (before + 1)..(beg - 1) : IsSpace(i) /\ i < colon
    BY <1>8, <2>1
  <2> QED BY <1>2, <1>3, <1>9, <2>1, <2>2, NextCharOne
<1>11. PrevChar(before, colon) = colon - 1
  <2>1. PICK p : p = colon - 1
    OBVIOUS
  <2>2. /\ p \in 0..(colon - 1) /\ colon >= 1 /\ colon \in Nat /\ before \in Int
        /\ \A i \in (p + 1)..(colon - 1) : FALSE
    BY <1>2, <1>7, <2>1
  <2>3. ~IsSpace(p) /\ text \in Seq(Chars)
    BY <1>3, <1>9, <2>1
  <2>4. PrevChar(before, colon) = p
    BY <2>2, <2>3, PrevCharOne
  <2> QED BY <2>1, <2>4
<1>12. Substr(beg + 1, colon - 1 - beg - 1) = l
  <2>1. PICK len, e : len = colon - 1 - beg - 1 /\ e = beg + 1 + len - 1
    OBVIOUS
  <2>2. len = k /\ e = beg + k /\ len \in Nat /\ ~(len < 0) /\ ~(beg + 1 + len > n)
    BY <1>2, <1>7, <2>1
  <2>3. Substr(beg + 1, len) = SubSeq(text, beg + 1, e)
    BY <1>1, <2>1, <2>2 DEF Substr
  <2>4. beg + 1 \in Nat /\ beg + 1 >= 1 /\ e \in Nat /\ e <= n /\ beg + 1 <= e + 1 /\ e + 1 - (beg + 1) = k
    BY <1>2, <1>7, <2>2
  <2>5. /\ SubSeq(text, beg + 1, e) \in Seq(Chars) /\ Len(SubSeq(text, beg + 1, e)) = k
        /\ \A i \in 1..k : SubSeq(text, beg + 1, e)[i] = text[beg + 1 + i - 1]
    <3>1. beg + 1 \in Nat /\ beg + 1 >= 1 /\ e \in Nat /\ e <= Len(text) /\ beg + 1 <= e + 1
      BY <1>0, <2>4
    <3>2. /\ SubSeq(text, beg + 1, e) \in Seq(Chars) /\ Len(SubSeq(text, beg + 1, e)) = e + 1 - (beg + 1)
          /\ \A i \in 1..(e + 1 - (beg + 1)) : SubSeq(text, beg + 1, e)[i] = text[beg + 1 + i - 1]
      BY <1>3, <3>1, SubIs
    <3>3. e + 1 - (beg + 1) = k
      BY <2>4
    <3> QED BY <3>2, <3>3, Zenon
  <2>6. \A i \in 1..k : beg + 1 + i - 1 = beg + i
    BY <1>2
  <2>7. \A i \in 1..k : text[beg + i] = l[i]
    BY <1>1, <1>6 DEF Entry, At
  <2>8. \A i \in 1..k : SubSeq(text, beg + 1, e)[i] = l[i]
    BY <2>5, <2>6, <2>7
  <2>9. SubSeq(text, beg + 1, e) = l
    BY <1>1, <1>5, <2>5, <2>8, SamePath
  <2> QED BY <2>1, <2>3, <2>9
<1>13. Append(Front(q), Labelled(l)) = q
  BY <1>4, <1>5, PathEnd
<1>14. beg <= n /\ before < colon
  BY <1>2, <1>7
<1>15. text[colon] = ":"
  BY <1>1, <1>6 DEF Entry
<1> QED BY <1>1, <1>10, <1>11, <1>12, <1>13, <1>14, <1>15, Zenon

\* What the stack of brackets holds beyond a depth: FindChar begins to count
\* there.
Beyond(s, d) == SubSeq(s, d + 1, Len(s))

\* What is left of a sequence behind a depth.
LEMMA BeyondIs ==
  ASSUME NEW S, NEW s \in Seq(S), NEW d \in Nat, d <= Len(s)
  PROVE  /\ Beyond(s, d) \in Seq(S) /\ Len(Beyond(s, d)) = Len(s) - d /\ Len(s) \in Nat
         /\ \A i \in 1..(Len(s) - d) : Beyond(s, d)[i] = s[d + i]
         /\ Beyond(s, d) = <<>> <=> Len(s) = d
         /\ \A x \in S : Append(Beyond(s, d), x) = Beyond(Append(s, x), d)
         /\ Len(s) > d => /\ s # <<>> /\ Beyond(s, d) # <<>> /\ Last(Beyond(s, d)) = Last(s)
                          /\ Front(Beyond(s, d)) = Beyond(Front(s), d)
<1>1. PICK n, t : n = Len(s) /\ t = Beyond(s, d)
  OBVIOUS
<1>2. n \in Nat /\ d <= n
  BY <1>1
<1>3. t \in Seq(S) /\ Len(t) = n - d /\ \A i \in 1..(n - d) : t[i] = s[d + i]
  <2>1. d + 1 \in Nat /\ d + 1 >= 1 /\ n <= Len(s) /\ d + 1 <= n + 1
    BY <1>1, <1>2
  <2>2. /\ t \in Seq(S) /\ Len(t) = n + 1 - (d + 1)
        /\ \A i \in 1..(n + 1 - (d + 1)) : t[i] = s[d + 1 + i - 1]
    BY <1>1, <1>2, <2>1, SubIs DEF Beyond
  <2>3. n + 1 - (d + 1) = n - d /\ \A i \in 1..(n - d) : d + 1 + i - 1 = d + i
    BY <1>2
  <2> QED BY <2>2, <2>3
<1>4. t = <<>> <=> n = d
  <2>1. t = <<>> => Len(t) = 0
    BY NothingIs
  <2>2. Len(t) = 0 => t = <<>>
    BY <1>3
  <2> QED BY <1>2, <1>3, <2>1, <2>2
<1>5. ASSUME NEW x \in S PROVE Append(t, x) = Beyond(Append(s, x), d)
  <2>1. PICK u, v : u = Append(t, x) /\ v = Append(s, x)
    OBVIOUS
  <2>2. /\ u \in Seq(S) /\ Len(u) = n - d + 1 /\ u[n - d + 1] = x /\ \A i \in 1..(n - d) : u[i] = t[i]
    BY <1>3, <2>1, PathGrown
  <2>3. /\ v \in Seq(S) /\ Len(v) = n + 1 /\ v[n + 1] = x /\ \A i \in 1..n : v[i] = s[i]
    BY <1>1, <2>1, PathGrown
  <2>4. PICK w : w = Beyond(v, d)
    OBVIOUS
  <2>5. d + 1 \in Nat /\ d + 1 >= 1 /\ n + 1 \in Nat /\ n + 1 <= Len(v) /\ d + 1 <= n + 1 + 1
    BY <1>2, <2>3
  <2>6. /\ w \in Seq(S) /\ Len(w) = n + 1 + 1 - (d + 1)
        /\ \A i \in 1..(n + 1 + 1 - (d + 1)) : w[i] = v[d + 1 + i - 1]
    BY <2>3, <2>4, <2>5, SubIs DEF Beyond
  <2>7. n + 1 + 1 - (d + 1) = n - d + 1 /\ \A i \in 1..(n - d + 1) : d + 1 + i - 1 = d + i
    BY <1>2
  <2>8. Len(w) = n - d + 1 /\ \A i \in 1..(n - d + 1) : w[i] = v[d + i]
    BY <2>6, <2>7
  <2>9. ASSUME NEW i \in 1..(n - d + 1) PROVE u[i] = w[i]
    <3>1. CASE i = n - d + 1
      <4>1. d + i = n + 1
        BY <1>2, <3>1
      <4> QED BY <2>2, <2>3, <2>8, <3>1, <4>1
    <3>2. CASE i # n - d + 1
      <4>1. i \in 1..(n - d) /\ d + i \in 1..n
        BY <1>2, <3>2
      <4> QED BY <1>3, <2>2, <2>3, <2>8, <4>1
    <3> QED BY <3>1, <3>2
  <2>10. u = w
    BY <2>2, <2>6, <2>8, <2>9, SamePath
  <2> QED BY <2>1, <2>4, <2>10
<1>6. ASSUME n > d
      PROVE  s # <<>> /\ t # <<>> /\ Last(t) = Last(s) /\ Front(t) = Beyond(Front(s), d)
  <2>1. s # <<>> /\ t # <<>>
    BY <1>1, <1>2, <1>4, <1>6, NothingIs
  <2>2. PICK u, v : u = Front(t) /\ v = Front(s)
    OBVIOUS
  <2>3. /\ u \in Seq(S) /\ Len(u) = n - d - 1 /\ \A i \in 1..(n - d - 1) : u[i] = t[i]
    BY <1>3, <2>1, <2>2, PathEnd
  <2>4. /\ v \in Seq(S) /\ Len(v) = n - 1 /\ \A i \in 1..(n - 1) : v[i] = s[i]
    BY <1>1, <2>1, <2>2, PathEnd
  <2>5. PICK w : w = Beyond(v, d)
    OBVIOUS
  <2>6. d + 1 \in Nat /\ d + 1 >= 1 /\ n - 1 \in Nat /\ n - 1 <= Len(v) /\ d + 1 <= n - 1 + 1
    BY <1>2, <1>6, <2>4
  <2>7. /\ w \in Seq(S) /\ Len(w) = n - 1 + 1 - (d + 1)
        /\ \A i \in 1..(n - 1 + 1 - (d + 1)) : w[i] = v[d + 1 + i - 1]
    BY <2>4, <2>5, <2>6, SubIs DEF Beyond
  <2>8. n - 1 + 1 - (d + 1) = n - d - 1 /\ \A i \in 1..(n - d - 1) : d + 1 + i - 1 = d + i
    BY <1>2
  <2>9. Len(w) = n - d - 1 /\ \A i \in 1..(n - d - 1) : w[i] = v[d + i]
    BY <2>7, <2>8
  <2>10. \A i \in 1..(n - d - 1) : i \in 1..(n - d) /\ d + i \in 1..(n - 1)
    BY <1>2
  <2>11. \A i \in 1..(n - d - 1) : u[i] = w[i]
    BY <1>3, <2>3, <2>4, <2>9, <2>10
  <2>12. u = w
    BY <2>3, <2>7, <2>9, <2>11, SamePath
  <2>13. Last(t) = t[n - d] /\ Last(s) = s[n]
    BY <1>1, <1>3 DEF Last
  <2>14. n - d \in 1..(n - d) /\ d + (n - d) = n
    BY <1>2, <1>6
  <2>15. Last(t) = Last(s)
    BY <1>3, <2>13, <2>14
  <2> QED BY <2>1, <2>2, <2>5, <2>12, <2>15
<1> QED BY <1>1, <1>2, <1>3, <1>4, <1>5, <1>6

\* FindChar finds the comma or the bracket behind a value, for its stack is
\* empty just where the text is as deep as the value.
LEMMA CommaSought ==
  ASSUME Reading, NEW r \in Places, r # <<>>,
         NEW at \in span[r].before..(span[r].after - 1), NEW stack, stack = Beyond(Nest(at), Len(r))
  PROVE  /\ at + 1 \in Nat /\ at + 1 <= Len(text)
         /\ Returns(text[at + 1], ",", stack) <=> at + 1 = span[r].after
         /\ at + 1 # span[r].after => StackAfter(text[at + 1], stack) = Beyond(Nest(at + 1), Len(r))
<1>1. PICK n, d, before, after, x, a, b :
          /\ n = Len(text) /\ d = Len(r) /\ before = span[r].before /\ after = span[r].after
          /\ x = text[at + 1] /\ a = Nest(at) /\ b = nest[at + 1]
  OBVIOUS
<1>2. n = Len(text)
  BY <1>1
<1>3. n \in Nat /\ before \in Nat /\ after \in Nat /\ after # 0 /\ after <= n
  BY <1>1, PlaceNumbers DEF Reading
<1>4. at \in before..(after - 1)
  BY <1>1
<1>5. at \in Nat /\ at + 1 \in 1..n /\ at + 1 <= n /\ at + 1 <= after /\ at + 1 - 1 = at /\ at + 1 # 0
  BY <1>3, <1>4
<1>6. d \in Nat
  <2>1. IsTree(written) /\ SpanOK
    BY DEF Reading, Laid
  <2>2. r \in Seq(TreeKeys)
    BY <2>1, PlacePaths DEF Paths
  <2> QED BY <1>1, <2>2
<1>7. Nests
  <2>1. Inside(Front(r))
    BY PlaceNumbers DEF Reading
  <2> QED BY <2>1, RootedIs
<1>8. /\ b = StackAfter(x, a)
      /\ Closes(x) => a # <<>> /\ Last(a) = Opener(x)
  BY <1>1, <1>2, <1>5, <1>7 DEF Nests, Matched
<1>9. a \in Seq(Chars) /\ b \in Seq(Chars) /\ x \in Chars /\ Nest(at + 1) = b
  <2>1. Histories
    BY DEF Reading, Laid
  <2>2. at \in 0..Len(text) /\ at + 1 \in 1..Len(text) /\ at + 1 \in 0..Len(text)
    BY <1>2, <1>3, <1>5
  <2>3. a \in Seq(Chars) /\ Nest(at + 1) \in Seq(Chars)
    BY <1>1, <2>1, <2>2, BracketsIs
  <2>4. Nest(at + 1) = b
    BY <1>1, <1>5 DEF Nest
  <2>5. x \in Chars
    BY <1>1, <2>1, <2>2 DEF Histories
  <2> QED BY <2>3, <2>4, <2>5
<1>10. DeepOK(r)
  BY <1>7 DEF Nests
<1>11. Len(a) \in Nat /\ Len(b) \in Nat /\ Len(a) >= d
  <2>1. Len(a) \in Nat /\ Len(b) \in Nat
    BY <1>9
  <2>2. CASE at = before
    <3>1. Len(a) = d
      BY <1>1, <1>10, <2>2 DEF DeepOK
    <3> QED BY <1>6, <2>1, <3>1
  <2>3. CASE at # before
    <3>1. at \in (before + 1)..n /\ at < after /\ at # 0
      BY <1>3, <1>4, <2>3
    <3>2. Len(nest[at]) >= d
      BY <1>1, <1>10, <3>1 DEF DeepOK
    <3>3. a = nest[at]
      BY <1>1, <3>1 DEF Nest
    <3> QED BY <2>1, <3>2, <3>3
  <2> QED BY <2>2, <2>3
<1>12. ASSUME at + 1 # after
       PROVE  Len(b) >= d /\ (x = "," => Len(b) > d)
  <2>1. at + 1 \in (before + 1)..n /\ at + 1 < after
    BY <1>3, <1>4, <1>5, <1>12
  <2> QED BY <1>1, <1>10, <2>1 DEF DeepOK
<1>13. ASSUME at + 1 = after
       PROVE  (Closes(x) /\ Len(b) = d - 1) \/ (x = "," /\ Len(b) = d)
  <2>1. b = nest[after] /\ x = text[after]
    BY <1>1, <1>13
  <2>2. IF after = span[Front(r)].last THEN Len(b) = d - 1 ELSE x = "," /\ Len(b) = d
    BY <1>1, <1>3, <1>10, <2>1 DEF DeepOK
  <2>3. ASSUME after = span[Front(r)].last PROVE Closes(x)
    <3>1. Front(r) \in Places /\ Inside(Front(r))
      BY PlaceNumbers DEF Reading
    <3>2. x = Closing(written[Front(r)])
      BY <2>1, <2>3, <3>1, EndsAre
    <3> QED BY <3>1, <3>2, ClosingIs DEF Inside
  <2> QED BY <2>2, <2>3
<1>14. /\ stack \in Seq(Chars) /\ (stack = <<>> <=> Len(a) = d)
       /\ Append(stack, x) = Beyond(Append(a, x), d)
       /\ Len(a) > d => stack # <<>> /\ Last(stack) = Last(a) /\ Front(stack) = Beyond(Front(a), d)
  <2>1. d <= Len(a) /\ stack = Beyond(a, d)
    BY <1>1, <1>6, <1>11
  <2>2. /\ Beyond(a, d) \in Seq(Chars) /\ (Beyond(a, d) = <<>> <=> Len(a) = d)
        /\ Append(Beyond(a, d), x) = Beyond(Append(a, x), d)
        /\ Len(a) > d => /\ Beyond(a, d) # <<>> /\ Last(Beyond(a, d)) = Last(a)
                         /\ Front(Beyond(a, d)) = Beyond(Front(a), d)
    <3>1. a \in Seq(Chars) /\ d \in Nat /\ d <= Len(a) /\ x \in Chars
      BY <1>6, <1>9, <2>1
    <3>2. Beyond(a, d) \in Seq(Chars) /\ (Beyond(a, d) = <<>> <=> Len(a) = d)
      BY <3>1, BeyondIs
    <3>3. Append(Beyond(a, d), x) = Beyond(Append(a, x), d)
      BY <3>1, BeyondIs
    <3>4. ASSUME Len(a) > d PROVE Beyond(a, d) # <<>> /\ Last(Beyond(a, d)) = Last(a)
      BY <3>1, <3>4, BeyondIs
    <3>5. ASSUME Len(a) > d PROVE Front(Beyond(a, d)) = Beyond(Front(a), d)
      BY <3>1, <3>5, BeyondIs
    <3> QED BY <3>2, <3>3, <3>4, <3>5
  <2> QED BY <2>1, <2>2, Zenon
<1> DEFINE Goal == /\ Returns(x, ",", stack) <=> at + 1 = after
                   /\ at + 1 # after => StackAfter(x, stack) = Beyond(b, d)
<1>15. ASSUME Closes(x) PROVE Goal
  <2>1. b = Front(a) /\ x # "," /\ StackAfter(x, stack) = Front(stack)
    BY <1>8, <1>15, MarksAre
  <2>2. Len(b) = Len(a) - 1 /\ Last(a) = Opener(x)
    BY <1>8, <1>9, <1>15, <2>1, PathEnd
  <2>3. CASE at + 1 = after
    <3>1. Len(b) = d - 1
      BY <1>13, <2>1, <2>3
    <3>2. Len(a) = d
      BY <1>6, <1>11, <2>2, <3>1
    <3>3. Returns(x, ",", stack)
      BY <1>14, <1>15, <3>2 DEF Returns
    <3> QED BY <2>3, <3>3
  <2>4. CASE at + 1 # after
    <3>1. Len(b) >= d
      BY <1>12, <2>4
    <3>2. Len(a) > d
      BY <1>6, <1>11, <2>2, <3>1
    <3>3. ~Returns(x, ",", stack)
      BY <1>14, <2>1, <2>2, <3>2 DEF Returns
    <3>4. StackAfter(x, stack) = Beyond(b, d)
      BY <1>14, <2>1, <3>2
    <3> QED BY <2>4, <3>3, <3>4
  <2> QED BY <2>3, <2>4
<1>16. ASSUME ~Closes(x), x = "," PROVE Goal
  <2>1. b = a /\ StackAfter(x, stack) = stack
    <3>1. ~Opens(x)
      BY <1>16, MarksAre
    <3> QED BY <1>8, <1>16, <3>1, MarksAre
  <2>2. CASE at + 1 = after
    <3>1. Len(b) = d
      BY <1>13, <1>16, <2>2
    <3>2. Returns(x, ",", stack)
      BY <1>14, <1>16, <2>1, <3>1 DEF Returns
    <3> QED BY <2>2, <3>2
  <2>3. CASE at + 1 # after
    <3>1. Len(b) > d
      BY <1>12, <1>16, <2>3
    <3>2. stack # <<>>
      BY <1>6, <1>11, <1>14, <2>1, <3>1
    <3>3. ~Returns(x, ",", stack)
      BY <1>16, <3>2 DEF Returns
    <3>4. StackAfter(x, stack) = Beyond(b, d)
      BY <1>1, <2>1
    <3> QED BY <2>3, <3>3, <3>4
  <2> QED BY <2>2, <2>3
<1>17. ASSUME ~Closes(x), x # "," PROVE Goal
  <2>1. at + 1 # after
    BY <1>13, <1>17
  <2>2. ~Returns(x, ",", stack)
    BY <1>17 DEF Returns
  <2>3. StackAfter(x, stack) = Beyond(b, d)
    <3>1. CASE Opens(x)
      <4>1. b = Append(a, x) /\ StackAfter(x, stack) = Append(stack, x)
        BY <1>8, <3>1, MarksAre
      <4> QED BY <1>14, <4>1
    <3>2. CASE ~Opens(x)
      <4>1. b = a /\ StackAfter(x, stack) = stack
        BY <1>8, <1>17, <3>2, MarksAre
      <4> QED BY <1>1, <4>1
    <3> QED BY <3>1, <3>2
  <2> QED BY <2>1, <2>2, <2>3
<1>18. Goal
  <2> HIDE DEF Goal
  <2> QED BY <1>15, <1>16, <1>17
<1>19. /\ Returns(text[at + 1], ",", stack) <=> at + 1 = span[r].after
       /\ at + 1 # span[r].after => StackAfter(text[at + 1], stack) = Beyond(Nest(at + 1), Len(r))
  BY <1>1, <1>9, <1>18, Zenon
<1>20. at + 1 \in Nat /\ at + 1 <= Len(text)
  BY <1>2, <1>5
<1> QED BY <1>19, <1>20

\* Where the loop over a container begins to look for the end of a value.
LEMMA CommaStarts ==
  ASSUME Reading, NEW r \in Places, r # <<>>
  PROVE  Beyond(Nest(span[r].before), Len(r)) = <<>>
<1>1. PICK a, d : a = Nest(span[r].before) /\ d = Len(r)
  OBVIOUS
<1>2. Nests
  <2>1. Inside(Front(r))
    BY PlaceNumbers DEF Reading
  <2> QED BY <2>1, RootedIs
<1>3. Len(a) = d
  BY <1>1, <1>2 DEF Nests, DeepOK
<1>4. Histories /\ IsTree(written) /\ SpanOK
  BY DEF Reading, Laid
<1>5. span[r].before \in 0..Len(text)
  BY PlaceNumbers DEF Reading
<1>6. a \in Seq(Chars)
  BY <1>1, <1>4, <1>5, BracketsIs
<1>7. d \in Nat /\ d <= Len(a)
  BY <1>3, <1>6
<1> QED BY <1>1, <1>3, <1>6, <1>7, BeyondIs

-----------------------------------------------------------------------------
(* Where the reader is in the text. *)

\* What is taken for a number, or for true or false, and is it.
Readable(s) == s[1] # "-" /\ s \notin Words
\* All its scalars can be read.
Positive(b) == \A q \in DOMAIN b : b[q].kind = "scalar" => Readable(b[q].chars)

\* The loop of c is at the value at r, and waits for it.
Loops(c, r) ==
    /\ c.path \in Places /\ Inside(c.path) /\ c.last = span[c.path].last
    /\ r \in Subs(c.path) /\ c.first = span[r].before
\* It waits for that value to be made.
Waits(c) == Loops(c, c.item) /\ c.comma = span[c.item].after

\* The call is for a value, and no value after it is made.
AtValue(c, b) == c.path \in Places /\ b = Cutoff(span[c.path].before) /\ Trim(c, span[c.path])

\* It looks for the point of a number.
AtDot(c, sc) ==
    LET s == span[c.path]
    IN  /\ c.path \in DOMAIN written /\ written[c.path].kind = "scalar"
        /\ IsNumber(Opening(written[c.path])) /\ s.first < s.last
        /\ sc.until = s.last /\ sc.at \in s.first..s.last /\ sc.stack = <<>>
        /\ \A i \in s.first..sc.at : text[i] # "."

\* It looks for the end of the value at r, or for its colon.
AtComma(c, r, sc) ==
    /\ sc.until = c.last /\ sc.at \in span[r].before..(span[r].after - 1)
    /\ sc.stack = Beyond(Nest(sc.at), Len(r))
AtColon(c, r, sc) ==
    /\ written[c.path].kind = "dict" /\ c.comma = span[r].after
    /\ sc.until = c.comma /\ sc.at \in span[r].before..(span[r].colon - 1) /\ sc.stack = <<>>
\* The loop of c is at the value at r, and everything before it is made.
AtLoop(st, b, sc, c, r) ==
    /\ Loops(c, r) /\ b = Cutoff(span[r].before)
    /\ written[c.path].kind = "array" => Last(r) = Indexed(NextIndex(c.item))
    /\ st = "comma" => AtComma(c, r, sc)
    /\ st = "colon" => AtColon(c, r, sc)

\* What the top call is at.
TopReads(st, b, sc, c) ==
    /\ st = "enter" => AtValue(c, b) /\ c.item = <<>>
    /\ st = "dot" => AtValue(c, b) /\ AtDot(c, sc)
    /\ st = "leave" => c.path \in Places /\ b = Cutoff(span[c.path].after)
    /\ st \in {"comma", "colon"} => \E r \in Subs(c.path) : AtLoop(st, b, sc, c, r)

\* What the reader has made is what it should have made of the text it passed,
\* and each loop below waits for the value the one above it makes.
ReadsOf(st, b, sc, cs) ==
    /\ \A k \in 1..(Len(cs) - 1) : Waits(cs[k])
    /\ Positive(b) /\ TopReads(st, b, sc, Last(cs))
Reads == ReadsOf(step, built, scan, calls)

\* Reads speaks of the reader and of what stays.
LEMMA ReadsKept ==
  ASSUME UNCHANGED <<written, text, nest, span>>, ReadsOf(step', built', scan', calls')
  PROVE  Reads'
<1>1. \A x : Cutoff(x) = Cutoff(x)'
  BY DEF Cutoff, Places, AsRead, NodeAsRead, Holes, Inner
<1>2. \A r : Nest(r) = Nest(r)'
  BY DEF Nest
<1>3. \A q : Inside(q) = Inside(q)' /\ Subs(q) = Subs(q)'
  BY DEF Inside, Subs, Places
<1> QED BY <1>1, <1>2, <1>3
       DEF ReadsOf, Reads, Positive, TopReads, AtLoop, AtColon, AtComma, AtDot, AtValue, Waits, Loops,
           Places, Trim

\* The value of the call that is made is the one that was written, as it is
\* read.
LEMMA ValueMade ==
  ASSUME Reading, \A k \in 1..(Len(calls) - 1) : Waits(calls[k]), Positive(built),
         AtValue(Last(calls), built), ~Inside(Last(calls).path),
         NEW node, Make(node), node = AsRead(written)[Last(calls).path],
         node.kind = "scalar" => Readable(node.chars),
         calls' = calls, step' = "leave"
  PROVE  ReadsOf(step', built', scan', calls')
<1>1. PICK q : q = Last(calls).path
  OBVIOUS
<1>2. q \in Places /\ built = Cutoff(span[q].before)
  BY <1>1 DEF AtValue
<1>3. built' = Grown(built, q, node)
  BY <1>1 DEF Make, Grown
<1>4. built' = Cutoff(span[q].after)
  BY <1>1, <1>2, <1>3, CutoffNext
<1>5. Positive(built')
  BY <1>3 DEF Positive, Grown
<1>6. TopReads(step', built', scan', Last(calls'))
  BY <1>1, <1>2, <1>4 DEF TopReads
<1> QED BY <1>5, <1>6 DEF ReadsOf

\* A part of the text.
LEMMA PartIs ==
  ASSUME text \in Seq(Chars), NEW o \in Seq(Chars), NEW first \in Nat, NEW last \in Nat,
         first >= 1, last <= Len(text), last + 1 = first + Len(o), At(text, first - 1, o)
  PROVE  SubSeq(text, first, last) = o
<1>1. PICK k, u : k = Len(o) /\ u = SubSeq(text, first, last)
  OBVIOUS
<1>2. k \in Nat /\ last + 1 = first + k
  BY <1>1
<1>3. first <= last + 1 /\ last + 1 - first = k /\ \A i \in 1..k : first - 1 + i = first + i - 1
  BY <1>2
<1>4. u \in Seq(Chars) /\ Len(u) = last + 1 - first /\ \A i \in 1..(last + 1 - first) : u[i] = text[first + i - 1]
  BY <1>1, <1>3, SubIs, SMTT(40)
<1>5. \A i \in 1..k : text[first - 1 + i] = o[i]
  BY <1>1 DEF At
<1>6. Len(u) = k /\ \A i \in 1..k : u[i] = o[i]
  BY <1>3, <1>4, <1>5
<1>7. u = o
  BY <1>1, <1>4, <1>6, SamePath
<1> QED BY <1>1, <1>7

\* A value with no text is entered as nothing.
LEMMA EnterBlank ==
  ASSUME ReadOK, Reading, Reads, step = "enter", Enter,
         span[Last(calls).path].first > span[Last(calls).path].last
  PROVE  step' # "threw" /\ ReadsOf(step', built', scan', calls')
<1>1. PICK c, q : c = Last(calls) /\ q = c.path
  OBVIOUS
<1>2. AtValue(c, built) /\ q \in Places /\ Positive(built) /\ \A k \in 1..(Len(calls) - 1) : Waits(calls[k])
  BY <1>1 DEF Reads, ReadsOf, TopReads, AtValue
<1>3. span[q].first \in Nat /\ span[q].last \in Nat /\ ~(span[q].first <= span[q].last)
  BY <1>1, <1>2, PlaceNumbers DEF Reading
<1>4. c.first >= c.last
  BY <1>1, <1>2, <1>3 DEF AtValue, Trim
<1>5. ~Inside(q)
  <2> SUFFICES ASSUME Inside(q) PROVE FALSE
    OBVIOUS
  <2>1. span[q].first < span[q].last
    BY <1>2, EndsAre
  <2> QED BY <1>3, <2>1
<1>6. AsRead(written)[q] = Node("undefined", <<>>)
  <2>1. CASE q \notin DOMAIN written
    BY <1>2, <2>1, ReadAs
  <2>2. CASE q \in DOMAIN written
    <3>1. PICK o : o = Opening(written[q])
      OBVIOUS
    <3>2. NodeOK(written[q])
      BY <2>2 DEF Reading, IsTree, Grove
    <3>3. span[q].last + 1 = span[q].first + Len(o)
      BY <1>2, <1>5, <2>2, <3>1, EndsAre
    <3>4. Len(o) \in Nat
      BY <3>1, <3>2, OpeningIs
    <3>5. ~(Len(o) >= 1)
      BY <1>3, <3>3, <3>4
    <3>6. written[q].kind = "undefined"
      BY <3>1, <3>2, <3>5, OpeningIs
    <3>7. written[q] = Node("undefined", <<>>)
      BY <3>2, <3>6 DEF NodeOK, Nodes, Node, Containers
    <3> QED BY <1>2, <2>2, <3>6, <3>7, ReadAs
  <2> QED BY <2>1, <2>2
<1>7. EnterNothing
  <2>1. ~(c.first < c.last)
    <3>1. c.first \in Int /\ c.last \in Int
      BY <1>1, TopIs DEF ReadFrames
    <3> QED BY <1>4, <3>1
  <2> QED BY <1>1, <2>1 DEF Enter, EnterContainer, EnterString, EnterNumber, EnterBool, Between
<1>8. Make(Node("undefined", <<>>)) /\ step' = "leave" /\ calls' = calls
  BY <1>7 DEF EnterNothing, Enter
<1>9. Node("undefined", <<>>).kind # "scalar"
  BY DEF Node
<1>10. ReadsOf(step', built', scan', calls')
  BY <1>1, <1>2, <1>5, <1>6, <1>8, <1>9, ValueMade
<1> QED BY <1>8, <1>10

-----------------------------------------------------------------------------
(* The steps of the reader. *)

\* Something is written of the value.
HasText(q) == span[q].first <= span[q].last

\* How the parts of the text that are entered begin.
LEMMA EnterBegins ==
  ASSUME ReadOK, Enter
  PROVE  LET c == Last(calls)
         IN  /\ c.first \in Nat /\ c.last \in Int
             /\ EnterNothing \/ c.first < c.last
             /\ EnterNothing => c.first >= c.last
             /\ EnterContainer => c.first < c.last /\ text[c.first] \in {"[", "{"}
             /\ EnterString => c.first < c.last /\ text[c.first] = Quote
             /\ EnterNumber => c.first < c.last /\ text[c.first] \in Digit
<1>1. Last(calls).first \in Nat /\ Last(calls).last \in Int
  BY TopIs DEF ReadFrames
<1>2. EnterNothing \/ Last(calls).first < Last(calls).last
  BY DEF Enter, EnterContainer, EnterString, EnterNumber, EnterBool, Between
<1>3. EnterNothing => Last(calls).first >= Last(calls).last
  BY DEF EnterNothing
<1>4. EnterContainer => Last(calls).first < Last(calls).last /\ text[Last(calls).first] \in {"[", "{"}
  BY DEF EnterContainer, Between
<1>5. EnterString => Last(calls).first < Last(calls).last /\ text[Last(calls).first] = Quote
  BY DEF EnterString, Between
<1>6. EnterNumber => Last(calls).first < Last(calls).last /\ text[Last(calls).first] \in Digit
  BY DEF EnterNumber, Between
<1> QED BY <1>1, <1>2, <1>3, <1>4, <1>5, <1>6

\* A value that is no container, and has text, is entered where it stands.
LEMMA PartOf ==
  ASSUME ReadOK, Reading, Reads, step \in {"enter", "dot"},
         HasText(Last(calls).path), ~Inside(Last(calls).path)
  PROVE  LET c == Last(calls)
             q == c.path
             o == Opening(written[q])
         IN  /\ AtValue(c, built) /\ q \in Places /\ Positive(built)
             /\ \A k \in 1..(Len(calls) - 1) : Waits(calls[k])
             /\ q \in DOMAIN written /\ NodeOK(written[q]) /\ written[q].kind \in {"scalar", "string"}
             /\ Part = o /\ c.first = span[q].first /\ c.last = span[q].last
             /\ text[c.first] = o[1] /\ text[c.last] = o[Len(o)] /\ Len(o) \in Nat /\ Len(o) >= 1
             /\ c.first \in Nat /\ c.last \in Nat /\ c.first >= 1 /\ c.last <= Len(text)
             /\ c.last + 1 = c.first + Len(o) /\ At(text, c.first - 1, o) /\ o \in Seq(Chars)
<1>1. PICK c, q, o, k : c = Last(calls) /\ q = c.path /\ o = Opening(written[q]) /\ k = Len(o)
  OBVIOUS
<1>2. AtValue(c, built) /\ q \in Places /\ Positive(built) /\ \A i \in 1..(Len(calls) - 1) : Waits(calls[i])
  BY <1>1 DEF Reads, ReadsOf, TopReads, AtValue
<1>3. span[q].first \in Nat /\ span[q].last \in Nat /\ span[q].first >= 1 /\ span[q].last <= Len(text)
      /\ span[q].first <= span[q].last
  <2>1. span[q].first <= span[q].last
    BY <1>1 DEF HasText
  <2>2. span[q].colon \in Nat /\ span[q].colon < span[q].first /\ span[q].first \in Nat
        /\ span[q].last \in Nat /\ span[q].last <= Len(text)
    BY <1>2, PlaceNumbers DEF Reading
  <2> QED BY <2>1, <2>2
<1>4. c.first = span[q].first /\ c.last = span[q].last
  BY <1>1, <1>2, <1>3 DEF AtValue, Trim
<1>5. q \in DOMAIN written /\ written[q].kind # "undefined"
  <2> SUFFICES ASSUME q \notin DOMAIN written \/ written[q].kind = "undefined" PROVE FALSE
    OBVIOUS
  <2>1. span[q].last + 1 = span[q].first
    BY <1>2, EndsAre
  <2> QED BY <1>3, <2>1
<1>6. NodeOK(written[q]) /\ written[q].kind \in {"scalar", "string"}
  <2>1. NodeOK(written[q])
    BY <1>5 DEF Reading, IsTree, Grove
  <2>2. written[q].kind \in Kinds /\ written[q].kind \notin Containers
    BY <1>1, <1>5, <2>1 DEF NodeOK, Nodes, Inside
  <2> QED BY <1>5, <2>1, <2>2 DEF Kinds, Containers
<1>7. o \in Seq(Chars) /\ k \in Nat /\ k >= 1
  BY <1>1, <1>5, <1>6, OpeningIs
<1>8. span[q].last + 1 = span[q].first + k /\ At(text, span[q].first - 1, o)
  BY <1>1, <1>2, <1>5, EndsAre
<1>9. text \in Seq(Chars)
  BY DEF Reading, Laid, Histories
<1>10. SubSeq(text, span[q].first, span[q].last) = o
  <2>1. span[q].last + 1 = span[q].first + Len(o)
    BY <1>1, <1>8
  <2> QED BY <1>3, <1>7, <1>8, <1>9, <2>1, PartIs
<1>11. text[span[q].first] = o[1] /\ text[span[q].last] = o[k]
  <2>1. 1 \in 1..k /\ k \in 1..k
    BY <1>7
  <2>2. text[span[q].first - 1 + 1] = o[1] /\ text[span[q].first - 1 + k] = o[k]
    BY <1>1, <1>8, <2>1 DEF At
  <2>3. span[q].first - 1 + 1 = span[q].first /\ span[q].first - 1 + k = span[q].last
    <3>1. span[q].last + 1 = span[q].first + k
      BY <1>8
    <3>2. span[q].first \in Nat /\ span[q].last \in Nat /\ k \in Nat
      BY <1>3, <1>7
    <3> QED BY <3>1, <3>2
  <2> QED BY <2>2, <2>3
<1>12. Part = o
  BY <1>1, <1>4, <1>10 DEF Part
<1>13. /\ AtValue(c, built) /\ q \in Places /\ Positive(built)
       /\ \A i \in 1..(Len(calls) - 1) : Waits(calls[i])
       /\ q \in DOMAIN written /\ NodeOK(written[q]) /\ written[q].kind \in {"scalar", "string"}
       /\ Part = o /\ c.first = span[q].first /\ c.last = span[q].last
       /\ text[c.first] = o[1] /\ text[c.last] = o[k] /\ k \in Nat /\ k >= 1
       /\ c.first \in Nat /\ c.last \in Nat /\ c.first >= 1 /\ c.last <= Len(text)
       /\ c.last + 1 = c.first + k /\ At(text, c.first - 1, o) /\ o \in Seq(Chars)
  BY <1>2, <1>3, <1>4, <1>5, <1>6, <1>7, <1>8, <1>11, <1>12, Zenon
<1> QED BY <1>1, <1>13, Zenon

\* A string, which the root's text may be with any characters in it.
LEMMA EnterStringValue ==
  ASSUME ReadOK, Reading, Reads, step = "enter", Enter,
         HasText(Last(calls).path),
         Last(calls).path \in DOMAIN written, written[Last(calls).path].kind = "string"
  PROVE  step' # "threw" /\ ReadsOf(step', built', scan', calls')
<1>1. PICK c, q, o, s : c = Last(calls) /\ q = c.path /\ o = Opening(written[q]) /\ s = written[q].chars
  OBVIOUS
<1>2. ~Inside(q)
  BY <1>1 DEF Inside, Containers
<1>3. /\ AtValue(c, built) /\ q \in Places /\ Positive(built)
      /\ \A k \in 1..(Len(calls) - 1) : Waits(calls[k])
      /\ NodeOK(written[q]) /\ text[c.first] = o[1] /\ text[c.last] = o[Len(o)]
      /\ c.first \in Nat /\ c.last \in Nat /\ c.first >= 1 /\ c.last <= Len(text)
      /\ c.last + 1 = c.first + Len(o) /\ At(text, c.first - 1, o)
  BY <1>1, <1>2, PartOf
<1>4. s \in Seq(Chars) /\ o = Quoted(s)
  BY <1>1, <1>3, OpeningIs DEF NodeOK, Nodes
<1>5. PICK k : k = Len(s)
  OBVIOUS
<1>6. k \in Nat /\ Len(o) = k + 2 /\ o[1] = Quote /\ o[k + 2] = Quote /\ \A i \in 1..k : o[i + 1] = s[i]
  BY <1>4, <1>5, QuotedIs
<1>7. /\ c.first \in Nat /\ c.last \in Nat /\ k \in Nat /\ c.first >= 1 /\ c.last <= Len(text)
      /\ Len(o) = k + 2 /\ c.last = c.first + k + 1
  <2>1. c.first \in Nat /\ c.last \in Nat /\ c.last + 1 = c.first + Len(o) /\ c.first >= 1 /\ c.last <= Len(text)
    BY <1>3
  <2>2. k \in Nat /\ Len(o) = k + 2
    BY <1>6
  <2>3. c.last = c.first + k + 1
    BY <2>1, <2>2
  <2> QED BY <2>1, <2>2, <2>3
<1>8. c.first < c.last /\ text[c.first] = Quote /\ text[c.last] = Quote
  <2>1. c.first < c.last
    BY <1>7
  <2> QED BY <1>3, <1>6, <2>1
<1>9. EnterString
  <2>1. ~EnterNothing
    <3>1. ~(c.first >= c.last)
      BY <1>7
    <3> QED BY <1>1, <3>1, EnterBegins
  <2>2. ~EnterContainer
    BY <1>1, <1>8, QuoteIs, EnterBegins
  <2>3. ~EnterNumber
    BY <1>1, <1>8, QuoteIs, EnterBegins DEF Digit
  <2>4. ~EnterBool
    BY <1>1, <1>8 DEF EnterBool, Between
  <2> QED BY <2>1, <2>2, <2>3, <2>4 DEF Enter
<1>10. SubSeq(text, c.first + 1, c.last - 1) = s
  <2>1. c.first + 1 \in Nat /\ c.first + 1 >= 1 /\ c.last - 1 \in Nat /\ c.last - 1 <= Len(text)
        /\ c.last - 1 + 1 = c.first + 1 + Len(s)
    <3>1. k = Len(s) /\ k \in Nat
      BY <1>5
    <3>2. PICK a, b : a = c.first /\ b = c.last
      OBVIOUS
    <3>3. a + 1 \in Nat /\ a + 1 >= 1 /\ b - 1 \in Nat /\ b - 1 <= Len(text)
      BY <1>7, <3>2
    <3>4. b - 1 + 1 = a + 1 + k
      BY <1>7, <3>1, <3>2
    <3> QED BY <3>1, <3>2, <3>3, <3>4
  <2>2. ASSUME NEW i \in 1..Len(s) PROVE text[c.first + 1 - 1 + i] = s[i]
    <3>1. i + 1 \in 1..Len(o) /\ c.first - 1 + (i + 1) = c.first + 1 - 1 + i /\ i \in 1..k
      <4>1. k = Len(s)
        BY <1>5
      <4> QED BY <1>7, <4>1, SMTT(40)
    <3>2. text[c.first - 1 + (i + 1)] = o[i + 1]
      BY <1>3, <3>1 DEF At
    <3> QED BY <1>6, <3>1, <3>2
  <2>3. At(text, c.first + 1 - 1, s)
    BY <2>2 DEF At
  <2>4. text \in Seq(Chars)
    BY DEF Reading, Laid, Histories
  <2>5. s \in Seq(Chars)
    BY <1>4
  <2>6. PICK a, b : a = c.first + 1 /\ b = c.last - 1
    OBVIOUS
  <2>7. a \in Nat /\ b \in Nat /\ a >= 1 /\ b <= Len(text) /\ b + 1 = a + Len(s) /\ a - 1 = c.first + 1 - 1
    BY <1>7, <2>1, <2>6, SMTT(40)
  <2>8. At(text, a - 1, s)
    BY <2>3, <2>7
  <2>9. SubSeq(text, a, b) = s
    BY <2>4, <2>5, <2>7, <2>8, PartIs
  <2> QED BY <2>6, <2>9
<1>11. Make(Node("string", s)) /\ step' = "leave" /\ calls' = calls
  BY <1>1, <1>9, <1>10 DEF EnterString, Enter
<1>12. Node("string", s) = AsRead(written)[q] /\ Node("string", s).kind # "scalar"
  <2>1. written[q] = Node("string", s)
    BY <1>1, <1>3 DEF NodeOK, Nodes, Node
  <2> QED BY <1>1, <1>3, <2>1, ReadAs DEF Node
<1>13. ReadsOf(step', built', scan', calls')
  BY <1>1, <1>2, <1>3, <1>11, <1>12, ValueMade
<1> QED BY <1>11, <1>13

\* A number or a bool; what else is printed is taken for the latter and throws.
LEMMA EnterScalarValue ==
  ASSUME ReadOK, Reading, Reads, step = "enter", Enter,
         HasText(Last(calls).path),
         Last(calls).path \in DOMAIN written, written[Last(calls).path].kind = "scalar"
  PROVE  IF step' = "threw" THEN Unreadable(written) ELSE ReadsOf(step', built', scan', calls')
<1>1. PICK c, q, o : c = Last(calls) /\ q = c.path /\ o = Opening(written[q])
  OBVIOUS
<1>2. ~Inside(q)
  BY <1>1 DEF Inside, Containers
<1>3. /\ AtValue(c, built) /\ q \in Places /\ Positive(built)
      /\ \A k \in 1..(Len(calls) - 1) : Waits(calls[k])
      /\ NodeOK(written[q]) /\ Printed(written[q].chars) = o
  BY <1>1, <1>2, PartOf, OpeningIs
<1>4. /\ Part = o /\ c.first = span[q].first /\ c.last = span[q].last
      /\ text[c.first] = o[1] /\ text[c.last] = o[Len(o)] /\ Len(o) \in Nat /\ Len(o) >= 1
      /\ c.first \in Nat /\ c.last \in Nat /\ c.last + 1 = c.first + Len(o) /\ o \in Seq(Chars)
  BY <1>1, <1>2, <1>3, PartOf
<1>5. calls' = calls /\ (o \in Bools \/ o \in Words \/ IsNumber(o))
  BY <1>1, <1>3 DEF Enter, NodeOK, Printable
<1>6. Node("scalar", o).kind = "scalar" /\ Node("scalar", o).chars = o
  BY DEF Node
<1>7. CASE Len(o) = 1
  <2>1. c.first >= c.last
    BY <1>4, <1>7
  <2>2. EnterNothing
    <3>1. ~(c.first < c.last)
      BY <1>4, <2>1
    <3> QED BY <1>1, <3>1, EnterBegins
  <2>3. Make(Node("undefined", <<>>)) /\ step' = "leave"
    BY <2>2 DEF EnterNothing
  <2>5. AsRead(written)[q] = Node("undefined", <<>>) /\ Node("undefined", <<>>).kind # "scalar"
    BY <1>1, <1>3, <1>7, ReadAs DEF Node
  <2>6. ReadsOf(step', built', scan', calls')
    BY <1>1, <1>2, <1>3, <1>5, <2>3, <2>5, ValueMade
  <2> QED BY <2>3, <2>6
<1>8. ASSUME Len(o) # 1
      PROVE  /\ c.first < c.last /\ ~EnterNothing
             /\ AsRead(written)[q] = Node("scalar", o)
  <2>0. Len(o) \in Nat /\ Len(o) >= 1 /\ c.first \in Nat /\ c.last \in Nat /\ c.last + 1 = c.first + Len(o)
    BY <1>4
  <2>1. c.first < c.last /\ ~(c.first >= c.last)
    <3>1. PICK a, b, k : a = c.first /\ b = c.last /\ k = Len(o)
      OBVIOUS
    <3>2. k # 1
      BY <1>8, <3>1
    <3>3. k \in Nat /\ k >= 1 /\ a \in Nat /\ b \in Nat /\ b + 1 = a + k
      BY <2>0, <3>1
    <3>4. a < b /\ ~(a >= b)
      BY <3>2, <3>3
    <3> QED BY <3>1, <3>4
  <2>2. ~EnterNothing
    BY <1>1, <2>1, EnterBegins
  <2>3. AsRead(written)[q] = Node("scalar", o)
    BY <1>1, <1>3, <1>8, ReadAs
  <2> QED BY <2>1, <2>2, <2>3
<1>9. CASE o \in Bools
  <2>1. Len(o) # 1 /\ o[1] \in {"t", "f"}
    BY <1>9, BoolText
  <2>2. ~EnterContainer /\ ~EnterNumber
    BY <1>1, <1>4, <2>1, EnterBegins DEF Digit
  <2>3. ~EnterString
    <3>1. Quote # "t" /\ Quote # "f"
      BY QuoteIs
    <3> QED BY <1>1, <1>4, <2>1, <3>1, EnterBegins
  <2>4. EnterBool
    BY <1>8, <2>1, <2>2, <2>3 DEF Enter
  <2>5. Make(Node("scalar", o)) /\ step' = "leave"
    BY <1>4, <1>9, <2>4 DEF EnterBool
  <2>6. Readable(Node("scalar", o).chars)
    <3>1. o \notin Words /\ o[1] # "-"
      BY <2>1, WordText
    <3> QED BY <1>6, <3>1 DEF Readable
  <2>7. ReadsOf(step', built', scan', calls')
    BY <1>1, <1>2, <1>3, <1>5, <1>8, <2>1, <2>5, <2>6, ValueMade
  <2> QED BY <2>5, <2>7
<1>10. CASE Len(o) # 1 /\ IsNumber(o) /\ o[1] \in Digit
  <2>1. o[Len(o)] \in Digit
    BY <1>4, <1>10, NumberText
  <2>2. c.first < c.last /\ ~EnterNothing /\ text[c.first] \in Digit /\ text[c.last] \in Digit
    BY <1>4, <1>8, <1>10, <2>1
  <2>3. ~EnterContainer
    BY <1>1, <2>2, EnterBegins DEF Digit
  <2>4. ~EnterString
    <3>1. Quote \notin Digit
      BY QuoteIs DEF Digit
    <3> QED BY <1>1, <2>2, <3>1, EnterBegins
  <2>5. ~EnterBool
    BY <1>1, <2>2 DEF EnterBool, Between
  <2>6. EnterNumber
    BY <2>2, <2>3, <2>4, <2>5 DEF Enter
  <2>7. step' = "dot" /\ scan' = FindChar(c.first, c.last) /\ built' = built
    BY <1>1, <2>6 DEF EnterNumber
  <2>8. scan'.at = c.first /\ scan'.until = c.last /\ scan'.stack = <<>>
    BY <2>7 DEF FindChar
  <2>9. c.first \in c.first..c.last /\ \A i \in c.first..c.first : i = c.first
    BY <1>4, <2>2
  <2>10. "." \notin Digit
    BY DEF Digit
  <2>11. AtDot(c, scan')
    <3>1. q \in DOMAIN written /\ written[q].kind = "scalar" /\ IsNumber(Opening(written[q]))
      BY <1>1, <1>10
    <3>2. \A i \in c.first..c.first : text[i] # "."
      BY <2>2, <2>9, <2>10
    <3> QED BY <1>1, <1>4, <2>2, <2>8, <2>9, <3>1, <3>2, Zenon DEF AtDot
  <2>12. TopReads(step', built', scan', Last(calls'))
    BY <1>1, <1>3, <1>5, <2>7, <2>11 DEF TopReads
  <2>13. ReadsOf(step', built', scan', calls')
    BY <1>3, <1>5, <2>7, <2>12 DEF ReadsOf
  <2> QED BY <2>7, <2>13
<1>11. ASSUME Len(o) # 1, o[1] \in {"-", "i", "n"}, o \notin Bools,
              o[1] = "-" \/ o \in Words
       PROVE  step' = "threw" /\ Unreadable(written)
  <2>1. text[c.first] \in {"-", "i", "n"} /\ Quote # "-" /\ Quote # "i" /\ Quote # "n"
    BY <1>4, <1>11, QuoteIs
  <2>2. ~EnterContainer /\ ~EnterNumber
    BY <1>1, <2>1, EnterBegins DEF Digit
  <2>3. ~EnterString
    BY <1>1, <2>1, EnterBegins
  <2>4. EnterBool
    BY <1>8, <1>11, <2>2, <2>3 DEF Enter
  <2>6. step' = "threw"
    BY <1>4, <1>11, <2>4 DEF EnterBool
  <2>7. Unreadable(written)
    BY <1>1, <1>3, <1>11 DEF Unreadable
  <2> QED BY <2>6, <2>7
<1>12. CASE Len(o) # 1 /\ IsNumber(o) /\ o[1] = "-"
  <2>1. o \notin Bools
    BY <1>12, BoolText
  <2> QED BY <1>11, <1>12, <2>1
<1>13. CASE o \in Words
  <2>1. Len(o) # 1 /\ o[1] \in {"-", "i", "n"}
    BY <1>13, WordText
  <2>2. o \notin Bools
    BY <2>1, BoolText
  <2> QED BY <1>11, <1>13, <2>1, <2>2
<1>14. IsNumber(o) => o[1] \in Digit \/ o[1] = "-"
  BY <1>4, NumberText
<1> QED BY <1>5, <1>7, <1>9, <1>10, <1>12, <1>13, <1>14

\* Where there is a container there is a first value in it, or nothing.
LEMMA FirstInside ==
  ASSUME Reading, NEW q \in Places, Inside(q)
  PROVE  \E r \in Subs(q) : /\ span[r].before = span[q].first
                            /\ written[q].kind = "array" => Last(r) = Indexed(1)
<1>1. q \in DOMAIN written /\ written[q].kind \in Containers /\ q \in Seq(TreeKeys)
  BY DEF Inside, Reading, IsTree, Grove, Paths
<1>2. Linked(q) /\ ~Open(q)
  <2>1. ~Open(q)
    BY PlaceNumbers DEF Reading
  <2> QED BY <2>1 DEF Reading, Laid, Chain
<1>3. Inner(written, q) \subseteq Subs(q)
  <2>1. Inner(written, q) \subseteq Places
    BY <1>2 DEF Linked
  <2> QED BY <2>1 DEF Inner, Subs
<1>4. Subs(q) # {}
  <2>1. CASE Inner(written, q) # {}
    BY <1>3, <2>1
  <2>2. CASE Inner(written, q) = {}
    <3>1. written[q].kind # "dict"
      <4>1. Rooted
        BY RootedIs
      <4> QED BY <1>1, <2>2, <4>1, LegibleIs DEF Reading, Rooted
    <3>2. written[q].kind = "array"
      BY <1>1, <3>1 DEF Containers
    <3>3. Append(q, Indexed(1)) \in Places
      BY <1>2, <2>2, <3>2 DEF Linked
    <3>4. Indexed(1) \in TreeKeys
      BY KeyOf
    <3>5. Append(q, Indexed(1)) # <<>> /\ Front(Append(q, Indexed(1))) = q
      BY <1>1, <3>4, PathGrown
    <3> QED BY <3>3, <3>5 DEF Subs
  <2> QED BY <2>1, <2>2
<1>5. \E r \in Places : Starts(q, r, 1) /\ span[r].before = span[q].first
  BY <1>2, <1>4 DEF Linked
<1> QED BY <1>5 DEF Starts

\* A container, whose loop begins at the first value in it.
LEMMA EnterContainerValue ==
  ASSUME ReadOK, Reading, Reads, step = "enter", Enter, Inside(Last(calls).path)
  PROVE  step' # "threw" /\ ReadsOf(step', built', scan', calls')
<1>1. PICK c, q, kind : c = Last(calls) /\ q = c.path /\ kind = written[q].kind
  OBVIOUS
<1>2. /\ AtValue(c, built) /\ q \in Places /\ Positive(built) /\ Inside(q) /\ c.item = <<>>
      /\ \A k \in 1..(Len(calls) - 1) : Waits(calls[k])
  BY <1>1 DEF Reads, ReadsOf, TopReads, AtValue
<1>3. q \in DOMAIN written /\ kind \in Containers /\ NodeOK(written[q])
  BY <1>1 DEF Inside, Reading, IsTree, Grove
<1>4. /\ span[q].first < span[q].last /\ text[span[q].first] = Opening(written[q])[1]
      /\ text[span[q].last] = Closing(written[q])
      /\ span[q].first \in Nat /\ span[q].last \in Nat
  BY <1>2, EndsAre, PlaceNumbers DEF Reading
<1>5. c.first = span[q].first /\ c.last = span[q].last
  <2>1. span[q].first <= span[q].last
    BY <1>4
  <2> QED BY <1>1, <1>2, <2>1 DEF AtValue, Trim
<1>6. \/ kind = "array" /\ text[c.first] = "[" /\ text[c.last] = "]"
      \/ kind = "dict" /\ text[c.first] = "{" /\ text[c.last] = "}"
  <2>1. CASE kind = "array"
    BY <1>1, <1>4, <1>5, <2>1 DEF Opening, Closing
  <2>2. CASE kind = "dict"
    BY <1>1, <1>4, <1>5, <2>2 DEF Opening, Closing
  <2> QED BY <1>3, <2>1, <2>2 DEF Containers
<1>7. ~EnterNothing
  <2>1. c.first < c.last /\ c.first \in Nat /\ c.last \in Nat
    BY <1>4, <1>5
  <2>2. ~(c.first >= c.last)
    BY <2>1
  <2> QED BY <1>1, <2>2, EnterBegins
<1>8. ~EnterString
  BY <1>1, <1>6, QuoteIs, EnterBegins
<1>9. ~EnterNumber
  BY <1>1, <1>6, EnterBegins DEF Digit
<1>10. ~EnterBool
  BY <1>1, <1>4, <1>5, <1>6 DEF EnterBool, Between
<1>11. EnterContainer
  BY <1>7, <1>8, <1>9, <1>10 DEF Enter
<1>12. Make(Node(kind, <<>>)) /\ step' = "comma" /\ scan' = FindChar(c.first, c.last) /\ calls' = calls
  BY <1>1, <1>6, <1>11 DEF EnterContainer, Between, Enter
<1>13. AsRead(written)[q] = Node(kind, <<>>)
  <2>1. written[q] = Node(kind, <<>>)
    BY <1>1, <1>3 DEF NodeOK, Nodes, Node
  <2> QED BY <1>2, <2>1, ReadAs, Zenon
<1>14. built' = Cutoff(span[q].first)
  <2>1. built' = Grown(built, q, Node(kind, <<>>))
    BY <1>1, <1>12 DEF Make, Grown
  <2>2. built = Cutoff(span[q].before)
    BY <1>1, <1>2 DEF AtValue
  <2> QED BY <1>2, <1>13, <2>1, <2>2, CutoffNext
<1>15. Positive(built')
  <2>1. Node(kind, <<>>).kind # "scalar"
    BY <1>3 DEF Node, Containers
  <2> QED BY <1>2, <1>12, <2>1 DEF Positive, Make
<1>16. PICK r \in Subs(q) : /\ span[r].before = span[q].first
                            /\ kind = "array" => Last(r) = Indexed(1)
  BY <1>1, <1>2, FirstInside
<1>17. r \in Places /\ r # <<>> /\ Front(r) = q
  BY <1>16 DEF Subs
<1>18. AtComma(c, r, scan')
  <2>1. scan'.at = span[r].before /\ scan'.until = c.last /\ scan'.stack = <<>>
    BY <1>5, <1>12, <1>16 DEF FindChar
  <2>2. Beyond(Nest(span[r].before), Len(r)) = <<>>
    BY <1>17, CommaStarts
  <2>3. span[r].before \in span[r].before..(span[r].after - 1)
    <3>1. span[r].before \in Nat /\ span[r].after \in Nat /\ span[r].before < span[r].after
      BY <1>17, PlaceNumbers DEF Reading
    <3> QED BY <3>1
  <2> QED BY <2>1, <2>2, <2>3 DEF AtComma
<1>19. AtLoop(step', built', scan', c, r)
  <2>1. Loops(c, r)
    BY <1>1, <1>2, <1>5, <1>16 DEF Loops
  <2>2. NextIndex(c.item) = 1
    BY <1>2 DEF NextIndex
  <2> QED BY <1>1, <1>12, <1>14, <1>16, <1>18, <2>1, <2>2 DEF AtLoop
<1>20. TopReads(step', built', scan', Last(calls'))
  BY <1>1, <1>12, <1>16, <1>19 DEF TopReads
<1>21. ReadsOf(step', built', scan', calls')
  BY <1>2, <1>12, <1>15, <1>20 DEF ReadsOf
<1> QED BY <1>12, <1>21

\* So Enter makes of each value what it should.
LEMMA EnterReads ==
  ASSUME ReadOK, Reading, Reads, step = "enter", Enter
  PROVE  IF step' = "threw" THEN Unreadable(written) ELSE ReadsOf(step', built', scan', calls')
<1>1. PICK q : q = Last(calls).path
  OBVIOUS
<1>2. q \in Places
  BY <1>1 DEF Reads, ReadsOf, TopReads, AtValue
<1>3. CASE ~HasText(q)
  <2>1. span[q].first > span[q].last
    <3>1. span[q].first \in Nat /\ span[q].last \in Nat
      BY <1>2, PlaceNumbers DEF Reading
    <3> QED BY <1>3, <3>1 DEF HasText
  <2> QED BY <1>1, <2>1, EnterBlank
<1>4. CASE HasText(q) /\ Inside(q)
  BY <1>1, <1>4, EnterContainerValue
<1>5. CASE HasText(q) /\ ~Inside(q)
  <2>1. q \in DOMAIN written /\ written[q].kind \in {"scalar", "string"}
    BY <1>1, <1>5, PartOf
  <2>2. CASE written[q].kind = "scalar"
    BY <1>1, <1>5, <2>1, <2>2, EnterScalarValue
  <2>3. CASE written[q].kind = "string"
    BY <1>1, <1>5, <2>1, <2>3, EnterStringValue
  <2> QED BY <2>1, <2>2, <2>3
<1> QED BY <1>3, <1>4, <1>5

\* BuildJson finds the root's text.
LEMMA BuildReads ==
  ASSUME Reading, built = <<>>, BuildJson
  PROVE  step' = "enter" /\ ReadsOf(step', built', scan', calls')
<1>1. PICK a, n, first, last :
          /\ a = IF IsSpace(1) THEN NextChar(1, Len(text)) ELSE 1
          /\ n = Len(text) /\ first = span[<<>>].first /\ last = span[<<>>].last
  OBVIOUS
<1>2. PICK b \in LastChars(a) : calls' = <<Call(<<>>, a, b)>>
  BY <1>1 DEF BuildJson
<1>3. calls' = <<Call(<<>>, a, b)>> /\ step' = "enter" /\ built' = built
  BY <1>2 DEF BuildJson
<1>4. /\ text # <<>> => b = IF IsSpace(Len(text)) THEN PrevChar(a, Len(text)) ELSE Len(text)
      /\ text = <<>> => b \in {0, -1}
  BY <1>2 DEF LastChars
<1>5. <<>> \in Places /\ text \in Seq(Chars)
  BY DEF Reading, Laid, SpanOK, Histories
<1>6. n \in Nat /\ first \in {1, 2} /\ last \in Nat /\ n = last + first - 1 /\ first <= last + 1
  <2>1. n \in Nat /\ last \in Nat /\ first <= last + 1
    BY <1>1, <1>5, PlaceNumbers DEF Reading
  <2>2. first \in {1, 2} /\ n = last + first - 1
    BY <1>1 DEF Reading, Laid, SpanOK
  <2> QED BY <2>1, <2>2
<1>7. first <= last => ~IsSpace(first) /\ ~IsSpace(last)
  <2>1. first <= last => text[first] # " " /\ text[last] # " "
    BY <1>1, <1>5, EndsAre
  <2>2. first \in Int /\ last \in Int
    BY <1>6
  <2> QED BY <1>5, <2>1, <2>2, SpaceIs
<1>8. first = 2 => IsSpace(1) /\ IsSpace(n)
  <2> SUFFICES ASSUME first = 2 PROVE IsSpace(1) /\ IsSpace(n)
    OBVIOUS
  <2>1. n = last + 1 /\ n \in Int /\ 1 <= n /\ 1 \in 1..(first - 1)
    BY <1>6
  <2>2. \A i \in 1..(first - 1) : text[i] = " "
    BY <1>1 DEF Reading, Laid, SpanOK
  <2>3. Blanks(text, last + 1, n)
    BY <1>1 DEF Reading, Laid
  <2>4. n \in (last + 1)..n
    BY <2>1
  <2>5. text[1] = " " /\ text[n] = " "
    BY <2>1, <2>2, <2>3, <2>4 DEF Blanks
  <2>6. n <= Len(text) /\ 1 <= Len(text)
    BY <1>1, <2>1
  <2>7. 1 \in Int /\ 1 <= 1
    OBVIOUS
  <2>8. IsSpace(1)
    BY <1>5, <2>5, <2>6, <2>7, SpaceIs
  <2>9. IsSpace(n)
    BY <1>5, <2>1, <2>5, <2>6, SpaceIs
  <2> QED BY <2>8, <2>9
<1>9. ASSUME text # <<>> PROVE a = first /\ b = last
  <2>0. n = Len(text)
    BY <1>1
  <2>1. CASE first = 1
    <3>1. n = last
      BY <1>6, <2>1
    <3>2. ~IsSpace(1) /\ ~IsSpace(n)
      <4>1. CASE first <= last
        BY <1>7, <2>1, <3>1, <4>1
      <4>2. CASE ~(first <= last)
        <5>1. n = 0
          BY <1>6, <2>1, <4>2
        <5>2. 1 \in Int /\ n \in Int /\ ~(1 <= n) /\ ~(1 <= Len(text))
          BY <2>0, <5>1
        <5>3. ~IsSpace(1)
          BY <1>5, <5>2, SpaceIs
        <5>4. ~IsSpace(n)
          BY <1>5, <5>2, SpaceIs
        <5> QED BY <5>3, <5>4
      <4> QED BY <4>1, <4>2
    <3> QED BY <1>1, <1>4, <1>9, <2>1, <3>1, <3>2
  <2>2. CASE first = 2
    <3>1. n = last + 1 /\ n - 1 = last /\ n >= 1
      BY <1>6, <2>2
    <3>2. NextChar(1, n) = 2
      <4>1. 1 <= Len(text) /\ 2 \in (1 + 1)..(Len(text) + 1) /\ n \in Int /\ 1 \in Nat
            /\ \A i \in (1 + 1)..(2 - 1) : FALSE
        BY <1>6, <2>0, <2>2, <3>1
      <4>2. ~IsSpace(2) \/ 2 >= n
        <5>1. CASE first <= last
          BY <1>7, <2>2, <5>1
        <5>2. CASE ~(first <= last)
          <6>1. n <= 2
            BY <1>6, <2>2, <3>1, <5>2
          <6> QED BY <1>6, <6>1
        <5> QED BY <5>1, <5>2
      <4> QED BY <1>5, <4>1, <4>2, NextCharOne
    <3>3. PrevChar(2, n) = last
      <4>1. n \in Nat /\ last \in 0..(n - 1) /\ 2 \in Int /\ \A i \in (last + 1)..(n - 1) : FALSE
        BY <1>6, <3>1
      <4>2. ~IsSpace(last) \/ last <= 2
        <5>1. CASE first <= last
          BY <1>7, <5>1
        <5>2. CASE ~(first <= last)
          <6>1. last <= 2
            BY <1>6, <2>2, <5>2
          <6> QED BY <6>1
        <5> QED BY <5>1, <5>2
      <4> QED BY <1>5, <3>1, <4>1, <4>2, PrevCharOne
    <3> QED BY <1>1, <1>8, <1>4, <1>9, <2>2, <3>2, <3>3
  <2> QED BY <1>6, <2>1, <2>2
<1>10. ASSUME text = <<>> PROVE a >= b /\ ~(first <= last)
  <2>1. n = 0
    BY <1>1, <1>10
  <2>2. first = 1 /\ last = 0
    BY <1>6, <2>1
  <2>3. ~IsSpace(1)
    <3>1. 1 \in Int /\ ~(1 <= Len(text))
      BY <1>10
    <3> QED BY <1>5, <3>1, SpaceIs
  <2>4. a = 1 /\ b \in {0, -1}
    BY <1>1, <1>4, <1>10, <2>3
  <2> QED BY <2>2, <2>4
<1>11. AtValue(Call(<<>>, a, b), built)
  <2>1. built = Cutoff(span[<<>>].before)
    <3>1. span[<<>>].before = 0
      BY DEF Reading, Laid, SpanOK
    <3> QED BY <3>1, CutoffAll
  <2>2. Trim(Call(<<>>, a, b), span[<<>>])
    <3>1. CASE text # <<>>
      <4>1. a = first /\ b = last /\ (first <= last \/ a >= b)
        BY <1>6, <1>9, <3>1
      <4> QED BY <1>1, <4>1 DEF Trim, Call
    <3>2. CASE text = <<>>
      BY <1>1, <1>10, <3>2 DEF Trim, Call
    <3> QED BY <3>1, <3>2
  <2> QED BY <1>5, <2>1, <2>2 DEF AtValue, Call
<1>12. Last(calls') = Call(<<>>, a, b) /\ Len(calls') = 1
  <2>1. Len(calls') = 1
    BY <1>3
  <2> QED BY <1>3, <2>1 DEF Last
<1>13. TopReads(step', built', scan', Last(calls'))
  <2>1. Call(<<>>, a, b).item = <<>>
    BY DEF Call
  <2> QED BY <1>3, <1>11, <1>12, <2>1 DEF TopReads
<1>14. Positive(built')
  BY <1>3, NothingIs DEF Positive
<1>15. \A k \in 1..(Len(calls') - 1) : Waits(calls'[k])
  BY <1>12
<1> QED BY <1>3, <1>13, <1>14, <1>15 DEF ReadsOf

\* The point of a number, and where there is none.
LEMMA DotSteps ==
  ASSUME ReadOK, Reading, Reads, step = "dot"
  PROVE  LET c == Last(calls)
             q == c.path
             o == Opening(written[q])
         IN  /\ AtValue(c, built) /\ AtDot(c, scan) /\ q \in Places /\ ~Inside(q) /\ Positive(built)
             /\ \A k \in 1..(Len(calls) - 1) : Waits(calls[k])
             /\ Part = o /\ o \in Seq(Chars) /\ IsNumber(o) /\ o[1] \in Digit /\ o[1] # "-"
             /\ Node("scalar", o) = AsRead(written)[q]
             /\ c.first \in Nat /\ c.last \in Nat /\ c.first < c.last /\ c.last + 1 = c.first + Len(o)
             /\ scan.until = c.last /\ scan.at \in c.first..c.last /\ scan.stack = <<>>
             /\ \A i \in c.first..scan.at : text[i] # "."
             /\ \A i \in 1..Len(o) : text[c.first - 1 + i] = o[i]
             /\ \A i \in c.first..c.last : text[i] \in Digit \cup {"-", "."}
             /\ text[c.last] \in Digit
<1>1. PICK c, q, o : c = Last(calls) /\ q = c.path /\ o = Opening(written[q])
  OBVIOUS
<1>2. AtValue(c, built) /\ AtDot(c, scan)
  BY <1>1 DEF Reads, ReadsOf, TopReads
<1>3. /\ q \in DOMAIN written /\ written[q].kind = "scalar" /\ IsNumber(o)
      /\ span[q].first < span[q].last /\ q \in Places
  BY <1>1, <1>2 DEF AtDot, AtValue
<1>4. HasText(q) /\ ~Inside(q)
  <2>1. span[q].first <= span[q].last
    BY <1>3, PlaceNumbers DEF Reading
  <2> QED BY <1>3, <2>1 DEF HasText, Inside, Containers
<1>5. NodeOK(written[q])
  BY <1>1, <1>3 DEF Reading, IsTree, Grove
<1>6. /\ Positive(built) /\ \A k \in 1..(Len(calls) - 1) : Waits(calls[k])
      /\ Part = o /\ c.first = span[q].first /\ c.last = span[q].last
      /\ text[c.first] = o[1] /\ text[c.last] = o[Len(o)] /\ Len(o) \in Nat /\ Len(o) >= 1
      /\ c.first \in Nat /\ c.last \in Nat
      /\ c.last + 1 = c.first + Len(o) /\ At(text, c.first - 1, o) /\ o \in Seq(Chars)
  BY <1>1, <1>4, <1>5, PartOf
<1>7. o[1] \in Digit /\ o[1] # "-"
  <2>1. text[c.first] \in Digit
    BY <1>1, TopIs DEF TopOK
  <2> QED BY <1>6, <2>1 DEF Digit
<1>8. c.first < c.last
  BY <1>3, <1>6
<1>9. Node("scalar", o) = AsRead(written)[q]
  <2>1. Len(o) # 1
    <3>1. PICK a, b, k : a = c.first /\ b = c.last /\ k = Len(o)
      OBVIOUS
    <3>2. a \in Nat /\ b \in Nat /\ k \in Nat /\ b + 1 = a + k /\ a < b
      BY <1>6, <1>8, <3>1
    <3>3. k # 1
      BY <3>2
    <3> QED BY <3>1, <3>3
  <2> QED BY <1>1, <1>3, <2>1, ReadAs
<1>10. /\ scan.until = c.last /\ scan.at \in c.first..c.last /\ scan.stack = <<>>
       /\ \A i \in c.first..scan.at : text[i] # "."
  BY <1>1, <1>2, <1>6 DEF AtDot
<1>11. \A i \in 1..Len(o) : text[c.first - 1 + i] = o[i] /\ o[i] \in Digit \cup {"-", "."}
  BY <1>3, <1>6, NumberText DEF At
<1>12. ASSUME NEW i \in c.first..c.last PROVE text[i] \in Digit \cup {"-", "."}
  <2>1. PICK a, b, k, j : a = c.first /\ b = c.last /\ k = Len(o) /\ j = i - a + 1
    OBVIOUS
  <2>2. a \in Nat /\ b \in Nat /\ k \in Nat /\ b + 1 = a + k
    BY <1>6, <2>1
  <2>3. i \in a..b
    BY <2>1
  <2>4. j \in 1..k /\ a - 1 + j = i
    BY <2>1, <2>2, <2>3, SMTT(40)
  <2> QED BY <1>11, <2>1, <2>4
<1>13. text[c.last] \in Digit
  <2>1. o[Len(o)] \in Digit
    BY <1>3, <1>6, NumberText
  <2> QED BY <1>6, <2>1
<1>14. \A i \in 1..Len(o) : text[c.first - 1 + i] = o[i]
  BY <1>11
<1>15. /\ c.first \in Nat /\ c.last \in Nat /\ c.first < c.last /\ c.last + 1 = c.first + Len(o)
  BY <1>6, <1>8
<1>16. \A i \in c.first..c.last : text[i] \in Digit \cup {"-", "."}
  BY <1>12
<1>17. /\ AtValue(c, built) /\ AtDot(c, scan) /\ q \in Places /\ ~Inside(q) /\ Positive(built)
       /\ \A k \in 1..(Len(calls) - 1) : Waits(calls[k])
       /\ Part = o /\ o \in Seq(Chars) /\ IsNumber(o)
  BY <1>2, <1>3, <1>4, <1>6
<1> QED BY <1>1, <1>7, <1>9, <1>10, <1>13, <1>14, <1>15, <1>16, <1>17, Zenon

\* So a number is read as it is written.
LEMMA DotReads ==
  ASSUME ReadOK, Reading, Reads, DotSought
  PROVE  step' # "threw" /\ ReadsOf(step', built', scan', calls')
<1>1. PICK c, q, o : c = Last(calls) /\ q = c.path /\ o = Opening(written[q])
  OBVIOUS
<1>2. step = "dot" /\ step' = "leave" /\ calls' = calls
  BY DEF DotSought
<1>3. PICK p \in {scan.until, scan.at + 1} :
          Finds(p) /\ Make(Node("scalar", Number(Part, p # c.last)))
  BY <1>1 DEF DotSought
<1>4. /\ AtValue(c, built) /\ ~Inside(q) /\ Positive(built) /\ \A k \in 1..(Len(calls) - 1) : Waits(calls[k])
      /\ Part = o /\ o \in Seq(Chars) /\ IsNumber(o) /\ o[1] \in Digit /\ o[1] # "-"
      /\ Node("scalar", o) = AsRead(written)[q]
  BY <1>1, <1>2, DotSteps
<1>5. c.first \in Nat /\ c.last \in Nat /\ c.first < c.last /\ c.last + 1 = c.first + Len(o)
  BY <1>1, <1>2, DotSteps
<1>6. /\ scan.until = c.last /\ scan.at \in c.first..c.last /\ scan.stack = <<>>
      /\ \A i \in c.first..scan.at : text[i] # "."
      /\ \A i \in 1..Len(o) : text[c.first - 1 + i] = o[i]
      /\ \A i \in c.first..c.last : text[i] \in Digit \cup {"-", "."}
      /\ text[c.last] \in Digit
  BY <1>1, <1>2, DotSteps
<1>7. PICK a, b, at, k : a = c.first /\ b = c.last /\ at = scan.at /\ k = Len(o)
  OBVIOUS
<1>8. a \in Nat /\ b \in Nat /\ k \in Nat /\ b + 1 = a + k /\ at \in a..b
  <2>1. k \in Nat
    BY <1>4, <1>7
  <2> QED BY <1>5, <1>6, <1>7, <2>1
<1>9. \/ at = b /\ p = b
      \/ at # b /\ p = at + 1 /\ Returns(text[p], ".", <<>>)
  BY <1>2, <1>3, <1>6, <1>7 DEF Finds, Seeks
<1>10. Number(Part, p # c.last) = o
  <2>1. CASE at = b /\ p = b
    <3>1. \A i \in 1..k : a - 1 + i \in a..at
      BY <1>8, <2>1
    <3>2. \A i \in 1..k : o[i] # "."
      BY <1>6, <1>7, <3>1
    <3>3. Number(o, FALSE) = o
      BY <1>4, <1>7, <3>2, NumberSame
    <3>4. (p # c.last) = FALSE
      BY <1>7, <2>1
    <3> QED BY <1>4, <3>3, <3>4, Zenon
  <2>2. CASE at # b /\ p = at + 1 /\ Returns(text[p], ".", <<>>)
    <3>1. p \in a..b
      BY <1>8, <2>2
    <3>2. text[p] \in Digit \cup {"-", "."}
      BY <1>6, <1>7, <3>1
    <3>3. text[p] = "."
      <4>1. ~Closes(text[p])
        BY <3>2 DEF Closes, Digit
      <4> QED BY <2>2, <4>1 DEF Returns
    <3>4. p # b
      BY <1>6, <1>7, <3>3 DEF Digit
    <3>5. p - a + 1 \in 1..k /\ a - 1 + (p - a + 1) = p
      BY <1>8, <3>1
    <3>6. o[p - a + 1] = "."
      BY <1>6, <1>7, <3>3, <3>5
    <3>7. Number(o, TRUE) = o
      BY <1>4, <1>7, <3>5, <3>6, NumberSame
    <3>8. (p # c.last) = TRUE
      BY <1>7, <3>4
    <3> QED BY <1>4, <3>7, <3>8, Zenon
  <2> QED BY <1>9, <2>1, <2>2
<1>11. Make(Node("scalar", o))
  BY <1>3, <1>10
<1>12. Readable(Node("scalar", o).chars)
  <2>1. o \notin Words
    BY <1>4, WordText DEF Digit
  <2> QED BY <1>4, <2>1 DEF Node, Readable
<1>13. ReadsOf(step', built', scan', calls')
  BY <1>1, <1>2, <1>4, <1>11, <1>12, ValueMade
<1> QED BY <1>2, <1>13

\* What FindChar passes is not what it looks for.
LEMMA DotScan ==
  ASSUME ReadOK, Reading, Reads, step = "dot", ScanOn
  PROVE  AtDot(Last(calls), scan')
<1>1. PICK c, x : c = Last(calls) /\ x = text[scan.at + 1]
  OBVIOUS
<1>2. AtDot(c, scan)
  BY <1>1, DotSteps
<1>3. PICK s : s = span[c.path]
  OBVIOUS
<1>4. /\ c.path \in DOMAIN written /\ written[c.path].kind = "scalar"
      /\ IsNumber(Opening(written[c.path])) /\ s.first < s.last
      /\ scan.until = s.last /\ scan.at \in s.first..s.last /\ scan.stack = <<>>
      /\ \A i \in s.first..scan.at : text[i] # "."
  BY <1>2, <1>3 DEF AtDot
<1>5. /\ c.last = s.last /\ c.first \in Nat /\ c.last \in Nat /\ s.first \in Nat /\ c.first <= scan.at
      /\ \A i \in c.first..c.last : text[i] \in Digit \cup {"-", "."}
  <2>1. /\ scan.until = c.last /\ c.first \in Nat /\ c.last \in Nat /\ scan.at \in c.first..c.last
        /\ \A i \in c.first..c.last : text[i] \in Digit \cup {"-", "."}
    BY <1>1, DotSteps
  <2>2. s.first \in Nat
    <3>1. c.path \in Places
      BY <1>1, DotSteps
    <3> QED BY <1>3, <3>1, PlaceNumbers DEF Reading
  <2>3. c.first <= scan.at
    BY <2>1
  <2> QED BY <1>4, <2>1, <2>2, <2>3
<1>6. scan.at # scan.until /\ ~Returns(x, ".", <<>>)
  BY <1>1, <1>4 DEF ScanOn, Seeks
<1>7. scan'.until = scan.until /\ scan'.at = scan.at + 1 /\ scan'.stack = StackAfter(x, <<>>)
  <2>1. scan' = [scan EXCEPT !.at = @ + 1, !.stack = StackAfter(x, @)]
    BY <1>1 DEF ScanOn
  <2>2. scan'.until = scan.until /\ scan'.at = scan.at + 1 /\ scan'.stack = StackAfter(x, scan.stack)
    BY <2>1
  <2> QED BY <1>4, <2>2
<1>8. scan'.at \in s.first..s.last /\ scan.at + 1 \in c.first..c.last
  <2>1. PICK at, a, b, f : at = scan.at /\ a = s.first /\ b = s.last /\ f = c.first
    OBVIOUS
  <2>2. at \in a..b /\ at # b /\ a \in Nat /\ b \in Nat /\ f \in Nat /\ f <= at
    BY <1>4, <1>5, <1>6, <2>1
  <2>3. at + 1 \in a..b /\ at + 1 \in f..b
    BY <2>2
  <2> QED BY <1>5, <1>7, <2>1, <2>3
<1>9. x # "." /\ StackAfter(x, <<>>) = <<>>
  <2>1. x \in Digit \cup {"-", "."}
    BY <1>1, <1>5, <1>8
  <2>2. ~Closes(x) /\ ~Opens(x)
    BY <2>1 DEF Closes, Opens, Digit
  <2>3. x # "."
    BY <1>6 DEF Returns
  <2> QED BY <2>2, <2>3, MarksAre
<1>10. \A i \in s.first..scan'.at : text[i] # "."
  <2>1. \A i \in s.first..scan'.at : i \in s.first..scan.at \/ i = scan.at + 1
    <3>1. scan.at \in Int /\ s.first \in Int
      BY <1>4, <1>5
    <3> QED BY <1>7, <3>1
  <2> QED BY <1>1, <1>4, <1>9, <2>1
<1> QED BY <1>1, <1>3, <1>4, <1>7, <1>8, <1>9, <1>10 DEF AtDot

\* The same for the end of a value.
LEMMA CommaScan ==
  ASSUME Reading, step = "comma", ScanOn, NEW c, NEW r \in Places, r # <<>>, AtComma(c, r, scan)
  PROVE  AtComma(c, r, scan')
<1>1. PICK at, x, stack, before, after :
          /\ at = scan.at /\ x = text[at + 1] /\ stack = scan.stack
          /\ before = span[r].before /\ after = span[r].after
  OBVIOUS
<1>2. scan.until = c.last /\ at \in before..(after - 1) /\ stack = Beyond(Nest(at), Len(r))
  BY <1>1 DEF AtComma
<1>3. ~Returns(x, ",", stack)
  BY <1>1 DEF ScanOn, Seeks
<1>4. at + 1 # after /\ StackAfter(x, stack) = Beyond(Nest(at + 1), Len(r))
  BY <1>1, <1>2, <1>3, CommaSought
<1>5. scan'.until = scan.until /\ scan'.at = at + 1 /\ scan'.stack = StackAfter(x, stack)
  <2>1. scan' = [scan EXCEPT !.at = @ + 1, !.stack = StackAfter(x, @)]
    BY <1>1 DEF ScanOn
  <2> QED BY <1>1, <2>1
<1>6. at + 1 \in before..(after - 1)
  <2>1. before \in Nat /\ after \in Nat
    BY <1>1, PlaceNumbers DEF Reading
  <2> QED BY <1>2, <1>4, <2>1
<1> QED BY <1>1, <1>2, <1>4, <1>5, <1>6, Zenon DEF AtComma

\* The same for a colon, before which nothing is structure.
LEMMA ColonScan ==
  ASSUME Reading, NEW r \in Places, r # <<>>, written[Front(r)].kind = "dict",
         NEW at \in span[r].before..(span[r].colon - 1)
  PROVE  /\ at + 1 \in Nat
         /\ Returns(text[at + 1], ":", <<>>) <=> at + 1 = span[r].colon
         /\ at + 1 # span[r].colon => StackAfter(text[at + 1], <<>>) = <<>>
<1>1. PICK x, before, colon : x = text[at + 1] /\ before = span[r].before /\ colon = span[r].colon
  OBVIOUS
<1>2. before \in Nat /\ colon \in Nat /\ at \in before..(colon - 1)
  BY <1>1, PlaceNumbers DEF Reading
<1>3. at + 1 \in Nat
  BY <1>2
<1>4. CASE at + 1 = colon
  <2>1. x = ":"
    BY <1>1, <1>4, LabelSame
  <2>2. Returns(x, ":", <<>>)
    BY <2>1 DEF Returns
  <2> QED BY <1>1, <1>3, <1>4, <2>2
<1>5. CASE at + 1 # colon
  <2>1. at + 1 \in (before + 1)..(colon - 1)
    BY <1>2, <1>5
  <2>2. x \notin Structure \cup {":"}
    <3>1. Inside(Front(r))
      BY PlaceNumbers DEF Reading
    <3>2. DeepOK(r)
      BY <3>1, RootedIs DEF Nests
    <3> QED BY <1>1, <2>1, <3>2 DEF DeepOK
  <2>3. ~Opens(x) /\ ~Closes(x)
    BY <2>2, MarksAre
  <2>4. ~Returns(x, ":", <<>>)
    BY <2>2, <2>3 DEF Returns
  <2>5. StackAfter(x, <<>>) = <<>>
    BY <2>3, MarksAre
  <2> QED BY <1>1, <1>3, <1>5, <2>4, <2>5
<1> QED BY <1>4, <1>5

\* So a turn of FindChar passes nothing it should not.
LEMMA ScanReads ==
  ASSUME ReadOK, Reading, Reads, ScanOn
  PROVE  step' # "threw" /\ ReadsOf(step', built', scan', calls')
<1>1. PICK c : c = Last(calls)
  OBVIOUS
<1>2. /\ step \in {"comma", "colon", "dot"} /\ step' = step /\ calls' = calls /\ built' = built
      /\ scan.at # scan.until
  BY DEF ScanOn, Seeks
<1>3. Positive(built) /\ (\A k \in 1..(Len(calls) - 1) : Waits(calls[k])) /\ TopReads(step, built, scan, c)
  BY <1>1 DEF Reads, ReadsOf
<1>4. CASE step = "dot"
  <2>1. AtDot(c, scan') /\ AtValue(c, built)
    BY <1>1, <1>4, DotScan, DotSteps
  <2>2. TopReads(step', built', scan', c)
    BY <1>2, <1>4, <2>1 DEF TopReads
  <2> QED BY <1>1, <1>2, <1>3, <2>2 DEF ReadsOf
<1>5. CASE step \in {"comma", "colon"}
  <2>1. PICK r \in Subs(c.path) : AtLoop(step, built, scan, c, r)
    BY <1>3, <1>5 DEF TopReads
  <2>2. r \in Places /\ r # <<>> /\ Front(r) = c.path
    BY <2>1 DEF Subs
  <2>3. step = "comma" => AtComma(c, r, scan')
    <3> SUFFICES ASSUME step = "comma" PROVE AtComma(c, r, scan')
      OBVIOUS
    <3>1. AtComma(c, r, scan)
      BY <2>1 DEF AtLoop
    <3> QED BY <2>2, <3>1, CommaScan
  <2>4. step = "colon" => AtColon(c, r, scan')
    <3> SUFFICES ASSUME step = "colon" PROVE AtColon(c, r, scan')
      OBVIOUS
    <3>1. AtColon(c, r, scan)
      BY <2>1 DEF AtLoop
    <3>2. PICK at, x, before, colon :
              at = scan.at /\ x = text[at + 1] /\ before = span[r].before /\ colon = span[r].colon
      OBVIOUS
    <3>3. /\ written[c.path].kind = "dict" /\ c.comma = span[r].after
          /\ scan.until = c.comma /\ at \in before..(colon - 1) /\ scan.stack = <<>>
      BY <3>1, <3>2 DEF AtColon
    <3>4. ~Returns(x, ":", <<>>)
      BY <3>2, <3>3 DEF ScanOn, Seeks
    <3>5. at + 1 # colon /\ StackAfter(x, <<>>) = <<>>
      BY <2>2, <3>2, <3>3, <3>4, ColonScan
    <3>6. scan'.until = scan.until /\ scan'.at = at + 1 /\ scan'.stack = StackAfter(x, <<>>)
      <4>1. scan' = [scan EXCEPT !.at = @ + 1, !.stack = StackAfter(x, @)]
        BY <3>2 DEF ScanOn
      <4>2. scan'.until = scan.until /\ scan'.at = scan.at + 1 /\ scan'.stack = StackAfter(x, scan.stack)
        BY <4>1
      <4> QED BY <3>2, <3>3, <4>2
    <3>7. at + 1 \in before..(colon - 1)
      <4>1. before \in Nat /\ colon \in Nat
        BY <2>2, <3>2, PlaceNumbers DEF Reading
      <4> QED BY <3>3, <3>5, <4>1
    <3> QED BY <3>2, <3>3, <3>5, <3>6, <3>7 DEF AtColon
  <2>5. AtLoop(step', built', scan', c, r)
    BY <1>2, <2>1, <2>3, <2>4 DEF AtLoop
  <2>6. TopReads(step', built', scan', c)
    BY <1>2, <1>5, <2>1, <2>5 DEF TopReads
  <2> QED BY <1>1, <1>2, <1>3, <1>5, <2>6 DEF ReadsOf
<1> QED BY <1>2, <1>4, <1>5

\* The loop's own call goes on to the value it has reached.
LEMMA DescendReads ==
  ASSUME ReadOK, Reading, NEW r, Loops(Last(calls), r),
         \A k \in 1..(Len(calls) - 1) : Waits(calls[k]),
         built' = Cutoff(span[r].before), Positive(built'), step' = "enter",
         Descend(r, span[r].colon, span[r].after)
  PROVE  ReadsOf(step', built', scan', calls')
<1>1. PICK c, m, w, d :
          /\ c = Last(calls) /\ m = Len(calls) /\ w = Waiting(c, r, span[r].after)
          /\ d = Call(r, NextChar(span[r].colon, span[r].after), PrevChar(span[r].colon, span[r].after))
  OBVIOUS
<1>2. m \in Nat /\ m >= 1 /\ c \in ReadFrames
  BY <1>1, TopIs
<1>3. Len(calls') = m + 1 /\ (\A k \in 1..(m - 1) : calls'[k] = calls[k]) /\ calls'[m] = w /\ calls'[m + 1] = d
  <2>1. PICK colon, comma : colon = span[r].colon /\ comma = span[r].after
    OBVIOUS
  <2>2. Descend(r, colon, comma)
    BY <2>1
  <2>3. /\ Len(calls') = Len(calls) + 1 /\ \A k \in 1..(Len(calls) - 1) : calls'[k] = calls[k]
        /\ calls'[Len(calls)] = Waiting(Last(calls), r, comma)
        /\ calls'[Len(calls) + 1] = Call(r, NextChar(colon, comma), PrevChar(colon, comma))
    BY <2>2, DescendCalls
  <2> QED BY <1>1, <2>1, <2>3, Zenon
<1>4. r \in Places /\ r # <<>> /\ Front(r) = c.path
  BY <1>1 DEF Loops, Subs
<1>5. Waits(w)
  <2>1. /\ w.path = c.path /\ w.first = c.first /\ w.last = c.last
        /\ w.item = r /\ w.comma = span[r].after
    BY <1>1, <1>2 DEF Waiting, ReadFrames
  <2>2. Loops(c, r)
    BY <1>1
  <2>3. Loops(w, r)
    BY <2>1, <2>2, Zenon DEF Loops
  <2> QED BY <2>1, <2>3 DEF Waits
<1>6. \A k \in 1..(Len(calls') - 1) : Waits(calls'[k])
  <2>1. Len(calls') - 1 = m
    BY <1>2, <1>3
  <2>2. \A k \in 1..m : k \in 1..(m - 1) \/ k = m
    BY <1>2
  <2>3. \A k \in 1..(m - 1) : Waits(calls'[k])
    BY <1>1, <1>3
  <2> QED BY <1>3, <1>5, <2>1, <2>2, <2>3, Zenon
<1>7. Last(calls') = d
  <2>1. Last(calls') = calls'[Len(calls')]
    BY DEF Last
  <2> QED BY <1>3, <2>1
<1>8. d.path = r /\ d.item = <<>>
  BY <1>1 DEF Call
<1>9. AtValue(d, built')
  <2>1. Trim(d, span[r])
    BY <1>1, <1>4, Trimmed
  <2> QED BY <1>4, <1>8, <2>1 DEF AtValue
<1>10. TopReads(step', built', scan', d)
  BY <1>8, <1>9 DEF TopReads
<1> QED BY <1>6, <1>7, <1>10 DEF ReadsOf

\* FindChar returns the end of the value.
LEMMA CommaFound ==
  ASSUME Reading, step = "comma", NEW c, NEW r, AtLoop(step, built, scan, c, r),
         NEW p \in {scan.until, scan.at + 1}, Finds(p)
  PROVE  p = span[r].after
<1>1. PICK at, x, stack, before, after, last :
          /\ at = scan.at /\ x = text[at + 1] /\ stack = scan.stack /\ last = c.last
          /\ before = span[r].before /\ after = span[r].after
  OBVIOUS
<1>2. scan.until = last /\ at \in before..(after - 1) /\ stack = Beyond(Nest(at), Len(r))
  BY <1>1 DEF AtLoop, AtComma
<1>3. r \in Places /\ r # <<>> /\ Front(r) = c.path /\ last = span[Front(r)].last
  BY <1>1 DEF AtLoop, Loops, Subs
<1>4. before \in Nat /\ after \in Nat /\ after <= last
  BY <1>1, <1>3, PlaceNumbers DEF Reading
<1>5. last \in Nat
  <2>1. Front(r) \in Places
    BY <1>3, PlaceNumbers DEF Reading
  <2> QED BY <1>3, <2>1, PlaceNumbers DEF Reading
<1>6. at # last
  BY <1>2, <1>4, <1>5
<1>7. p = at + 1 /\ Returns(x, ",", stack)
  <2>1. PICK ch \in {",", ":", "."} :
            /\ Seeks(ch)
            /\ \/ scan.at = scan.until /\ p = scan.until
               \/ /\ scan.at # scan.until /\ p = scan.at + 1
                  /\ Returns(text[p], ch, scan.stack)
    BY DEF Finds
  <2>2. ch = ","
    BY <2>1 DEF Seeks
  <2> QED BY <1>1, <1>2, <1>6, <2>1, <2>2
<1>8. at + 1 = after
  BY <1>1, <1>2, <1>3, <1>7, CommaSought
<1> QED BY <1>1, <1>7, <1>8

\* A container that is being read is the one that was written.
LEMMA SameKind ==
  ASSUME ReadOK, Reading, step \in {"comma", "colon"}, NEW r, AtLoop(step, built, scan, Last(calls), r)
  PROVE  built[Last(calls).path] = written[Last(calls).path]
<1>1. PICK c, p : c = Last(calls) /\ p = c.path
  OBVIOUS
<1>2. p \in DOMAIN built
  BY <1>1, TopIs DEF TopOK, OpenFrame
<1>3. built = Cutoff(span[r].before) /\ p \in Places /\ Inside(p)
  BY <1>1 DEF AtLoop, Loops
<1>4. built[p] = AsRead(written)[p]
  BY <1>2, <1>3 DEF Cutoff
<1> QED BY <1>1, <1>3, <1>4, ReadAs

\* The next item, or entry, of a container is the next value in it.
LEMMA ItemReads ==
  ASSUME ReadOK, Reading, Reads, ItemFound
  PROVE  step' # "threw" /\ ReadsOf(step', built', scan', calls')
<1>1. PICK c : c = Last(calls)
  OBVIOUS
<1>2. step = "comma" /\ step' = "enter" /\ built' = built /\ built[c.path].kind = "array"
  BY <1>1 DEF ItemFound
<1>3. Positive(built) /\ (\A k \in 1..(Len(calls) - 1) : Waits(calls[k])) /\ TopReads(step, built, scan, c)
  BY <1>1 DEF Reads, ReadsOf
<1>4. PICK r \in Subs(c.path) : AtLoop(step, built, scan, c, r)
  BY <1>2, <1>3 DEF TopReads
<1>5. PICK p \in {scan.until, scan.at + 1} :
          Finds(p) /\ Descend(Append(c.path, Indexed(NextIndex(c.item))), c.first, p)
  BY <1>1 DEF ItemFound
<1>6. p = span[r].after
  BY <1>2, <1>4, <1>5, CommaFound
<1>7. written[c.path].kind = "array"
  BY <1>1, <1>2, <1>4, SameKind
<1>8. Loops(c, r) /\ Last(r) = Indexed(NextIndex(c.item)) /\ built = Cutoff(span[r].before)
  BY <1>4, <1>7 DEF AtLoop
<1>9. r \in Places /\ r # <<>> /\ Front(r) = c.path /\ c.first = span[r].before
  BY <1>8 DEF Loops, Subs
<1>10. Append(c.path, Indexed(NextIndex(c.item))) = r
  <2>1. r \in Seq(TreeKeys)
    <3>1. IsTree(written) /\ SpanOK
      BY DEF Reading, Laid
    <3> QED BY <1>9, <3>1, PlacePaths DEF Paths
  <2>2. r = Append(Front(r), Last(r))
    BY <1>9, <2>1, PathEnd
  <2> QED BY <1>8, <1>9, <2>2
<1>11. c.first = span[r].colon
  <2>1. TextOK(r)
    BY <1>9 DEF Reading, Laid, Texts
  <2>2. written[Front(r)].kind # "dict"
    BY <1>7, <1>9
  <2> QED BY <1>9, <2>1, <2>2 DEF TextOK
<1>12. Descend(r, span[r].colon, span[r].after)
  BY <1>5, <1>6, <1>10, <1>11
<1>13. ReadsOf(step', built', scan', calls')
  BY <1>1, <1>2, <1>3, <1>8, <1>12, DescendReads
<1> QED BY <1>2, <1>13

\* Finding an entry of a dictionary keeps what the reader has made.
LEMMA EntryReads ==
  ASSUME ReadOK, Reading, Reads, EntryFound
  PROVE  step' # "threw" /\ ReadsOf(step', built', scan', calls')
<1>1. PICK c, m : c = Last(calls) /\ m = Len(calls)
  OBVIOUS
<1>2. step = "comma" /\ step' = "colon" /\ built' = built /\ built[c.path].kind = "dict"
  BY <1>1 DEF EntryFound
<1>3. Positive(built) /\ (\A k \in 1..(Len(calls) - 1) : Waits(calls[k])) /\ TopReads(step, built, scan, c)
  BY <1>1 DEF Reads, ReadsOf
<1>4. PICK r \in Subs(c.path) : AtLoop(step, built, scan, c, r)
  BY <1>2, <1>3 DEF TopReads
<1>5. PICK p \in {scan.until, scan.at + 1} :
          /\ Finds(p) /\ calls' = [calls EXCEPT ![Len(calls)].comma = p] /\ scan' = FindChar(c.first, p)
  BY <1>1 DEF EntryFound
<1>6. p = span[r].after
  BY <1>2, <1>4, <1>5, CommaFound
<1>7. written[c.path].kind = "dict"
  BY <1>1, <1>2, <1>4, SameKind
<1>8. Loops(c, r) /\ built = Cutoff(span[r].before)
  BY <1>4 DEF AtLoop
<1>9. r \in Places /\ r # <<>> /\ Front(r) = c.path /\ c.first = span[r].before
  BY <1>8 DEF Loops, Subs
<1>10. m \in Nat /\ m >= 1 /\ c \in ReadFrames /\ c = calls[m] /\ calls \in Seq(ReadFrames)
  BY <1>1, TopIs DEF ReadOK
<1>11. PICK w : w = [c EXCEPT !.comma = p]
  OBVIOUS
<1>12. /\ Len(calls') = m /\ (\A k \in 1..(m - 1) : calls'[k] = calls[k])
       /\ Last(calls') = w
  <2>1. Len(calls') = m
    BY <1>1, <1>5, <1>10
  <2>2. m \in 1..Len(calls)
    BY <1>1, <1>10
  <2>3. calls'[m] = w
    BY <1>1, <1>5, <1>10, <1>11, <2>2
  <2>4. \A k \in 1..(m - 1) : calls'[k] = calls[k]
    BY <1>1, <1>5, <1>10
  <2>5. Last(calls') = calls'[Len(calls')]
    BY DEF Last
  <2> QED BY <2>1, <2>3, <2>4, <2>5
<1>13. /\ w.path = c.path /\ w.first = c.first /\ w.last = c.last /\ w.item = c.item /\ w.comma = p
  BY <1>10, <1>11 DEF ReadFrames
<1>14. Loops(w, r)
  BY <1>8, <1>13, Zenon DEF Loops
<1>15. AtColon(w, r, scan')
  <2>1. scan'.at = span[r].before /\ scan'.until = p /\ scan'.stack = <<>>
    BY <1>5, <1>9 DEF FindChar
  <2>2. span[r].before \in span[r].before..(span[r].colon - 1)
    <3>1. span[r].before \in Nat /\ span[r].colon \in Nat
      BY <1>9, PlaceNumbers DEF Reading
    <3>2. span[r].before < span[r].colon
      BY <1>7, <1>9, LabelSame
    <3> QED BY <3>1, <3>2
  <2> QED BY <1>6, <1>7, <1>13, <2>1, <2>2 DEF AtColon
<1>16. AtLoop(step', built', scan', w, r)
  BY <1>2, <1>7, <1>8, <1>13, <1>14, <1>15 DEF AtLoop
<1>17. TopReads(step', built', scan', w)
  BY <1>2, <1>4, <1>13, <1>16 DEF TopReads
<1>18. \A k \in 1..(Len(calls') - 1) : Waits(calls'[k])
  BY <1>1, <1>3, <1>12
<1>19. ReadsOf(step', built', scan', calls')
  BY <1>2, <1>3, <1>12, <1>17, <1>18 DEF ReadsOf
<1> QED BY <1>2, <1>19

\* Reading the label of an entry keeps what the reader has made.
LEMMA LabelReads ==
  ASSUME ReadOK, Reading, Reads, LabelFound
  PROVE  step' # "threw" /\ ReadsOf(step', built', scan', calls')
<1>1. PICK c : c = Last(calls)
  OBVIOUS
<1>2. step = "colon"
  BY DEF LabelFound
<1>3. Positive(built) /\ (\A k \in 1..(Len(calls) - 1) : Waits(calls[k])) /\ TopReads(step, built, scan, c)
  BY <1>1 DEF Reads, ReadsOf
<1>4. PICK r \in Subs(c.path) : AtLoop(step, built, scan, c, r)
  BY <1>2, <1>3 DEF TopReads
<1>5. Loops(c, r) /\ built = Cutoff(span[r].before) /\ AtColon(c, r, scan)
  BY <1>2, <1>4 DEF AtLoop
<1>6. r \in Places /\ r # <<>> /\ Front(r) = c.path /\ c.first = span[r].before
  BY <1>5 DEF Loops, Subs
<1>7. PICK at, x, before, colon, after :
          /\ at = scan.at /\ x = text[at + 1]
          /\ before = span[r].before /\ colon = span[r].colon /\ after = span[r].after
  OBVIOUS
<1>8. /\ written[c.path].kind = "dict" /\ c.comma = after
      /\ scan.until = after /\ at \in before..(colon - 1) /\ scan.stack = <<>>
  BY <1>5, <1>7 DEF AtColon
<1>9. before \in Nat /\ colon \in Nat /\ after \in Nat /\ colon < after
  <2>1. /\ before \in Nat /\ colon \in Nat /\ after \in Nat /\ span[r].first \in Nat /\ span[r].last \in Nat
        /\ colon < span[r].first /\ span[r].first <= span[r].last + 1 /\ span[r].last < after
    BY <1>6, <1>7, PlaceNumbers DEF Reading
  <2> QED BY <2>1
<1>19. at # after
  <2>1. at \in before..(colon - 1)
    BY <1>8
  <2> QED BY <1>9, <2>1
<1>10. PICK p \in {scan.until, scan.at + 1} :
          /\ Finds(p)
          /\ LET beg == NextChar(c.first, p)
                 q   == Append(c.path, Labelled(Substr(beg + 1, PrevChar(c.first, p) - beg - 1)))
             IN  IF beg > Len(text)
                 THEN step' = "threw" /\ UNCHANGED <<calls, built>>
                 ELSE /\ Descend(q, p, c.comma) /\ step' = "enter"
                      /\ built' = [s \in {s \in DOMAIN built : ~IsPrefix(q, s)} |-> built[s]]
  BY <1>1 DEF LabelFound
<1>11. p = colon
  <2>1. PICK ch \in {",", ":", "."} :
            /\ Seeks(ch)
            /\ \/ scan.at = scan.until /\ p = scan.until
               \/ /\ scan.at # scan.until /\ p = scan.at + 1
                  /\ Returns(text[p], ch, scan.stack)
    BY <1>10 DEF Finds
  <2>2. ch = ":"
    BY <1>2, <2>1 DEF Seeks
  <2>4. p = at + 1 /\ Returns(x, ":", <<>>)
    BY <1>7, <1>8, <1>19, <2>1, <2>2
  <2>5. at + 1 = colon
    BY <1>6, <1>7, <1>8, <2>4, ColonScan
  <2> QED BY <2>4, <2>5
<1>12. PICK beg, prev : beg = NextChar(before, colon) /\ prev = PrevChar(before, colon)
  OBVIOUS
<1>13. beg <= Len(text) /\ Append(c.path, Labelled(Substr(beg + 1, prev - beg - 1))) = r
  BY <1>6, <1>7, <1>8, <1>12, LabelSame
<1>14. IF beg > Len(text)
       THEN step' = "threw" /\ UNCHANGED <<calls, built>>
       ELSE /\ Descend(r, colon, after) /\ step' = "enter"
            /\ built' = [s \in {s \in DOMAIN built : ~IsPrefix(r, s)} |-> built[s]]
  BY <1>6, <1>7, <1>8, <1>10, <1>11, <1>12, <1>13, Zenon
<1>15. ~(beg > Len(text))
  <2>1. beg \in Int /\ Len(text) \in Int
    <3>1. text \in Seq(Chars) /\ before <= Len(text)
      BY <1>6, <1>7, <1>9, PlaceNumbers DEF Reading, Laid, Histories
    <3>2. Len(text) \in Int
      BY <3>1
    <3>3. beg \in (before + 1)..(Len(text) + 1)
      BY <1>9, <1>12, <3>1, NextCharIs
    <3> QED BY <3>2, <3>3
  <2> QED BY <1>13, <2>1
<1>16. /\ Descend(r, colon, after) /\ step' = "enter"
       /\ built' = [s \in {s \in DOMAIN built : ~IsPrefix(r, s)} |-> built[s]]
  BY <1>14, <1>15
<1>17. built' = built
  <2>1. Grove(built)
    BY DEF ReadOK
  <2>2. r \notin DOMAIN built
    BY <1>5, <1>6, CutoffNext
  <2>3. r \in Paths
    <3>1. IsTree(written) /\ SpanOK
      BY DEF Reading, Laid
    <3> QED BY <1>6, <3>1, PlacePaths
  <2>4. \A s \in DOMAIN built : ~IsPrefix(r, s)
    BY <2>1, <2>2, <2>3, WithPrefix
  <2>5. {s \in DOMAIN built : ~IsPrefix(r, s)} = DOMAIN built
    BY <2>4
  <2>6. built = [s \in DOMAIN built |-> built[s]]
    BY <1>5 DEF Cutoff
  <2> QED BY <1>16, <2>5, <2>6
<1>18. ReadsOf(step', built', scan', calls')
  BY <1>1, <1>3, <1>5, <1>7, <1>16, <1>17, DescendReads
<1> QED BY <1>16, <1>18

\* A value that is made is behind the reader.
LEMMA LeaveReads ==
  ASSUME ReadOK, Reading, Reads, Leave
  PROVE  /\ step' # "threw" /\ built' = built
         /\ IF step' = "built" THEN built' = AsRead(written) /\ Positive(built')
            ELSE ReadsOf(step', built', scan', calls')
<1>1. PICK q, rest, m : q = Last(calls).path /\ rest = Front(calls) /\ m = Len(calls)
  OBVIOUS
<1>2. step = "leave" /\ built' = built
  BY DEF Leave
<1>3. /\ Positive(built) /\ (\A k \in 1..(Len(calls) - 1) : Waits(calls[k]))
      /\ q \in Places /\ built = Cutoff(span[q].after)
  BY <1>1, <1>2 DEF Reads, ReadsOf, TopReads
<1>4. m \in Nat /\ m >= 1 /\ Last(calls) = calls[m] /\ calls \in Seq(ReadFrames) /\ Len(q) = m - 1
  BY <1>1, TopIs DEF ReadOK
<1>5. CASE rest = <<>>
  <2>1. step' = "built"
    BY <1>1, <1>5 DEF Leave
  <2>2. m = 1
    <3>1. Len(rest) = m - 1
      <4>1. calls # <<>>
        BY DEF ReadOK
      <4> QED BY <1>1, <1>4, <4>1, PathEnd
    <3> QED BY <1>4, <1>5, <3>1, NothingIs
  <2>3. q = <<>>
    <3>1. q \in Seq(TreeKeys) /\ Len(q) = 0
      <4>1. IsTree(written) /\ SpanOK
        BY DEF Reading, Laid
      <4> QED BY <1>3, <1>4, <2>2, <4>1, PlacePaths DEF Paths
    <3> QED BY <3>1
  <2> QED BY <1>2, <1>3, <2>1, <2>3, CutoffAll
<1>6. CASE rest # <<>>
  <2>1. PICK c : c = Last(rest)
    OBVIOUS
  <2>2. /\ m >= 2 /\ rest \in Seq(ReadFrames) /\ Len(rest) = m - 1 /\ c = calls[m - 1] /\ c \in ReadFrames
        /\ \A k \in 1..(m - 1) : rest[k] = calls[k]
    BY <1>1, <1>6, <2>1, FrontCalls
  <2>3. c.item = q
    <3>1. m - 1 \in 1..(Len(calls) - 1) /\ (m - 1) + 1 = m
      BY <1>1, <1>4, <2>2
    <3>2. WaitsFor(built, calls[m - 1], calls[(m - 1) + 1].path)
      BY <3>1 DEF ReadOK
    <3>3. calls[(m - 1) + 1].path = q
      BY <1>1, <1>4, <3>1
    <3> QED BY <2>2, <3>2, <3>3 DEF WaitsFor
  <2>4. Loops(c, q) /\ c.comma = span[q].after
    <3>1. m - 1 \in 1..(Len(calls) - 1)
      BY <1>1, <1>4, <2>2
    <3>2. Waits(calls[m - 1])
      BY <1>3, <3>1
    <3> QED BY <2>2, <2>3, <3>2 DEF Waits
  <2>5. q # <<>> /\ Front(q) = c.path /\ c.path \in Places /\ Inside(c.path) /\ c.last = span[c.path].last
    BY <2>4 DEF Loops, Subs
  <2>6. \A k \in 1..(m - 2) : Waits(calls[k]) /\ rest[k] = calls[k]
    <3>1. \A k \in 1..(m - 2) : k \in 1..(Len(calls) - 1) /\ k \in 1..(m - 1)
      BY <1>1, <1>4
    <3> QED BY <1>3, <2>2, <3>1
  <2>7. CASE c.comma = c.last
    <3>1. calls' = rest /\ step' = "leave"
      BY <1>1, <1>2, <1>6, <2>1, <2>7 DEF Leave
    <3>2. built = Cutoff(span[c.path].after)
      BY <1>3, <2>4, <2>5, <2>7, CutoffNext
    <3>3. TopReads(step', built', scan', Last(calls'))
      BY <1>2, <2>1, <2>5, <3>1, <3>2 DEF TopReads
    <3>4. \A k \in 1..(Len(calls') - 1) : Waits(calls'[k])
      <4>1. Len(calls') - 1 = m - 2
        BY <1>4, <2>2, <3>1
      <4> QED BY <2>6, <3>1, <4>1
    <3> QED BY <1>2, <1>3, <3>1, <3>3, <3>4 DEF ReadsOf
  <2>8. CASE c.comma # c.last
    <3>1. /\ calls' = [rest EXCEPT ![Len(rest)].first = c.comma]
          /\ scan' = FindChar(c.comma, c.last) /\ step' = "comma"
      BY <1>1, <1>6, <2>1, <2>8 DEF Leave
    <3>2. PICK w : w = [c EXCEPT !.first = c.comma]
      OBVIOUS
    <3>3. Len(calls') = m - 1 /\ calls'[m - 1] = w /\ \A k \in 1..(m - 2) : calls'[k] = rest[k]
      <4>1. m - 1 \in 1..Len(rest) /\ Len(rest) = m - 1
        BY <1>4, <2>2
      <4>2. rest[m - 1] = c
        BY <2>2, <4>1
      <4>3. Len(calls') = m - 1
        BY <2>2, <3>1, <4>1
      <4>4. calls'[m - 1] = w
        BY <2>2, <3>1, <3>2, <4>1, <4>2
      <4>5. \A k \in 1..(m - 2) : calls'[k] = rest[k]
        BY <1>4, <2>2, <3>1, <4>1
      <4> QED BY <4>3, <4>4, <4>5
    <3>4. Last(calls') = w
      BY <3>3 DEF Last
    <3>5. w.path = c.path /\ w.first = c.comma /\ w.last = c.last /\ w.item = q
      BY <2>2, <2>3, <3>2 DEF ReadFrames
    <3>6. PICK r \in Places : Starts(c.path, r, Last(q).at + 1) /\ span[r].before = span[q].after
      <4>1. Linked(q) /\ span[q].after # 0
        BY <1>3, PlaceNumbers DEF Reading, Laid, Chain
      <4>2. span[q].after # span[Front(q)].last
        BY <2>4, <2>5, <2>8
      <4> QED BY <2>5, <4>1, <4>2 DEF Linked
    <3>7. r \in Subs(c.path) /\ r # <<>>
      BY <3>6 DEF Starts, Subs
    <3>8. Loops(w, r)
      BY <2>4, <2>5, <3>5, <3>6, <3>7 DEF Loops
    <3>9. AtComma(w, r, scan')
      <4>1. scan'.at = span[r].before /\ scan'.until = w.last /\ scan'.stack = <<>>
        BY <2>4, <3>1, <3>5, <3>6 DEF FindChar
      <4>2. Beyond(Nest(span[r].before), Len(r)) = <<>>
        BY <3>7, CommaStarts
      <4>3. span[r].before \in span[r].before..(span[r].after - 1)
        <5>1. span[r].before \in Nat /\ span[r].after \in Nat /\ span[r].before < span[r].after
          BY PlaceNumbers DEF Reading
        <5> QED BY <5>1
      <4> QED BY <4>1, <4>2, <4>3 DEF AtComma
    <3>10. NextIndex(w.item) = Last(q).at + 1
      BY <2>5, <3>5 DEF NextIndex
    <3>11. AtLoop(step', built', scan', w, r)
      <4>1. written[w.path].kind = "array" => Last(r) = Indexed(NextIndex(w.item))
        BY <3>5, <3>6, <3>10 DEF Starts
      <4>2. built' = Cutoff(span[r].before)
        BY <1>2, <1>3, <3>6
      <4> QED BY <3>1, <3>8, <3>9, <4>1, <4>2 DEF AtLoop
    <3>12. TopReads(step', built', scan', w)
      BY <3>1, <3>5, <3>7, <3>11 DEF TopReads
    <3>13. \A k \in 1..(Len(calls') - 1) : Waits(calls'[k])
      <4>1. Len(calls') - 1 = m - 2
        BY <1>4, <3>3
      <4> QED BY <2>6, <3>3, <4>1
    <3> QED BY <1>2, <1>3, <3>1, <3>4, <3>12, <3>13 DEF ReadsOf
  <2> QED BY <2>7, <2>8
<1> QED BY <1>5, <1>6

-----------------------------------------------------------------------------
(* What does not change where the variables do not. *)

\* What is said of the places stays as long as the text and its history do.
LEMMA PlacesKept ==
  ASSUME UNCHANGED <<written, text, nest, span>>
  PROVE  /\ Histories <=> Histories'
         /\ SpanOK <=> SpanOK'
         /\ Order <=> Order'
         /\ Chain <=> Chain'
         /\ Texts <=> Texts'
         /\ Held <=> Held'
         /\ Rooted <=> Rooted'
         /\ Nests <=> Nests'
<1>1. Places' = Places /\ \A q : (Inside(q) <=> Inside(q)') /\ (Open(q) <=> Open(q)')
  BY DEF Places, Inside, Open
<1>2. \A q : Subs(q) = Subs(q)'
  BY DEF Subs, Places
<1>3. \A i : Nest(i) = Nest(i)'
  BY DEF Nest
<1>4. Histories <=> Histories'
  BY DEF Histories, Places
<1>5. SpanOK <=> SpanOK'
  <2>1. \A q : PlaceOK(q) <=> PlaceOK(q)'
    BY <1>1 DEF PlaceOK
  <2> QED BY <1>1, <2>1 DEF SpanOK
<1>6. Order <=> Order'
  BY <1>1 DEF Order, Apart
<1>7. Chain <=> Chain'
  <2>1. \A q : Linked(q) <=> Linked(q)'
    BY <1>1, <1>2 DEF Linked, Starts
  <2> QED BY <1>1, <2>1 DEF Chain
<1>8. Texts <=> Texts'
  <2>1. \A q : TextOK(q) <=> TextOK(q)'
    BY <1>1 DEF TextOK
  <2> QED BY <1>1, <2>1 DEF Texts
<1>9. Held <=> Held'
  BY <1>1 DEF Held, HeldOK
<1>10. Rooted <=> Rooted'
  BY DEF Rooted
<1>11. Nests <=> Nests'
  <2>1. Matched <=> Matched'
    BY <1>3 DEF Matched
  <2>2. \A q : DeepOK(q) <=> DeepOK(q)'
    BY <1>3 DEF DeepOK
  <2> QED BY <1>1, <2>1, <2>2 DEF Nests
<1> QED BY <1>4, <1>5, <1>6, <1>7, <1>8, <1>9, <1>10, <1>11

\* That the text is laid stays as long as the text and its history do.
LEMMA LaidKept ==
  ASSUME UNCHANGED <<written, text, nest, span>>
  PROVE  Laid => Laid'
<1>1. Places' = Places
  BY DEF Places
<1>2. Laid =>
    /\ Places = DOMAIN written \cup Holes(written)
    /\ \A q \in Places : span[q].after # 0 /\ (q # <<>> => span[q].after <= Len(text))
    /\ \A q \in Places : span[q].before < span[<<>>].after
    /\ span[<<>>].after = span[<<>>].last + 1
    /\ Len(text) = span[<<>>].last + span[<<>>].first - 1
    /\ Blanks(text, span[<<>>].after, Len(text))
  BY DEF Laid
<1>3. Laid => Histories' /\ SpanOK' /\ Order' /\ Chain' /\ Texts' /\ Held' /\ (Rooted' => Nests')
  BY PlacesKept DEF Laid
<1> QED BY <1>1, <1>2, <1>3 DEF Laid

\* What is said of the writer stays with its variables.
LEMMA WriterKept ==
  ASSUME UNCHANGED <<written, pretty, text, nest, span, calls>>
  PROVE  WriterAll => WriterAll'
<1>1. Places' = Places /\ \A q : (Inside(q) <=> Inside(q)') /\ (Open(q) <=> Open(q)')
  BY DEF Places, Inside, Open
<1>2. (\A q : Subs(q) = Subs(q)') /\ \A i : Nest(i) = Nest(i)'
  BY DEF Subs, Places, Nest
<1>3. Frames <=> Frames'
  <2>1. \A k : FrameOK(k) <=> FrameOK(k)'
    BY <1>1 DEF FrameOK
  <2> QED BY <1>1, <1>2, <2>1, SMTT(40) DEF Frames
<1>4. Levels <=> Levels'
  BY DEF Levels, LevelOK
<1> QED BY <1>3, <1>4, PlacesKept DEF WriterAll, WriterOK

\* What is said of the reader stays with its variables.
LEMMA ReaderKept ==
  ASSUME UNCHANGED <<step, text, calls, scan, built>>
  PROVE  ReadInv => ReadInv'
<1>1. ReadOK <=> ReadOK'
  BY DEF ReadOK
<1> QED BY <1>1 DEF ReadInv

-----------------------------------------------------------------------------
(* The inductive invariant. *)

\* While the program does something else, nothing is written; while it writes,
\* the text is that of the values placed so far; after that it is all there.
Stages ==
    /\ step \in {"idle", "null"} => Blank
    /\ step = "writing" => WriterAll
    /\ step \in RSteps \cup {"written", "built", "threw"} => Laid

\* What the reader has made of a text that can be read.
Recalled ==
    Legible(written) =>
        /\ step \in RSteps => Reads
        /\ step = "built" => built = AsRead(written) /\ Positive(built)
        /\ step = "threw" => Unreadable(written)

\* The writer, the reader and the program.
JsonSafe == Typed /\ Careful /\ ReadInv /\ DepthLimits /\ Stages /\ Recalled

\* The program begins so.
LEMMA SafeInit == JsonInit => JsonSafe
<1> SUFFICES ASSUME JsonInit PROVE JsonSafe
  OBVIOUS
<1>1. /\ step = "idle" /\ pretty = FALSE /\ text = <<>> /\ calls = <<>>
      /\ built = <<>> /\ nest = <<>> /\ span = <<>>
  BY DEF JsonInit
<1>2. Typed /\ Careful
  BY InitOK
<1>3. ReadInv
  BY <1>1, NothingIs DEF ReadInv, RSteps
<1>4. Places = {}
  BY <1>1, NothingIs DEF Places
<1>5. DepthLimits
  BY <1>1, <1>4, DepthIs
<1>6. Stages
  BY <1>1 DEF Stages, RSteps, Blank
<1>7. Recalled
  BY <1>1 DEF Recalled, RSteps
<1> QED BY <1>2, <1>3, <1>5, <1>6, <1>7 DEF JsonSafe

\* The steps of the program on its trees.
LEMMA IdleKept ==
  ASSUME JsonSafe, step = "idle", step' \in {"idle", "null"}, UNCHANGED textVars, Typed' /\ Careful'
  PROVE  JsonSafe'
<1>1. UNCHANGED <<written, pretty, text, calls, scan, built, nest, span>>
  BY DEF textVars
<1>2. Blank /\ text \in Seq(Chars) /\ built = <<>>
  BY DEF JsonSafe, Stages, ReadInv
<1>3. ReadInv'
  BY <1>1, <1>2 DEF ReadInv, RSteps
<1>4. Places = {} /\ Places' = {}
  BY <1>1, <1>2, NothingIs DEF Blank, Places
<1>5. DepthLimits'
  <2>1. DepthLimits
    BY DEF JsonSafe
  <2> QED BY <1>1, <1>4, <2>1, DepthKept
<1>6. Stages'
  BY <1>1, <1>2 DEF Stages, RSteps, Blank
<1>7. Recalled'
  BY DEF Recalled, RSteps
<1> QED BY <1>3, <1>5, <1>6, <1>7 DEF JsonSafe

\* What a step of the writer leaves.
WriterLeaves ==
    /\ IsTree(written') /\ pretty' \in BOOLEAN /\ DepthLimits'
    /\ step' \in {"writing", "loops", "written"}
    /\ step' = "writing" => WriterAll'
    /\ step' = "loops" => text' = text
    /\ step' = "written" => Laid'
    /\ written' = written \/ \E y \in Holders : written' = tree[y]

\* The steps of the writer.
LEMMA WriterSafe ==
  ASSUME JsonSafe,
         \/ \E x \in Holders, p \in BOOLEAN : Write(x, p)
         \/ WriteItem \/ WriteClose \/ WriteEnds
  PROVE  JsonSafe'
<1>1. /\ Typed /\ Careful /\ DepthLimits /\ IsTree(written) /\ pretty \in BOOLEAN
      /\ DOMAIN tree = Holders /\ (\A x \in Holders : IsTree(tree[x])) /\ careful \in BOOLEAN
      /\ text \in Seq(Chars)
  BY SMTT(40) DEF JsonSafe, Typed, ReadInv
<1>2. /\ step \in {"idle", "writing"} /\ built = <<>>
      /\ step = "idle" => Blank
      /\ step = "writing" => WriterAll
  BY ZenonT(60) DEF JsonSafe, Stages, ReadInv, Write, WriteItem, WriteClose, WriteEnds
<1>3. UNCHANGED <<tree, careful, built>>
  BY ZenonT(60) DEF Write, WriteItem, WriteClose, WriteEnds
<1>4. WriterLeaves
  <2>1. ASSUME NEW x \in Holders, NEW p \in BOOLEAN, Write(x, p) PROVE WriterLeaves
    <3>1. step = "idle"
      BY <2>1 DEF Write
    <3>2. Typed /\ Blank
      BY <1>1, <1>2, <3>1
    <3> QED BY <2>1, <3>2, WriteStep DEF WriterLeaves
  <2>2. CASE WriteItem
    <3>1. WriterAll
      BY <1>2, <2>2 DEF WriteItem
    <3>2. /\ UNCHANGED <<written, pretty>> /\ DepthLimits' /\ step' \in {"writing", "loops"}
          /\ step' = "writing" => WriterAll'
      BY <1>1, <2>2, <3>1, ItemStep
    <3>3. step' = "loops" => text' = text
      BY <1>2, <2>2 DEF WriteItem
    <3> QED BY <1>1, <3>2, <3>3 DEF WriterLeaves
  <2>3. CASE WriteClose
    <3>1. WriterAll
      BY <1>2, <2>3 DEF WriteClose
    <3>2. UNCHANGED <<written, pretty>> /\ DepthLimits' /\ step' = "writing" /\ WriterAll'
      BY <1>1, <2>3, <3>1, CloseStep
    <3> QED BY <1>1, <3>2 DEF WriterLeaves
  <2>4. CASE WriteEnds
    <3>1. WriterAll
      BY <1>2, <2>4 DEF WriteEnds
    <3>2. UNCHANGED <<written, pretty>> /\ DepthLimits' /\ step' = "written" /\ Laid'
      BY <1>1, <2>4, <3>1, EndStep
    <3> QED BY <1>1, <3>2 DEF WriterLeaves
  <2> QED BY <2>1, <2>2, <2>3, <2>4
<1>5. Typed'
  BY <1>1, <1>3, <1>4 DEF WriterLeaves, Typed, Steps
<1>6. Careful'
  BY <1>1, <1>3, <1>4 DEF WriterLeaves, Careful, Copies
<1>7. ReadInv'
  <2>1. text' \in Seq(Chars)
    BY <1>1, <1>4 DEF WriterLeaves, WriterAll, WriterOK, Laid, Histories
  <2> QED BY <1>2, <1>3, <1>4, <2>1 DEF WriterLeaves, ReadInv, RSteps
<1>8. Stages'
  BY <1>4 DEF WriterLeaves, Stages, RSteps
<1>9. Recalled'
  BY <1>4 DEF WriterLeaves, Recalled, RSteps
<1> QED BY <1>4, <1>5, <1>6, <1>7, <1>8, <1>9 DEF WriterLeaves, JsonSafe

\* The steps of the reader.
LEMMA ReaderSafe ==
  ASSUME JsonSafe, Read
  PROVE  JsonSafe'
<1>1. UNCHANGED <<tree, careful, written, pretty, text, nest, span>>
  BY DEF Read, BuildJson, Enter, ScanOn, DotSought, ItemFound, EntryFound, LabelFound, Leave
<1>2. /\ step \in RSteps \cup {"written"}
      /\ BuildJson <=> step = "written"
  BY DEF Read, BuildJson, Enter, ScanOn, DotSought, ItemFound, EntryFound, LabelFound, Leave, RSteps, Seeks
<1>3. /\ Typed /\ Careful /\ DepthLimits /\ Laid /\ IsTree(written) /\ text \in Seq(Chars)
      /\ step \in RSteps => ReadOK
      /\ step = "written" => built = <<>>
      /\ step \in RSteps /\ Legible(written) => Reads
  BY <1>2 DEF JsonSafe, Typed, Stages, ReadInv, Recalled
<1>4. /\ step' \in RSteps \cup {"built", "threw"}
      /\ step' \in RSteps => ReadOK'
      /\ step' = "built" => IsTree(built')
  <2>1. CASE BuildJson
    <3>1. step' \in RSteps /\ ReadOK'
      BY <1>2, <1>3, <2>1, BuildOK
    <3>2. step' # "built"
      BY <3>1 DEF RSteps
    <3> QED BY <3>1, <3>2
  <2>2. CASE ~BuildJson
    <3>1. ReadOK
      BY <1>2, <1>3, <2>2
    <3>2. \/ Enter \/ ScanOn \/ DotSought \/ ItemFound \/ EntryFound \/ LabelFound \/ Leave
      BY <2>2 DEF Read
    <3>3. ~("threw" \in RSteps) /\ ~("built" \in RSteps)
      BY DEF RSteps
    <3> QED BY <1>3, <3>1, <3>2, <3>3, EnterOK, ScanOK, DotOK, ItemOK, EntryOK, LabelOK, LeaveOK, Zenon
  <2> QED BY <2>1, <2>2
<1>5. Typed' /\ Careful'
  <2>1. Typed'
    BY <1>1, <1>3, <1>4 DEF Typed, Steps
  <2>2. step' # "null"
    BY <1>4 DEF RSteps
  <2> QED BY <1>1, <1>3, <2>1, <2>2 DEF Careful, Copies
<1>6. ReadInv'
  BY <1>1, <1>3, <1>4 DEF ReadInv, RSteps
<1>7. DepthLimits'
  <2>1. step' # "loops"
    BY <1>4 DEF RSteps
  <2>2. (\A q \in Places : Tight(q)) => \A q \in Places' : Tight(q)'
    BY <1>1 DEF Places, Tight
  <2> QED BY <1>1, <1>3, <2>1, <2>2, DepthKept
<1>8. Stages'
  <2>1. Laid'
    BY <1>1, <1>3, LaidKept
  <2> QED BY <1>4, <2>1 DEF Stages, RSteps
<1>9. Recalled'
  <2> SUFFICES ASSUME Legible(written)
               PROVE  /\ step' \in RSteps => Reads'
                      /\ step' = "built" => built' = AsRead(written) /\ Positive(built')
                      /\ step' = "threw" => Unreadable(written)
    BY <1>1 DEF Recalled
  <2>1. Reading
    BY <1>3 DEF Reading
  <2>2. ReadsOf(step', built', scan', calls') => Reads'
    BY <1>1, ReadsKept
  <2>3. ~("threw" \in RSteps) /\ ~("built" \in RSteps) /\ ~("built" = "threw") /\ "enter" \in RSteps
    BY DEF RSteps
  <2>4. CASE BuildJson
    <3>1. step' = "enter" /\ Reads'
      BY <1>2, <1>3, <2>1, <2>2, <2>4, BuildReads
    <3> QED BY <3>1 DEF RSteps
  <2>5. CASE ~BuildJson
    <3>1. ReadOK /\ Reads
      BY <1>2, <1>3, <2>5
    <3>2. CASE Enter
      <4>1. step = "enter"
        BY <3>2 DEF Enter
      <4>2. IF step' = "threw" THEN Unreadable(written) ELSE Reads'
        BY <2>1, <2>2, <3>1, <3>2, <4>1, EnterReads
      <4>3. step' # "built"
        BY <1>3, <2>3, <3>1, <3>2, EnterOK
      <4> QED BY <2>3, <4>2, <4>3
    <3>3. CASE ScanOn \/ DotSought \/ ItemFound \/ EntryFound \/ LabelFound
      <4>1. step' # "threw" /\ Reads'
        BY <2>1, <2>2, <3>1, <3>3, ScanReads, DotReads, ItemReads, EntryReads, LabelReads
      <4>2. step' # "built"
        BY <1>3, <2>3, <3>1, <3>3, ScanOK, DotOK, ItemOK, EntryOK, LabelOK
      <4> QED BY <4>1, <4>2
    <3>4. CASE Leave
      <4>1. /\ step' # "threw" /\ built' = built
            /\ IF step' = "built" THEN built' = AsRead(written) /\ Positive(built') ELSE Reads'
        BY <2>1, <2>2, <3>1, <3>4, LeaveReads
      <4> QED BY <2>3, <4>1
    <3> QED BY <2>5, <3>2, <3>3, <3>4 DEF Read
  <2> QED BY <2>4, <2>5
<1> QED BY <1>5, <1>6, <1>7, <1>8, <1>9 DEF JsonSafe

\* The tree that was read is the program's.
LEMMA AssignedSafe ==
  ASSUME JsonSafe, NEW x \in Holders, Assigned(x)
  PROVE  JsonSafe'
<1>1. /\ step \in {"built", "threw"}
      /\ tree' = IF step = "built" THEN [tree EXCEPT ![x] = built] ELSE tree
      /\ careful' = (careful /\ Storable(written))
      /\ step' = "idle" /\ written' = Undefined /\ pretty' = FALSE /\ text' = <<>> /\ calls' = <<>>
      /\ built' = <<>> /\ nest' = <<>> /\ span' = <<>>
  BY DEF Assigned
<1>2. /\ DOMAIN tree = Holders /\ (\A y \in Holders : IsTree(tree[y])) /\ careful \in BOOLEAN
      /\ step = "built" => IsTree(built)
  BY DEF JsonSafe, Typed, ReadInv
<1>3. Typed'
  <2>1. DOMAIN tree' = Holders /\ \A y \in Holders : IsTree(tree'[y])
    BY <1>1, <1>2
  <2> QED BY <1>1, <1>2, <2>1, UndefinedIs DEF Typed, Steps
<1>4. Careful'
  <2> SUFFICES ASSUME careful'
               PROVE  \A y \in Holders : tree'[y] # Undefined => Copies(tree'[y])
    BY <1>1 DEF Careful, Copies
  <2>1. /\ careful /\ Storable(written)
        /\ \A y \in Holders : tree[y] # Undefined => Copies(tree[y])
    BY <1>1 DEF JsonSafe, Careful
  <2>2. step = "built" => (built # Undefined => Copies(built))
    <3>1. Legible(written) /\ Whole(AsRead(written))
      BY <2>1 DEF Storable
    <3>2. step = "built" => built = AsRead(written)
      BY <3>1 DEF JsonSafe, Recalled
    <3> QED BY <3>1, <3>2 DEF Whole
  <2>3. step = "built" => tree'[x] = built /\ \A y \in Holders : y # x => tree'[y] = tree[y]
    BY <1>1, <1>2
  <2>4. step = "threw" => tree' = tree
    BY <1>1
  <2> QED BY <1>1, <2>1, <2>2, <2>3, <2>4
<1>5. ReadInv'
  BY <1>1, NothingIs DEF ReadInv, RSteps
<1>6. Places' = {}
  BY <1>1, NothingIs DEF Places
<1>7. DepthLimits'
  BY <1>1, <1>6 DEF DepthLimits, Places
<1>8. Stages'
  BY <1>1 DEF Stages, RSteps, Blank
<1>9. Recalled'
  BY <1>1 DEF Recalled, RSteps
<1> QED BY <1>3, <1>4, <1>5, <1>7, <1>8, <1>9 DEF JsonSafe

\* Nothing changes in other steps.
LEMMA SafeStutters ==
  ASSUME JsonSafe, UNCHANGED jsonVars
  PROVE  JsonSafe'
<1>1. UNCHANGED <<tree, careful, step, written, pretty, text, calls, scan, built, nest, span>>
  BY DEF jsonVars
<1>2. Typed' /\ Careful'
  BY <1>1 DEF JsonSafe, Typed, Careful, Copies
<1>3. ReadInv'
  BY <1>1, ReaderKept DEF JsonSafe
<1>4. DepthLimits'
  BY <1>1 DEF JsonSafe, DepthLimits
<1>5. Stages'
  <2>1. (Laid => Laid') /\ (WriterAll => WriterAll')
    BY <1>1, LaidKept, WriterKept
  <2>2. Blank => Blank'
    BY <1>1 DEF Blank
  <2> QED BY <1>1, <2>1, <2>2 DEF JsonSafe, Stages
<1>6. Recalled'
  <2>1. Reads => Reads'
    BY <1>1, ReadsKept DEF Reads
  <2> QED BY <1>1, <2>1 DEF JsonSafe, Recalled
<1> QED BY <1>2, <1>3, <1>4, <1>5, <1>6 DEF JsonSafe

\* Every step keeps the invariant.
LEMMA SafeKept == JsonSafe /\ [JsonNext]_jsonVars => JsonSafe'
<1> SUFFICES ASSUME JsonSafe, [JsonNext]_jsonVars PROVE JsonSafe'
  OBVIOUS
<1>1. Typed /\ Careful
  BY DEF JsonSafe
<1>2. CASE WriteItem \/ WriteClose \/ WriteEnds
  BY <1>2, WriterSafe
<1>3. CASE Read
  BY <1>3, ReaderSafe
<1>4. ASSUME NEW x \in Holders, Assigned(x) PROVE JsonSafe'
  BY <1>4, AssignedSafe
<1>5. ASSUME NEW x \in Holders, NEW p \in BOOLEAN, Write(x, p) PROVE JsonSafe'
  BY <1>5, WriterSafe
<1>6. ASSUME NEW x \in Holders, Assign(x) PROVE JsonSafe'
  <2>1. Typed' /\ Careful'
    BY <1>1, <1>6, AssignOK
  <2> QED BY <1>6, <2>1, IdleKept DEF Assign
<1>7. ASSUME NEW x \in Holders, NEW y \in Holders, NEW moves \in BOOLEAN, TakeOut(x, y, moves)
      PROVE  JsonSafe'
  <2>1. Typed' /\ Careful'
    BY <1>1, <1>7, TakeOutOK
  <2> QED BY <1>7, <2>1, IdleKept DEF TakeOut
<1>8. ASSUME NEW x \in Holders, Clear(x) PROVE JsonSafe'
  <2>1. Typed' /\ Careful'
    BY <1>1, <1>8, ClearOK
  <2> QED BY <1>8, <2>1, IdleKept DEF Clear
<1>9. ASSUME NEW x \in Holders, NEW l \in Labels, Touch(x, l) PROVE JsonSafe'
  <2>1. Typed' /\ Careful'
    BY <1>1, <1>9, TouchOK
  <2> QED BY <1>9, <2>1, IdleKept DEF Touch
<1>10. ASSUME NEW x \in Holders, NEW y \in Holders, NEW new, NEW moves \in BOOLEAN, NEW copies,
              Give(x, y, new, moves, copies), Typed' /\ Careful'
       PROVE  JsonSafe'
  BY <1>10, IdleKept DEF Give
<1>11. ASSUME NEW x \in Holders, NEW y \in Holders, NEW moves \in BOOLEAN, AssignTree(x, y, moves)
       PROVE  JsonSafe'
  <2>1. Typed' /\ Careful'
    BY <1>1, <1>11, AssignTreeOK
  <2> QED BY <1>10, <1>11, <2>1 DEF AssignTree
<1>12. ASSUME NEW x \in Holders, NEW y \in Holders, NEW moves \in BOOLEAN, Push(x, y, moves)
       PROVE  JsonSafe'
  <2>1. Typed' /\ Careful'
    BY <1>1, <1>12, PushOK
  <2> QED BY <1>10, <1>12, <2>1 DEF Push
<1>13. ASSUME NEW x \in Holders, NEW y \in Holders, NEW moves \in BOOLEAN, NEW l \in Labels,
              Store(x, l, y, moves)
       PROVE  JsonSafe'
  <2>1. Typed' /\ Careful'
    BY <1>1, <1>13, StoreOK
  <2> QED BY <1>10, <1>13, <2>1 DEF Store
<1>14. CASE UNCHANGED jsonVars
  BY <1>14, SafeStutters
<1> QED
  BY <1>2, <1>3, <1>4, <1>5, <1>6, <1>7, <1>8, <1>9, <1>11, <1>12, <1>13, <1>14 DEF JsonNext

\* Where the tree that is read has no scalar the reader throws at, none was
\* written: each of those is printed with more than one character.
LEMMA NotUnreadable ==
  ASSUME IsTree(written), Positive(AsRead(written))
  PROVE  ~Unreadable(written)
<1> SUFFICES ASSUME NEW q \in DOMAIN written, written[q].kind = "scalar",
                    ~Readable(Printed(written[q].chars))
             PROVE  FALSE
  BY DEF Unreadable, Readable
<1>1. NodeOK(written[q])
  BY DEF IsTree, Grove
<1>2. PICK o : o = Printed(written[q].chars)
  OBVIOUS
<1>3. o \in Seq(Chars) /\ Printable(o) /\ (o[1] = "-" \/ o \in Words)
  BY <1>1, <1>2 DEF NodeOK, Readable
<1>4. Len(o) # 1
  <2>1. CASE o \in Words
    BY <2>1, WordText
  <2>2. CASE o \in Bools
    BY <2>2, BoolText
  <2>3. CASE IsNumber(o) /\ o[1] = "-"
    <3>1. o[Len(o)] \in Digit
      BY <1>3, <2>3, NumberText
    <3> QED BY <2>3, <3>1 DEF Digit
  <2> QED BY <1>3, <2>1, <2>2, <2>3 DEF Printable
<1>5. q \notin Holes(written)
  <2>1. ASSUME NEW p \in DOMAIN written, q = Append(p, Indexed(1)), Inner(written, p) = {} PROVE FALSE
    <3>1. p \in Paths /\ Indexed(1) \in TreeKeys
      BY KeyOf DEF IsTree, Grove
    <3>2. q # <<>> /\ Front(q) = p
      BY <2>1, <3>1, PathGrown DEF Paths
    <3> QED BY <2>1, <3>2 DEF Inner
  <2> QED BY <2>1 DEF Holes
<1>6. q \in DOMAIN AsRead(written) /\ AsRead(written)[q] = Node("scalar", o)
  <2>1. NodeAsRead(written[q]) = Node("scalar", o)
    BY <1>2, <1>4 DEF NodeAsRead
  <2> QED BY <1>5, <2>1 DEF AsRead
<1>7. Node("scalar", o).kind = "scalar" /\ ~Readable(Node("scalar", o).chars)
  BY <1>2 DEF Node
<1> QED BY <1>6, <1>7 DEF Positive

\* The properties follow.
LEMMA SafeMeans == JsonSafe => RoundTrip /\ DepthLimits /\ CrashNeedsAHole
<1> SUFFICES ASSUME JsonSafe PROVE RoundTrip /\ DepthLimits /\ CrashNeedsAHole
  OBVIOUS
<1>1. RoundTrip
  <2>1. Legible(written) /\ step = "built" => built = AsRead(written) /\ Positive(AsRead(written))
    BY DEF JsonSafe, Recalled
  <2>2. Legible(written) /\ step = "built" => ~Unreadable(written)
    BY <2>1, NotUnreadable DEF JsonSafe, Typed
  <2> QED BY <2>1, <2>2 DEF RoundTrip, JsonSafe, Recalled
<1>2. DepthLimits
  BY DEF JsonSafe
<1>3. CrashNeedsAHole
  BY DEF JsonSafe, Careful, CrashNeedsAHole, Whole
<1> QED BY <1>1, <1>2, <1>3

\* The invariant holds always.
LEMMA AlwaysSafe == JsonSpec => []JsonSafe
<1>1. JsonInit => JsonSafe
  BY SafeInit
<1>2. JsonSafe /\ [JsonNext]_jsonVars => JsonSafe'
  BY SafeKept
<1> QED BY <1>1, <1>2, PTL DEF JsonSpec

\* What is written of a legible tree is read back as AsRead says, whatever the
\* tree and its layout: doubles have lost the decimals std::to_string does not
\* print, numbers of one digit and the ends of empty arrays are nothing, and
\* the reader throws for a negative number, an infinity or a NaN and for
\* nothing else.
THEOREM JsonRoundTrips == JsonSpec => []RoundTrip
<1>1. JsonSafe => RoundTrip
  BY SafeMeans
<1> QED BY <1>1, AlwaysSafe, PTL

\* ToString ends, and compact output has no layout, for every tree that is no
\* deeper than Pretty's counters reach, whatever their width and the indent.
THEOREM JsonDepths == JsonSpec => []DepthLimits
<1>1. JsonSafe => DepthLimits
  BY SafeMeans
<1> QED BY <1>1, AlwaysSafe, PTL

\* A program never follows the null pointer of an undefined tree, with any
\* number of trees of any size, while it assigns to every entry it makes, stores
\* no undefined tree and no tree in itself, moves no entry out of a tree it
\* keeps, and reads only texts of trees that come back without holes.
THEOREM JsonCrashes == JsonSpec => []CrashNeedsAHole
<1>1. JsonSafe => CrashNeedsAHole
  BY SafeMeans
<1> QED BY <1>1, AlwaysSafe, PTL

=============================================================================
