--------------------------- MODULE FdStreamProofs ---------------------------
(***************************************************************************)
(* The stream buffers implement the two byte queues of ByteChannel, for    *)
(* every buffer size and every length of the streams, in a faultless use;  *)
(* in any use their positions are in range and no character is dropped.    *)
(***************************************************************************)
EXTENDS FdStream, TLAPS

\* Whole writes, no failing call, no move after the first read, and a program
\* that turns round if it uses one TFdStream for both directions.
Faultless ==
    /\ ~ShortWrites /\ ~ReadErrors /\ ~WriteErrors /\ ~MovesUsed
    /\ HalfDuplex

\* A TFdStream has one memory, and at any time one direction of it in use; it
\* does not fail while characters wait in it.
OneDirection ==
    /\ gptr <= egptr
    /\ shared => pptr = 0 \/ gptr = egptr
    /\ good["put"] \/ pptr = 0

\* The descriptors before the present one got what was put for them; and when
\* the present one was read, all they brought was consumed.
Turned ==
    /\ opened.brought <= fetched
    /\ fetched > opened.brought => Len(consumed) >= opened.brought
    /\ opened.got = opened.put
    /\ opened.got <= Len(delivered)

StreamInv ==
    /\ TypeOK /\ OneDirection
    /\ InputInOrder /\ OutputInOrder
    /\ Turned

\* New streams have nothing to lose.
LEMMA InitStream == Init => StreamInv
<1> SUFFICES ASSUME Init PROVE StreamInv
  OBVIOUS
<1> USE ConstantAssumption DEF Init
<1>0. opened \in [brought : Nat, got : Nat, put : Int, times : 0..MaxOpens]
  <2>1. 0 \in 0..MaxOpens
    OBVIOUS
  <2> QED
    BY <2>1
<1>1. TypeOK
  <2>1. mem \in [Area -> [Offset -> Byte]] /\ good \in [Area -> BOOLEAN]
    BY DEF Area, Offset, Byte
  <2>2. /\ gptr \in 0..Size /\ egptr \in -1..Size /\ pptr \in 0..(Size + 1)
        /\ arrived \in 0..MaxIn /\ fetched \in 0..arrived /\ written \in 0..MaxOut
    OBVIOUS
  <2>3. consumed \in Seq(Byte) /\ delivered \in Seq(Byte)
    OBVIOUS
  <2> QED
    BY <1>0, <2>1, <2>2, <2>3 DEF TypeOK
<1>2. OneDirection /\ InputInOrder /\ OutputInOrder /\ Turned
  BY DEF OneDirection, InputInOrder, OutputInOrder, Unread, Turned
<1> QED
  BY <1>1, <1>2 DEF StreamInv

\* What the invariant says of the numbers.
Facts ==
    /\ Size \in Nat /\ Size >= 2 /\ MaxIn \in Nat /\ MaxOut \in Nat
    /\ gptr \in Nat /\ egptr \in Nat /\ gptr <= egptr /\ egptr <= Size
    /\ arrived \in Nat /\ fetched \in Nat /\ fetched <= arrived
    /\ arrived <= MaxIn /\ written \in Nat /\ written <= MaxOut
    /\ Len(consumed) \in Nat /\ Len(consumed) + (egptr - gptr) = fetched
    /\ Len(delivered) \in Nat /\ Len(delivered) + pptr = written
    /\ pptr \in Nat /\ pptr < Size

\* The numbers of the invariant, for the provers of arithmetic.
LEMMA Numbers == StreamInv => Facts
<1> SUFFICES ASSUME StreamInv PROVE Facts
  OBVIOUS
<1> USE ConstantAssumption DEF StreamInv
<1>1. /\ gptr \in Nat /\ egptr \in Int /\ gptr <= egptr /\ egptr <= Size
      /\ arrived \in Nat /\ arrived <= MaxIn
      /\ fetched \in Nat /\ fetched <= arrived
      /\ written \in Nat /\ written <= MaxOut /\ pptr \in Nat
  BY DEF TypeOK, OneDirection
<1>2. consumed \in Seq(Byte) /\ delivered \in Seq(Byte)
  BY DEF TypeOK
<1>3. Len(consumed) \in Nat /\ Len(delivered) \in Nat
  BY <1>2
<1>4. Len(consumed) + (egptr - gptr) = fetched
  BY <1>1, <1>3 DEF InputInOrder, Unread
<1>5. Len(delivered) + pptr = written /\ pptr <= Size - 1
  BY DEF OutputInOrder
<1> QED
  BY <1>1, <1>3, <1>4, <1>5 DEF Facts

\* Steps that go on with the descriptor and fetch nothing.
LEMMA TurnedKept ==
  ASSUME StreamInv, StreamInv => Facts, opened' = opened, fetched' = fetched,
         Len(consumed') \in Nat, Len(consumed') >= Len(consumed),
         Len(delivered') \in Nat, Len(delivered') >= Len(delivered)
  PROVE  Turned'
<1>1. opened.brought \in Nat /\ opened.got \in Nat
  BY DEF StreamInv, TypeOK
<1>2. Turned /\ Len(consumed) \in Nat /\ Len(delivered) \in Nat
  BY DEF StreamInv, Facts
<1>3. opened.brought <= fetched /\ opened.got = opened.put
  BY <1>2 DEF Turned
<1>4. fetched > opened.brought => Len(consumed') >= opened.brought
  BY <1>1, <1>2 DEF Turned
<1>5. opened.got <= Len(delivered')
  BY <1>1, <1>2 DEF Turned
<1> QED
  BY <1>3, <1>4, <1>5 DEF Turned

\* A sequence that is appended comes after.
LEMMA Appended ==
  ASSUME NEW s \in Seq(Int), NEW t \in Seq(Int)
  PROVE  /\ Len(s \o t) = Len(s) + Len(t)
         /\ \A i \in 1..Len(s) : (s \o t)[i] = s[i]
         /\ \A i \in (Len(s) + 1)..(Len(s) + Len(t)) : (s \o t)[i] = t[i - Len(s)]
  OBVIOUS

\* The bytes of the put area, in the order write() is given them.
LEMMA PendingInOrder ==
  ASSUME StreamInv, NEW m, NEW n \in Nat, n <= Size,
         \A j \in 0..(n - 1) : m["put"][j] = -(Len(delivered) + j + 1)
  PROVE  LET d == delivered \o Pending(m, n)
         IN /\ Len(d) = Len(delivered) + n
            /\ \A i \in 1..Len(d) : d[i] = -i
<1> DEFINE d == delivered \o Pending(m, n)
<1>1. delivered \in Seq(Byte)
  BY DEF StreamInv, TypeOK
<1>2. Pending(m, n) = [i \in 1..n |-> -(Len(delivered) + i)]
  BY DEF Pending
<1>3. Pending(m, n) \in Seq(Int) /\ Len(Pending(m, n)) = n
  BY <1>1, <1>2
<1>4. delivered \in Seq(Int)
  BY <1>1, ConstantAssumption DEF Byte
<1>5. /\ Len(d) = Len(delivered) + n
      /\ \A i \in 1..Len(delivered) : d[i] = delivered[i]
      /\ \A i \in (Len(delivered) + 1)..(Len(delivered) + n) :
            d[i] = Pending(m, n)[i - Len(delivered)]
  BY <1>3, <1>4, Appended
<1>6. ASSUME NEW i \in 1..Len(d)
      PROVE  d[i] = -i
  <2>1. CASE i <= Len(delivered)
    BY <2>1, <1>4, <1>5 DEF StreamInv, OutputInOrder
  <2>2. CASE i > Len(delivered)
    <3>1. i - Len(delivered) \in 1..n
      BY <2>2, <1>4, <1>5
    <3>2. d[i] = -(Len(delivered) + (i - Len(delivered)))
      BY <2>2, <3>1, <1>2, <1>4, <1>5
    <3> QED
      BY <3>2, <1>4
  <2> QED
    BY <2>1, <2>2, <1>4, <1>5
<1> QED
  BY <1>5, <1>6

\* A faultless sync hands everything over.
LEMMA SyncAll ==
  ASSUME Faultless, StreamInv, NEW m, NEW sz \in Nat, sz <= Size,
         \A j \in 0..(sz - 1) : m["put"][j] = -(Len(delivered) + j + 1),
         SyncWith(m, sz)
  PROVE  /\ pptr' = 0
         /\ Len(delivered') = Len(delivered) + sz
         /\ \A i \in 1..Len(delivered') : delivered'[i] = -i
         /\ sz > 0 => delivered' = delivered \o Pending(m, sz)
<1>1. CASE sz = 0
  BY <1>1 DEF SyncWith, StreamInv, TypeOK, OutputInOrder
<1>2. CASE sz > 0
  <2>1. pptr' = 0 /\ delivered' = delivered \o Pending(m, sz)
    BY <1>2 DEF SyncWith, Faultless
  <2> QED
    BY <2>1, PendingInOrder
<1> QED
  BY <1>1, <1>2

\* Taking a character that is in the get area.
LEMMA GetBufferedStep == Faultless /\ StreamInv /\ GetBuffered => StreamInv'
<1>1. SUFFICES ASSUME Faultless, StreamInv, GetBuffered
               PROVE  StreamInv'
  OBVIOUS
<1>2. Facts
  BY <1>1, Numbers
<1>3. TypeOK /\ OneDirection /\ InputInOrder /\ OutputInOrder
  BY <1>1 DEF StreamInv
<1>4. /\ gptr < egptr /\ gptr' = gptr + 1
      /\ egptr' = egptr /\ fetched' = fetched /\ pptr' = pptr
  BY <1>1 DEF GetBuffered, output
<1>a. /\ consumed' = Append(consumed, mem["get"][gptr])
      /\ UNCHANGED <<shared, mem, good, egptr, fetched, pptr, written, delivered,
                     arrived, eof, opened>>
      /\ shared => pptr = 0
  BY <1>1 DEF GetBuffered, MayRead, Faultless, output, peer, fd
<1>5. mem["get"][gptr] = Len(consumed) + 1 /\ mem["get"][gptr] \in Byte
  <2>1. gptr \in Offset /\ gptr \in gptr..(egptr - 1) /\ gptr - gptr = 0
    BY <1>2, <1>4 DEF Offset, Facts
  <2>2. mem["get"][gptr] = Len(consumed) + 1 + 0
    BY <1>3, <2>1 DEF InputInOrder
  <2>3. mem["get"][gptr] \in Byte
    BY <1>3, <2>1 DEF TypeOK, Area
  <2> QED
    BY <1>2, <2>2, <2>3 DEF Facts
<1>6. /\ consumed' \in Seq(Byte)
      /\ Len(consumed') = Len(consumed) + 1
      /\ \A k \in 1..Len(consumed') :
             consumed'[k] = IF k <= Len(consumed) THEN consumed[k] ELSE k
  <2>1. /\ consumed \in Seq(Byte) /\ Len(consumed) + 1 \in Byte
        /\ consumed' = Append(consumed, Len(consumed) + 1)
    BY <1>3, <1>5, <1>a DEF TypeOK
  <2> QED
    BY <2>1
<1>b. Len(consumed') = Len(consumed) + 1
  BY <1>6
<1>7. TypeOK'
  <2>1. gptr' \in 0..Size
    BY <1>2, <1>4 DEF Facts
  <2> QED
    BY <1>3, <1>a, <1>6, <2>1 DEF TypeOK
<1>8. OneDirection'
  BY <1>2, <1>3, <1>4, <1>a DEF OneDirection, Facts
<1>9. InputInOrder'
  <2>1. Len(consumed') + Unread' = fetched'
    BY <1>2, <1>4, <1>b DEF Unread, Facts
  <2>2. \A k \in 1..Len(consumed') : consumed'[k] = k
    BY <1>2, <1>3, <1>6 DEF InputInOrder, Facts
  <2>3. ASSUME NEW j \in gptr'..(egptr' - 1)
        PROVE  mem'["get"][j] = Len(consumed') + 1 + (j - gptr')
    <3>1. j \in Int /\ j \in gptr..(egptr - 1)
      BY <1>2, <1>4 DEF Facts
    <3>2. mem["get"][j] = Len(consumed) + 1 + (j - gptr)
      BY <1>3, <3>1 DEF InputInOrder
    <3>3. Len(consumed') + 1 + (j - gptr') = Len(consumed) + 1 + (j - gptr)
      BY <1>2, <1>4, <1>b, <3>1 DEF Facts
    <3> QED
      BY <1>a, <3>2, <3>3
  <2> QED
    BY <2>1, <2>2, <2>3 DEF InputInOrder
<1>10. OutputInOrder'
  BY <1>3, <1>a DEF OutputInOrder
<1>11. Turned'
  <2>1. /\ Len(consumed') \in Nat /\ Len(consumed') >= Len(consumed)
        /\ Len(delivered') \in Nat /\ Len(delivered') >= Len(delivered)
    BY <1>2, <1>a, <1>b DEF Facts
  <2> QED
    BY <1>1, <1>4, <1>a, <2>1, Numbers, TurnedKept
<1> QED
  BY <1>7, <1>8, <1>9, <1>10, <1>11 DEF StreamInv

\* Reading from the descriptor: the put area is empty if its memory is used.
LEMMA UnderflowStep ==
  ASSUME Faultless, StreamInv, NEW n \in 1..Size, Underflow(n)
  PROVE  StreamInv'
<1>1. Facts
  BY Numbers
<1>2. TypeOK /\ OneDirection /\ InputInOrder /\ OutputInOrder
  BY DEF StreamInv
<1>e. Turned
  BY DEF StreamInv
<1>3. /\ gptr >= egptr /\ n <= arrived - fetched
      /\ egptr' = n /\ fetched' = fetched + n
  BY DEF Underflow
<1>a. /\ mem' = Stored("get", 0..(n - 1), LAMBDA i : fetched + i + 1)
      /\ \/ gptr' = 0 /\ consumed' = consumed
         \/ gptr' = 1 /\ consumed' = Append(consumed, fetched + 1)
      /\ UNCHANGED <<shared, pptr, written, delivered, arrived, eof, opened>>
  BY DEF Underflow, TakeFirst, output, peer, fd
<1>c. /\ good' \in [Area -> BOOLEAN]
      /\ ~shared => good'["put"] = good["put"]
  <2>1. good \in [Area -> BOOLEAN]
    BY <1>2 DEF TypeOK
  <2>2. good' = good \/ FailInput
    BY DEF Underflow, TakeFirst
  <2>3. CASE FailInput
    BY <2>1, <2>3 DEF FailInput, Same, Area
  <2> QED
    BY <2>1, <2>2, <2>3
<1>4. shared => pptr = 0
  BY DEF Underflow, MayRead, Faultless
<1>5. /\ gptr = egptr /\ fetched = Len(consumed) /\ fetched \in Nat
      /\ fetched + n <= MaxIn /\ fetched + n <= arrived /\ arrived \in Nat
      /\ n \in Nat /\ n >= 1 /\ n <= Size
  BY <1>1, <1>3 DEF Facts
<1>6. \A i \in Offset : /\ i < n => mem'["get"][i] = fetched + i + 1
                        /\ ~shared => mem'["put"][i] = mem["put"][i]
  BY <1>a, <1>5 DEF Stored, Same, Area, Offset
<1>7. mem' \in [Area -> [Offset -> Byte]]
  <2>1. \A i \in Offset : i \in 0..(n - 1) => fetched + i + 1 \in Byte
    BY <1>1, <1>5 DEF Offset, Byte, Facts
  <2>2. mem \in [Area -> [Offset -> Byte]]
    BY <1>2 DEF TypeOK
  <2> QED
    BY <1>a, <2>1, <2>2 DEF Stored
<1>8. /\ consumed' \in Seq(Byte)
      /\ Len(consumed') = Len(consumed) + gptr'
      /\ \A k \in 1..Len(consumed') :
             consumed'[k] = IF k <= Len(consumed) THEN consumed[k] ELSE k
  <2>1. fetched + 1 \in Byte
    BY <1>1, <1>5 DEF Byte, Facts
  <2>2. consumed \in Seq(Byte) /\ Len(consumed) + 1 \in Byte
    BY <1>2, <1>5, <2>1 DEF TypeOK
  <2>3. CASE gptr' = 1 /\ consumed' = Append(consumed, Len(consumed) + 1)
    BY <2>2, <2>3
  <2>4. CASE gptr' = 0 /\ consumed' = consumed
    BY <2>2, <2>4
  <2> QED
    BY <1>5, <1>a, <2>3, <2>4
<1>b. gptr' \in {0, 1} /\ Len(consumed') = Len(consumed) + gptr'
  BY <1>8, <1>a
<1>9. TypeOK'
  <2>1. gptr' \in 0..Size /\ egptr' \in -1..Size /\ fetched' \in 0..arrived
    BY <1>1, <1>3, <1>5, <1>b DEF Facts
  <2> QED
    BY <1>2, <1>3, <1>a, <1>c, <1>7, <1>8, <2>1 DEF TypeOK
<1>10. OneDirection'
  <2>1. gptr' <= egptr'
    BY <1>3, <1>5, <1>b
  <2>2. good["put"] \/ pptr = 0
    BY <1>2 DEF OneDirection
  <2>3. good'["put"] \/ pptr' = 0
    BY <1>4, <1>a, <1>c, <2>2
  <2> QED
    BY <1>4, <1>a, <2>1, <2>3 DEF OneDirection
<1>11. InputInOrder'
  <2>1. Len(consumed') + Unread' = fetched'
    BY <1>3, <1>5, <1>b DEF Unread
  <2>2. \A k \in 1..Len(consumed') : consumed'[k] = k
    BY <1>1, <1>2, <1>5, <1>8 DEF InputInOrder, Facts
  <2>3. ASSUME NEW j \in gptr'..(egptr' - 1)
        PROVE  mem'["get"][j] = Len(consumed') + 1 + (j - gptr')
    <3>1. j \in Offset /\ j < n /\ j \in Nat
      BY <1>1, <1>3, <1>5, <1>b DEF Offset, Facts
    <3>2. mem'["get"][j] = fetched + j + 1
      BY <1>6, <3>1
    <3>3. fetched + j + 1 = Len(consumed') + 1 + (j - gptr')
      BY <1>3, <1>5, <1>b, <3>1
    <3> QED
      BY <3>2, <3>3
  <2> QED
    BY <2>1, <2>2, <2>3 DEF InputInOrder
<1>12. OutputInOrder'
  <2>1. \A j \in 0..(pptr - 1) : j \in Offset /\ ~shared
    BY <1>1, <1>4 DEF Offset, Facts
  <2> QED
    BY <1>2, <1>a, <1>6, <2>1 DEF OutputInOrder
<1>13. Turned'
  <2>1. opened.brought \in Nat
    BY <1>2 DEF TypeOK
  <2> QED
    <3>1. opened.brought <= fetched' /\ Len(consumed') >= opened.brought
      BY <1>3, <1>5, <1>b, <1>e, <2>1 DEF Turned
    <3> QED
      BY <1>a, <1>e, <3>1 DEF Turned
<1> QED
  BY <1>9, <1>10, <1>11, <1>12, <1>13 DEF StreamInv

\* Storing the next character of the program: the get area is used up if its
\* memory is used.
LEMMA StoreNext ==
  Faultless /\ StreamInv /\ MayWrite /\ written < MaxOut
  /\ mem' = Stored("put", {pptr}, LAMBDA i : -(written + 1))
  => /\ mem' \in [Area -> [Offset -> Byte]]
     /\ shared => gptr = egptr
     /\ ~shared => \A j \in Offset : mem'["get"][j] = mem["get"][j]
     /\ \A j \in 0..pptr : mem'["put"][j] = -(Len(delivered) + j + 1)
<1> DEFINE Put == Stored("put", {pptr}, LAMBDA i : -(written + 1))
<1>1. SUFFICES ASSUME Faultless, StreamInv, MayWrite, written < MaxOut, mem' = Put
               PROVE  /\ Put \in [Area -> [Offset -> Byte]]
                      /\ shared => gptr = egptr
                      /\ ~shared => \A j \in Offset : Put["get"][j] = mem["get"][j]
                      /\ \A j \in 0..pptr : Put["put"][j] = -(Len(delivered) + j + 1)
  OBVIOUS
<1>2. Facts
  BY <1>1, Numbers
<1>3. TypeOK /\ OutputInOrder
  BY <1>1 DEF StreamInv
<1>4. written < MaxOut
  BY <1>1
<1>5. pptr \in Offset /\ -(written + 1) \in Byte
  BY <1>2, <1>4 DEF Offset, Byte, Facts
<1>6. mem \in [Area -> [Offset -> Byte]]
  BY <1>3 DEF TypeOK
<1>7. Put \in [Area -> [Offset -> Byte]]
  BY <1>5, <1>6 DEF Stored
<1>8. shared => gptr = egptr
  <2>1. shared => gptr >= egptr
    BY <1>1 DEF MayWrite, Faultless
  <2> QED
    BY <1>2, <2>1 DEF Facts
<1>9. /\ Put["put"][pptr] = -(written + 1)
      /\ \A j \in Offset : j # pptr => Put["put"][j] = mem["put"][j]
      /\ ~shared => \A j \in Offset : Put["get"][j] = mem["get"][j]
  BY <1>5 DEF Stored, Same, Area
<1> HIDE DEF Put
<1>10. ASSUME NEW j \in 0..pptr
       PROVE  Put["put"][j] = -(Len(delivered) + j + 1)
  <2>1. CASE j = pptr
    <3>1. -(written + 1) = -(Len(delivered) + j + 1)
      BY <2>1, <1>2 DEF Facts
    <3> QED
      BY <2>1, <1>9, <3>1
  <2>2. CASE j # pptr
    <3>1. j \in Offset /\ j \in 0..(pptr - 1)
      BY <2>2, <1>2 DEF Offset, Facts
    <3> QED
      BY <1>3, <1>9, <2>2, <3>1 DEF OutputInOrder
  <2> QED
    BY <2>1, <2>2
<1> QED
  BY <1>7, <1>8, <1>9, <1>10

\* What stays true of the input while the program puts characters.
LEMMA InputKept ==
  ASSUME StreamInv, UNCHANGED <<gptr, egptr, fetched, consumed>>,
         shared => gptr = egptr,
         ~shared => \A j \in Offset : mem'["get"][j] = mem["get"][j]
  PROVE  InputInOrder'
<1>1. Facts
  BY Numbers
<1>2. \A j \in gptr..(egptr - 1) : j \in Offset /\ gptr # egptr
  BY <1>1 DEF Offset, Facts
<1>3. \A j \in gptr..(egptr - 1) : mem'["get"][j] = mem["get"][j]
  BY <1>2
<1> QED
  BY <1>3 DEF StreamInv, InputInOrder, Unread

\* Putting a character for which there is room.
LEMMA PutBufferedStep == Faultless /\ StreamInv /\ PutBuffered => StreamInv'
<1>1. SUFFICES ASSUME Faultless, StreamInv, PutBuffered
               PROVE  StreamInv'
  OBVIOUS
<1>2. Facts
  BY <1>1, Numbers
<1>3. TypeOK /\ OneDirection /\ OutputInOrder
  BY <1>1 DEF StreamInv
<1>4. /\ written < MaxOut /\ pptr < Size - 1
      /\ pptr' = pptr + 1 /\ written' = written + 1
  BY <1>1 DEF PutBuffered
<1>5. /\ UNCHANGED <<shared, good, gptr, egptr, fetched, consumed, delivered, arrived,
                     eof, opened>>
      /\ good["put"]
  BY <1>1 DEF PutBuffered, MayWrite, input, peer, fd
<1>6. /\ mem' \in [Area -> [Offset -> Byte]]
      /\ shared => gptr = egptr
      /\ ~shared => \A j \in Offset : mem'["get"][j] = mem["get"][j]
      /\ \A j \in 0..pptr : mem'["put"][j] = -(Len(delivered) + j + 1)
  BY <1>1, StoreNext DEF PutBuffered
<1>7. TypeOK'
  <2>1. pptr' \in 0..(Size + 1) /\ written' \in 0..MaxOut
    BY <1>2, <1>4 DEF Facts
  <2> QED
    BY <1>3, <1>5, <1>6, <2>1 DEF TypeOK
<1>8. OneDirection'
  BY <1>3, <1>5, <1>6 DEF OneDirection
<1>9. InputInOrder'
  BY <1>1, <1>5, <1>6, InputKept
<1>10. OutputInOrder'
  <2>1. Len(delivered) + pptr' = written' /\ pptr' <= Size - 1
    BY <1>2, <1>4 DEF Facts
  <2>2. 0..(pptr' - 1) = 0..pptr
    BY <1>2, <1>4 DEF Facts
  <2> QED
    BY <1>3, <1>5, <1>6, <2>1, <2>2 DEF OutputInOrder
<1>11. Turned'
  <2>1. /\ Len(consumed') \in Nat /\ Len(consumed') >= Len(consumed)
        /\ Len(delivered') \in Nat /\ Len(delivered') >= Len(delivered)
    BY <1>2, <1>5 DEF Facts
  <2> QED
    BY <1>1, <1>5, <2>1, Numbers, TurnedKept
<1> QED
  BY <1>7, <1>8, <1>9, <1>10, <1>11 DEF StreamInv

\* The offset of the i-th of sz characters.
LEMMA OffsetOf ==
  ASSUME NEW sz \in 1..Size, NEW i \in 1..sz PROVE i - 1 \in Offset
<1>1. Size \in Nat
  BY ConstantAssumption
<1> QED
  BY <1>1 DEF Offset

\* A faultless sync keeps the type of what it delivers.
LEMMA SyncType ==
  ASSUME Faultless, StreamInv, NEW m \in [Area -> [Offset -> Byte]],
         NEW sz \in 1..Size, SyncWith(m, sz)
  PROVE  delivered' \in Seq(Byte)
<1>0. sz \in Nat /\ sz > 0
  BY ConstantAssumption
<1>1. delivered' = delivered \o Pending(m, sz)
  BY <1>0 DEF SyncWith, Faultless
<1>2. \A i \in 1..sz : m["put"][i - 1] \in Byte
  <2>1. \A i \in 1..sz : i - 1 \in Offset
    BY OffsetOf
  <2> QED
    BY <2>1 DEF Area
<1>3. Pending(m, sz) \in Seq(Byte)
  <2>1. sz \in Nat /\ Pending(m, sz) \in [1..sz -> Byte]
    BY <1>2, ConstantAssumption DEF Pending
  <2> QED
    BY <2>1
<1> QED
  BY <1>1, <1>3 DEF StreamInv, TypeOK

\* Putting the character that fills the buffer, which syncs it.
LEMMA PutOverflowStep == Faultless /\ StreamInv /\ PutOverflow => StreamInv'
<1>1. SUFFICES ASSUME Faultless, StreamInv, PutOverflow
               PROVE  StreamInv'
  OBVIOUS
<1>2. Facts
  BY <1>1, Numbers
<1>3. TypeOK /\ OneDirection /\ OutputInOrder
  BY <1>1 DEF StreamInv
<1>4. written < MaxOut /\ pptr = Size - 1 /\ written' = written + 1
  BY <1>1 DEF PutOverflow
<1>5. /\ UNCHANGED <<shared, good, gptr, egptr, fetched, consumed, arrived, eof, opened>>
      /\ SyncWith(mem', Size)
  BY <1>1 DEF PutOverflow, input, peer, fd
<1>6. /\ mem' \in [Area -> [Offset -> Byte]]
      /\ shared => gptr = egptr
      /\ ~shared => \A j \in Offset : mem'["get"][j] = mem["get"][j]
      /\ \A j \in 0..pptr : mem'["put"][j] = -(Len(delivered) + j + 1)
  BY <1>1, StoreNext DEF PutOverflow
<1>7. Size \in Nat /\ Size <= Size /\ Size \in 1..Size /\ pptr = Size - 1
  BY <1>2, <1>4 DEF Facts
<1>8. /\ pptr' = 0
      /\ Len(delivered') = Len(delivered) + Size
      /\ \A i \in 1..Len(delivered') : delivered'[i] = -i
  BY <1>1, <1>5, <1>6, <1>7, SyncAll
<1>9. delivered' \in Seq(Byte)
  BY <1>1, <1>5, <1>6, <1>7, SyncType
<1>10. TypeOK'
  <2>1. 0 \in 0..(Size + 1) /\ written' \in 0..MaxOut
    BY <1>2, <1>4 DEF Facts
  <2> QED
    BY <1>3, <1>5, <1>6, <1>8, <1>9, <2>1 DEF TypeOK
<1>11. OneDirection'
  BY <1>3, <1>5, <1>8 DEF OneDirection
<1>12. InputInOrder'
  BY <1>1, <1>5, <1>6, InputKept
<1>13. OutputInOrder'
  <2>1. Len(delivered) + Size + 0 = written' /\ 0 <= Size - 1 /\ 0..(0 - 1) = {}
    BY <1>2, <1>4 DEF Facts
  <2> QED
    BY <1>8, <2>1 DEF OutputInOrder
<1>14. Turned'
  <2>1. /\ Len(consumed') \in Nat /\ Len(consumed') >= Len(consumed)
        /\ Len(delivered') \in Nat /\ Len(delivered') >= Len(delivered)
    BY <1>2, <1>5, <1>8 DEF Facts
  <2> QED
    BY <1>1, <1>5, <2>1, Numbers, TurnedKept
<1> QED
  BY <1>10, <1>11, <1>12, <1>13, <1>14 DEF StreamInv

\* Flushing what waits in the put area.
LEMMA FlushStep == Faultless /\ StreamInv /\ Flush => StreamInv'
<1>1. SUFFICES ASSUME Faultless, StreamInv, Flush
               PROVE  StreamInv'
  OBVIOUS
<1>2. Facts
  BY <1>1, Numbers
<1>3. TypeOK /\ OneDirection /\ InputInOrder /\ OutputInOrder
  BY <1>1 DEF StreamInv
<1>4. /\ UNCHANGED <<shared, mem, good, gptr, egptr, fetched, consumed, arrived, eof,
                     written, opened>>
      /\ SyncWith(mem, pptr)
  BY <1>1 DEF Flush, input, peer, fd
<1>5. pptr \in Nat /\ pptr <= Size /\ pptr \in 1..Size
  BY <1>1, <1>2 DEF Flush, Facts
<1>6. \A j \in 0..(pptr - 1) : mem["put"][j] = -(Len(delivered) + j + 1)
  BY <1>3 DEF OutputInOrder
<1>7. /\ pptr' = 0
      /\ Len(delivered') = Len(delivered) + pptr
      /\ \A i \in 1..Len(delivered') : delivered'[i] = -i
  BY <1>1, <1>4, <1>5, <1>6, SyncAll
<1>8. mem \in [Area -> [Offset -> Byte]]
  BY <1>3 DEF TypeOK
<1>9. delivered' \in Seq(Byte)
  BY <1>1, <1>4, <1>5, <1>8, SyncType
<1>10. TypeOK'
  <2>1. 0 \in 0..(Size + 1)
    BY <1>2 DEF Facts
  <2> QED
    BY <1>3, <1>4, <1>7, <1>9, <2>1 DEF TypeOK
<1>11. OneDirection' /\ InputInOrder'
  BY <1>3, <1>4, <1>7 DEF OneDirection, InputInOrder, Unread
<1>12. OutputInOrder'
  <2>1. Len(delivered) + pptr + 0 = written /\ 0 <= Size - 1 /\ 0..(0 - 1) = {}
    BY <1>2 DEF Facts
  <2> QED
    BY <1>4, <1>7, <2>1 DEF OutputInOrder
<1>13. Turned'
  <2>1. /\ Len(consumed') \in Nat /\ Len(consumed') >= Len(consumed)
        /\ Len(delivered') \in Nat /\ Len(delivered') >= Len(delivered)
    BY <1>2, <1>4, <1>5, <1>7 DEF Facts
  <2> QED
    BY <1>1, <1>4, <2>1, Numbers, TurnedKept
<1> QED
  BY <1>10, <1>11, <1>12, <1>13 DEF StreamInv

\* Nothing but the peer, or nothing at all, moves.
LEMMA PeerStep ==
  Faultless /\ StreamInv /\ (Arrive \/ PeerEnds \/ UNCHANGED vars) => StreamInv'
<1>1. SUFFICES ASSUME Faultless, StreamInv, Arrive \/ PeerEnds \/ UNCHANGED vars
               PROVE  StreamInv'
  OBVIOUS
<1>2. Facts
  BY <1>1, Numbers
<1>3. TypeOK /\ OneDirection /\ InputInOrder /\ OutputInOrder
  BY <1>1 DEF StreamInv
<1>4. UNCHANGED <<shared, mem, good, gptr, egptr, fetched, consumed, pptr, written,
                  delivered, opened>>
  BY <1>1 DEF Arrive, PeerEnds, vars, input, output, fd
<1>5. arrived' \in 0..MaxIn /\ fetched \in 0..arrived'
  BY <1>1, <1>2 DEF Arrive, PeerEnds, vars, Facts
<1>6. eof' \in BOOLEAN
  BY <1>1, <1>3 DEF Arrive, PeerEnds, vars, TypeOK
<1>7. TypeOK'
  BY <1>3, <1>4, <1>5, <1>6 DEF TypeOK
<1>8. OneDirection' /\ InputInOrder' /\ OutputInOrder' /\ Turned'
  BY <1>1, <1>3, <1>4
  DEF StreamInv, OneDirection, InputInOrder, OutputInOrder, Unread, Turned
<1> QED
  BY <1>7, <1>8 DEF StreamInv

\* The end of the input empties the get area that was used up.
LEMMA EofStep == Faultless /\ StreamInv /\ UnderflowEof => StreamInv'
<1>1. SUFFICES ASSUME Faultless, StreamInv, UnderflowEof
               PROVE  StreamInv'
  OBVIOUS
<1>2. Facts
  BY <1>1, Numbers
<1>3. TypeOK /\ OneDirection /\ InputInOrder /\ OutputInOrder
  BY <1>1 DEF StreamInv
<1>4. UNCHANGED <<shared, mem, fetched, consumed, pptr, written, delivered, arrived,
                  eof, opened>>
  BY <1>1 DEF UnderflowEof, output, peer, fd
<1>5. gptr' = 0 /\ egptr' = 0 /\ gptr >= egptr
  BY <1>1 DEF UnderflowEof
<1>6. good' \in [Area -> BOOLEAN] /\ (good'["put"] \/ pptr = 0)
  BY <1>1, <1>3
  DEF UnderflowEof, FailInput, MayRead, Faultless, OneDirection, Same, Area, TypeOK
<1>7. gptr = egptr /\ 0 \in 0..Size /\ 0 \in -1..Size /\ Len(consumed) + 0 = fetched
  BY <1>2, <1>5 DEF Facts
<1>8. TypeOK'
  BY <1>3, <1>4, <1>5, <1>6, <1>7 DEF TypeOK
<1>9. OneDirection' /\ OutputInOrder' /\ Turned'
  BY <1>1, <1>3, <1>4, <1>5, <1>6
  DEF StreamInv, OneDirection, OutputInOrder, Turned
<1>10. InputInOrder'
  BY <1>3, <1>4, <1>5, <1>7 DEF InputInOrder, Unread
<1> QED
  BY <1>8, <1>9, <1>10 DEF StreamInv

\* Before the first read a move changes neither position, and clearing the
\* state never does.
LEMMA MoveStep == Faultless /\ StreamInv /\ (Move \/ Clear) => StreamInv'
<1>1. SUFFICES ASSUME Faultless, StreamInv, Move \/ Clear
               PROVE  StreamInv'
  OBVIOUS
<1>2. TypeOK /\ OneDirection /\ InputInOrder /\ OutputInOrder
  BY <1>1 DEF StreamInv
<1>3. UNCHANGED <<shared, mem, gptr, egptr, fetched, consumed, pptr, written,
                  delivered, arrived, eof, opened>>
  BY <1>1 DEF Move, Clear, Faultless, input, output, peer, fd
<1>4. good' \in [Area -> BOOLEAN] /\ good'["put"]
  BY <1>1 DEF Move, Clear, Area
<1>5. TypeOK'
  BY <1>2, <1>3, <1>4 DEF TypeOK
<1>6. OneDirection' /\ InputInOrder' /\ OutputInOrder' /\ Turned'
  BY <1>1, <1>2, <1>3, <1>4
  DEF StreamInv, OneDirection, InputInOrder, OutputInOrder, Unread, Turned
<1> QED
  BY <1>5, <1>6 DEF StreamInv

\* What turning to another descriptor leaves alone or sets, when no character
\* that was put is missing from the count.
LEMMA TurnStep ==
  ASSUME Faultless, StreamInv, NEW a \in Area, NEW n \in Int, Turn(a, n),
         UNCHANGED <<mem, good, gptr, egptr, fetched, consumed, written>>,
         pptr' = 0 \/ pptr' = pptr,
         delivered' \in Seq(Byte), OutputInOrder', Len(delivered') >= Len(delivered),
         "put" \in Same(a) => n = Len(delivered')
  PROVE  StreamInv'
<1>1. Facts /\ Len(delivered') \in Nat
  BY Numbers
<1>2. TypeOK /\ OneDirection /\ InputInOrder /\ Turned
  BY DEF StreamInv
<1>n. /\ arrived \in Nat /\ fetched \in Nat /\ fetched <= arrived /\ arrived <= MaxIn
      /\ pptr \in Nat /\ pptr < Size /\ Size \in Nat /\ MaxIn \in Nat
      /\ Len(consumed) \in Nat /\ Len(delivered) \in Nat
  BY <1>1 DEF Facts
<1>3. /\ UNCHANGED <<shared, mem, good, gptr, egptr, fetched, consumed, written>>
      /\ arrived' = fetched \/ arrived' = arrived
      /\ eof' \in BOOLEAN
      /\ opened.times < MaxOpens /\ opened'.times = opened.times + 1
      /\ opened'.brought = fetched \/ opened'.brought = opened.brought
      /\ \/ opened'.got = Len(delivered') /\ opened'.put = n /\ n = Len(delivered')
         \/ opened'.got = opened.got /\ opened'.put = opened.put
      /\ opened' = [brought |-> opened'.brought, got |-> opened'.got,
                    put |-> opened'.put, times |-> opened'.times]
  BY DEF Turn
<1>4. opened' \in [brought : Nat, got : Nat, put : Int, times : 0..MaxOpens]
  <2>1. opened \in [brought : Nat, got : Nat, put : Int, times : 0..MaxOpens]
    BY <1>2 DEF TypeOK
  <2>2. opened'.brought \in Nat /\ opened'.got \in Nat /\ opened'.put \in Int
    BY <1>1, <1>3, <2>1 DEF Facts
  <2>3. opened'.times \in 0..MaxOpens
    BY <1>3, <2>1, ConstantAssumption
  <2> QED
    BY <1>3, <2>2, <2>3
<1>5. TypeOK'
  <2>1. arrived' \in 0..MaxIn /\ fetched' \in 0..arrived' /\ pptr' \in 0..(Size + 1)
    BY <1>n, <1>3
  <2> QED
    BY <1>2, <1>3, <1>4, <2>1 DEF TypeOK
<1>6. OneDirection' /\ InputInOrder'
  BY <1>2, <1>3 DEF OneDirection, InputInOrder, Unread
<1>7. Turned'
  <2>1. opened.brought \in Nat /\ opened.got \in Nat
    BY <1>2 DEF TypeOK
  <2>2. opened'.got = opened'.put /\ opened'.got <= Len(delivered')
    BY <1>1, <1>n, <1>2, <1>3, <2>1 DEF Turned
  <2>3. opened'.brought <= fetched /\ (fetched > opened'.brought => Len(consumed) >= opened'.brought)
    BY <1>n, <1>2, <1>3, <2>1 DEF Turned
  <2> QED
    BY <1>3, <2>2, <2>3 DEF Turned
<1> QED
  BY <1>5, <1>6, <1>7 DEF StreamInv

\* Opening another descriptor, after a flush if the stream has output: what
\* waits is empty if the stream is not good.
LEMMA OpenStep ==
  ASSUME Faultless, StreamInv, NEW a \in Area, Open(a) PROVE StreamInv'
<1>1. Facts
  BY Numbers
<1>2. /\ UNCHANGED <<mem, good, gptr, egptr, fetched, consumed, written>>
      /\ Turn(a, written)
  BY DEF Open, input
<1>3. TypeOK /\ OneDirection /\ OutputInOrder /\ written \in Int
  BY <1>1 DEF StreamInv, Facts
<1>4. CASE UNCHANGED <<pptr, delivered>> /\ ("put" \in Same(a) => pptr = 0)
  <2>1. OutputInOrder' /\ delivered' \in Seq(Byte) /\ Len(delivered') >= Len(delivered)
    BY <1>1, <1>2, <1>3, <1>4 DEF TypeOK, OutputInOrder, Facts
  <2>2. "put" \in Same(a) => written = Len(delivered')
    BY <1>1, <1>4 DEF Facts
  <2> QED
    BY <1>2, <1>3, <1>4, <2>1, <2>2, TurnStep
<1>5. CASE SyncWith(mem, pptr) /\ pptr > 0
  <2>1. pptr \in Nat /\ pptr <= Size /\ pptr \in 1..Size
    BY <1>1, <1>5 DEF Facts
  <2>2. \A j \in 0..(pptr - 1) : mem["put"][j] = -(Len(delivered) + j + 1)
    BY <1>3 DEF OutputInOrder
  <2>3. /\ pptr' = 0
        /\ Len(delivered') = Len(delivered) + pptr
        /\ \A i \in 1..Len(delivered') : delivered'[i] = -i
    BY <1>5, <2>1, <2>2, SyncAll
  <2>4. mem \in [Area -> [Offset -> Byte]]
    BY <1>3 DEF TypeOK
  <2>5. delivered' \in Seq(Byte)
    BY <1>5, <2>1, <2>4, SyncType
  <2>6. Len(delivered') = written /\ Len(delivered') >= Len(delivered)
    BY <1>1, <2>3 DEF Facts
  <2>7. OutputInOrder'
    <3>1. Len(delivered') + 0 = written /\ 0 <= Size - 1 /\ 0..(0 - 1) = {}
      BY <1>1, <2>6 DEF Facts
    <3> QED
      BY <1>2, <2>3, <3>1 DEF OutputInOrder
  <2> QED
    BY <1>2, <1>3, <2>3, <2>5, <2>6, <2>7, TurnStep
<1>6. SyncWith(mem, pptr) /\ ~(pptr > 0) => pptr = 0 /\ UNCHANGED <<pptr, delivered>>
  BY <1>1 DEF SyncWith, Facts
<1> QED
  BY <1>3, <1>4, <1>5, <1>6 DEF Open, OneDirection

\* Reconnecting: the new connection gets what waits.
LEMMA ReconnectStep ==
  Faultless /\ StreamInv /\ Reconnect => StreamInv'
<1>1. SUFFICES ASSUME Faultless, StreamInv, Reconnect
               PROVE  StreamInv'
  OBVIOUS
<1>2. Facts
  BY <1>1, Numbers
<1>3. /\ UNCHANGED <<mem, good, gptr, egptr, fetched, consumed, pptr, written, delivered>>
      /\ Turn("get", written - pptr)
  BY <1>1 DEF Reconnect, input, output
<1>4. OutputInOrder' /\ delivered' \in Seq(Byte)
  BY <1>1, <1>3 DEF StreamInv, TypeOK, OutputInOrder
<1>5. /\ written - pptr \in Int /\ written - pptr = Len(delivered')
      /\ Len(delivered') >= Len(delivered) /\ "get" \in Area
  BY <1>2, <1>3 DEF Facts, Area
<1> QED
  BY <1>1, <1>3, <1>4, <1>5, TurnStep

\* Every step of a faultless use keeps the invariant.
LEMMA StreamStep == Faultless /\ StreamInv /\ [Next]_vars => StreamInv'
<1> SUFFICES ASSUME Faultless, StreamInv, [Next]_vars
             PROVE  StreamInv'
  OBVIOUS
<1>1. ~UnderflowError /\ \A a \in Area : ~MoveAssign(a)
  BY DEF UnderflowError, MoveAssign, Faultless
<1> QED
  BY <1>1, GetBufferedStep, UnderflowStep, PutBufferedStep, PutOverflowStep,
     FlushStep, PeerStep, EofStep, OpenStep, ReconnectStep, MoveStep
  DEF Next

\* What the descriptors had tells their bytes apart.
LEMMA TurnedTells == StreamInv => EachItsOwn
<1> SUFFICES ASSUME StreamInv PROVE EachItsOwn
  OBVIOUS
<1>1. Facts /\ TypeOK /\ Turned /\ InputInOrder /\ OutputInOrder
  BY Numbers DEF StreamInv
<1>2. opened.brought \in Nat /\ opened.got \in Nat
  BY <1>1 DEF TypeOK
<1>3. ASSUME NEW i \in (opened.got + 1)..Len(delivered)
      PROVE  -delivered[i] > opened.put
  <2>1. i \in Nat /\ i \in 1..Len(delivered) /\ i > opened.put
    BY <1>1, <1>2 DEF Turned, Facts
  <2>2. delivered[i] = -i
    BY <1>1, <2>1 DEF OutputInOrder
  <2>3. -(-i) = i
    BY <2>1
  <2> QED
    BY <2>1, <2>2, <2>3
<1>4. ASSUME fetched > opened.brought, NEW j \in gptr..(egptr - 1)
      PROVE  mem["get"][j] > opened.brought
  <2>1. mem["get"][j] = Len(consumed) + 1 + (j - gptr)
    BY <1>1 DEF InputInOrder
  <2> QED
    BY <1>1, <1>2, <1>4, <2>1 DEF Turned, Facts
<1> QED
  BY <1>3, <1>4 DEF EachItsOwn

\* Used faultlessly, the streams give the program the peers' bytes once each
\* and in order, and the descriptors the program's, each its own: for every
\* buffer size, every number of bytes and of descriptors.
THEOREM FaultlessOrder ==
  ASSUME Faultless
  PROVE  Spec => [](TypeOK /\ InputInOrder /\ OutputInOrder /\ EachItsOwn)
<1>1. Init => StreamInv
  BY InitStream
<1>2. StreamInv /\ [Next]_vars => StreamInv'
  BY StreamStep
<1>3. StreamInv => TypeOK /\ InputInOrder /\ OutputInOrder /\ EachItsOwn
  BY TurnedTells DEF StreamInv
<1> QED
  BY <1>1, <1>2, <1>3, PTL DEF Spec

\* A sequence is the function of its elements.
LEMMA SequenceIs ==
  ASSUME NEW d \in Seq(Int), \A i \in 1..Len(d) : d[i] = -i
  PROVE  d = [i \in 1..Len(d) |-> -i]
  OBVIOUS

\* What the descriptor has after a step is some part of what was written.
LEMMA DeliversPart ==
  ASSUME StreamInv', StreamInv, Len(delivered') >= Len(delivered)
  PROVE  \E n \in Len(delivered)..written' : Channel!DeliverUpTo(n)
<1>1. Facts /\ Facts'
  BY Numbers, PTL
<1>2. /\ Len(delivered') \in Nat /\ Len(delivered') <= written'
      /\ Len(delivered) \in Nat /\ written' \in Nat
  <2>1. /\ Len(delivered') \in Nat /\ pptr' \in Nat /\ written' \in Nat
        /\ Len(delivered') + pptr' = written'
    BY <1>1 DEF Facts
  <2>2. Len(delivered) \in Nat
    BY <1>1 DEF Facts
  <2> QED
    BY <2>1, <2>2
<1>3. delivered' = [i \in 1..Len(delivered') |-> -i]
  <2>1. delivered' \in Seq(Byte) /\ \A i \in 1..Len(delivered') : delivered'[i] = -i
    BY DEF StreamInv, TypeOK, OutputInOrder
  <2>2. delivered' \in Seq(Int)
    BY <2>1, ConstantAssumption DEF Byte
  <2> QED
    BY <2>1, <2>2, SequenceIs
<1>4. Len(delivered') \in Len(delivered)..written'
  BY <1>2
<1> QED
  BY <1>3, <1>4 DEF Channel!DeliverUpTo

\* Every step of a faultless use is a step of the byte queues, or none.
LEMMA ChannelStep ==
  ASSUME Faultless, StreamInv, StreamInv', [Next]_vars
  PROVE  [Channel!Next]_(Channel!channel)
<1>1. Facts
  BY Numbers
<1>2. InputInOrder
  BY DEF StreamInv
<1> USE DEF Channel!channel
<1>3. CASE Arrive
  BY <1>3 DEF Arrive, input, output, Channel!Next, Channel!Arrive
<1>4. CASE PeerEnds \/ UnderflowEof \/ Clear \/ Move \/ UNCHANGED vars
  BY <1>4 DEF PeerEnds, UnderflowEof, Clear, Move, vars, input, output, peer, fd
<1>5. CASE GetBuffered
  <2>1. gptr < egptr
    BY <1>5 DEF GetBuffered
  <2>2. gptr \in gptr..(egptr - 1) /\ gptr - gptr = 0 /\ Len(consumed) < arrived
    BY <1>1, <2>1 DEF Facts
  <2>3. mem["get"][gptr] = Len(consumed) + 1 + 0
    BY <1>2, <2>2 DEF InputInOrder
  <2>4. Len(consumed) + 1 + 0 = Len(consumed) + 1
    BY <1>1 DEF Facts
  <2> QED
    BY <1>5, <2>1, <2>2, <2>3, <2>4
    DEF GetBuffered, output, peer, fd, Channel!Next, Channel!Get
<1>6. ASSUME NEW n \in 1..Size, Underflow(n)
      PROVE  [Channel!Next]_(Channel!channel)
  <2>1. gptr >= egptr /\ n <= arrived - fetched
    BY <1>6 DEF Underflow
  <2>2. Len(consumed) = fetched /\ Len(consumed) < arrived
    BY <1>1, <2>1 DEF Facts
  <2> QED
    BY <1>6, <2>2 DEF Underflow, TakeFirst, output, peer, fd, Channel!Next, Channel!Get
<1>7. CASE PutBuffered
  BY <1>7 DEF PutBuffered, input, peer, fd, Channel!Next, Channel!Put
<1>8. CASE PutOverflow
  <2>0. written' = written + 1
    BY <1>8 DEF PutOverflow
  <2>1. SyncWith(mem', Size)
    BY <1>8 DEF PutOverflow
  <2>2. Size > 0 /\ Size # 0
    BY <1>1 DEF Facts
  <2>3. pptr' = 0
    <3>1. \A wr \in 1..Size : ~(wr < Size) => Size - wr = 0
      BY <1>1 DEF Facts
    <3>2. ~ShortWrites /\ ~WriteErrors
      BY DEF Faultless
    <3> QED
      BY <2>1, <2>2, <3>1, <3>2 DEF SyncWith
  <2>4. Len(delivered') >= Len(delivered)
    <3>1. Facts'
      BY Numbers, PTL
    <3> QED
      BY <1>1, <2>0, <2>3, <3>1 DEF Facts
  <2>5. \E n \in Len(delivered)..written' : Channel!DeliverUpTo(n)
    BY <2>4, DeliversPart
  <2> QED
    BY <1>8, <2>5 DEF PutOverflow, input, peer, fd, Channel!Next, Channel!Put
<1>9. CASE Flush
  <2>1. SyncWith(mem, pptr) /\ pptr \in 1..Size /\ written' = written
    BY <1>9 DEF Flush
  <2>2. pptr > 0 /\ pptr # 0 /\ pptr \in Nat
    BY <1>1, <2>1 DEF Facts
  <2>3. pptr' = 0
    BY <2>1, <2>2 DEF SyncWith, Faultless
  <2>4. Len(delivered') >= Len(delivered)
    <3>1. Facts'
      BY Numbers, PTL
    <3> QED
      BY <1>1, <2>1, <2>3, <3>1 DEF Facts
  <2>5. \E n \in Len(delivered)..written : Channel!DeliverUpTo(n)
    BY <2>1, <2>4, DeliversPart
  <2> QED
    BY <1>9, <2>5 DEF Flush, input, peer, fd, Channel!Next, Channel!Flush
<1>10. ASSUME NEW a \in Area, Open(a) \/ Reconnect
       PROVE  Channel!Next
  <2>1. /\ UNCHANGED <<consumed, written>>
        /\ arrived' = fetched \/ arrived' = arrived
        /\ opened'.times = opened.times + 1
    BY <1>10 DEF Open, Reconnect, Turn, input, output
  <2>2. Facts'
    BY Numbers, PTL
  <2>3. Len(delivered') >= Len(delivered)
    <3>1. CASE UNCHANGED delivered
      BY <1>1, <3>1 DEF Facts
    <3>2. CASE SyncWith(mem, pptr)
      <4>1. pptr' = 0 \/ UNCHANGED delivered
        BY <1>1, <3>2 DEF SyncWith, Faultless, Facts
      <4>2. /\ Len(delivered') \in Nat /\ Len(delivered') + pptr' = written'
            /\ Len(delivered) \in Nat /\ Len(delivered) + pptr = written
            /\ pptr \in Nat /\ written' = written /\ written \in Nat
        BY <1>1, <2>1, <2>2 DEF Facts
      <4> QED
        BY <4>1, <4>2
    <3> QED
      BY <1>10, <3>1, <3>2 DEF Open, Reconnect, output
  <2>4. \E n \in Len(delivered)..written : Channel!DeliverUpTo(n)
    BY <2>1, <2>3, DeliversPart
  <2>5. arrived' \in Len(consumed)..arrived
    BY <1>1, <2>1 DEF Facts
  <2> QED
    BY <2>1, <2>4, <2>5 DEF Channel!Next, Channel!Replace
<1>11. ~UnderflowError /\ \A a \in Area : ~MoveAssign(a)
  BY DEF UnderflowError, MoveAssign, Faultless
<1> QED
  BY <1>3, <1>4, <1>5, <1>6, <1>7, <1>8, <1>9, <1>10, <1>11 DEF Next, Area

\* Used faultlessly, the streams implement the two byte queues, for every
\* buffer size and every number of bytes.
THEOREM FaultlessImplements ==
  ASSUME Faultless PROVE Spec => ImplementsChannel
<1>1. Init => StreamInv
  BY InitStream
<1>2. StreamInv /\ [Next]_vars => StreamInv'
  BY StreamStep
<1>3. Init => Channel!Init
  BY DEF Init, Channel!Init
<1>4. StreamInv /\ StreamInv' /\ [Next]_vars => [Channel!Next]_(Channel!channel)
  BY ChannelStep
<1> QED
  BY <1>1, <1>2, <1>3, <1>4, PTL DEF Spec, ImplementsChannel, Channel!Spec

-----------------------------------------------------------------------------
(* The stream buffers in any use: with short and failed writes, failed       *)
(* reads, moves and other descriptors at any time, and a program that does   *)
(* not turn round, the positions stay in their ranges and no character drops *)
(* out of the count.  Both are inductive together: the count needs to know   *)
(* that pptr is a position, and a sync how many it starts from.              *)


Counted == TypeOK /\ OutputCounted

Memory == [Area -> [Offset -> Byte]]

\* New streams have put nothing.
LEMMA InitCounted == Init => Counted
<1> SUFFICES ASSUME Init PROVE Counted
  OBVIOUS
<1> USE ConstantAssumption DEF Init
<1>1. opened \in [brought : Nat, got : Nat, put : Int, times : 0..MaxOpens]
  <2>1. 0 \in 0..MaxOpens
    OBVIOUS
  <2> QED
    BY <2>1
<1>2. mem \in Memory /\ good \in [Area -> BOOLEAN]
  BY DEF Memory, Area, Offset, Byte
<1>3. /\ gptr \in 0..Size /\ egptr \in -1..Size /\ pptr \in 0..(Size + 1)
      /\ arrived \in 0..MaxIn /\ fetched \in 0..arrived /\ written \in 0..MaxOut
      /\ consumed \in Seq(Byte) /\ delivered \in Seq(Byte)
  OBVIOUS
<1>4. TypeOK
  BY <1>1, <1>2, <1>3 DEF TypeOK, Memory
<1>5. OutputCounted
  BY DEF OutputCounted
<1> QED
  BY <1>4, <1>5 DEF Counted

\* What the invariant says of the numbers.
Numbered ==
    /\ Size \in Nat /\ Size >= 2 /\ MaxIn \in Nat /\ MaxOut \in Nat
    /\ gptr \in Nat /\ gptr <= Size /\ egptr \in Int /\ egptr <= Size
    /\ pptr \in Nat /\ pptr <= Size + 1
    /\ arrived \in Nat /\ arrived <= MaxIn /\ fetched \in Nat /\ fetched <= arrived
    /\ written \in Nat /\ written <= MaxOut
    /\ Len(delivered) \in Nat

\* And of those of the descriptors before.
Before == opened.brought \in Nat /\ opened.got \in Nat /\ opened.put \in Int

LEMMA AreaNumbers == TypeOK => Numbered /\ Before
<1> SUFFICES ASSUME TypeOK PROVE Numbered /\ Before
  OBVIOUS
<1>1. delivered \in Seq(Byte)
      /\ opened \in [brought : Nat, got : Nat, put : Int, times : 0..MaxOpens]
  BY DEF TypeOK
<1>2. Len(delivered) \in Nat
      /\ opened.brought \in Nat /\ opened.got \in Nat /\ opened.put \in Int
  BY <1>1
<1>3. /\ gptr \in 0..Size /\ egptr \in -1..Size /\ pptr \in 0..(Size + 1)
      /\ arrived \in 0..MaxIn /\ fetched \in 0..arrived /\ written \in 0..MaxOut
  BY DEF TypeOK
<1> QED
  BY <1>2, <1>3, ConstantAssumption DEF Numbered, Before

\* A sync of sz characters, whatever write() does, leaves pptr at a position,
\* and no fewer characters written or waiting than there were.
LEMMA SyncCounts ==
  ASSUME TypeOK, NEW m \in Memory, NEW sz \in Nat, sz <= Size, SyncWith(m, sz)
  PROVE  /\ pptr' \in 0..(Size + 1)
         /\ delivered' \in Seq(Byte)
         /\ Len(delivered') + pptr' >= Len(delivered) + sz
         /\ Len(delivered') \in Nat
<1>1. Numbered /\ delivered \in Seq(Byte)
  BY AreaNumbers DEF TypeOK
<1>2. CASE sz = 0 /\ pptr' = 0 /\ UNCHANGED delivered
  BY <1>1, <1>2 DEF Numbered
<1>3. ASSUME NEW wr \in 1..sz, delivered' = delivered \o Pending(m, wr), pptr' = sz - wr
      PROVE  /\ pptr' \in 0..(Size + 1)
             /\ delivered' \in Seq(Byte)
             /\ Len(delivered') + pptr' = Len(delivered) + sz
             /\ Len(delivered') \in Nat
  <2>1. wr \in Nat /\ wr <= sz /\ wr >= 1
    OBVIOUS
  <2>2. \A i \in 1..wr : m["put"][i - 1] \in Byte
    <3>1. \A i \in 1..wr : i - 1 \in Offset
      BY <1>1, <2>1 DEF Offset, Numbered
    <3> QED
      BY <3>1 DEF Area, Memory
  <2>3. Pending(m, wr) \in Seq(Byte) /\ Len(Pending(m, wr)) = wr
    <3>1. Pending(m, wr) \in [1..wr -> Byte]
      BY <2>2 DEF Pending
    <3> QED
      BY <2>1, <3>1
  <2>4. delivered' \in Seq(Byte) /\ Len(delivered') = Len(delivered) + wr
    <3>1. ASSUME NEW p \in Seq(Byte)
          PROVE  delivered \o p \in Seq(Byte) /\ Len(delivered \o p) = Len(delivered) + Len(p)
      BY <1>1
    <3> QED
      BY <1>3, <2>3, <3>1
  <2> QED
    BY <1>1, <1>3, <2>1, <2>4 DEF Numbered
<1>4. CASE sz > 0 /\ pptr' = sz + 1 /\ UNCHANGED delivered
  BY <1>1, <1>4 DEF Numbered
<1> QED
  BY <1>1, <1>2, <1>3, <1>4 DEF SyncWith, Numbered

\* The first character of what was read is taken, or left where it is.
LEMMA TakeFirstType ==
  ASSUME TypeOK, NEW c \in Byte, TakeFirst(c)
  PROVE  /\ gptr' \in 0..Size
         /\ consumed' \in Seq(Byte)
         /\ good' \in [Area -> BOOLEAN]
<1>1. Numbered /\ consumed \in Seq(Byte) /\ good \in [Area -> BOOLEAN]
  BY AreaNumbers DEF TypeOK
<1>2. consumed' \in Seq(Byte)
  BY <1>1 DEF TakeFirst
<1>3. gptr' \in 0..Size
  BY <1>1 DEF TakeFirst, Numbered
<1>4. good' \in [Area -> BOOLEAN]
  BY <1>1 DEF TakeFirst, FailInput
<1> QED
  BY <1>2, <1>3, <1>4

\* Steps that put nothing and write nothing for the descriptor.
LEMMA CountKept ==
  ASSUME OutputCounted, UNCHANGED <<delivered, pptr, written, opened>>
  PROVE  OutputCounted'
  BY DEF OutputCounted

\* The peer, and the program's input.
LEMMA InputStep ==
  ASSUME Counted,
         \/ Arrive \/ PeerEnds \/ GetBuffered \/ UnderflowEof \/ UnderflowError
         \/ Clear \/ Move \/ UNCHANGED vars
         \/ \E n \in 1..Size : Underflow(n)
  PROVE  Counted'
<1>1. TypeOK /\ OutputCounted /\ Numbered /\ Before
  BY AreaNumbers DEF Counted
<1>2. mem \in Memory /\ consumed \in Seq(Byte) /\ good \in [Area -> BOOLEAN]
  BY <1>1 DEF TypeOK, Memory
<1>3. CASE Arrive \/ PeerEnds
  <2>1. /\ UNCHANGED <<mem, good, input, output, fd>>
        /\ arrived' = arrived \/ (arrived < MaxIn /\ arrived' = arrived + 1)
    BY <1>3 DEF Arrive, PeerEnds, peer
  <2>2. eof' \in BOOLEAN
    BY <1>1, <1>3 DEF Arrive, PeerEnds, TypeOK
  <2>3. arrived' \in 0..MaxIn /\ fetched \in 0..arrived'
    BY <1>1, <2>1 DEF Numbered
  <2> QED
    BY <1>1, <2>1, <2>2, <2>3, CountKept DEF Counted, TypeOK, input, output, fd
<1>4. CASE GetBuffered
  <2>1. /\ consumed' = Append(consumed, mem["get"][gptr])
        /\ gptr' = gptr + 1 /\ gptr < egptr
        /\ UNCHANGED <<mem, good, egptr, fetched, output, peer, fd>>
    BY <1>4 DEF GetBuffered
  <2>2. mem["get"][gptr] \in Byte /\ gptr' \in 0..Size
    <3>1. gptr \in Offset /\ gptr' \in 0..Size
      BY <1>1, <2>1 DEF Offset, Numbered
    <3> QED
      BY <1>2, <3>1 DEF Memory, Area
  <2>3. consumed' \in Seq(Byte)
    BY <1>2, <2>1, <2>2
  <2> QED
    BY <1>1, <2>1, <2>2, <2>3, CountKept DEF Counted, TypeOK, output, peer, fd
<1>5. CASE UnderflowEof
  <2>1. /\ gptr' = 0 /\ egptr' = 0 /\ FailInput
        /\ UNCHANGED <<mem, fetched, consumed, output, peer, fd>>
    BY <1>5 DEF UnderflowEof
  <2>2. good' \in [Area -> BOOLEAN] /\ 0 \in 0..Size /\ 0 \in -1..Size
    BY <1>1, <1>2, <2>1 DEF FailInput, Numbered
  <2> QED
    BY <1>1, <2>1, <2>2, CountKept DEF Counted, TypeOK, output, peer, fd
<1>6. CASE UnderflowError
  <2>1. /\ TakeFirst(mem["get"][0]) /\ egptr' = -1
        /\ UNCHANGED <<mem, fetched, output, peer, fd>>
    BY <1>6 DEF UnderflowError
  <2>2. mem["get"][0] \in Byte /\ -1 \in -1..Size
    <3>1. 0 \in Offset /\ -1 \in -1..Size
      BY <1>1 DEF Offset, Numbered
    <3> QED
      BY <1>2, <3>1 DEF Memory, Area
  <2>3. gptr' \in 0..Size /\ consumed' \in Seq(Byte) /\ good' \in [Area -> BOOLEAN]
    BY <1>1, <2>1, <2>2, TakeFirstType
  <2> QED
    BY <1>1, <2>1, <2>2, <2>3, CountKept DEF Counted, TypeOK, output, peer, fd
<1>7. CASE Clear \/ Move
  <2>1. /\ UNCHANGED <<mem, gptr, fetched, consumed, output, peer, fd>>
        /\ good' \in [Area -> BOOLEAN]
        /\ egptr' = egptr \/ egptr' = Size
    BY <1>7 DEF Clear, Move, input
  <2>2. egptr' \in -1..Size
    <3>1. egptr \in -1..Size /\ Size \in -1..Size
      BY <1>1 DEF TypeOK, Numbered
    <3> QED
      BY <2>1, <3>1
  <2> QED
    BY <1>1, <2>1, <2>2, CountKept DEF Counted, TypeOK, output, peer, fd
<1>8. ASSUME NEW n \in 1..Size, Underflow(n)
      PROVE  Counted'
  <2>1. /\ TakeFirst(fetched + 1) /\ egptr' = n /\ fetched' = fetched + n
        /\ UNCHANGED <<output, peer, fd>>
    BY <1>8 DEF Underflow
  <2>2. n \in Nat /\ n >= 1 /\ n <= Size /\ n <= arrived - fetched
    <3>1. n <= arrived - fetched
      BY <1>8 DEF Underflow
    <3> QED
      BY <1>1, <3>1 DEF Numbered
  <2>a. mem' = Stored("get", 0..(n - 1), LAMBDA i : fetched + i + 1)
    BY <1>8 DEF Underflow
  <2>3. mem' \in Memory
    <3>1. \A i \in Offset : i \in 0..(n - 1) => fetched + i + 1 \in Byte
      BY <1>1, <2>2 DEF Offset, Byte, Numbered
    <3> QED
      BY <1>2, <2>a, <3>1 DEF Stored, Memory
  <2>4. fetched + 1 \in Byte
    BY <1>1, <2>2 DEF Byte, Numbered
  <2>5. gptr' \in 0..Size /\ consumed' \in Seq(Byte) /\ good' \in [Area -> BOOLEAN]
    BY <1>1, <2>1, <2>4, TakeFirstType
  <2>6. egptr' \in -1..Size /\ fetched' \in 0..arrived
    <3>1. n \in -1..Size /\ fetched + n \in 0..arrived
      BY <1>1, <2>2 DEF Numbered
    <3> QED
      BY <2>1, <3>1
  <2> QED
    BY <1>1, <2>1, <2>3, <2>5, <2>6, CountKept
    DEF Counted, TypeOK, Memory, output, peer, fd
<1>9. CASE UNCHANGED vars
  BY <1>1, <1>9, CountKept DEF Counted, TypeOK, vars
<1> QED
  BY <1>3, <1>4, <1>5, <1>6, <1>7, <1>8, <1>9

\* The count in numbers: d written and p waiting of w that were put, and e and q
\* after a step that puts n; g and u are the shares of other descriptors.
Kept(d, p, w, g, u, e, q, n) ==
    d - g + p >= w - u /\ e + q >= d + p + n => e - g + q >= (w + n) - u

LEMMA CountArithmetic ==
    \A d, p, w, g, u, e, q, n \in Int : Kept(d, p, w, g, u, e, q, n)
<1> SUFFICES ASSUME NEW d \in Int, NEW p \in Int, NEW w \in Int, NEW g \in Int,
                    NEW u \in Int, NEW e \in Int, NEW q \in Int, NEW n \in Int,
                    d - g + p >= w - u, e + q >= d + p + n
             PROVE  e - g + q >= (w + n) - u
  BY DEF Kept
<1> QED
  OBVIOUS

\* The program's output: what is put is waiting, and stays in the count when
\* the buffer is synchronised.
LEMMA OutputStep ==
  ASSUME Counted, PutBuffered \/ PutOverflow \/ Flush
  PROVE  Counted'
<1>1. TypeOK /\ OutputCounted /\ Numbered /\ Before
  BY AreaNumbers DEF Counted
<1>2. mem \in Memory
  BY <1>1 DEF TypeOK, Memory
<1>3. Len(delivered) - opened.got + pptr >= written - opened.put
  BY <1>1 DEF OutputCounted
<1>a. written < MaxOut => -(written + 1) \in Byte /\ written + 1 \in 0..MaxOut
  BY <1>1 DEF Byte, Numbered
<1>4. ASSUME written < MaxOut, mem' = Stored("put", {pptr}, LAMBDA i : -(written + 1))
      PROVE  mem' \in Memory
  BY <1>2, <1>4, <1>a DEF Stored, Memory
<1>5. CASE PutBuffered
  <2>1. /\ written < MaxOut /\ pptr < Size - 1
        /\ pptr' = pptr + 1 /\ written' = written + 1
        /\ UNCHANGED <<good, input, delivered, peer, fd>>
    BY <1>5 DEF PutBuffered
  <2>2. pptr' \in 0..(Size + 1)
    BY <1>1, <2>1 DEF Numbered
  <2>3. mem' \in Memory /\ written' \in 0..MaxOut
    BY <1>4, <1>5, <1>a, <2>1 DEF PutBuffered
  <2>4. OutputCounted'
    <3>1. Len(delivered) - opened.got + (pptr + 1) >= (written + 1) - opened.put
      BY <1>1, <1>3 DEF Numbered, Before
    <3> QED
      BY <2>1, <3>1 DEF OutputCounted, fd
  <2> QED
    BY <1>1, <2>1, <2>2, <2>3, <2>4 DEF Counted, TypeOK, Memory, input, peer, fd
<1>6. CASE PutOverflow
  <2>1. /\ written < MaxOut /\ pptr = Size - 1
        /\ written' = written + 1
        /\ UNCHANGED <<good, input, peer, fd>>
    BY <1>6 DEF PutOverflow
  <2>2. Size \in Nat /\ Size <= Size
    BY <1>1 DEF Numbered
  <2>3. mem' \in Memory /\ written' \in 0..MaxOut /\ SyncWith(mem', Size)
    BY <1>4, <1>6, <1>a, <2>1 DEF PutOverflow
  <2>4. /\ pptr' \in 0..(Size + 1)
        /\ delivered' \in Seq(Byte) /\ Len(delivered') \in Nat
        /\ Len(delivered') + pptr' >= Len(delivered) + Size
    BY <1>1, <2>2, <2>3, SyncCounts
  <2>5. OutputCounted'
    <3>1. Len(delivered') - opened.got + pptr' >= (written + 1) - opened.put
      <4>1. /\ pptr' \in Int /\ Len(delivered') \in Int
            /\ Len(delivered') + pptr' >= Len(delivered) + pptr + 1
        BY <1>1, <2>1, <2>4 DEF Numbered
      <4>2. /\ Len(delivered) \in Int /\ pptr \in Int /\ written \in Int
            /\ opened.got \in Int /\ opened.put \in Int
        BY <1>1 DEF Numbered, Before
      <4>3. Kept(Len(delivered), pptr, written, opened.got, opened.put,
                 Len(delivered'), pptr', 1)
        <5>1. 1 \in Int
          OBVIOUS
        <5> QED
          BY <4>1, <4>2, <5>1, CountArithmetic, Zenon
      <4> QED
        BY <1>3, <4>1, <4>3 DEF Kept
    <3> QED
      BY <2>1, <3>1 DEF OutputCounted, fd
  <2> QED
    BY <1>1, <2>1, <2>3, <2>4, <2>5 DEF Counted, TypeOK, Memory, input, peer, fd
<1>7. CASE Flush
  <2>1. /\ pptr \in 1..Size /\ SyncWith(mem, pptr)
        /\ UNCHANGED <<mem, good, written, input, peer, fd>>
    BY <1>7 DEF Flush
  <2>2. pptr \in Nat /\ pptr <= Size
    BY <1>1, <2>1 DEF Numbered
  <2>3. /\ pptr' \in 0..(Size + 1)
        /\ delivered' \in Seq(Byte) /\ Len(delivered') \in Nat
        /\ Len(delivered') + pptr' >= Len(delivered) + pptr
    BY <1>1, <1>2, <2>1, <2>2, SyncCounts
  <2>4. OutputCounted'
    <3>1. Len(delivered') - opened.got + pptr' >= written - opened.put
      <4>1. /\ pptr' \in Int /\ Len(delivered') \in Int
            /\ Len(delivered') + pptr' >= Len(delivered) + pptr + 0
        BY <1>1, <2>3 DEF Numbered
      <4>2. /\ Len(delivered) \in Int /\ pptr \in Int /\ written \in Int
            /\ opened.got \in Int /\ opened.put \in Int
        BY <1>1 DEF Numbered, Before
      <4>3. Kept(Len(delivered), pptr, written, opened.got, opened.put,
                 Len(delivered'), pptr', 0)
        <5>1. 0 \in Int
          OBVIOUS
        <5> QED
          BY <4>1, <4>2, <5>1, CountArithmetic, Zenon
      <4>4. Len(delivered') - opened.got + pptr' >= (written + 0) - opened.put
        BY <1>3, <4>1, <4>3 DEF Kept
      <4>5. written + 0 = written
        BY <4>2
      <4> QED
        BY <4>4, <4>5
    <3> QED
      BY <2>1, <3>1 DEF OutputCounted, fd
  <2> QED
    BY <1>1, <2>1, <2>3, <2>4 DEF Counted, TypeOK, input, peer, fd
<1> QED
  BY <1>5, <1>6, <1>7

\* Turning to another descriptor: the count goes on, or begins with what waits.
LEMMA TurnCounts ==
  ASSUME Counted, NEW a \in Area, NEW n \in Int, Turn(a, n),
         UNCHANGED <<fetched, consumed, written>>,
         mem' \in Memory, good' \in [Area -> BOOLEAN],
         gptr' \in 0..Size, egptr' \in -1..Size, pptr' \in 0..(Size + 1),
         delivered' \in Seq(Byte),
         IF "put" \in Same(a) THEN pptr' >= written - n ELSE UNCHANGED <<pptr, delivered>>
  PROVE  Counted'
<1>1. TypeOK /\ OutputCounted /\ Numbered /\ Before
  BY AreaNumbers DEF Counted
<1>2. Len(delivered') \in Nat
  OBVIOUS
<1>3. /\ opened.times < MaxOpens
      /\ opened' = [brought |-> opened'.brought, got |-> opened'.got,
                    put |-> opened'.put, times |-> opened'.times]
      /\ opened'.brought \in {fetched, opened.brought}
      /\ opened'.times = opened.times + 1
      /\ IF "put" \in Same(a) THEN opened'.got = Len(delivered') /\ opened'.put = n
                              ELSE opened'.got = opened.got /\ opened'.put = opened.put
      /\ arrived' \in {fetched, arrived}
      /\ eof' \in BOOLEAN
      /\ UNCHANGED shared
  BY DEF Turn
<1>4. opened' \in [brought : Nat, got : Nat, put : Int, times : 0..MaxOpens]
  <2>1. opened.times \in 0..MaxOpens
    BY <1>1 DEF TypeOK
  <2>2. opened'.times \in 0..MaxOpens
    <3>0. opened.times < MaxOpens
      BY <1>3
    <3>1. opened.times + 1 \in 0..MaxOpens
      BY <2>1, <3>0, ConstantAssumption
    <3> QED
      BY <1>3, <3>1
  <2>3. opened'.brought \in Nat /\ opened'.got \in Nat /\ opened'.put \in Int
    BY <1>1, <1>2, <1>3 DEF Numbered, Before
  <2> QED
    BY <1>3, <2>2, <2>3
<1>5. arrived' \in 0..MaxIn /\ fetched' \in 0..arrived'
  <2>1. arrived' = fetched \/ arrived' = arrived
    BY <1>3
  <2> QED
    BY <1>1, <2>1 DEF Numbered
<1>6. TypeOK'
  BY <1>1, <1>3, <1>4, <1>5 DEF TypeOK, Memory
<1>7. OutputCounted'
  <2>1. CASE "put" \in Same(a)
    <3>1. pptr' \in Int /\ pptr' >= written - n
      BY <2>1, <1>1 DEF Numbered
    <3>2. Len(delivered') - Len(delivered') + pptr' >= written - n
      BY <3>1, <1>2
    <3> QED
      BY <2>1, <3>2, <1>3 DEF OutputCounted
  <2>2. CASE "put" \notin Same(a)
    BY <2>2, <1>1, <1>3 DEF OutputCounted
  <2> QED
    BY <2>1, <2>2
<1> QED
  BY <1>6, <1>7 DEF Counted

\* Open, Reconnect and move assignment.
LEMMA DescriptorStep ==
  ASSUME Counted, Reconnect \/ \E a \in Area : Open(a) \/ MoveAssign(a)
  PROVE  Counted'
<1>1. TypeOK /\ OutputCounted /\ Numbered /\ Before
  BY AreaNumbers DEF Counted
<1>2. /\ mem \in Memory /\ good \in [Area -> BOOLEAN]
      /\ gptr \in 0..Size /\ egptr \in -1..Size /\ pptr \in 0..(Size + 1)
      /\ delivered \in Seq(Byte) /\ written \in Int /\ pptr \in Nat
  BY <1>1 DEF TypeOK, Memory, Numbered
<1>3. ASSUME NEW a \in Area, Open(a)
      PROVE  Counted'
  <2>1. Turn(a, written) /\ UNCHANGED <<mem, good, gptr, egptr, fetched, consumed, written>>
    BY <1>3 DEF Open, input
  <2>2. CASE UNCHANGED <<pptr, delivered>>
    <3>1. pptr' >= written - written
      BY <1>2, <2>2
    <3> QED
      BY <1>2, <2>1, <2>2, <3>1, TurnCounts
  <2>3. CASE "put" \in Same(a) /\ pptr <= Size /\ SyncWith(mem, pptr)
    <3>1. pptr' \in 0..(Size + 1) /\ delivered' \in Seq(Byte)
      BY <1>1, <1>2, <2>3, SyncCounts
    <3>2. pptr' >= written - written
      BY <1>1, <1>2, <3>1 DEF Numbered
    <3> QED
      BY <1>2, <2>1, <2>3, <3>1, <3>2, TurnCounts
  <2> QED
    BY <1>3, <2>2, <2>3 DEF Open
<1>4. CASE Reconnect
  <2>1. /\ Turn("get", written - pptr) /\ "get" \in Area
        /\ UNCHANGED <<mem, good, gptr, egptr, fetched, consumed, pptr, written, delivered>>
    BY <1>4 DEF Reconnect, input, output, Area
  <2>2. written - pptr \in Int /\ pptr' >= written - (written - pptr)
    BY <1>2, <2>1
  <2> QED
    BY <1>2, <2>1, <2>2, TurnCounts
<1>5. ASSUME NEW a \in Area, MoveAssign(a)
      PROVE  Counted'
  <2>1. /\ Turn(a, written) /\ UNCHANGED <<fetched, consumed, written, delivered>>
        /\ good' = [b \in Area |-> good[b] \/ b \in Same(a)]
        /\ pptr' = IF "put" \in Same(a) THEN 0 ELSE pptr
        /\ gptr' = gptr \/ gptr' = Size
        /\ egptr' = egptr \/ egptr' = Size
        /\ mem' = [b \in Area |-> IF b \in Same(a) THEN [i \in Offset |-> 0] ELSE mem[b]]
    BY <1>5 DEF MoveAssign
  <2>2. mem' \in Memory
    <3>1. 0 \in Byte
      BY <1>1 DEF Byte, Numbered
    <3> QED
      BY <1>2, <2>1, <3>1 DEF Memory
  <2>3. good' \in [Area -> BOOLEAN]
    BY <1>2, <2>1
  <2>4. /\ gptr' \in 0..Size /\ egptr' \in -1..Size /\ pptr' \in 0..(Size + 1)
        /\ "put" \in Same(a) => pptr' >= written - written
    BY <1>1, <1>2, <2>1 DEF Numbered
  <2> QED
    BY <1>2, <2>1, <2>2, <2>3, <2>4, TurnCounts
<1> QED
  BY <1>3, <1>4, <1>5

\* Every step of any use keeps the count.
LEMMA CountedStep == Counted /\ [Next]_vars => Counted'
  BY InputStep, OutputStep, DescriptorStep DEF Next

\* Every position of a stream stays inside its buffer, or just behind it, and
\* below it by one after a failed read, whatever read() and write() return and
\* whatever the program does with the stream (underflow, overflow, sync).
THEOREM PositionsBounded == Spec => []TypeOK
<1>1. Counted => TypeOK
  BY DEF Counted
<1> QED
  BY InitCounted, CountedStep, <1>1, PTL DEF Spec

\* No character that was put for a descriptor drops out of the account, after
\* any sequence of short writes, failed writes, moves and flushes (sync's
\* pbump, Open, Reconnect).
THEOREM NoneDropped == Spec => []OutputCounted
<1>1. Counted => OutputCounted
  BY DEF Counted
<1> QED
  BY InitCounted, CountedStep, <1>1, PTL DEF Spec

=============================================================================
