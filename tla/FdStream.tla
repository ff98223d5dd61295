------------------------------ MODULE FdStream ------------------------------
(***************************************************************************)
(* The stream buffers over a file descriptor                               *)
(* (src/lib/posix/file_descriptor/fd_stream.h): TBasicIFdStreamBuf and     *)
(* TBasicOFdStreamBuf, each with a buffer of its own, and                  *)
(* TBasicFdStreamBuf, whose get area and put area are the same memory.     *)
(* A behaviour is that of an input stream beside an output stream, or,     *)
(* where shared holds, that of one TFdStream.                              *)
(*                                                                         *)
(* Pointers are offsets from the start of the buffer: eback() and pbase()  *)
(* are 0 and epptr() is Size - 1.  Byte n of the peer is n, byte n of the  *)
(* program is -n, and 0 is the value make_unique leaves in the memory.     *)
(* The bytes of the descriptors a stream has one after the other are       *)
(* counted on, so that a byte tells whose it is.                           *)
(***************************************************************************)
EXTENDS Integers, Sequences

CONSTANTS
    Size,         \* characters in the buffer
    MaxIn,        \* bound: bytes the peer sends
    MaxOut,       \* bound: bytes the program puts
    MaxOpens,     \* bound: descriptors after the first
    LikeEof,      \* the peer's bytes 0xFF, which are eof() as a signed char
    HalfDuplex,   \* does the program turn round: see MayRead and MayWrite
    MovesUsed,    \* may the stream be moved after its first read
    ShortWrites,  \* may write() take a part of what it is given
    ReadErrors,   \* may read() fail
    WriteErrors   \* may write() fail

ASSUME ConstantAssumption ==
    /\ Size \in Nat /\ Size >= 2
    /\ MaxIn \in Nat /\ MaxOut \in Nat /\ MaxOpens \in Nat
    /\ LikeEof \subseteq 1..MaxIn
    /\ {HalfDuplex, MovesUsed, ShortWrites, ReadErrors, WriteErrors}
           \subseteq BOOLEAN

VARIABLES
    shared,     \* one TFdStream, not a TIFdStream and a TOFdStream
    mem,        \* the memory of each area
    gptr,       \* gptr() - eback()
    egptr,      \* egptr() - eback(); -1 after a failed read
    pptr,       \* pptr() - pbase()
    good,       \* is no failure bit set in the stream of each area
    eof,        \* has the peer ended its side
    arrived,    \* bytes the peer has sent
    fetched,    \* bytes read() has returned
    consumed,   \* what the program got out of the stream
    written,    \* how many bytes the program has put into it
    delivered,  \* what write() took
    opened      \* what the descriptors before the present one had: the bytes
                \* they brought and those they got, the characters put for
                \* them, and their number

input  == <<gptr, egptr, fetched, consumed>>
output == <<pptr, written, delivered>>
peer   == <<arrived, eof>>
fd     == <<shared, opened>>
vars   == <<shared, mem, gptr, egptr, pptr, good, eof, arrived, fetched, consumed,
            written, delivered, opened>>

Area   == {"get", "put"}
Offset == 0..(Size - 1)
Byte   == (-MaxOut)..MaxIn

\* The areas whose memory, or whose stream state, is that of a.
Same(a) == IF shared THEN Area ELSE {a}

\* Storing v(i) at the offsets D of area a.
Stored(a, D, v(_)) ==
    [b \in Area |-> [i \in Offset |-> IF b \in Same(a) /\ i \in D THEN v(i)
                                                                  ELSE mem[b][i]]]

\* The streams are constructed: the get area is empty at the buffer's end.
Init ==
    /\ shared \in BOOLEAN
    /\ mem = [a \in Area |-> [i \in Offset |-> 0]]
    /\ gptr = Size /\ egptr = Size /\ pptr = 0
    /\ good = [a \in Area |-> TRUE]
    /\ eof = FALSE /\ arrived = 0 /\ fetched = 0 /\ consumed = <<>>
    /\ written = 0 /\ delivered = <<>>
    /\ opened = [brought |-> 0, got |-> 0, put |-> 0, times |-> 0]

-----------------------------------------------------------------------------
(* The peer. *)

Arrive ==
    /\ ~eof /\ arrived < MaxIn
    /\ arrived' = arrived + 1
    /\ UNCHANGED <<mem, good, input, output, eof, fd>>

PeerEnds ==
    /\ ~eof
    /\ eof' = TRUE
    /\ UNCHANGED <<mem, good, input, output, arrived, fd>>

-----------------------------------------------------------------------------
(* Input: the program takes one character. *)

\* A program that turns round reads only when its output is flushed, and
\* writes only when it has read all that was fetched.
MayRead  == good["get"] /\ (HalfDuplex /\ shared => pptr = 0)
MayWrite == good["put"] /\ (HalfDuplex /\ shared => gptr >= egptr)

\* The program's input fails, and its output where that is the same stream.
FailInput == good' = [a \in Area |-> good[a] /\ a \notin Same("get")]

\* Fault: the character that looks like the end is dropped.
DropFirst(c) ==
    \/ /\ c \notin LikeEof
       /\ consumed' = Append(consumed, c)
       /\ gptr' = 1
       /\ UNCHANGED good
    \/ /\ c \in LikeEof
       /\ FailInput
       /\ gptr' = 1
       /\ UNCHANGED consumed

\* underflow returns the first character c as a plain char, so that 0xFF is
\* taken for the end, and left where it is.
TakeFirst(c) ==
    \/ /\ c \notin LikeEof
       /\ consumed' = Append(consumed, c)
       /\ gptr' = 1
       /\ UNCHANGED good
    \/ /\ c \in LikeEof
       /\ FailInput
       /\ gptr' = 0
       /\ UNCHANGED consumed

\* The next character is in the get area.
GetBuffered ==
    /\ MayRead /\ gptr < egptr
    /\ consumed' = Append(consumed, mem["get"][gptr])
    /\ gptr' = gptr + 1
    /\ UNCHANGED <<mem, good, egptr, fetched, output, peer, fd>>

\* Fault: the pointers are set as if the read had filled the buffer.
FullUnderflow(n) ==
    /\ MayRead /\ gptr >= egptr
    /\ n \in 1..Size /\ n <= arrived - fetched
    /\ mem' = Stored("get", 0..(n - 1), LAMBDA i : fetched + i + 1)
    /\ TakeFirst(fetched + 1)
    /\ egptr' = Size
    /\ fetched' = fetched + n
    /\ UNCHANGED <<output, peer, fd>>

\* underflow: read() brings n characters, as many as it likes of those that
\* have arrived, and the first is taken.
Underflow(n) ==
    /\ MayRead /\ gptr >= egptr
    /\ n \in 1..Size /\ n <= arrived - fetched
    /\ mem' = Stored("get", 0..(n - 1), LAMBDA i : fetched + i + 1)
    /\ TakeFirst(fetched + 1)
    /\ egptr' = n
    /\ fetched' = fetched + n
    /\ UNCHANGED <<output, peer, fd>>

\* read() returns 0: underflow returns eof() and the stream fails, for output
\* too where it is the same stream.
UnderflowEof ==
    /\ MayRead /\ gptr >= egptr
    /\ eof /\ fetched = arrived
    /\ gptr' = 0 /\ egptr' = 0
    /\ FailInput
    /\ UNCHANGED <<mem, fetched, consumed, output, peer, fd>>

\* read() returns -1, which size_t turns into a large count: underflow sets
\* egptr below the buffer and returns whatever the buffer starts with.
UnderflowError ==
    /\ ReadErrors
    /\ MayRead /\ gptr >= egptr
    /\ TakeFirst(mem["get"][0])
    /\ egptr' = -1
    /\ UNCHANGED <<mem, fetched, output, peer, fd>>

\* The program clears the stream's state and goes on.
Clear ==
    /\ good' = [a \in Area |-> TRUE]
    /\ UNCHANGED <<mem, input, output, peer, fd>>

-----------------------------------------------------------------------------
(* Output: the program puts one character, or flushes. *)

\* The first n characters of the put area of the memory m.
Pending(m, n) == [i \in 1..n |-> m["put"][i - 1]]

\* Fault: sync empties the put area whatever write() took.
ForgetfulSyncWith(m, sz) ==
    \/ sz = 0 /\ pptr' = 0 /\ UNCHANGED delivered
    \/ /\ sz > 0
       /\ \E wr \in 1..sz :
              /\ (wr < sz => ShortWrites)
              /\ delivered' = delivered \o Pending(m, wr)
       /\ pptr' = 0

\* Fault: sync leaves the characters in the put area.
RepeatingSyncWith(m, sz) ==
    \/ sz = 0 /\ pptr' = 0 /\ UNCHANGED delivered
    \/ /\ sz > 0
       /\ delivered' = delivered \o Pending(m, sz)
       /\ pptr' = sz

\* Fault: pbump gets the sign wrong.
ForwardSyncWith(m, sz) ==
    \/ sz = 0 /\ pptr' = 0 /\ UNCHANGED delivered
    \/ /\ sz > 0
       /\ \E wr \in 1..sz :
              /\ (wr < sz => ShortWrites)
              /\ delivered' = delivered \o Pending(m, wr)
              /\ pptr' = sz + wr

\* sync with sz characters in the put area of m.  write() takes wr of them and
\* pptr steps back by wr, but the rest is not moved to the front; after -1,
\* which size_t turns into a large count, it steps forward by one.
SyncWith(m, sz) ==
    \/ sz = 0 /\ pptr' = 0 /\ UNCHANGED delivered
    \/ /\ sz > 0
       /\ \E wr \in 1..sz :
              /\ (wr < sz => ShortWrites)
              /\ delivered' = delivered \o Pending(m, wr)
              /\ pptr' = sz - wr
    \/ sz > 0 /\ WriteErrors /\ pptr' = sz + 1 /\ UNCHANGED delivered

\* sputc with room in the put area.
PutBuffered ==
    /\ MayWrite /\ written < MaxOut /\ pptr < Size - 1
    /\ mem' = Stored("put", {pptr}, LAMBDA i : -(written + 1))
    /\ pptr' = pptr + 1
    /\ written' = written + 1
    /\ UNCHANGED <<good, input, delivered, peer, fd>>

\* overflow: the character goes to the place kept for it, then sync, which
\* reports success for a failed write too.  With pptr past that place, where
\* failed writes take it, the store would leave the buffer: not modelled.
PutOverflow ==
    /\ MayWrite /\ written < MaxOut /\ pptr = Size - 1
    /\ mem' = Stored("put", {pptr}, LAMBDA i : -(written + 1))
    /\ written' = written + 1
    /\ SyncWith(mem', Size)
    /\ UNCHANGED <<good, input, peer, fd>>

\* flush, by the program or by Open, Close and the destructor.  Not every
\* standard library asks whether the stream is good.
Flush ==
    /\ pptr \in 1..Size
    /\ SyncWith(mem, pptr)
    /\ UNCHANGED <<mem, good, written, input, peer, fd>>

-----------------------------------------------------------------------------
(* Other descriptors. *)

\* The areas that share a's memory turn to a new descriptor with a peer of its
\* own: of the program's characters, the first n were put for those before.
Turn(a, n) ==
    /\ opened.times < MaxOpens
    /\ opened' = [brought |-> IF "get" \in Same(a) THEN fetched ELSE opened.brought,
                  got     |-> IF "put" \in Same(a) THEN Len(delivered') ELSE opened.got,
                  put     |-> IF "put" \in Same(a) THEN n ELSE opened.put,
                  times   |-> opened.times + 1]
    /\ arrived' = IF "get" \in Same(a) THEN fetched ELSE arrived
    /\ eof' = (eof /\ "get" \notin Same(a))
    /\ UNCHANGED shared

\* Fault: what waits in the put area is left to the next descriptor.
OpenAtOnce(a) ==
    /\ UNCHANGED <<mem, good, input, output>>
    /\ Turn(a, written)

\* Open of the stream that has area a: one with a put area is flushed first,
\* unless it is not good, and the get area is kept.
Open(a) ==
    /\ IF "put" \in Same(a)
       THEN pptr <= Size /\ (\/ SyncWith(mem, pptr)
                             \/ ~good["put"] /\ UNCHANGED <<pptr, delivered>>)
       ELSE UNCHANGED <<pptr, delivered>>
    /\ Turn(a, written)
    /\ UNCHANGED <<mem, good, input, written>>

\* Reconnect of a TConnectedSocket, when shutdown and connect succeed: both
\* areas are kept and nothing is flushed.  (When connect fails the old peer is
\* shut down, which is PeerEnds.)
Reconnect ==
    /\ shared
    /\ UNCHANGED <<mem, good, input, output>>
    /\ Turn("get", written - pptr)

-----------------------------------------------------------------------------
(* Moving a stream. *)

\* The move constructor takes the memory over and keeps both positions, but
\* the get area of the new buffer always ends at the end of the memory; the
\* new stream's rdbuf() clears its state.
Move ==
    /\ MovesUsed \/ (fetched = 0 /\ egptr = Size)
    /\ egptr' = Size
    /\ good' = [a \in Area |-> TRUE]
    /\ UNCHANGED <<mem, gptr, fetched, consumed, output, peer, fd>>

\* The move assignment from a stream just constructed on another descriptor:
\* the areas of a, with what waits in them, are replaced.
MoveAssign(a) ==
    /\ MovesUsed
    /\ mem' = [b \in Area |-> IF b \in Same(a) THEN [i \in Offset |-> 0] ELSE mem[b]]
    /\ IF "get" \in Same(a) THEN gptr' = Size /\ egptr' = Size
                            ELSE UNCHANGED <<gptr, egptr>>
    /\ pptr' = IF "put" \in Same(a) THEN 0 ELSE pptr
    /\ good' = [b \in Area |-> good[b] \/ b \in Same(a)]
    /\ UNCHANGED <<fetched, consumed, written, delivered>>
    /\ Turn(a, written)

-----------------------------------------------------------------------------
Next ==
    \/ Arrive \/ PeerEnds
    \/ GetBuffered \/ UnderflowEof \/ UnderflowError \/ Clear
    \/ \E n \in 1..Size : Underflow(n)
    \/ PutBuffered \/ PutOverflow \/ Flush
    \/ \E a \in Area : Open(a) \/ MoveAssign(a)
    \/ Reconnect \/ Move

Spec == Init /\ [][Next]_vars

-----------------------------------------------------------------------------
TypeOK ==
    /\ shared \in BOOLEAN
    /\ mem \in [Area -> [Offset -> Byte]]
    /\ gptr \in 0..Size /\ egptr \in -1..Size
    /\ pptr \in 0..(Size + 1)
    /\ good \in [Area -> BOOLEAN] /\ eof \in BOOLEAN
    /\ arrived \in 0..MaxIn /\ fetched \in 0..arrived /\ written \in 0..MaxOut
    /\ consumed \in Seq(Byte) /\ delivered \in Seq(Byte)
    /\ opened \in [brought : Nat, got : Nat, put : Int, times : 0..MaxOpens]

\* No character drops out of the account: each one put for the descriptor was
\* written or waits in the put area, after short and failed writes and after
\* moves.  (A short write keeps the count and not the characters, and a failed
\* one counts one too many.)  Only a move assignment forgets what waits.
OutputCounted == Len(delivered) - opened.got + pptr >= written - opened.put

\* The descriptor gets the program's characters once each and in order, those
\* that wait are the next ones, and the place overflow writes to exists.
OutputInOrder ==
    /\ Len(delivered) + pptr = written
    /\ pptr <= Size - 1
    /\ \A i \in 1..Len(delivered) : delivered[i] = -i
    /\ \A j \in 0..(pptr - 1) : mem["put"][j] = -(Len(delivered) + j + 1)

Unread == IF gptr < egptr THEN egptr - gptr ELSE 0

\* The program gets the peer's bytes once each and in order, and those in the
\* get area are the next ones: output, moves, other descriptors, the sizes of
\* the reads and a byte that looks like the end change nothing in that.
InputInOrder ==
    /\ Len(consumed) + Unread = fetched
    /\ \A i \in 1..Len(consumed) : consumed[i] = i
    /\ \A j \in gptr..(egptr - 1) : mem["get"][j] = Len(consumed) + 1 + (j - gptr)

\* A descriptor gets no character that was put for one before it, but for what
\* Reconnect leaves in the put area; and once it was read, the get area has no
\* byte of one before it.
EachItsOwn ==
    /\ \A i \in (opened.got + 1)..Len(delivered) : -delivered[i] > opened.put
    /\ fetched > opened.brought =>
          \A j \in gptr..(egptr - 1) : mem["get"][j] > opened.brought

\* The streams implement the two byte queues, when the descriptor takes whole
\* writes and does not fail, the stream is not moved after its first read,
\* and a TFdStream's program turns round between reading and writing.
Channel == INSTANCE ByteChannel
           WITH written <- written, delivered <- delivered,
                arrived <- arrived, consumed <- consumed
ImplementsChannel == Channel!Spec

=============================================================================
