------------------------------- MODULE Slice --------------------------------
(***************************************************************************)
(* TSlice (src/lib/util/container/slice.h): a sequence cut at every        *)
(* occurrence of a delimiter.  Split of src/lib/util/string uses it for    *)
(* characters.                                                             *)
(***************************************************************************)
EXTENDS Integers, Sequences, SequencesExt

\* std::search: the first place from it on where the delimiter occurs, or the
\* end of the sequence.
Search(seq, delim, it) ==
    LET found == {i \in it..(Len(seq) - Len(delim) + 1) :
                      SubSeq(seq, i, i + Len(delim) - 1) = delim}
    IN  IF found = {} THEN Len(seq) + 1 ELSE CHOOSE i \in found : \A j \in found : i <= j

\* Fault: the iterator is moved over the first element of the delimiter only.
NextByOne(seq, delim, it) ==
    LET end == Search(seq, delim, it)
    IN  [piece |-> SubSeq(seq, it, end - 1),
         it    |-> IF end > Len(seq) THEN end ELSE end + 1]

\* The piece that begins at it, and where the next one begins.
NextPiece(seq, delim, it) ==
    LET end == Search(seq, delim, it)
    IN  [piece |-> SubSeq(seq, it, end - 1),
         it    |-> IF end > Len(seq) THEN end ELSE end + Len(delim)]

\* TIterator: the constructor and operator++ take the next piece; at the end of
\* the sequence there are no more, also when a delimiter has just been passed.
Advance(seq, delim, at) ==
    IF at.it > Len(seq) THEN at
    ELSE LET next == NextPiece(seq, delim, at.it)
         IN  [it |-> next.it, pieces |-> Append(at.pieces, next.piece)]

\* The iterator and the pieces it gave, after so many steps.
Iterator(seq, delim) ==
    LET at[steps \in 0..Len(seq)] ==
            IF steps = 0 THEN [it |-> 1, pieces |-> <<>>]
            ELSE Advance(seq, delim, at[steps - 1])
    IN  at

\* A piece takes one element at least.
Split(seq, delim) == Iterator(seq, delim)[Len(seq)].pieces

Occurs(delim, seq) == Search(seq, delim, 1) <= Len(seq)

-----------------------------------------------------------------------------
\* The reference: a splitting of seq has no delimiter within a piece, and seq
\* comes back when the pieces are joined; a delimiter at the very end is lost,
\* and one that is alone leaves one empty piece.
Joined(pieces, delim) ==
    FlattenSeq([i \in DOMAIN pieces |-> (IF i = 1 THEN <<>> ELSE delim) \o pieces[i]])

IsSplitting(pieces, seq, delim) ==
    /\ \A i \in DOMAIN pieces : ~Occurs(delim, pieces[i])
    /\ seq \in {Joined(pieces, delim), Joined(pieces, delim) \o delim}
    /\ pieces = <<>> <=> seq = <<>>

=============================================================================
