---------------------------- MODULE SortedArray ----------------------------
(***************************************************************************)
(* TSortedArray (src/lib/util/container/sorted_array.h): a vector kept in  *)
(* the order of a comparator.  An insertion appends and lets SiftUp swap   *)
(* the entry down to its place; find and Get search by halving.  The       *)
(* comparator is the caller's and may throw.                               *)
(*                                                                         *)
(* An entry is the key the comparator looks at and the number of its       *)
(* insertion, 0 for the entries of a constructor.                          *)
(***************************************************************************)
EXTENDS Integers, Sequences

CONSTANTS
    Key,       \* the keys
    MaxSize,   \* bound: entries in the array
    CmpThrows  \* may the comparator throw

ASSUME SortedAssumption ==
    Key \subseteq Int /\ MaxSize \in Nat /\ CmpThrows \in BOOLEAN

VARIABLES
    array,     \* Array
    curIt,     \* SiftUp's curIt, 0 when no insertion is under way
    inserted,  \* insertions so far
    thrown,    \* has an insertion been left by an exception
    probe      \* the search under way: its key and the bounds of the range

sortedVars == <<array, curIt, inserted, thrown, probe>>

Entry  == [key : Key, nr : Nat]
NoFind == [key |-> 0, lo |-> 0, hi |-> 0]

\* GetCmp(), on the keys.
Cmp(a, b) == a.key < b.key

\* Earlier in the array: a lesser key, or as great a one inserted before.
Ordered(s) ==
    \A i, j \in 1..Len(s) :
        i < j => Cmp(s[i], s[j]) \/ (s[i].key = s[j].key /\ s[i].nr <= s[j].nr)

SortedInit ==
    array = <<>> /\ curIt = 0 /\ inserted = 0 /\ thrown = FALSE /\ probe = NoFind

Idle == curIt = 0 /\ probe = NoFind

\* The constructors from a range: std::sort, not a stable one.
Construct(keys) ==
    /\ Idle /\ inserted = 0 /\ array = <<>>
    /\ \E order \in [DOMAIN keys -> DOMAIN keys] :
           /\ \A i \in DOMAIN keys : \E j \in DOMAIN keys : order[j] = i
           /\ array' = [i \in DOMAIN keys |-> [key |-> keys[order[i]], nr |-> 0]]
    /\ \A i, j \in DOMAIN keys : i < j => ~Cmp(array'[j], array'[i])
    /\ UNCHANGED <<curIt, inserted, thrown, probe>>

\* insert and emplace, up to the call of SiftUp.
Insert(k) ==
    /\ Idle /\ Len(array) < MaxSize
    /\ inserted' = inserted + 1
    /\ array' = Append(array, [key |-> k, nr |-> inserted'])
    /\ curIt' = Len(array')
    /\ UNCHANGED <<thrown, probe>>

\* Fault: an entry passes those with its own key.
UnstableSifts == curIt > 1 /\ ~Cmp(array[curIt - 1], array[curIt])

\* Does SiftUp's loop go on.
Sifts == curIt > 1 /\ Cmp(array[curIt], array[curIt - 1])

\* Fault: the entry is copied down and the other one is lost.
CopyDown ==
    /\ Sifts
    /\ array' = [array EXCEPT ![curIt - 1] = array[curIt]]
    /\ curIt' = curIt - 1
    /\ UNCHANGED <<inserted, thrown, probe>>

SwapDown ==
    /\ Sifts
    /\ array' = [array EXCEPT ![curIt] = array[curIt - 1], ![curIt - 1] = array[curIt]]
    /\ curIt' = curIt - 1
    /\ UNCHANGED <<inserted, thrown, probe>>

SiftEnds ==
    /\ curIt > 0 /\ ~Sifts
    /\ curIt' = 0
    /\ UNCHANGED <<array, inserted, thrown, probe>>

\* The comparator throws inside SiftUp: the entry stays where it is.
SiftThrows ==
    /\ CmpThrows /\ curIt > 1
    /\ curIt' = 0 /\ thrown' = TRUE
    /\ UNCHANGED <<array, inserted, probe>>

\* lower_bound's range is the positions from lo up to hi - 1.
FindBegins(k) ==
    /\ Idle
    /\ probe' = [key |-> k, lo |-> 1, hi |-> Len(array) + 1]
    /\ UNCHANGED <<array, curIt, inserted, thrown>>

Halve ==
    /\ probe.lo < probe.hi
    /\ LET mid == (probe.lo + probe.hi) \div 2
       IN  probe' = IF Cmp(array[mid], probe) THEN [probe EXCEPT !.lo = mid + 1]
                                              ELSE [probe EXCEPT !.hi = mid]
    /\ UNCHANGED <<array, curIt, inserted, thrown>>

\* Fault: what lower_bound returns is taken for the entry.
AnyHit == probe.lo <= Len(array)

\* What find compares with end(), and where Get does not throw.
Hit == probe.lo <= Len(array) /\ ~Cmp(probe, array[probe.lo])

FindEnds ==
    /\ probe # NoFind /\ probe.lo = probe.hi
    /\ probe' = NoFind
    /\ UNCHANGED <<array, curIt, inserted, thrown>>

SortedNext ==
    \/ \E n \in 1..MaxSize : \E keys \in [1..n -> Key] : Construct(keys)
    \/ \E k \in Key : Insert(k) \/ FindBegins(k)
    \/ SwapDown \/ SiftEnds \/ SiftThrows \/ Halve \/ FindEnds

SortedSpec == SortedInit /\ [][SortedNext]_sortedVars

-----------------------------------------------------------------------------
\* Unless a comparator threw, the array is in order between two calls, and
\* entries with the same key are in the order of their insertion.
InOrder == ~thrown /\ curIt = 0 => Ordered(array)

\* Unless a comparator threw, a search that has come to its end has hit an
\* entry exactly when one with its key is there, and then the first of them.
SearchIsExact ==
    ~thrown /\ probe # NoFind /\ probe.lo = probe.hi =>
        /\ Hit <=> \E i \in 1..Len(array) : array[i].key = probe.key
        /\ Hit => \A i \in 1..(probe.lo - 1) : array[i].key # probe.key

\* Every insertion is in the array, once, whatever was thrown.
NothingForgotten ==
    \A n \in 1..inserted : \E i \in 1..Len(array) :
        \A j \in 1..Len(array) : array[j].nr = n <=> j = i

=============================================================================
