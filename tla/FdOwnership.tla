---------------------------- MODULE FdOwnership ----------------------------
(***************************************************************************)
(* TUniqueFd and TSharedFd (src/lib/posix/file_descriptor/unique_fd.h and  *)
(* shared_fd.h): who closes a descriptor.  A TSharedFd is a shared_ptr to  *)
(* a TUniqueFd on the heap, here a cell, which exists as long as some      *)
(* handle points at it.                                                    *)
(*                                                                         *)
(* The kernel gives the lowest free number, and a close() that reports an  *)
(* error has freed the number all the same, as Linux does.                 *)
(***************************************************************************)
EXTENDS Integers

CONSTANTS
    Unique,     \* the program's TUniqueFd objects
    Shared,     \* the program's TSharedFd objects
    Cell,       \* the TUniqueFd objects that make_shared makes
    Number,     \* descriptor numbers
    File,       \* bound: the files, pipes, sockets and terminals opened
    NoCell,     \* a null shared_ptr
    NoFile      \* nothing

VARIABLES
    alive,      \* the TUniqueFd objects that exist, without the cells
    ptr,        \* the cell each TSharedFd points at
    Fd,         \* the number in each object
    mine,       \* history: the file that number stood for when it came
    raw,        \* the numbers that Release gave to the program
    table,      \* the kernel's descriptor table
    opened,     \* history: the files opened so far
    leaked,     \* history: the masters that PtMasterSlave lost
    failed,     \* history: close() has reported an error of an open file
    thrown,     \* history: Reset has thrown
    foreign,    \* history: an object has closed a file that was not its own
    terminated  \* an exception has left a noexcept function

objects == <<alive, ptr, Fd, mine, raw>>
kernel  == <<table, opened, leaked>>
faults  == <<failed, thrown, foreign, terminated>>
vars    == <<alive, ptr, Fd, mine, raw, table, opened, leaked, failed, thrown,
             foreign, terminated>>

NULL_FD == -1
Object  == Unique \cup Cell

ASSUME ConstantAssumption ==
    /\ Number \subseteq Nat
    /\ Unique \cap Cell = {}
    /\ NoCell \notin Unique \cup Cell /\ NoFile \notin File

-----------------------------------------------------------------------------
(* The state of an object, and of the kernel's table. *)

\* The handles that keep a cell: its use count is their number.
Handles(c) == {s \in Shared : ptr[s] = c}
Live(o)    == (o \in alive) \/ (\E s \in Shared : ptr[s] = o)
Dead(c)    == (c \in Cell) /\ (Handles(c) = {})

\* The kernel's choice among the free numbers of a table.
Lowest(t, n) == /\ t[n] = NoFile
                /\ \A m \in Number : t[m] = NoFile => n <= m

\* The file a number stands for, and what is known of a number kept.
Behind(n)   == IF n \in Number THEN table[n] ELSE NoFile
Holds(o, n) == Fd[o] = n /\ n # NULL_FD

Init ==
    /\ alive = {}
    /\ ptr = [s \in Shared |-> NoCell]
    /\ Fd = [o \in Object |-> NULL_FD]
    /\ mine = [o \in Object |-> NoFile]
    /\ raw = {}
    /\ table = [n \in Number |-> NoFile]
    /\ opened = {}
    /\ leaked = {}
    /\ failed = FALSE
    /\ thrown = FALSE
    /\ foreign = FALSE
    /\ terminated = FALSE

-----------------------------------------------------------------------------
(* Close: nothing for -1, and nothing for 0, which the kernel may give too.  *)

Closes(n) == n > 0

\* The table after the object's Close, and whether close() may have returned
\* an error or none: EBADF for a free number, otherwise what the device says.
TableAfter(n)  == IF Closes(n) THEN [table EXCEPT ![n] = NoFile] ELSE table
IsBad(n)       == Closes(n) /\ Behind(n) = NoFile
IsForeign(o)   == Closes(Fd[o]) /\ Behind(Fd[o]) \notin {NoFile, mine[o]}

CloseReturns(o) ==
    /\ ~IsBad(Fd[o])
    /\ table' = TableAfter(Fd[o])
    /\ foreign' = (foreign \/ IsForeign(o))
    /\ failed' = failed

CloseThrows(o) ==
    /\ Closes(Fd[o])
    /\ table' = TableAfter(Fd[o])
    /\ foreign' = (foreign \/ IsForeign(o))
    /\ failed' = (failed \/ ~IsBad(Fd[o]))

\* Where the exception is caught.
CloseQuietly(o) == CloseReturns(o) \/ CloseThrows(o)

NoClose == UNCHANGED <<table, foreign, failed>>

-----------------------------------------------------------------------------
(* TUniqueFd. *)

\* TBasicUniqueFd(NULL_FD)
Empty(u) ==
    /\ u \in Unique \ alive
    /\ alive' = alive \cup {u}
    /\ UNCHANGED <<ptr, Fd, mine, raw, kernel, faults>>

\* AcquireTCPSocket and Accept: a new number goes straight into an object.
Open(u, f) ==
    /\ u \in Unique \ alive /\ f \in File \ opened
    /\ \E n \in Number :
        /\ Lowest(table, n)
        /\ table' = [table EXCEPT ![n] = f]
        /\ Fd' = [Fd EXCEPT ![u] = n]
    /\ alive' = alive \cup {u}
    /\ mine' = [mine EXCEPT ![u] = f]
    /\ opened' = opened \cup {f}
    /\ UNCHANGED <<ptr, raw, leaked, faults>>

\* Pipe: both ends or, when the table has no place for two, none.
Pipe(u, v, f, g) ==
    /\ u \in Unique \ alive /\ v \in Unique \ (alive \cup {u})
    /\ f \in File \ opened /\ g \in File \ (opened \cup {f})
    /\ \E n, m \in Number :
        /\ Lowest(table, n)
        /\ Lowest([table EXCEPT ![n] = f], m)
        /\ table' = [table EXCEPT ![n] = f, ![m] = g]
        /\ Fd' = [Fd EXCEPT ![u] = n, ![v] = m]
    /\ alive' = alive \cup {u, v}
    /\ mine' = [mine EXCEPT ![u] = f, ![v] = g]
    /\ opened' = opened \cup {f, g}
    /\ UNCHANGED <<ptr, raw, leaked, faults>>

\* TBasicUniqueFd(int): the program wraps a number it got from Release.
Adopt(u, n) ==
    /\ u \in Unique \ alive /\ n \in raw
    /\ alive' = alive \cup {u}
    /\ Fd' = [Fd EXCEPT ![u] = n]
    /\ mine' = [mine EXCEPT ![u] = table[n]]
    /\ raw' = raw \ {n}
    /\ UNCHANGED <<ptr, kernel, faults>>

\* Fault: the moved-from object keeps its number.
MoveConstructCopies(u, v) ==
    /\ u \in Unique \ alive /\ v \in alive
    /\ alive' = alive \cup {u}
    /\ Fd' = [Fd EXCEPT ![u] = Fd[v]]
    /\ mine' = [mine EXCEPT ![u] = mine[v], ![v] = NoFile]
    /\ UNCHANGED <<ptr, raw, kernel, faults>>

MoveConstruct(u, v) ==
    /\ u \in Unique \ alive /\ v \in alive
    /\ alive' = alive \cup {u}
    /\ Fd' = [Fd EXCEPT ![u] = Fd[v], ![v] = NULL_FD]
    /\ mine' = [mine EXCEPT ![u] = mine[v], ![v] = NoFile]
    /\ UNCHANGED <<ptr, raw, kernel, faults>>

\* Fault: the object takes the number without a close of its own.
MoveAssignForgets(u, v) ==
    /\ u \in alive /\ v \in alive
    /\ Fd[u] # Fd[v]
    /\ NoClose
    /\ Fd' = [Fd EXCEPT ![u] = Fd[v], ![v] = NULL_FD]
    /\ mine' = [mine EXCEPT ![u] = mine[v], ![v] = NoFile]
    /\ UNCHANGED <<alive, ptr, raw, opened, leaked, thrown, terminated>>

\* operator=(TBasicUniqueFd&&): an object given itself returns early.
MoveAssign(u, v) ==
    /\ u \in alive /\ v \in alive
    /\ Fd[u] # Fd[v]
    /\ CloseReturns(u)
    /\ Fd' = [Fd EXCEPT ![u] = Fd[v], ![v] = NULL_FD]
    /\ mine' = [mine EXCEPT ![u] = mine[v], ![v] = NoFile]
    /\ UNCHANGED <<alive, ptr, raw, opened, leaked, thrown, terminated>>

\* operator= is noexcept: an error of close() ends the program.
MoveAssignTerminates(u, v) ==
    /\ u \in alive /\ v \in alive
    /\ Fd[u] # Fd[v]
    /\ CloseThrows(u)
    /\ terminated' = TRUE
    /\ UNCHANGED <<objects, opened, leaked, thrown>>

\* Fault: the object keeps the number it gives away.
ReleaseKeeps(u) ==
    /\ u \in alive /\ Fd[u] # NULL_FD
    /\ raw' = raw \cup {Fd[u]}
    /\ UNCHANGED <<alive, ptr, Fd, mine, kernel, faults>>

Release(u) ==
    /\ u \in alive /\ Fd[u] # NULL_FD
    /\ raw' = raw \cup {Fd[u]}
    /\ Fd' = [Fd EXCEPT ![u] = NULL_FD]
    /\ mine' = [mine EXCEPT ![u] = NoFile]
    /\ UNCHANGED <<alive, ptr, kernel, faults>>

\* Reset(fd), with -1 or a number from Release.
Reset(u, n) ==
    /\ u \in alive /\ n \in raw \cup {NULL_FD}
    /\ CloseReturns(u)
    /\ Fd' = [Fd EXCEPT ![u] = n]
    /\ mine' = [mine EXCEPT ![u] = Behind(n)]
    /\ raw' = raw \ {n}
    /\ UNCHANGED <<alive, ptr, opened, leaked, thrown, terminated>>

\* The exception comes before the assignment: the object keeps a number that
\* is free, and the program keeps the one it wanted to hand over.
ResetThrows(u) ==
    /\ u \in alive
    /\ CloseThrows(u)
    /\ thrown' = TRUE
    /\ UNCHANGED <<objects, opened, leaked, terminated>>

\* ~TBasicUniqueFd
Destroy(u) ==
    /\ u \in alive
    /\ CloseQuietly(u)
    /\ alive' = alive \ {u}
    /\ Fd' = [Fd EXCEPT ![u] = NULL_FD]
    /\ mine' = [mine EXCEPT ![u] = NoFile]
    /\ UNCHANGED <<ptr, raw, opened, leaked, thrown, terminated>>

-----------------------------------------------------------------------------
(* TSharedFd.  A handle that does not exist and a null one are the same: a   *)
(* constructor is an assignment to it, the destructor is Reset().            *)

\* Fault: the cell is destroyed as soon as one of its handles leaves.
AnyHandle(s) == ptr[s] # NoCell

\* Handle s lets go of its cell and takes another: the last handle destroys
\* the cell, and the cell's destructor catches what Close throws.
LastHandle(s) == /\ ptr[s] # NoCell
                 /\ Handles(ptr[s]) = {s}

Drop(s) == IF LastHandle(s) THEN {ptr[s]} ELSE {}

\* The values of f after the cells dropped are gone.
Without(f, s, none) == [o \in Object |-> IF o \in Drop(s) THEN none ELSE f[o]]

CloseDropped(s) == IF LastHandle(s) THEN CloseQuietly(ptr[s]) ELSE NoClose

\* TSharedFd(int) and Reset(int), with a number from Release.  The constructor
\* makes a cell even for -1, Reset does not.
ShareNumber(s, c, n) ==
    /\ Dead(c)
    /\ n \in raw \/ (n = NULL_FD /\ ptr[s] = NoCell)
    /\ CloseDropped(s)
    /\ ptr' = [ptr EXCEPT ![s] = c]
    /\ Fd' = [Without(Fd, s, NULL_FD) EXCEPT ![c] = n]
    /\ mine' = [Without(mine, s, NoFile) EXCEPT ![c] = Behind(n)]
    /\ raw' = raw \ {n}
    /\ UNCHANGED <<alive, opened, leaked, thrown, terminated>>

\* TSharedFd(TUniqueFd&&): an object without a number makes a null handle.
ShareUnique(s, c, u) ==
    /\ Dead(c) /\ u \in alive /\ Fd[u] # NULL_FD
    /\ CloseDropped(s)
    /\ ptr' = [ptr EXCEPT ![s] = c]
    /\ Fd' = [Without(Fd, s, NULL_FD) EXCEPT ![c] = Fd[u], ![u] = NULL_FD]
    /\ mine' = [Without(mine, s, NoFile) EXCEPT ![c] = mine[u], ![u] = NoFile]
    /\ UNCHANGED <<alive, raw, opened, leaked, thrown, terminated>>

\* The copy constructor and the copy assignment.
Copy(s, t) ==
    /\ ptr[s] # ptr[t] /\ ptr[t] # NoCell
    /\ CloseDropped(s)
    /\ ptr' = [ptr EXCEPT ![s] = ptr[t]]
    /\ Fd' = Without(Fd, s, NULL_FD)
    /\ mine' = Without(mine, s, NoFile)
    /\ UNCHANGED <<alive, raw, opened, leaked, thrown, terminated>>

\* The move constructor and the move assignment.  Two handles on one cell
\* lose one of them and drop nothing.
Move(s, t) ==
    /\ s # t /\ ptr[t] # NoCell
    /\ ptr' = [ptr EXCEPT ![s] = ptr[t], ![t] = NoCell]
    /\ CloseDropped(s)
    /\ Fd' = Without(Fd, s, NULL_FD)
    /\ mine' = Without(mine, s, NoFile)
    /\ UNCHANGED <<alive, raw, opened, leaked, thrown, terminated>>

\* Reset(), the destructor, the stream's Close, and an assignment of null.
Forget(s) ==
    /\ ptr[s] # NoCell
    /\ CloseDropped(s)
    /\ ptr' = [ptr EXCEPT ![s] = NoCell]
    /\ Fd' = Without(Fd, s, NULL_FD)
    /\ mine' = Without(mine, s, NoFile)
    /\ UNCHANGED <<alive, raw, opened, leaked, thrown, terminated>>

\* PtMasterSlave
PtMasterSlave(s, t, c, d, f, g) ==
    /\ s # t /\ ptr[s] = NoCell /\ ptr[t] = NoCell
    /\ c # d /\ Dead(c) /\ Dead(d)
    /\ f \in File \ opened /\ g \in File \ (opened \cup {f})
    /\ \E n, m \in Number :
        /\ Lowest(table, n)
        /\ Lowest([table EXCEPT ![n] = f], m)
        /\ table' = [table EXCEPT ![n] = f, ![m] = g]
        /\ Fd' = [Fd EXCEPT ![c] = n, ![d] = m]
    /\ ptr' = [ptr EXCEPT ![s] = c, ![t] = d]
    /\ mine' = [mine EXCEPT ![c] = f, ![d] = g]
    /\ opened' = opened \cup {f, g}
    /\ UNCHANGED <<alive, raw, leaked, faults>>

\* A call after posix_openpt fails, open() for want of a number among them:
\* the master's number is an int and is lost with the stack.
PtMasterSlaveThrows(f) ==
    /\ f \in File \ opened
    /\ \E n \in Number :
        /\ Lowest(table, n)
        /\ table' = [table EXCEPT ![n] = f]
    /\ opened' = opened \cup {f}
    /\ leaked' = leaked \cup {f}
    /\ UNCHANGED <<objects, faults>>

-----------------------------------------------------------------------------
UniqueStep ==
    \/ \E u \in Unique : Empty(u)
    \/ \E u \in Unique, f \in File : Open(u, f)
    \/ \E u, v \in Unique, f, g \in File : Pipe(u, v, f, g)
    \/ \E u \in Unique, n \in Number : Adopt(u, n)
    \/ \E u, v \in Unique : MoveConstruct(u, v)
    \/ \E u, v \in Unique : MoveAssign(u, v)
    \/ \E u, v \in Unique : MoveAssignTerminates(u, v)
    \/ \E u \in Unique : Release(u)
    \/ \E u \in Unique, n \in Number \cup {NULL_FD} : Reset(u, n)
    \/ \E u \in Unique : ResetThrows(u)
    \/ \E u \in Unique : Destroy(u)

SharedStep ==
    \/ \E s \in Shared, c \in Cell, n \in Number \cup {NULL_FD} :
           ShareNumber(s, c, n)
    \/ \E s \in Shared, c \in Cell, u \in Unique : ShareUnique(s, c, u)
    \/ \E s, t \in Shared : Copy(s, t)
    \/ \E s, t \in Shared : Move(s, t)
    \/ \E s \in Shared : Forget(s)
    \/ \E s, t \in Shared, c, d \in Cell, f, g \in File :
           PtMasterSlave(s, t, c, d, f, g)
    \/ \E f \in File : PtMasterSlaveThrows(f)

Next == ~terminated /\ (UniqueStep \/ SharedStep)

Spec == Init /\ [][Next]_vars

-----------------------------------------------------------------------------
(* Properties. *)

\* Every variable has its type; an object that does not exist, or a cell with
\* no handle, has no number.
TypeOK ==
    /\ alive \subseteq Unique
    /\ ptr \in [Shared -> Cell \cup {NoCell}]
    /\ Fd \in [Object -> Number \cup {NULL_FD}]
    /\ mine \in [Object -> File \cup {NoFile}]
    /\ raw \subseteq Number
    /\ table \in [Number -> File \cup {NoFile}]
    /\ opened \subseteq File /\ leaked \subseteq opened
    /\ failed \in BOOLEAN /\ thrown \in BOOLEAN
    /\ foreign \in BOOLEAN /\ terminated \in BOOLEAN
    /\ \A o \in Object : ~Live(o) => Fd[o] = NULL_FD

\* A Reset has thrown, or a failing move assignment has ended the program.
Broken == thrown \/ terminated

\* A number in an object stands for the file it stood for when it came, through
\* every move, release, reset and sharing: no other object's Close takes it
\* away.  This holds as long as no Reset has thrown.
HoldsOwn ==
    Broken \/ \A o \in Object :
        Fd[o] # NULL_FD => /\ mine[o] # NoFile
                           /\ table[Fd[o]] = mine[o]

\* An open number has one owner: an object, a cell, or the program after
\* Release.  Two would close it twice.
OneHolder ==
    Broken \/ \A n \in Number :
        /\ \A o, p \in Object : Holds(o, n) /\ Holds(p, n) => o = p
        /\ n \in raw => table[n] # NoFile /\ (\A o \in Object : ~Holds(o, n))

\* Both: what is closed is closed once, by its owner.
OwnedOnce == HoldsOwn /\ OneHolder

\* What is open has an owner, so that it can be closed: all but the terminals
\* of failed calls of PtMasterSlave, and number 0, which Close passes over.
NothingLost ==
    \A n \in Number :
        (n # 0 /\ table[n] \notin leaked \cup {NoFile})
            => (n \in raw) \/ (\E o \in Object : Holds(o, n))

\* A file of another owner is closed only after a Reset that threw and left
\* its number in the object, which closes it again when it is destroyed.  A
\* move assignment that fails cannot come to that: it ends the program.
ForeignCloseNeedsThrow == foreign => thrown

\* Neither Reset nor the move assignment fails by itself: the first error is
\* always one that close() gave for an open descriptor.
ErrorsComeFromClose == (thrown \/ terminated) => failed

\* Both: what goes wrong goes back, through a Reset that threw, to a close()
\* that failed.
FailureExplained == ForeignCloseNeedsThrow /\ ErrorsComeFromClose

\* A shared file stays open while a handle is left: no step closes the number
\* of a cell that had one handle besides the one that the step lets go of.
SharedStaysOpen ==
    [][~Broken' =>
         \A c \in Cell :
            ((\E s \in Shared : ptr[s] = c /\ ptr'[s] = c) /\ Fd[c] # NULL_FD)
                => table'[Fd[c]] = table[Fd[c]] /\ Fd'[c] = Fd[c]]_vars

=============================================================================
