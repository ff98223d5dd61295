----------------------------- MODULE Subprocess -----------------------------
(***************************************************************************)
(* TSubprocess (src/lib/posix/subprocess/subprocess.cpp): handles that run *)
(* a program in a child process, and the kernel's process table under      *)
(* them.  A handle knows its child by a pid only, and the kernel gives the *)
(* pid of a reaped child to the next process.                              *)
(*                                                                         *)
(* SIGKILL cannot be caught, so kill() makes a child a zombie at once.     *)
(* A communication mode is the set of its bits.                            *)
(***************************************************************************)
EXTENDS Naturals, FiniteSets

CONSTANTS
    Object,     \* the program's TSubprocess objects
    Pid,        \* process numbers
    Child,      \* bound: the children that can be forked
    Modes,      \* the modes the constructor is called with
    NoPid,      \* ChildPid = -1
    NoChild,    \* no child was run for this object
    NoProc,     \* a free process number
    Other       \* a process that is no child of the program

VARIABLES
    alive,      \* the objects that exist
    ChildPid,
    mine,       \* history: the child forked for the object, moved with it
    stale,      \* history: the objects that kept a number a Wait gave back
    answer,     \* what the object's last Wait did
    table,      \* the kernel's process table
    state,      \* where each child is
    mode,       \* the mode each child was forked with
    terminated  \* an exception has left a noexcept function

handles == <<alive, ChildPid, mine, stale, answer>>
kernel  == <<table, state, mode>>
vars    == <<alive, ChildPid, mine, stale, answer, table, state, mode, terminated>>

Bit == 0..5
\* ECommunicationMode, each value as the set of its bits.
Direct == {}
In     == {0}
InPt   == {0, 1}
Out    == {2}
OutPt  == {2, 3}
Err    == {4}
ErrPt  == {4, 5}
Pt     == {1, 3, 5}

Stage   == {"unborn", "forked", "exec", "runaway", "zombie", "reaped"}
Running == {"forked", "exec", "runaway"}
Answer  == {"none", "exit_code", "system_error", "has_not_been_run"}

ASSUME ConstantAssumption ==
    /\ NoPid \notin Pid /\ NoChild \notin Child
    /\ NoProc \notin Child /\ Other \notin Child /\ NoProc # Other
    /\ Modes \subseteq SUBSET Bit

-----------------------------------------------------------------------------
(* What a child is connected to. *)

\* Fault: operator& asks for all the bits.
AllBits(l, r) == r \subseteq l

\* operator&: have the two modes a bit in common?
Has(l, r) == l \cap r # {}

\* One of inFds, outFds and errFds: a pipe, the terminal, or a null pair where
\* the terminal was chosen and none was opened.
Fds(m, flag, flagPt) ==
    IF ~Has(m, flag) THEN "null"
    ELSE IF ~Has(m, flagPt) THEN "pipe"
    ELSE IF Has(m, Pt) THEN "terminal" ELSE "null"

InFds(m)  == Fds(m, In, InPt)
OutFds(m) == Fds(m, Out, OutPt)
ErrFds(m) == Fds(m, Err, ErrPt)

-----------------------------------------------------------------------------
Init ==
    /\ alive = {}
    /\ ChildPid = [o \in Object |-> NoPid]
    /\ mine = [o \in Object |-> NoChild]
    /\ stale = {}
    /\ answer = [o \in Object |-> "none"]
    /\ table = [p \in Pid |-> NoProc]
    /\ state = [c \in Child |-> "unborn"]
    /\ mode = [c \in Child |-> Direct]
    /\ terminated = FALSE

\* The constructor with a successful fork.  (Where PtMasterSlave or fork fails
\* it throws, and there is neither an object nor a child.)
ForkExec(o, c, p, m) ==
    /\ ~terminated
    /\ o \notin alive /\ state[c] = "unborn" /\ table[p] = NoProc
    /\ alive' = alive \cup {o}
    /\ ChildPid' = [ChildPid EXCEPT ![o] = p]
    /\ mine' = [mine EXCEPT ![o] = c]
    /\ table' = [table EXCEPT ![p] = c]
    /\ state' = [state EXCEPT ![c] = "forked"]
    /\ mode' = [mode EXCEPT ![c] = m]
    /\ UNCHANGED <<stale, answer, terminated>>

\* The child makes its input its controlling terminal and executes the file.
\* Where one of the two fails, an exception leaves the constructor in the
\* child, which runs on as a copy of the program.
ChildExecs(c) ==
    /\ state[c] = "forked"
    /\ InFds(mode[c]) = "terminal"
    /\ state' = [state EXCEPT ![c] = "exec"]
    /\ UNCHANGED <<handles, table, mode, terminated>>

ChildThrows(c) ==
    /\ state[c] = "forked"
    /\ state' = [state EXCEPT ![c] = "runaway"]
    /\ UNCHANGED <<handles, table, mode, terminated>>

ChildExits(c) ==
    /\ state[c] \in {"exec", "runaway"}
    /\ state' = [state EXCEPT ![c] = "zombie"]
    /\ UNCHANGED <<handles, table, mode, terminated>>

\* Processes that are not the program's come and go.
OtherStarts(p) ==
    /\ table[p] = NoProc
    /\ table' = [table EXCEPT ![p] = Other]
    /\ UNCHANGED <<handles, state, mode, terminated>>

OtherExits(p) ==
    /\ table[p] = Other
    /\ table' = [table EXCEPT ![p] = NoProc]
    /\ UNCHANGED <<handles, state, mode, terminated>>

-----------------------------------------------------------------------------
(* The operations of a handle. *)

\* waitpid and kill act on whatever child of the program has the number now.
Zombie(p) == table[p] \in Child /\ state[table[p]] = "zombie"
Reap(p) ==
    /\ state' = [state EXCEPT ![table[p]] = "reaped"]
    /\ table' = [table EXCEPT ![p] = NoProc]
Holders(p) == {o \in alive : ChildPid[o] = p}

\* Fault: waitpid(-1), which takes the first child that has ended.
AnyWait(o) ==
    /\ ~terminated /\ o \in alive /\ ChildPid[o] # NoPid
    /\ \E p \in Pid : Zombie(p) /\ Reap(p)
    /\ stale' = stale \cup Holders(ChildPid[o])
    /\ answer' = [answer EXCEPT ![o] = "exit_code"]
    /\ UNCHANGED <<alive, ChildPid, mine, mode, terminated>>

\* Wait returns: the child has ended.  ChildPid keeps its number.
Wait(o) ==
    /\ ~terminated /\ o \in alive /\ ChildPid[o] # NoPid
    /\ Zombie(ChildPid[o]) /\ Reap(ChildPid[o])
    /\ stale' = stale \cup Holders(ChildPid[o])
    /\ answer' = [answer EXCEPT ![o] = "exit_code"]
    /\ UNCHANGED <<alive, ChildPid, mine, mode, terminated>>

\* Wait throws: there is no number, waitpid knows no child with it, or a signal
\* interrupts the waiting.
WaitThrows(o) ==
    /\ ~terminated /\ o \in alive
    /\ IF ChildPid[o] = NoPid
       THEN answer' = [answer EXCEPT ![o] = "has_not_been_run"]
       ELSE /\ ~Zombie(ChildPid[o])
            /\ answer' = [answer EXCEPT ![o] = "system_error"]
    /\ UNCHANGED <<alive, ChildPid, mine, stale, kernel, terminated>>

\* kill() succeeds: there is a process with this number, and it is a child of
\* the program, which becomes or stays a zombie, or one the program may signal.
Signals(p) ==
    \/ /\ table[p] \in Child
       /\ state' = [state EXCEPT ![table[p]] = "zombie"]
       /\ UNCHANGED table
    \/ /\ table[p] = Other
       /\ table' = [table EXCEPT ![p] = NoProc]
       /\ UNCHANGED state

\* Kill's call has nothing to do, or succeeds; ChildPid is -1 then.
Kills(o) ==
    \/ ChildPid[o] = NoPid /\ UNCHANGED <<table, state>>
    \/ ChildPid[o] # NoPid /\ Signals(ChildPid[o])

\* kill() fails: no process has this number, or it is another user's.
KillFails(o) == ChildPid[o] # NoPid /\ table[ChildPid[o]] \notin Child

Kill(o) ==
    /\ ~terminated /\ o \in alive
    /\ Kills(o)
    /\ ChildPid' = [ChildPid EXCEPT ![o] = NoPid]
    /\ stale' = stale \ {o}
    /\ UNCHANGED <<alive, mine, answer, mode, terminated>>

Gone(o) ==
    /\ alive' = alive \ {o}
    /\ ChildPid' = [ChildPid EXCEPT ![o] = NoPid]
    /\ mine' = [mine EXCEPT ![o] = NoChild]
    /\ stale' = stale \ {o}
    /\ answer' = [answer EXCEPT ![o] = "none"]

\* The destructor: Kill sets ChildPid to -1, and the Wait after it throws, which
\* is caught, as is what a failing Kill throws.  Nothing is reaped.
Destroy(o) ==
    /\ ~terminated /\ o \in alive
    /\ \/ Kills(o)
       \/ KillFails(o) /\ UNCHANGED <<table, state>>
    /\ Gone(o)
    /\ UNCHANGED <<mode, terminated>>

\* Fault: the moved-from object keeps the number.
CopyingTakeOver(o, other) ==
    /\ ChildPid' = [ChildPid EXCEPT ![o] = ChildPid[other]]
    /\ mine' = [mine EXCEPT ![o] = mine[other], ![other] = NoChild]
    /\ stale' = (stale \ {o, other}) \cup (IF other \in stale THEN {o} ELSE {})

\* o takes over the child of other.
TakeOver(o, other) ==
    /\ ChildPid' = [ChildPid EXCEPT ![o] = ChildPid[other], ![other] = NoPid]
    /\ mine' = [mine EXCEPT ![o] = mine[other], ![other] = NoChild]
    /\ stale' = (stale \ {o, other}) \cup (IF other \in stale THEN {o} ELSE {})

Move(o, other) ==
    /\ ~terminated /\ o \notin alive /\ other \in alive
    /\ alive' = alive \cup {o}
    /\ TakeOver(o, other)
    /\ UNCHANGED <<answer, kernel, terminated>>

\* Fault: operator= forgets the child of its left side.
ForgetfulAssign(o, other) ==
    /\ ~terminated /\ o # other /\ {o, other} \subseteq alive
    /\ TakeOver(o, other)
    /\ UNCHANGED <<alive, answer, kernel, terminated>>

\* operator=: Kill, then the members move.
Assign(o, other) ==
    /\ ~terminated /\ o # other /\ {o, other} \subseteq alive
    /\ Kills(o)
    /\ TakeOver(o, other)
    /\ UNCHANGED <<alive, answer, mode, terminated>>

\* Kill throws out of operator=, which is noexcept.
AssignTerminates(o, other) ==
    /\ ~terminated /\ o # other /\ {o, other} \subseteq alive
    /\ KillFails(o)
    /\ terminated' = TRUE
    /\ UNCHANGED <<handles, kernel>>

-----------------------------------------------------------------------------
ChildStep == \E c \in Child : ChildExecs(c) \/ ChildThrows(c) \/ ChildExits(c)

OtherStep == \E p \in Pid : OtherStarts(p) \/ OtherExits(p)

Call(o) ==
    \/ \E c \in Child, p \in Pid, m \in Modes : ForkExec(o, c, p, m)
    \/ Wait(o) \/ WaitThrows(o) \/ Kill(o) \/ Destroy(o)
    \/ \E other \in Object : \/ Move(o, other) \/ Assign(o, other)
                             \/ AssignTerminates(o, other)

Next == ChildStep \/ OtherStep \/ \E o \in Object : Call(o)

Spec == Init /\ [][Next]_vars

-----------------------------------------------------------------------------
TypeOK ==
    /\ alive \subseteq Object /\ stale \subseteq alive
    /\ ChildPid \in [Object -> Pid \cup {NoPid}]
    /\ mine \in [Object -> Child \cup {NoChild}]
    /\ answer \in [Object -> Answer]
    /\ table \in [Pid -> Child \cup {NoProc, Other}]
    /\ state \in [Child -> Stage]
    /\ mode \in [Child -> SUBSET Bit]
    /\ terminated \in BOOLEAN

\* The object's number is that of its own child, which runs or is a zombie.
Owns(o) ==
    /\ ChildPid[o] # NoPid /\ mine[o] # NoChild
    /\ table[ChildPid[o]] = mine[o]

\* A child that runs is never lost: as long as the program has not been
\* terminated, some object can still kill it, through moves, assignments and
\* throwing destructors.
NoLostChild ==
    terminated \/
    \A c \in Child : state[c] \in Running =>
        \E o \in alive : Owns(o) /\ mine[o] = c

\* However fast the kernel reuses numbers, an object's number is its child's
\* until a Wait through it, or through an object with the same number, gives
\* the number back.  (The zombies that nobody waits for keep Kill safe.)
OwnsUntilWait ==
    \A o \in alive : ChildPid[o] # NoPid /\ o \notin stale => Owns(o)

\* Two objects have the same number only when one of them kept it after a Wait:
\* neither moves nor assignments leave it in two objects.
OneHandle ==
    \A o, q \in alive : o # q /\ ChildPid[o] = ChildPid[q] /\ ChildPid[o] # NoPid
                            => o \in stale \/ q \in stale

\* Both: an object that was not waited for signals its own child, alone.
HandleOwns == OwnsUntilWait /\ OneHandle

\* operator= terminates the program only while some object that was waited for
\* keeps a number that is no child's any more.
TerminatesOnlyStale ==
    [][~terminated /\ terminated' =>
           \E o \in stale : table[ChildPid[o]] \notin Child]_vars

\* A zombie no object has the number of stays one as long as the program runs:
\* nothing in the class reaps it, and destructors leave one behind each.
Abandoned(c) ==
    /\ state[c] = "zombie"
    /\ \A o \in alive : ChildPid[o] = NoPid \/ table[ChildPid[o]] # c
AbandonedStays == [][\A c \in Child : Abandoned(c) => Abandoned(c)']_vars

\* A program is executed with a terminal for its input or not at all, and no
\* mode gets a pipe, although ForkExec has a branch for each.
TerminalsOnly ==
    \A c \in Child :
        /\ state[c] = "exec" => Has(mode[c], In) /\ Has(mode[c], Pt)
        /\ state[c] # "unborn" =>
               "pipe" \notin {InFds(mode[c]), OutFds(mode[c]), ErrFds(mode[c])}

-----------------------------------------------------------------------------
\* What the text of Wait's exception says of the object.
NotRunMeansNotRun ==
    \A o \in alive : answer[o] = "has_not_been_run" => mine[o] = NoChild

=============================================================================
