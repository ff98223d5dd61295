-------------------------- MODULE SubprocessProofs --------------------------
(***************************************************************************)
(* What TSubprocess guarantees for any number of objects, children and     *)
(* process numbers, however the kernel reuses the numbers.                 *)
(***************************************************************************)
EXTENDS Subprocess, TLAPS

\* A child has one number at most.
OneNumber ==
    \A p, q \in Pid : table[p] \in Child /\ table[p] = table[q] => p = q

\* A child that was not forked has no number and no object.
UnbornIsNowhere ==
    \A c \in Child : state[c] = "unborn" =>
        (\A p \in Pid : table[p] # c) /\ (\A o \in Object : mine[o] # c)

\* A child was forked for one object.
OneObject ==
    \A o, q \in Object : mine[o] = mine[q] /\ mine[o] # NoChild => o = q

\* An object that does not exist has neither a number nor a child.
NoGhost ==
    \A o \in Object : o \notin alive => ChildPid[o] = NoPid /\ mine[o] = NoChild

\* A child that was executed got a terminal.
ExecHasTerminal ==
    \A c \in Child : state[c] = "exec" => InFds(mode[c]) = "terminal"

Ledger == TypeOK /\ OneNumber /\ UnbornIsNowhere /\ OneObject /\ NoGhost
          /\ ExecHasTerminal

\* OwnsUntilWait and NoLostChild are inductive with the ledger: a kill reaches
\* no other object's child, and a fork finds no object with its number.
Inv == Ledger /\ OwnsUntilWait /\ NoLostChild

\* Nothing runs at first.
LEMMA InitInv == Init => Inv
<1> SUFFICES ASSUME Init PROVE Inv
  OBVIOUS
<1> USE ConstantAssumption DEF Init
<1>1. TypeOK
  BY DEF TypeOK, Stage, Answer, Direct
<1>2. OneNumber /\ UnbornIsNowhere /\ OneObject /\ NoGhost
  BY DEF OneNumber, UnbornIsNowhere, OneObject, NoGhost
<1>3. ExecHasTerminal /\ OwnsUntilWait /\ NoLostChild
  BY DEF ExecHasTerminal, OwnsUntilWait, NoLostChild, Running
<1> QED
  BY <1>1, <1>2, <1>3 DEF Inv, Ledger

\* What the call of kill leaves behind: the children keep their numbers, and
\* the object's own child does not run any more.
LEMMA KillEffect ==
  ASSUME TypeOK, NEW o \in Object, Kills(o)
  PROVE  /\ table' \in [Pid -> Child \cup {NoProc, Other}]
         /\ state' \in [Child -> Stage]
         /\ \A p \in Pid : table'[p] = table[p] \/ (table[p] = Other /\ table'[p] = NoProc)
         /\ \A c \in Child : state'[c] = state[c]
                             \/ (state'[c] = "zombie" /\ \E p \in Pid : table[p] = c)
         /\ Owns(o) => state'[mine[o]] = "zombie"
<1>1. /\ table \in [Pid -> Child \cup {NoProc, Other}] /\ state \in [Child -> Stage]
      /\ ChildPid[o] \in Pid \cup {NoPid}
  BY DEF TypeOK
<1>2. CASE UNCHANGED <<table, state>> /\ ChildPid[o] = NoPid
  BY <1>1, <1>2 DEF Owns
<1>3. CASE ChildPid[o] # NoPid /\ Signals(ChildPid[o])
  <2>1. ChildPid[o] \in Pid
    BY <1>1, <1>3
  <2>2. ASSUME NEW k \in Child, table[ChildPid[o]] = k,
               state' = [state EXCEPT ![k] = "zombie"], table' = table
        PROVE  /\ table' \in [Pid -> Child \cup {NoProc, Other}]
               /\ state' \in [Child -> Stage]
               /\ \A c \in Child : state'[c] = state[c]
                     \/ (state'[c] = "zombie" /\ \E p \in Pid : table[p] = c)
               /\ Owns(o) => state'[mine[o]] = "zombie"
    <3>1. state' \in [Child -> Stage]
      BY <1>1, <2>2 DEF Stage
    <3>2. \A c \in Child : state'[c] = IF c = k THEN "zombie" ELSE state[c]
      BY <1>1, <2>2
    <3> QED
      BY <1>1, <2>1, <2>2, <3>1 DEF Owns
  <2>3. ASSUME table[ChildPid[o]] = Other,
               table' = [table EXCEPT ![ChildPid[o]] = NoProc], state' = state
        PROVE  /\ table' \in [Pid -> Child \cup {NoProc, Other}]
               /\ \A p \in Pid : table'[p] = table[p]
                                 \/ (table[p] = Other /\ table'[p] = NoProc)
               /\ Owns(o) => mine[o] = Other
    BY <1>1, <2>3 DEF Owns
  <2>4. Owns(o) => mine[o] # Other
    BY ConstantAssumption DEF TypeOK, Owns
  <2> QED
    BY <1>1, <1>3, <2>2, <2>3, <2>4 DEF Signals
<1> QED
  BY <1>2, <1>3 DEF Kills

\* A new child has a number nobody else has, and its object.
LEMMA ForkExecInv ==
  ASSUME Inv, NEW o \in Object, NEW c \in Child, NEW p \in Pid, NEW m \in Modes,
         ForkExec(o, c, p, m)
  PROVE  Inv'
<1>1. TypeOK /\ OneNumber /\ UnbornIsNowhere /\ OneObject /\ NoGhost
      /\ ExecHasTerminal /\ OwnsUntilWait /\ NoLostChild
  BY DEF Inv, Ledger
<1>2. TypeOK'
  <2>1. state' \in [Child -> Stage] /\ table' \in [Pid -> Child \cup {NoProc, Other}]
    BY <1>1 DEF TypeOK, ForkExec, Stage
  <2>2. m \in SUBSET Bit
    BY ConstantAssumption
  <2>3. mode' \in [Child -> SUBSET Bit]
    BY <1>1, <2>2 DEF TypeOK, ForkExec
  <2> QED
    BY <1>1, <2>1, <2>3 DEF TypeOK, ForkExec
<1>3. OneNumber'
  <2>1. \A q \in Pid : table'[q] = IF q = p THEN c ELSE table[q]
    BY <1>1 DEF TypeOK, ForkExec
  <2>2. \A q \in Pid : table[q] # c
    BY <1>1 DEF UnbornIsNowhere, ForkExec
  <2> QED
    BY <1>1, <2>1, <2>2 DEF OneNumber
<1>4. UnbornIsNowhere'
  <2>1. \A k \in Child : state'[k] = "unborn" => k # c /\ state[k] = "unborn"
    BY <1>1 DEF TypeOK, ForkExec
  <2>2. /\ \A q \in Pid : table'[q] = table[q] \/ table'[q] = c
        /\ \A q \in Object : mine'[q] = mine[q] \/ mine'[q] = c
    BY DEF ForkExec
  <2> QED
    BY <1>1, <2>1, <2>2 DEF UnbornIsNowhere
<1>5. OneObject'
  <2>1. \A q \in Object : mine'[q] = IF q = o THEN c ELSE mine[q]
    BY <1>1 DEF TypeOK, ForkExec
  <2>2. \A q \in Object : mine[q] # c
    BY <1>1 DEF UnbornIsNowhere, ForkExec
  <2> QED
    BY <1>1, <2>1, <2>2 DEF OneObject
<1>6. NoGhost'
  BY <1>1 DEF NoGhost, ForkExec
<1>7. ExecHasTerminal'
  BY <1>1 DEF ExecHasTerminal, ForkExec
<1>8. OwnsUntilWait'
  BY <1>1, ConstantAssumption DEF OwnsUntilWait, Owns, TypeOK, ForkExec
<1>9. NoLostChild'
  BY <1>1, ConstantAssumption DEF NoLostChild, Owns, TypeOK, ForkExec
<1> QED
  BY <1>2, <1>3, <1>4, <1>5, <1>6, <1>7, <1>8, <1>9 DEF Inv, Ledger

\* The child's own steps leave numbers and objects alone.
LEMMA ChildExecsInv ==
  ASSUME Inv, NEW c \in Child, ChildExecs(c)
  PROVE  Inv'
<1>1. TypeOK /\ OneNumber /\ UnbornIsNowhere /\ OneObject /\ NoGhost
      /\ ExecHasTerminal /\ OwnsUntilWait /\ NoLostChild
  BY DEF Inv, Ledger
<1>2. TypeOK'
  BY <1>1 DEF TypeOK, Stage, ChildExecs, handles
<1>3. OneNumber'
  BY <1>1 DEF OneNumber, ChildExecs
<1>4. UnbornIsNowhere'
  BY <1>1 DEF UnbornIsNowhere, ChildExecs, handles
<1>5. OneObject'
  BY <1>1 DEF OneObject, ChildExecs, handles
<1>6. NoGhost'
  BY <1>1 DEF NoGhost, ChildExecs, handles
<1>7. ExecHasTerminal'
  BY <1>1 DEF ExecHasTerminal, ChildExecs
<1>8. OwnsUntilWait'
  BY <1>1 DEF OwnsUntilWait, Owns, ChildExecs, handles
<1>9. NoLostChild'
  BY <1>1 DEF NoLostChild, Owns, Running, ChildExecs, handles
<1> QED
  BY <1>2, <1>3, <1>4, <1>5, <1>6, <1>7, <1>8, <1>9 DEF Inv, Ledger

\* The same for the child that runs on as a copy of the program.
LEMMA ChildThrowsInv ==
  ASSUME Inv, NEW c \in Child, ChildThrows(c)
  PROVE  Inv'
<1>1. TypeOK /\ OneNumber /\ UnbornIsNowhere /\ OneObject /\ NoGhost
      /\ ExecHasTerminal /\ OwnsUntilWait /\ NoLostChild
  BY DEF Inv, Ledger
<1>2. TypeOK'
  BY <1>1 DEF TypeOK, Stage, ChildThrows, handles
<1>3. OneNumber'
  BY <1>1 DEF OneNumber, ChildThrows
<1>4. UnbornIsNowhere'
  BY <1>1 DEF UnbornIsNowhere, ChildThrows, handles
<1>5. OneObject'
  BY <1>1 DEF OneObject, ChildThrows, handles
<1>6. NoGhost'
  BY <1>1 DEF NoGhost, ChildThrows, handles
<1>7. ExecHasTerminal'
  BY <1>1 DEF ExecHasTerminal, ChildThrows
<1>8. OwnsUntilWait'
  BY <1>1 DEF OwnsUntilWait, Owns, ChildThrows, handles
<1>9. NoLostChild'
  BY <1>1 DEF NoLostChild, Owns, Running, ChildThrows, handles
<1> QED
  BY <1>2, <1>3, <1>4, <1>5, <1>6, <1>7, <1>8, <1>9 DEF Inv, Ledger

\* The same for the child that ends: it does not run any more.
LEMMA ChildExitsInv ==
  ASSUME Inv, NEW c \in Child, ChildExits(c)
  PROVE  Inv'
<1>1. TypeOK /\ OneNumber /\ UnbornIsNowhere /\ OneObject /\ NoGhost
      /\ ExecHasTerminal /\ OwnsUntilWait /\ NoLostChild
  BY DEF Inv, Ledger
<1>2. TypeOK'
  BY <1>1 DEF TypeOK, Stage, ChildExits, handles
<1>3. OneNumber'
  BY <1>1 DEF OneNumber, ChildExits
<1>4. UnbornIsNowhere'
  BY <1>1 DEF UnbornIsNowhere, ChildExits, handles
<1>5. OneObject'
  BY <1>1 DEF OneObject, ChildExits, handles
<1>6. NoGhost'
  BY <1>1 DEF NoGhost, ChildExits, handles
<1>7. ExecHasTerminal'
  BY <1>1 DEF ExecHasTerminal, ChildExits
<1>8. OwnsUntilWait'
  BY <1>1 DEF OwnsUntilWait, Owns, ChildExits, handles
<1>9. NoLostChild'
  BY <1>1 DEF NoLostChild, Owns, Running, ChildExits, handles
<1> QED
  BY <1>2, <1>3, <1>4, <1>5, <1>6, <1>7, <1>8, <1>9 DEF Inv, Ledger

\* Another process gets a number no object owns.
LEMMA OtherStartsInv ==
  ASSUME Inv, NEW p \in Pid, OtherStarts(p)
  PROVE  Inv'
<1>1. TypeOK /\ OneNumber /\ UnbornIsNowhere /\ OneObject /\ NoGhost
      /\ ExecHasTerminal /\ OwnsUntilWait /\ NoLostChild
  BY DEF Inv, Ledger
<1>2. TypeOK'
  BY <1>1 DEF TypeOK, OtherStarts, handles
<1>3. OneNumber'
  BY <1>1, ConstantAssumption DEF OneNumber, OtherStarts
<1>4. UnbornIsNowhere'
  BY <1>1, ConstantAssumption DEF UnbornIsNowhere, OtherStarts, handles
<1>5. OneObject'
  BY <1>1 DEF OneObject, OtherStarts, handles
<1>6. NoGhost'
  BY <1>1 DEF NoGhost, OtherStarts, handles
<1>7. ExecHasTerminal'
  BY <1>1 DEF ExecHasTerminal, OtherStarts
<1>8. OwnsUntilWait'
  BY <1>1, ConstantAssumption DEF OwnsUntilWait, Owns, TypeOK, OtherStarts, handles
<1>9. NoLostChild'
  BY <1>1, ConstantAssumption DEF NoLostChild, Owns, OtherStarts, handles
<1> QED
  BY <1>2, <1>3, <1>4, <1>5, <1>6, <1>7, <1>8, <1>9 DEF Inv, Ledger

\* The number another process gives back is no child's.
LEMMA OtherExitsInv ==
  ASSUME Inv, NEW p \in Pid, OtherExits(p)
  PROVE  Inv'
<1>1. TypeOK /\ OneNumber /\ UnbornIsNowhere /\ OneObject /\ NoGhost
      /\ ExecHasTerminal /\ OwnsUntilWait /\ NoLostChild
  BY DEF Inv, Ledger
<1>2. TypeOK'
  BY <1>1 DEF TypeOK, OtherExits, handles
<1>3. OneNumber'
  BY <1>1, ConstantAssumption DEF OneNumber, OtherExits
<1>4. UnbornIsNowhere'
  BY <1>1, ConstantAssumption DEF UnbornIsNowhere, OtherExits, handles
<1>5. OneObject'
  BY <1>1 DEF OneObject, OtherExits, handles
<1>6. NoGhost'
  BY <1>1 DEF NoGhost, OtherExits, handles
<1>7. ExecHasTerminal'
  BY <1>1 DEF ExecHasTerminal, OtherExits
<1>8. OwnsUntilWait'
  BY <1>1, ConstantAssumption DEF OwnsUntilWait, Owns, TypeOK, OtherExits, handles
<1>9. NoLostChild'
  BY <1>1, ConstantAssumption DEF NoLostChild, Owns, OtherExits, handles
<1> QED
  BY <1>2, <1>3, <1>4, <1>5, <1>6, <1>7, <1>8, <1>9 DEF Inv, Ledger

\* Wait gives one number back, and every object with that number is stale then.
LEMMA WaitInv ==
  ASSUME Inv, NEW o \in Object, Wait(o)
  PROVE  Inv'
<1>1. TypeOK /\ OneNumber /\ UnbornIsNowhere /\ OneObject /\ NoGhost
      /\ ExecHasTerminal /\ OwnsUntilWait /\ NoLostChild
  BY DEF Inv, Ledger
<1>2. TypeOK'
  BY <1>1 DEF TypeOK, Stage, Answer, Wait, Reap, Holders
<1>3. OneNumber'
  BY <1>1, ConstantAssumption DEF OneNumber, Wait, Reap
<1>4. UnbornIsNowhere'
  BY <1>1, ConstantAssumption DEF UnbornIsNowhere, Wait, Reap
<1>5. OneObject'
  BY <1>1 DEF OneObject, Wait
<1>6. NoGhost'
  BY <1>1 DEF NoGhost, Wait
<1>7. ExecHasTerminal'
  BY <1>1 DEF ExecHasTerminal, Wait, Reap
<1>8. OwnsUntilWait'
  BY <1>1 DEF OwnsUntilWait, Owns, Wait, Reap, Holders
<1>9. NoLostChild'
  BY <1>1 DEF NoLostChild, Owns, Running, Wait, Zombie, Reap
<1> QED
  BY <1>2, <1>3, <1>4, <1>5, <1>6, <1>7, <1>8, <1>9 DEF Inv, Ledger

\* A Wait that throws changes nothing but its answer.
LEMMA WaitThrowsInv ==
  ASSUME Inv, NEW o \in Object, WaitThrows(o)
  PROVE  Inv'
<1>1. TypeOK /\ OneNumber /\ UnbornIsNowhere /\ OneObject /\ NoGhost
      /\ ExecHasTerminal /\ OwnsUntilWait /\ NoLostChild
  BY DEF Inv, Ledger
<1>2. TypeOK'
  BY <1>1 DEF TypeOK, Answer, WaitThrows, kernel
<1>3. OneNumber'
  BY <1>1 DEF OneNumber, WaitThrows, kernel
<1>4. UnbornIsNowhere'
  BY <1>1 DEF UnbornIsNowhere, WaitThrows, kernel
<1>5. OneObject'
  BY <1>1 DEF OneObject, WaitThrows
<1>6. NoGhost'
  BY <1>1 DEF NoGhost, WaitThrows
<1>7. ExecHasTerminal'
  BY <1>1 DEF ExecHasTerminal, WaitThrows, kernel
<1>8. OwnsUntilWait'
  BY <1>1 DEF OwnsUntilWait, Owns, WaitThrows, kernel
<1>9. NoLostChild'
  BY <1>1 DEF NoLostChild, Owns, WaitThrows, kernel
<1> QED
  BY <1>2, <1>3, <1>4, <1>5, <1>6, <1>7, <1>8, <1>9 DEF Inv, Ledger

\* Nothing changes when the program is terminated.
LEMMA AssignTerminatesInv ==
  ASSUME Inv, NEW o \in Object, NEW other \in Object, AssignTerminates(o, other)
  PROVE  Inv'
<1>1. TypeOK /\ OneNumber /\ UnbornIsNowhere /\ OneObject /\ NoGhost
      /\ ExecHasTerminal /\ OwnsUntilWait /\ NoLostChild
  BY DEF Inv, Ledger
<1>2. TypeOK'
  BY <1>1 DEF TypeOK, AssignTerminates, handles, kernel
<1>3. OneNumber'
  BY <1>1 DEF OneNumber, AssignTerminates, kernel
<1>4. UnbornIsNowhere'
  BY <1>1 DEF UnbornIsNowhere, AssignTerminates, handles, kernel
<1>5. OneObject'
  BY <1>1 DEF OneObject, AssignTerminates, handles
<1>6. NoGhost'
  BY <1>1 DEF NoGhost, AssignTerminates, handles
<1>7. ExecHasTerminal'
  BY <1>1 DEF ExecHasTerminal, AssignTerminates, kernel
<1>8. OwnsUntilWait'
  BY <1>1 DEF OwnsUntilWait, Owns, AssignTerminates, handles, kernel
<1>9. NoLostChild'
  BY DEF NoLostChild, AssignTerminates
<1> QED
  BY <1>2, <1>3, <1>4, <1>5, <1>6, <1>7, <1>8, <1>9 DEF Inv, Ledger

\* Kill may end other processes, but no child that another object owns.
LEMMA KillInv ==
  ASSUME Inv, NEW o \in Object, Kill(o)
  PROVE  Inv'
<1>1. TypeOK /\ OneNumber /\ UnbornIsNowhere /\ OneObject /\ NoGhost
      /\ ExecHasTerminal /\ OwnsUntilWait /\ NoLostChild
  BY DEF Inv, Ledger
<1>2. /\ table' \in [Pid -> Child \cup {NoProc, Other}]
      /\ state' \in [Child -> Stage]
      /\ \A p \in Pid : table'[p] = table[p] \/ (table[p] = Other /\ table'[p] = NoProc)
      /\ \A c \in Child : state'[c] = state[c]
                          \/ (state'[c] = "zombie" /\ \E p \in Pid : table[p] = c)
      /\ Owns(o) => state'[mine[o]] = "zombie"
  BY <1>1, KillEffect DEF Kill
<1>3. TypeOK'
  BY <1>1, <1>2 DEF TypeOK, Kill
<1>4. OneNumber'
  BY <1>1, <1>2, ConstantAssumption DEF OneNumber
<1>5. UnbornIsNowhere'
  BY <1>1, <1>2, ConstantAssumption DEF UnbornIsNowhere, Kill
<1>6. OneObject'
  BY <1>1 DEF OneObject, Kill
<1>7. NoGhost'
  BY <1>1 DEF NoGhost, Kill
<1>8. ExecHasTerminal'
  BY <1>1, <1>2 DEF ExecHasTerminal, Kill
<1>9. OwnsUntilWait'
  BY <1>1, <1>2, ConstantAssumption DEF OwnsUntilWait, Owns, TypeOK, Kill
<1>10. NoLostChild'
  BY <1>1, <1>2, ConstantAssumption DEF NoLostChild, Owns, Running, TypeOK, Kill
<1> QED
  BY <1>3, <1>4, <1>5, <1>6, <1>7, <1>8, <1>9, <1>10 DEF Inv, Ledger

\* A failing Kill leaves only an object behind that owned no child.
LEMMA DestroyInv ==
  ASSUME Inv, NEW o \in Object, Destroy(o)
  PROVE  Inv'
<1>1. TypeOK /\ OneNumber /\ UnbornIsNowhere /\ OneObject /\ NoGhost
      /\ ExecHasTerminal /\ OwnsUntilWait /\ NoLostChild
  BY DEF Inv, Ledger
<1>2. /\ table' \in [Pid -> Child \cup {NoProc, Other}]
      /\ state' \in [Child -> Stage]
      /\ \A p \in Pid : table'[p] = table[p] \/ (table[p] = Other /\ table'[p] = NoProc)
      /\ \A c \in Child : state'[c] = state[c]
                          \/ (state'[c] = "zombie" /\ \E p \in Pid : table[p] = c)
      /\ Owns(o) => state'[mine[o]] = "zombie"
  <2>1. CASE Kills(o)
    BY <1>1, <2>1, KillEffect
  <2>2. CASE KillFails(o) /\ UNCHANGED <<table, state>>
    BY <1>1, <2>2 DEF KillFails, Owns, TypeOK
  <2> QED
    BY <2>1, <2>2 DEF Destroy
<1>3. TypeOK'
  BY <1>1, <1>2 DEF TypeOK, Answer, Destroy, Gone
<1>4. OneNumber'
  BY <1>1, <1>2, ConstantAssumption DEF OneNumber
<1>5. UnbornIsNowhere'
  BY <1>1, <1>2, ConstantAssumption DEF UnbornIsNowhere, Destroy, Gone
<1>6. OneObject'
  BY <1>1 DEF OneObject, Destroy, Gone
<1>7. NoGhost'
  BY <1>1 DEF NoGhost, TypeOK, Destroy, Gone
<1>8. ExecHasTerminal'
  BY <1>1, <1>2 DEF ExecHasTerminal, Destroy
<1>9. OwnsUntilWait'
  BY <1>1, <1>2, ConstantAssumption DEF OwnsUntilWait, Owns, TypeOK, Destroy, Gone
<1>10. NoLostChild'
  BY <1>1, <1>2, ConstantAssumption DEF NoLostChild, Owns, Running, TypeOK, Destroy, Gone
<1> QED
  BY <1>3, <1>4, <1>5, <1>6, <1>7, <1>8, <1>9, <1>10 DEF Inv, Ledger

\* The child of the moved-from object has the new object, and the number too.
LEMMA MoveInv ==
  ASSUME Inv, NEW o \in Object, NEW other \in Object, Move(o, other)
  PROVE  Inv'
<1>1. TypeOK /\ OneNumber /\ UnbornIsNowhere /\ OneObject /\ NoGhost
      /\ ExecHasTerminal /\ OwnsUntilWait /\ NoLostChild
  BY DEF Inv, Ledger
<1>2. TypeOK'
  BY <1>1 DEF TypeOK, Move, TakeOver, kernel
<1>3. OneNumber'
  BY <1>1 DEF OneNumber, Move, kernel
<1>4. UnbornIsNowhere'
  BY <1>1, ConstantAssumption DEF UnbornIsNowhere, TypeOK, Move, TakeOver, kernel
<1>5. OneObject'
  BY <1>1 DEF OneObject, TypeOK, Move, TakeOver
<1>6. NoGhost'
  BY <1>1 DEF NoGhost, TypeOK, Move, TakeOver
<1>7. ExecHasTerminal'
  BY <1>1 DEF ExecHasTerminal, Move, kernel
<1>8. OwnsUntilWait'
  BY <1>1 DEF OwnsUntilWait, Owns, TypeOK, Move, TakeOver, kernel
<1>9. NoLostChild'
  BY <1>1 DEF NoLostChild, Owns, TypeOK, Move, TakeOver, kernel
<1> QED
  BY <1>2, <1>3, <1>4, <1>5, <1>6, <1>7, <1>8, <1>9 DEF Inv, Ledger

\* The left side's child does not run any more when it takes over the other's.
LEMMA AssignInv ==
  ASSUME Inv, NEW o \in Object, NEW other \in Object, Assign(o, other)
  PROVE  Inv'
<1>1. TypeOK /\ OneNumber /\ UnbornIsNowhere /\ OneObject /\ NoGhost
      /\ ExecHasTerminal /\ OwnsUntilWait /\ NoLostChild
  BY DEF Inv, Ledger
<1>2. /\ table' \in [Pid -> Child \cup {NoProc, Other}]
      /\ state' \in [Child -> Stage]
      /\ \A p \in Pid : table'[p] = table[p] \/ (table[p] = Other /\ table'[p] = NoProc)
      /\ \A c \in Child : state'[c] = state[c]
                          \/ (state'[c] = "zombie" /\ \E p \in Pid : table[p] = c)
      /\ Owns(o) => state'[mine[o]] = "zombie"
  BY <1>1, KillEffect DEF Assign
<1>3. TypeOK'
  BY <1>1, <1>2 DEF TypeOK, Assign, TakeOver
<1>4. OneNumber'
  BY <1>1, <1>2, ConstantAssumption DEF OneNumber
<1>5. UnbornIsNowhere'
  BY <1>1, <1>2, ConstantAssumption DEF UnbornIsNowhere, TypeOK, Assign, TakeOver
<1>6. OneObject'
  BY <1>1 DEF OneObject, TypeOK, Assign, TakeOver
<1>7. NoGhost'
  BY <1>1 DEF NoGhost, TypeOK, Assign, TakeOver
<1>8. ExecHasTerminal'
  BY <1>1, <1>2 DEF ExecHasTerminal, Assign
<1>9. OwnsUntilWait'
  BY <1>1, <1>2, ConstantAssumption DEF OwnsUntilWait, Owns, TypeOK, Assign, TakeOver
<1>10. NoLostChild'
  BY <1>1, <1>2, ConstantAssumption DEF NoLostChild, Owns, Running, TypeOK, Assign, TakeOver
<1> QED
  BY <1>3, <1>4, <1>5, <1>6, <1>7, <1>8, <1>9, <1>10 DEF Inv, Ledger

-----------------------------------------------------------------------------
(* The steps together. *)

\* Every step keeps the invariant.
LEMMA NextInv == Inv /\ [Next]_vars => Inv'
<1>1. SUFFICES ASSUME Inv, [Next]_vars PROVE Inv'
  OBVIOUS
<1>2. CASE ChildStep
  BY <1>1, <1>2, ChildExecsInv, ChildThrowsInv, ChildExitsInv DEF ChildStep
<1>3. CASE OtherStep
  BY <1>1, <1>3, OtherStartsInv, OtherExitsInv DEF OtherStep
<1>4. ASSUME NEW o \in Object, Call(o) PROVE Inv'
  <2>1. CASE \E c \in Child, p \in Pid, m \in Modes : ForkExec(o, c, p, m)
    BY <1>1, <2>1, ForkExecInv
  <2>2. CASE Wait(o) \/ WaitThrows(o) \/ Kill(o) \/ Destroy(o)
    BY <1>1, <2>2, WaitInv, WaitThrowsInv, KillInv, DestroyInv
  <2>3. CASE \E other \in Object : \/ Move(o, other) \/ Assign(o, other)
                                   \/ AssignTerminates(o, other)
    BY <1>1, <2>3, MoveInv, AssignInv, AssignTerminatesInv
  <2> QED
    BY <1>4, <2>1, <2>2, <2>3 DEF Call
<1>5. CASE UNCHANGED vars
  BY <1>1, <1>5 DEF vars, Inv, Ledger, TypeOK, OneNumber, UnbornIsNowhere, OneObject,
                    NoGhost, ExecHasTerminal, OwnsUntilWait, NoLostChild, Owns
<1> QED
  BY <1>1, <1>2, <1>3, <1>4, <1>5 DEF Next

\* The invariant holds in every behaviour of the class: the ledger of numbers,
\* children and objects, and with it the two properties that need each other.
THEOREM Always == Spec => []Inv
<1> QED
  BY InitInv, NextInv, PTL DEF Spec

-----------------------------------------------------------------------------
\* As long as the program has not been terminated, every child that runs has
\* an object that can still kill it (Kill, operator=, the move constructor and
\* the destructor).
THEOREM ChildNeverLost == Spec => []NoLostChild
<1>1. Inv => NoLostChild
  BY DEF Inv
<1> QED
  BY <1>1, Always, PTL

\* Until a Wait gives it back, an object's number is its own child's, however
\* the kernel reuses the numbers; and moves and assignments leave it in one
\* object, since two that own their child by it would have the same child.
THEOREM HandlesOwn == Spec => []HandleOwns
<1>1. Inv => OneHandle
  <2>1. SUFFICES ASSUME Inv, NEW o \in alive, NEW q \in alive, o # q,
                        ChildPid[o] = ChildPid[q], ChildPid[o] # NoPid,
                        o \notin stale, q \notin stale
                 PROVE  FALSE
    BY DEF OneHandle
  <2>2. o \in Object /\ q \in Object
    BY <2>1 DEF Inv, Ledger, TypeOK
  <2>3. Owns(o) /\ Owns(q)
    BY <2>1 DEF Inv, OwnsUntilWait
  <2>4. mine[o] = mine[q] /\ mine[o] # NoChild
    BY <2>1, <2>3 DEF Owns
  <2> QED
    BY <2>1, <2>2, <2>4 DEF Inv, Ledger, OneObject
<1>2. Inv => HandleOwns
  BY <1>1 DEF Inv, HandleOwns
<1> QED
  BY <1>2, Always, PTL

\* No mode makes ForkExec create a pipe.
LEMMA NoPipe ==
  ASSUME NEW m, NEW flag, NEW flagPt, flag \subseteq flagPt
  PROVE  Fds(m, flag, flagPt) # "pipe"
BY DEF Fds, Has

\* A file is executed with a terminal for its input or not at all.
THEOREM ExecsOnTerminal == Spec => []TerminalsOnly
<1>1. Inv => TerminalsOnly
  <2>1. SUFFICES ASSUME Inv, NEW c \in Child
                 PROVE  /\ state[c] = "exec" => Has(mode[c], In) /\ Has(mode[c], Pt)
                        /\ "pipe" \notin {InFds(mode[c]), OutFds(mode[c]), ErrFds(mode[c])}
    BY DEF TerminalsOnly
  <2>2. state[c] = "exec" => Has(mode[c], In) /\ Has(mode[c], Pt)
    BY <2>1 DEF Inv, Ledger, ExecHasTerminal, InFds, Fds
  <2>3. In \subseteq InPt /\ Out \subseteq OutPt /\ Err \subseteq ErrPt
    BY DEF In, InPt, Out, OutPt, Err, ErrPt
  <2>4. InFds(mode[c]) # "pipe" /\ OutFds(mode[c]) # "pipe" /\ ErrFds(mode[c]) # "pipe"
    BY <2>3, NoPipe DEF InFds, OutFds, ErrFds
  <2> QED
    BY <2>2, <2>4
<1> QED
  BY <1>1, Always, PTL

-----------------------------------------------------------------------------
\* The only step that terminates the program is operator= with a left side
\* that kept its number after a Wait.
LEMMA TerminationStep ==
  ASSUME Inv, [Next]_vars, ~terminated, terminated'
  PROVE  \E o \in stale : table[ChildPid[o]] \notin Child
<1>1. PICK o \in Object, other \in Object : AssignTerminates(o, other)
  BY DEF Next, ChildStep, OtherStep, Call, vars, handles, kernel, ChildExecs, ChildThrows,
         ChildExits, OtherStarts, OtherExits, ForkExec, Wait, WaitThrows, Kill,
         Destroy, Move, Assign
<1>2. o \in alive /\ ChildPid[o] # NoPid /\ table[ChildPid[o]] \notin Child
  BY <1>1 DEF AssignTerminates, KillFails
<1>3. o \in stale
  <2>1. SUFFICES ASSUME o \notin stale PROVE FALSE
    OBVIOUS
  <2>2. Owns(o)
    BY <1>2, <2>1 DEF Inv, OwnsUntilWait
  <2> QED
    BY <1>2, <2>2 DEF Owns, Inv, Ledger, TypeOK
<1> QED
  BY <1>2, <1>3

\* operator=, which is noexcept, terminates the program only while some object
\* that was waited for keeps a number that is no child's any more.
THEOREM TerminationExplained == Spec => TerminatesOnlyStale
<1>1. Inv /\ [Next]_vars =>
          [~terminated /\ terminated' => \E o \in stale : table[ChildPid[o]] \notin Child]_vars
  BY TerminationStep
<1> QED
  BY <1>1, Always, PTL DEF Spec, TerminatesOnlyStale

-----------------------------------------------------------------------------
(* Zombies nobody waits for. *)

\* A signal leaves an abandoned zombie what it is.
LEMMA AbandonedAfterKill ==
  ASSUME Inv, NEW c \in Child, state[c] = "zombie", NEW o \in Object, Kills(o)
  PROVE  /\ state'[c] = "zombie"
         /\ \A p \in Pid : table[p] # c => table'[p] # c
<1>1. TypeOK
  BY DEF Inv, Ledger
<1>2. /\ \A p \in Pid : table'[p] = table[p] \/ (table[p] = Other /\ table'[p] = NoProc)
      /\ \A k \in Child : state'[k] = state[k]
                          \/ (state'[k] = "zombie" /\ \E p \in Pid : table[p] = k)
  BY <1>1, KillEffect
<1> QED
  BY <1>2, ConstantAssumption

\* What a step of the kernel's or of a child's does to it.
LEMMA AbandonedElsewhere ==
  ASSUME Inv, NEW c \in Child, Abandoned(c), ChildStep \/ OtherStep
  PROVE  Abandoned(c)'
<1>1. TypeOK /\ state[c] = "zombie"
      /\ \A o \in alive : ChildPid[o] = NoPid \/ table[ChildPid[o]] # c
  BY DEF Inv, Ledger, Abandoned
<1>2. CASE ChildStep
  BY <1>1, <1>2 DEF Abandoned, TypeOK, ChildStep, ChildExecs, ChildThrows, ChildExits, handles
<1>3. ASSUME NEW p \in Pid, OtherStarts(p) \/ OtherExits(p) PROVE Abandoned(c)'
  BY <1>1, <1>3, ConstantAssumption DEF Abandoned, TypeOK, OtherStarts, OtherExits, handles
<1> QED
  BY <1>2, <1>3 DEF OtherStep

\* What a call does to it.
LEMMA AbandonedInCall ==
  ASSUME Inv, NEW c \in Child, Abandoned(c), NEW o \in Object, Call(o)
  PROVE  Abandoned(c)'
<1>1. TypeOK /\ state[c] = "zombie"
      /\ \A q \in alive : ChildPid[q] = NoPid \/ table[ChildPid[q]] # c
  BY DEF Inv, Ledger, Abandoned
<1>2. CASE \E k \in Child, p \in Pid, m \in Modes : ForkExec(o, k, p, m)
  <2>1. PICK k \in Child, p \in Pid, m \in Modes : ForkExec(o, k, p, m)
    BY <1>2
  <2>2. k # c /\ state'[c] = "zombie"
    BY <1>1, <2>1 DEF ForkExec
  <2>3. /\ \A q \in Pid : table'[q] = IF q = p THEN k ELSE table[q]
        /\ \A q \in Object : ChildPid'[q] = IF q = o THEN p ELSE ChildPid[q]
        /\ alive' = alive \cup {o}
    BY <1>1, <2>1 DEF ForkExec, TypeOK
  <2> QED
    BY <1>1, <2>2, <2>3 DEF Abandoned, TypeOK
<1>3. CASE Wait(o)
  <2>1. /\ \A k \in Child : state'[k] = IF k = table[ChildPid[o]] THEN "reaped" ELSE state[k]
        /\ \A p \in Pid : table'[p] = IF p = ChildPid[o] THEN NoProc ELSE table[p]
        /\ o \in alive /\ ChildPid[o] # NoPid /\ alive' = alive /\ ChildPid' = ChildPid
    BY <1>1, <1>3 DEF Wait, Reap, TypeOK
  <2> QED
    BY <1>1, <2>1, ConstantAssumption DEF Abandoned, TypeOK
<1>4. CASE WaitThrows(o)
  BY <1>4 DEF Abandoned, WaitThrows, kernel
<1>5. CASE Kill(o)
  BY <1>1, <1>5, AbandonedAfterKill DEF Abandoned, Kill, TypeOK
<1>6. CASE Destroy(o)
  BY <1>1, <1>6, AbandonedAfterKill DEF Abandoned, Destroy, Gone, TypeOK
<1>7. ASSUME NEW other \in Object,
             Move(o, other) \/ Assign(o, other) \/ AssignTerminates(o, other)
      PROVE  Abandoned(c)'
  <2>1. CASE Move(o, other)
    BY <1>1, <2>1 DEF Abandoned, Move, TakeOver, TypeOK, kernel
  <2>2. CASE Assign(o, other)
    BY <1>1, <2>2, AbandonedAfterKill DEF Abandoned, Assign, TakeOver, TypeOK
  <2>3. CASE AssignTerminates(o, other)
    BY <2>3 DEF Abandoned, AssignTerminates, handles, kernel
  <2> QED
    BY <1>7, <2>1, <2>2, <2>3
<1> QED
  BY <1>2, <1>3, <1>4, <1>5, <1>6, <1>7 DEF Call

\* Nothing in the class ever reaps a zombie whose number no object has: every
\* destructor of an object nobody waited for leaves one until the program ends.
THEOREM ZombiesStay == Spec => AbandonedStays
<1>1. ASSUME Inv, Next, NEW c \in Child, Abandoned(c) PROVE Abandoned(c)'
  BY <1>1, AbandonedElsewhere, AbandonedInCall DEF Next
<1>2. Inv /\ [Next]_vars => [\A c \in Child : Abandoned(c) => Abandoned(c)']_vars
  BY <1>1
<1> QED
  BY <1>2, Always, PTL DEF Spec, AbandonedStays

=============================================================================
