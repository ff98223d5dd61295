------------------------- MODULE FdOwnershipProofs -------------------------
(***************************************************************************)
(* Who closes a descriptor, for any number of objects, handles, numbers    *)
(* and files, and with a close() that may fail at any time.                *)
(***************************************************************************)
EXTENDS FdOwnership, TLAPS

\* The properties are inductive together: an object closes its own file
\* because no other holder could have closed it, which HoldsOwn needs of
\* OneHolder, and which OneHolder needs of HoldsOwn when a number is opened.
Inv == /\ TypeOK /\ HoldsOwn /\ OneHolder /\ NothingLost
       /\ ForeignCloseNeedsThrow /\ ErrorsComeFromClose

\* What closing the numbers of the objects in D does.
Closing(D) ==
    /\ table' \in [Number -> File \cup {NoFile}]
    /\ \A n \in Number : (\A o \in D : Fd[o] # n) => table'[n] = table[n]
    /\ \A n \in Number : n # 0 /\ (\E o \in D : Fd[o] = n) => table'[n] = NoFile
    /\ failed' \in BOOLEAN /\ foreign' \in BOOLEAN
    /\ failed => failed'
    /\ foreign' => thrown

LEMMA InitInv == Init => Inv
<1> SUFFICES ASSUME Init PROVE Inv
  OBVIOUS
<1> USE ConstantAssumption DEF Init, Object, NULL_FD
<1>1. TypeOK
  BY DEF TypeOK
<1>2. HoldsOwn /\ OneHolder
  BY DEF HoldsOwn, OneHolder, Holds
<1>3. NothingLost /\ ForeignCloseNeedsThrow /\ ErrorsComeFromClose
  BY DEF NothingLost, ForeignCloseNeedsThrow, ErrorsComeFromClose
<1> QED
  BY <1>1, <1>2, <1>3 DEF Inv

\* A Close that returns or throws closes the object's number and nothing
\* else; when it throws, close() has failed, now or earlier.
LEMMA CloseEffect ==
  ASSUME Inv, ~terminated, NEW o \in Object, CloseReturns(o) \/ CloseThrows(o)
  PROVE  /\ Closing({o})
         /\ CloseThrows(o) => failed'
<1>1. TypeOK /\ HoldsOwn /\ ForeignCloseNeedsThrow /\ ErrorsComeFromClose
  BY DEF Inv
<1>2. /\ table' = TableAfter(Fd[o])
      /\ foreign' = (foreign \/ IsForeign(o))
      /\ failed' = failed \/ failed' = (failed \/ ~IsBad(Fd[o]))
  BY DEF CloseReturns, CloseThrows
<1>3. Fd[o] \in Number \cup {NULL_FD} /\ table \in [Number -> File \cup {NoFile}]
  BY <1>1 DEF TypeOK
<1>4. IsForeign(o) => thrown
  <2> SUFFICES ASSUME ~thrown, Closes(Fd[o]) PROVE Behind(Fd[o]) = mine[o]
    BY DEF IsForeign
  <2>1. Fd[o] # NULL_FD /\ Fd[o] \in Number
    BY <1>3, ConstantAssumption DEF Closes, NULL_FD
  <2> QED
    BY <1>1, <2>1 DEF HoldsOwn, Broken, Behind
<1>5. CloseThrows(o) => failed'
  <2> SUFFICES ASSUME CloseThrows(o), ~thrown PROVE failed'
    BY <1>1 DEF CloseThrows, ErrorsComeFromClose
  <2>1. Fd[o] # NULL_FD /\ Fd[o] \in Number
    BY <1>3, ConstantAssumption DEF CloseThrows, Closes, NULL_FD
  <2>2. ~IsBad(Fd[o])
    BY <1>1, <2>1 DEF HoldsOwn, Broken, IsBad, Behind
  <2> QED
    BY <2>2 DEF CloseThrows
<1>6. /\ table' \in [Number -> File \cup {NoFile}]
      /\ \A n \in Number : Fd[o] # n => table'[n] = table[n]
      /\ \A n \in Number : n # 0 /\ Fd[o] = n => table'[n] = NoFile
  <2>1. CASE Closes(Fd[o])
    BY <1>2, <1>3, <2>1 DEF TableAfter
  <2>2. CASE ~Closes(Fd[o])
    BY <1>2, <1>3, <2>2, ConstantAssumption DEF TableAfter, Closes
  <2> QED
    BY <2>1, <2>2
<1> QED
  BY <1>1, <1>2, <1>4, <1>5, <1>6
  DEF TypeOK, Closing, ForeignCloseNeedsThrow, IsForeign, IsBad

\* A handle that leaves its cell closes the number of the cell it destroys.
LEMMA DropEffect ==
  ASSUME Inv, ~terminated, NEW s \in Shared, CloseDropped(s)
  PROVE  Closing(Drop(s)) /\ Drop(s) \subseteq Cell
<1>1. TypeOK /\ ForeignCloseNeedsThrow
  BY DEF Inv
<1>2. CASE LastHandle(s)
  <2>1. ptr[s] \in Cell /\ Drop(s) = {ptr[s]}
    BY <1>1, <1>2 DEF TypeOK, LastHandle, Drop
  <2> QED
    BY <1>2, <2>1, CloseEffect DEF CloseDropped, CloseQuietly, Object
<1>3. CASE ~LastHandle(s)
  BY <1>1, <1>3 DEF TypeOK, Closing, CloseDropped, NoClose, Drop, ForeignCloseNeedsThrow
<1> QED
  BY <1>2, <1>3

\* An object that closes nothing keeps its file.
LEMMA Survives ==
  ASSUME Inv, ~Broken, NEW D \in SUBSET Object, Closing(D),
         NEW w \in Object \ D, Fd[w] # NULL_FD
  PROVE  table'[Fd[w]] = mine[w] /\ table'[Fd[w]] = table[Fd[w]] /\ mine[w] # NoFile
<1>1. Fd[w] \in Number
  BY DEF Inv, TypeOK
<1>2. \A o \in D : Fd[o] # Fd[w]
  BY <1>1 DEF Inv, OneHolder, Holds
<1> QED
  BY <1>1, <1>2 DEF Inv, HoldsOwn, Closing

\* An object that a leaving handle does not destroy has another reason to be.
LEMMA StaysLive ==
  ASSUME TypeOK, NEW s \in Shared, NEW o \in Object, Live(o), o \notin Drop(s)
  PROVE  (o \in alive) \/ (\E r \in Shared : r # s /\ ptr[r] = o)
<1> SUFFICES ASSUME o \notin alive, ptr[s] = o
             PROVE  \E r \in Shared : r # s /\ ptr[r] = o
  BY DEF Live
<1>1. ptr[s] # NoCell
  BY ConstantAssumption DEF Object
<1>2. Handles(o) # {s}
  BY <1>1 DEF Drop, LastHandle
<1> QED
  BY <1>2 DEF Handles

LEMMA OpenInv ==
  ASSUME Inv, ~terminated, NEW u \in Unique, NEW f \in File, Open(u, f)
  PROVE  Inv'
<1>1. /\ TypeOK /\ HoldsOwn /\ OneHolder /\ NothingLost
      /\ ForeignCloseNeedsThrow /\ ErrorsComeFromClose
  BY DEF Inv
<1>2. PICK n \in Number : /\ table[n] = NoFile
                          /\ table' = [table EXCEPT ![n] = f]
                          /\ Fd' = [Fd EXCEPT ![u] = n]
  BY DEF Open, Lowest
<1>3. Fd[u] = NULL_FD /\ u \in Object
  BY <1>1, ConstantAssumption DEF TypeOK, Open, Live, Object
<1>4. TypeOK'
  <2>1. Fd' \in [Object -> Number \cup {NULL_FD}] /\ mine' \in [Object -> File \cup {NoFile}]
        /\ table' \in [Number -> File \cup {NoFile}]
    BY <1>1, <1>2, <1>3 DEF TypeOK, Open
  <2>2. \A o \in Object : ~Live(o)' => Fd'[o] = NULL_FD
    BY <1>1, <1>2, <1>3 DEF TypeOK, Open, Live
  <2> QED
    BY <1>1, <2>1, <2>2 DEF TypeOK, Open, faults
<1>5. HoldsOwn'
  BY <1>1, <1>2, <1>3, ConstantAssumption DEF HoldsOwn, TypeOK, Broken, Open, faults, NULL_FD
<1>6. OneHolder'
  BY <1>1, <1>2, <1>3, ConstantAssumption
  DEF HoldsOwn, OneHolder, Holds, TypeOK, Broken, Open, faults, NULL_FD
<1>7. NothingLost'
  BY <1>1, <1>2, <1>3, ConstantAssumption DEF NothingLost, Holds, TypeOK, Open, faults, NULL_FD
<1> QED
  BY <1>1, <1>4, <1>5, <1>6, <1>7 DEF Inv, Open, faults, ForeignCloseNeedsThrow, ErrorsComeFromClose

LEMMA MoveAssignInv ==
  ASSUME Inv, ~terminated, NEW u \in Unique, NEW v \in Unique, MoveAssign(u, v)
  PROVE  Inv'
<1>1. /\ TypeOK /\ HoldsOwn /\ OneHolder /\ NothingLost
      /\ ForeignCloseNeedsThrow /\ ErrorsComeFromClose
  BY DEF Inv
<1>2. Closing({u}) /\ u \in Object /\ v \in Object
  BY CloseEffect DEF MoveAssign, Object
<1>3. /\ u # v
      /\ Fd' = [Fd EXCEPT ![u] = Fd[v], ![v] = NULL_FD]
      /\ mine' = [mine EXCEPT ![u] = mine[v], ![v] = NoFile]
      /\ UNCHANGED <<alive, ptr, raw, opened, leaked, thrown, terminated>>
  BY DEF MoveAssign
<1>4. TypeOK'
  BY <1>1, <1>2, <1>3 DEF TypeOK, Closing, Live, MoveAssign
<1>5. HoldsOwn'
  <2> SUFFICES ASSUME ~Broken, NEW o \in Object, Fd'[o] # NULL_FD
               PROVE  mine'[o] # NoFile /\ table'[Fd'[o]] = mine'[o]
    BY <1>3 DEF HoldsOwn, Broken
  <2>1. PICK w \in Object \ {u} : Fd'[o] = Fd[w] /\ mine'[o] = mine[w]
    BY <1>1, <1>2, <1>3 DEF TypeOK
  <2> QED
    BY <1>2, <2>1, Survives
<1>6. OneHolder'
  BY <1>1, <1>2, <1>3, ConstantAssumption
  DEF OneHolder, Holds, TypeOK, Broken, Closing, NULL_FD, MoveAssign
<1>7. NothingLost'
  BY <1>1, <1>2, <1>3, ConstantAssumption DEF NothingLost, Holds, TypeOK, Closing, NULL_FD
<1> QED
  BY <1>1, <1>2, <1>3, <1>4, <1>5, <1>6, <1>7 DEF Inv, Closing, ForeignCloseNeedsThrow, ErrorsComeFromClose

LEMMA PipeInv ==
  ASSUME Inv, ~terminated, NEW u \in Unique, NEW v \in Unique,
         NEW f \in File, NEW g \in File, Pipe(u, v, f, g)
  PROVE  Inv'
<1>1. /\ TypeOK /\ HoldsOwn /\ OneHolder /\ NothingLost
      /\ ForeignCloseNeedsThrow /\ ErrorsComeFromClose
  BY DEF Inv
<1>2. PICK n \in Number, m \in Number :
        /\ table[n] = NoFile /\ [table EXCEPT ![n] = f][m] = NoFile
        /\ table' = [table EXCEPT ![n] = f, ![m] = g]
        /\ Fd' = [Fd EXCEPT ![u] = n, ![v] = m]
  BY DEF Pipe, Lowest
<1>3. n # m /\ table[m] = NoFile
  BY <1>1, <1>2, ConstantAssumption DEF TypeOK
<1>4. /\ u # v /\ u \in Object /\ v \in Object
      /\ Fd[u] = NULL_FD /\ Fd[v] = NULL_FD
  BY <1>1, ConstantAssumption DEF TypeOK, Pipe, Live, Object
<1>5. TypeOK'
  <2>1. Fd' \in [Object -> Number \cup {NULL_FD}] /\ mine' \in [Object -> File \cup {NoFile}]
        /\ table' \in [Number -> File \cup {NoFile}]
    BY <1>1, <1>2, <1>4 DEF TypeOK, Pipe
  <2>2. \A o \in Object : ~Live(o)' => Fd'[o] = NULL_FD
    BY <1>1, <1>2, <1>4 DEF TypeOK, Pipe, Live
  <2> QED
    BY <1>1, <2>1, <2>2 DEF TypeOK, Pipe, faults
<1>6. HoldsOwn'
  <2>1. \A k \in Number : table'[k] = IF k = m THEN g ELSE IF k = n THEN f ELSE table[k]
    BY <1>1, <1>2 DEF TypeOK
  <2>2. \A o \in Object : /\ Fd'[o] = IF o = v THEN m ELSE IF o = u THEN n ELSE Fd[o]
                         /\ mine'[o] = IF o = v THEN g ELSE IF o = u THEN f ELSE mine[o]
    BY <1>1, <1>2, <1>4 DEF TypeOK, Pipe
  <2> SUFFICES ASSUME ~Broken, NEW o \in Object, Fd'[o] # NULL_FD
               PROVE  mine'[o] # NoFile /\ table'[Fd'[o]] = mine'[o]
    BY DEF HoldsOwn, Broken, Pipe, faults
  <2>3. CASE o = u \/ o = v
    BY <1>3, <1>4, <2>1, <2>2, <2>3, ConstantAssumption
  <2>4. CASE o # u /\ o # v
    <3>1. Fd'[o] = Fd[o] /\ mine'[o] = mine[o] /\ Fd[o] \in Number
      BY <1>1, <2>2, <2>4 DEF TypeOK
    <3>2. table[Fd[o]] = mine[o] /\ mine[o] # NoFile
      BY <1>1, <3>1 DEF HoldsOwn
    <3> QED
      BY <1>2, <1>3, <2>1, <3>1, <3>2
  <2> QED
    BY <2>3, <2>4
<1>7. OneHolder'
  BY <1>1, <1>2, <1>3, <1>4, ConstantAssumption
  DEF HoldsOwn, OneHolder, Holds, TypeOK, Broken, Pipe, faults, NULL_FD
<1>8. NothingLost'
  BY <1>1, <1>2, <1>3, <1>4, ConstantAssumption
  DEF NothingLost, Holds, TypeOK, Pipe, faults, NULL_FD
<1> QED
  BY <1>1, <1>5, <1>6, <1>7, <1>8
  DEF Inv, Pipe, faults, ForeignCloseNeedsThrow, ErrorsComeFromClose

LEMMA AdoptInv ==
  ASSUME Inv, ~terminated, NEW u \in Unique, NEW n \in Number, Adopt(u, n)
  PROVE  Inv'
<1>1. /\ TypeOK /\ HoldsOwn /\ OneHolder /\ NothingLost
      /\ ForeignCloseNeedsThrow /\ ErrorsComeFromClose
  BY DEF Inv
<1>2. Fd[u] = NULL_FD /\ u \in Object
  BY <1>1, ConstantAssumption DEF TypeOK, Adopt, Live, Object
<1>3. TypeOK'
  <2>1. Fd' \in [Object -> Number \cup {NULL_FD}] /\ mine' \in [Object -> File \cup {NoFile}]
    BY <1>1, <1>2 DEF TypeOK, Adopt
  <2>2. \A o \in Object : ~Live(o)' => Fd'[o] = NULL_FD
    BY <1>1, <1>2 DEF TypeOK, Adopt, Live
  <2> QED
    BY <1>1, <2>1, <2>2 DEF TypeOK, Adopt, faults, kernel
<1>4. HoldsOwn'
  BY <1>1, <1>2, ConstantAssumption
  DEF HoldsOwn, OneHolder, TypeOK, Broken, Adopt, faults, kernel, NULL_FD
<1>5. OneHolder'
  BY <1>1, <1>2, ConstantAssumption
  DEF OneHolder, Holds, TypeOK, Broken, Adopt, faults, kernel, NULL_FD
<1>6. NothingLost'
  BY <1>1, <1>2, ConstantAssumption
  DEF NothingLost, Holds, TypeOK, Adopt, faults, kernel, NULL_FD
<1> QED
  BY <1>1, <1>3, <1>4, <1>5, <1>6
  DEF Inv, Adopt, faults, ForeignCloseNeedsThrow, ErrorsComeFromClose

LEMMA MoveConstructInv ==
  ASSUME Inv, ~terminated, NEW u \in Unique, NEW v \in Unique, MoveConstruct(u, v)
  PROVE  Inv'
<1>1. /\ TypeOK /\ HoldsOwn /\ OneHolder /\ NothingLost
      /\ ForeignCloseNeedsThrow /\ ErrorsComeFromClose
  BY DEF Inv
<1>2. /\ Fd[u] = NULL_FD /\ u # v
      /\ u \in Object /\ v \in Object
  BY <1>1, ConstantAssumption DEF TypeOK, MoveConstruct, Live, Object
<1>3. TypeOK'
  <2>1. Fd' \in [Object -> Number \cup {NULL_FD}] /\ mine' \in [Object -> File \cup {NoFile}]
    BY <1>1, <1>2 DEF TypeOK, MoveConstruct
  <2>2. \A o \in Object : ~Live(o)' => Fd'[o] = NULL_FD
    BY <1>1, <1>2 DEF TypeOK, MoveConstruct, Live
  <2> QED
    BY <1>1, <2>1, <2>2 DEF TypeOK, MoveConstruct, faults, kernel
<1>4. HoldsOwn'
  BY <1>1, <1>2, ConstantAssumption
  DEF HoldsOwn, TypeOK, Broken, MoveConstruct, faults, kernel, NULL_FD
<1>5. OneHolder'
  BY <1>1, <1>2, ConstantAssumption
  DEF OneHolder, Holds, TypeOK, Broken, MoveConstruct, faults, kernel, NULL_FD
<1>6. NothingLost'
  BY <1>1, <1>2, ConstantAssumption
  DEF NothingLost, Holds, TypeOK, MoveConstruct, faults, kernel, NULL_FD
<1> QED
  BY <1>1, <1>3, <1>4, <1>5, <1>6
  DEF Inv, MoveConstruct, faults, ForeignCloseNeedsThrow, ErrorsComeFromClose

LEMMA ReleaseInv ==
  ASSUME Inv, ~terminated, NEW u \in Unique, Release(u)
  PROVE  Inv'
<1>1. /\ TypeOK /\ HoldsOwn /\ OneHolder /\ NothingLost
      /\ ForeignCloseNeedsThrow /\ ErrorsComeFromClose
  BY DEF Inv
<1>2. u \in Object /\ Fd[u] \in Number
  BY <1>1 DEF TypeOK, Release, Object
<1>3. TypeOK'
  BY <1>1, <1>2 DEF TypeOK, Release, faults, kernel, Live
<1>4. HoldsOwn'
  BY <1>1, <1>2 DEF HoldsOwn, TypeOK, Broken, Release, faults, kernel
<1>5. OneHolder'
  BY <1>1, <1>2, ConstantAssumption
  DEF HoldsOwn, OneHolder, Holds, TypeOK, Broken, Release, faults, kernel, NULL_FD
<1>6. NothingLost'
  BY <1>1, <1>2 DEF NothingLost, Holds, TypeOK, Release, kernel
<1> QED
  BY <1>1, <1>3, <1>4, <1>5, <1>6
  DEF Inv, Release, faults, ForeignCloseNeedsThrow, ErrorsComeFromClose

LEMMA ResetInv ==
  ASSUME Inv, ~terminated, NEW u \in Unique, NEW n \in Number \cup {NULL_FD},
         Reset(u, n)
  PROVE  Inv'
<1>1. /\ TypeOK /\ HoldsOwn /\ OneHolder /\ NothingLost
      /\ ForeignCloseNeedsThrow /\ ErrorsComeFromClose
  BY DEF Inv
<1>2. Closing({u}) /\ u \in Object
  BY CloseEffect DEF Reset, Object
<1>3. /\ u \in alive /\ n \in raw \cup {NULL_FD}
      /\ Fd' = [Fd EXCEPT ![u] = n]
      /\ mine' = [mine EXCEPT ![u] = Behind(n)]
      /\ raw' = raw \ {n}
      /\ UNCHANGED <<alive, ptr, opened, leaked, thrown, terminated>>
  BY DEF Reset
<1>4. Behind(n) \in File \cup {NoFile} /\ NULL_FD \notin Number
  BY <1>1, ConstantAssumption DEF TypeOK, Behind, NULL_FD
<1>5. TypeOK'
  BY <1>1, <1>2, <1>3, <1>4 DEF TypeOK, Closing, Live
<1>6. HoldsOwn'
  <2> SUFFICES ASSUME ~Broken, NEW o \in Object, Fd'[o] # NULL_FD
               PROVE  mine'[o] # NoFile /\ table'[Fd'[o]] = mine'[o]
    BY <1>3 DEF HoldsOwn, Broken
  <2>1. CASE o = u
    <3>1. Fd'[o] = n /\ n \in Number /\ n \in raw /\ mine'[o] = table[n]
      BY <1>1, <1>3, <1>4, <2>1 DEF TypeOK, Behind
    <3> QED
      BY <1>1, <1>2, <3>1 DEF OneHolder, Holds, Closing
  <2>2. CASE o # u
    <3>1. Fd'[o] = Fd[o] /\ mine'[o] = mine[o]
      BY <1>1, <1>3, <2>2 DEF TypeOK
    <3> QED
      BY <1>2, <2>2, <3>1, Survives
  <2> QED
    BY <2>1, <2>2
<1>7. OneHolder'
  BY <1>1, <1>2, <1>3, <1>4 DEF OneHolder, Holds, TypeOK, Broken, Closing
<1>8. NothingLost'
  BY <1>1, <1>2, <1>3, <1>4 DEF NothingLost, Holds, TypeOK, Closing
<1> QED
  BY <1>1, <1>2, <1>3, <1>5, <1>6, <1>7, <1>8
  DEF Inv, Closing, ForeignCloseNeedsThrow, ErrorsComeFromClose

\* The two steps of an error: the objects stay as they are, and the number is
\* free.
LEMMA FailureInv ==
  ASSUME Inv, ~terminated, NEW u \in Unique,
         CloseThrows(u), UNCHANGED <<objects, opened, leaked>>,
         Broken', thrown' \in BOOLEAN, terminated' \in BOOLEAN, thrown => thrown'
  PROVE  Inv'
<1>1. /\ TypeOK /\ HoldsOwn /\ OneHolder /\ NothingLost
      /\ ForeignCloseNeedsThrow /\ ErrorsComeFromClose
  BY DEF Inv
<1>2. Closing({u}) /\ failed'
  BY CloseEffect DEF Object
<1>3. TypeOK'
  BY <1>1, <1>2 DEF TypeOK, Closing, Live, objects
<1>4. HoldsOwn' /\ OneHolder'
  BY DEF HoldsOwn, OneHolder
<1>5. NothingLost'
  BY <1>1, <1>2 DEF NothingLost, Holds, Closing, objects
<1> QED
  BY <1>1, <1>2, <1>3, <1>4, <1>5
  DEF Inv, Closing, ForeignCloseNeedsThrow, ErrorsComeFromClose, objects

LEMMA DestroyInv ==
  ASSUME Inv, ~terminated, NEW u \in Unique, Destroy(u)
  PROVE  Inv'
<1>1. /\ TypeOK /\ HoldsOwn /\ OneHolder /\ NothingLost
      /\ ForeignCloseNeedsThrow /\ ErrorsComeFromClose
  BY DEF Inv
<1>2. Closing({u}) /\ u \in Object
  BY CloseEffect DEF Destroy, CloseQuietly, Object
<1>3. TypeOK'
  BY <1>1, <1>2 DEF TypeOK, Closing, Live, Destroy
<1>4. HoldsOwn'
  <2> SUFFICES ASSUME ~Broken, NEW o \in Object, Fd'[o] # NULL_FD
               PROVE  mine'[o] # NoFile /\ table'[Fd'[o]] = mine'[o]
    BY DEF HoldsOwn, Broken, Destroy
  <2>1. o # u /\ Fd'[o] = Fd[o] /\ mine'[o] = mine[o]
    BY <1>1 DEF TypeOK, Destroy
  <2> QED
    BY <1>2, <2>1, Survives
<1>5. OneHolder'
  BY <1>1, <1>2, ConstantAssumption
  DEF OneHolder, Holds, TypeOK, Broken, Closing, Destroy, NULL_FD
<1>6. NothingLost'
  BY <1>1, <1>2 DEF NothingLost, Holds, TypeOK, Closing, Destroy
<1> QED
  BY <1>1, <1>2, <1>3, <1>4, <1>5, <1>6
  DEF Inv, Closing, Destroy, ForeignCloseNeedsThrow, ErrorsComeFromClose

LEMMA ShareNumberInv ==
  ASSUME Inv, ~terminated, NEW s \in Shared, NEW c \in Cell,
         NEW n \in Number \cup {NULL_FD}, ShareNumber(s, c, n)
  PROVE  Inv'
<1>1. /\ TypeOK /\ HoldsOwn /\ OneHolder /\ NothingLost
      /\ ForeignCloseNeedsThrow /\ ErrorsComeFromClose
  BY DEF Inv
<1>2. Closing(Drop(s)) /\ Drop(s) \in SUBSET Object
  BY DropEffect DEF ShareNumber, Object
<1>3. Fd[c] = NULL_FD /\ c \in Object /\ c \notin Drop(s)
  BY <1>1, ConstantAssumption
  DEF TypeOK, ShareNumber, Dead, Handles, Live, Object, Drop, LastHandle
<1>4. /\ \A o \in Object : Fd'[o] = IF o = c THEN n
                                   ELSE IF o \in Drop(s) THEN NULL_FD ELSE Fd[o]
      /\ \A o \in Object : mine'[o] = IF o = c THEN Behind(n)
                                     ELSE IF o \in Drop(s) THEN NoFile ELSE mine[o]
      /\ DOMAIN Fd' = Object /\ DOMAIN mine' = Object
      /\ Fd' = [o \in Object |-> Fd'[o]] /\ mine' = [o \in Object |-> mine'[o]]
  BY <1>3 DEF ShareNumber, Without
<1>5. /\ n \in Number => n \in raw
      /\ raw' = raw \ {n} /\ ptr' = [ptr EXCEPT ![s] = c]
      /\ UNCHANGED <<alive, opened, leaked, thrown, terminated>>
      /\ Behind(n) \in File \cup {NoFile} /\ NULL_FD \notin Number
  BY <1>1, ConstantAssumption DEF ShareNumber, TypeOK, Behind, NULL_FD
<1>6. TypeOK'
  <2>1. Fd' \in [Object -> Number \cup {NULL_FD}] /\ mine' \in [Object -> File \cup {NoFile}]
    BY <1>1, <1>4, <1>5 DEF TypeOK
  <2>2. \A o \in Object : ~Live(o)' => Fd'[o] = NULL_FD
    <3> SUFFICES ASSUME NEW o \in Object, o # c, o \notin Drop(s), ~Live(o)'
                 PROVE  ~Live(o)
      BY <1>1, <1>3, <1>4, <1>5 DEF TypeOK, Live
    <3> QED
      BY <1>1, <1>5, StaysLive DEF TypeOK, Live
  <2> QED
    BY <1>1, <1>2, <1>5, <2>1, <2>2 DEF TypeOK, Closing
<1>7. HoldsOwn'
  <2> SUFFICES ASSUME ~Broken, NEW o \in Object, Fd'[o] # NULL_FD
               PROVE  mine'[o] # NoFile /\ table'[Fd'[o]] = mine'[o]
    BY <1>5 DEF HoldsOwn, Broken
  <2>1. CASE o = c
    <3>1. Fd'[o] = n /\ n \in Number /\ n \in raw /\ mine'[o] = table[n]
      BY <1>4, <1>5, <2>1 DEF Behind
    <3> QED
      BY <1>1, <1>2, <1>5, <3>1 DEF OneHolder, Holds, Closing
  <2>2. CASE o # c
    BY <1>2, <1>4, <2>2, Survives
  <2> QED
    BY <2>1, <2>2
<1>8. OneHolder'
  BY <1>1, <1>2, <1>3, <1>4, <1>5 DEF OneHolder, Holds, TypeOK, Broken, Closing
<1>9. NothingLost'
  BY <1>1, <1>2, <1>3, <1>4, <1>5 DEF NothingLost, Holds, TypeOK, Closing
<1> QED
  BY <1>1, <1>2, <1>5, <1>6, <1>7, <1>8, <1>9
  DEF Inv, Closing, ForeignCloseNeedsThrow, ErrorsComeFromClose

LEMMA ShareUniqueInv ==
  ASSUME Inv, ~terminated, NEW s \in Shared, NEW c \in Cell, NEW u \in Unique,
         ShareUnique(s, c, u)
  PROVE  Inv'
<1>1. /\ TypeOK /\ HoldsOwn /\ OneHolder /\ NothingLost
      /\ ForeignCloseNeedsThrow /\ ErrorsComeFromClose
  BY DEF Inv
<1>2. Closing(Drop(s)) /\ Drop(s) \in SUBSET Cell
  BY DropEffect DEF ShareUnique
<1>3. /\ Fd[c] = NULL_FD /\ c \notin Drop(s) /\ c # u
      /\ u \notin Drop(s) /\ c \in Object /\ u \in Object
  BY <1>1, <1>2, ConstantAssumption
  DEF TypeOK, ShareUnique, Dead, Handles, Live, Object, Drop, LastHandle
<1>4. /\ \A o \in Object : Fd'[o] = IF o = c THEN Fd[u]
                              ELSE IF o = u \/ o \in Drop(s) THEN NULL_FD ELSE Fd[o]
      /\ \A o \in Object : mine'[o] = IF o = c THEN mine[u]
                              ELSE IF o = u \/ o \in Drop(s) THEN NoFile ELSE mine[o]
      /\ Fd' = [o \in Object |-> Fd'[o]] /\ mine' = [o \in Object |-> mine'[o]]
  <2>1. /\ Fd' = [Without(Fd, s, NULL_FD) EXCEPT ![c] = Fd[u], ![u] = NULL_FD]
        /\ mine' = [Without(mine, s, NoFile) EXCEPT ![c] = mine[u], ![u] = NoFile]
    BY DEF ShareUnique
  <2>2. /\ Fd' = [o \in Object |-> IF o = u THEN NULL_FD ELSE IF o = c THEN Fd[u]
                                  ELSE IF o \in Drop(s) THEN NULL_FD ELSE Fd[o]]
        /\ mine' = [o \in Object |-> IF o = u THEN NoFile ELSE IF o = c THEN mine[u]
                                  ELSE IF o \in Drop(s) THEN NoFile ELSE mine[o]]
    BY <1>3, <2>1 DEF Without
  <2> QED
    BY <1>3, <2>2
<1>5. /\ ptr' = [ptr EXCEPT ![s] = c]
      /\ UNCHANGED <<alive, raw, opened, leaked, thrown, terminated>>
      /\ NULL_FD \notin Number
  BY ConstantAssumption DEF ShareUnique, NULL_FD
<1>6. TypeOK'
  <2>1. Fd' \in [Object -> Number \cup {NULL_FD}] /\ mine' \in [Object -> File \cup {NoFile}]
    BY <1>1, <1>3, <1>4 DEF TypeOK
  <2>2. \A o \in Object : ~Live(o)' => Fd'[o] = NULL_FD
    <3> SUFFICES ASSUME NEW o \in Object, o # c, o \notin Drop(s), ~Live(o)'
                 PROVE  ~Live(o)
      <4>1. Live(c)'
        BY <1>1, <1>5 DEF TypeOK, Live
      <4> QED
        BY <1>1, <1>4, <4>1 DEF TypeOK
    <3> QED
      BY <1>1, <1>5, StaysLive DEF TypeOK, Live
  <2> QED
    BY <1>1, <1>2, <1>5, <2>1, <2>2 DEF TypeOK, Closing
<1>7. HoldsOwn'
  <2> SUFFICES ASSUME ~Broken, NEW o \in Object, Fd'[o] # NULL_FD
               PROVE  mine'[o] # NoFile /\ table'[Fd'[o]] = mine'[o]
    BY <1>5 DEF HoldsOwn, Broken
  <2>1. PICK w \in Object \ Drop(s) : Fd'[o] = Fd[w] /\ mine'[o] = mine[w]
    BY <1>3, <1>4
  <2> QED
    BY <1>2, <2>1, Survives DEF Object
<1>8. OneHolder'
  BY <1>1, <1>2, <1>3, <1>4, <1>5 DEF OneHolder, Holds, TypeOK, Broken, Closing, Object
<1>9. NothingLost'
  BY <1>1, <1>2, <1>3, <1>4, <1>5 DEF NothingLost, Holds, TypeOK, Closing, Object
<1> QED
  BY <1>1, <1>2, <1>5, <1>6, <1>7, <1>8, <1>9
  DEF Inv, Closing, ForeignCloseNeedsThrow, ErrorsComeFromClose

\* A handle that takes another's cell, or none: only a destroyed cell changes.
LEMMA HandleInv ==
  ASSUME Inv, ~terminated, NEW s \in Shared, CloseDropped(s),
         ptr' \in [Shared -> Cell \cup {NoCell}],
         \A o \in Object : Live(o) => Live(o)' \/ o \in Drop(s),
         Fd' = Without(Fd, s, NULL_FD), mine' = Without(mine, s, NoFile),
         UNCHANGED <<alive, raw, opened, leaked, thrown, terminated>>
  PROVE  Inv'
<1>1. /\ TypeOK /\ HoldsOwn /\ OneHolder /\ NothingLost
      /\ ForeignCloseNeedsThrow /\ ErrorsComeFromClose
  BY DEF Inv
<1>2. Closing(Drop(s)) /\ Drop(s) \in SUBSET Object
  BY DropEffect DEF Object
<1>3. /\ \A o \in Object : Fd'[o] = IF o \in Drop(s) THEN NULL_FD ELSE Fd[o]
      /\ \A o \in Object : mine'[o] = IF o \in Drop(s) THEN NoFile ELSE mine[o]
      /\ NULL_FD \notin Number
  BY ConstantAssumption DEF Without, NULL_FD
<1>4. TypeOK'
  <2>1. Fd' \in [Object -> Number \cup {NULL_FD}] /\ mine' \in [Object -> File \cup {NoFile}]
    BY <1>1 DEF TypeOK, Without
  <2>2. \A o \in Object : ~Live(o)' => Fd'[o] = NULL_FD
    BY <1>1, <1>3 DEF TypeOK
  <2> QED
    BY <1>1, <1>2, <2>1, <2>2 DEF TypeOK, Closing
<1>5. HoldsOwn'
  <2> SUFFICES ASSUME ~Broken, NEW o \in Object, Fd'[o] # NULL_FD
               PROVE  mine'[o] # NoFile /\ table'[Fd'[o]] = mine'[o]
    BY DEF HoldsOwn, Broken
  <2> QED
    BY <1>2, <1>3, Survives
<1>6. OneHolder'
  BY <1>1, <1>2, <1>3 DEF OneHolder, Holds, TypeOK, Broken, Closing
<1>7. NothingLost'
  BY <1>1, <1>2, <1>3 DEF NothingLost, Holds, TypeOK, Closing
<1> QED
  BY <1>1, <1>2, <1>4, <1>5, <1>6, <1>7
  DEF Inv, Closing, ForeignCloseNeedsThrow, ErrorsComeFromClose

LEMMA CopyInv ==
  ASSUME Inv, ~terminated, NEW s \in Shared, NEW t \in Shared, Copy(s, t)
  PROVE  Inv'
<1>1. TypeOK
  BY DEF Inv
<1>2. ptr' \in [Shared -> Cell \cup {NoCell}]
  BY <1>1 DEF Copy, TypeOK
<1>3. \A o \in Object : Live(o) => Live(o)' \/ o \in Drop(s)
  BY <1>1, StaysLive DEF Copy, TypeOK, Live
<1> QED
  BY <1>2, <1>3, HandleInv DEF Copy

LEMMA MoveInv ==
  ASSUME Inv, ~terminated, NEW s \in Shared, NEW t \in Shared, Move(s, t)
  PROVE  Inv'
<1>1. TypeOK
  BY DEF Inv
<1>2. ptr' \in [Shared -> Cell \cup {NoCell}]
  BY <1>1 DEF Move, TypeOK
<1>3. \A o \in Object : Live(o) => Live(o)' \/ o \in Drop(s)
  BY <1>1, StaysLive DEF Move, TypeOK, Live
<1> QED
  BY <1>2, <1>3, HandleInv DEF Move

LEMMA ForgetInv ==
  ASSUME Inv, ~terminated, NEW s \in Shared, Forget(s)
  PROVE  Inv'
<1>1. TypeOK
  BY DEF Inv
<1>2. ptr' \in [Shared -> Cell \cup {NoCell}]
  BY <1>1 DEF Forget, TypeOK
<1>3. \A o \in Object : Live(o) => Live(o)' \/ o \in Drop(s)
  BY <1>1, StaysLive DEF Forget, TypeOK, Live
<1> QED
  BY <1>2, <1>3, HandleInv DEF Forget

LEMMA PtMasterSlaveInv ==
  ASSUME Inv, ~terminated, NEW s \in Shared, NEW t \in Shared,
         NEW c \in Cell, NEW d \in Cell, NEW f \in File, NEW g \in File,
         PtMasterSlave(s, t, c, d, f, g)
  PROVE  Inv'
<1>1. /\ TypeOK /\ HoldsOwn /\ OneHolder /\ NothingLost
      /\ ForeignCloseNeedsThrow /\ ErrorsComeFromClose
  BY DEF Inv
<1>2. PICK n \in Number, m \in Number :
        /\ table[n] = NoFile /\ [table EXCEPT ![n] = f][m] = NoFile
        /\ table' = [table EXCEPT ![n] = f, ![m] = g]
        /\ Fd' = [Fd EXCEPT ![c] = n, ![d] = m]
  BY DEF PtMasterSlave, Lowest
<1>3. n # m /\ table[m] = NoFile
  BY <1>1, <1>2, ConstantAssumption DEF TypeOK
<1>4. /\ c # d /\ c \in Object /\ d \in Object
      /\ Fd[c] = NULL_FD /\ Fd[d] = NULL_FD
  BY <1>1, ConstantAssumption DEF TypeOK, PtMasterSlave, Dead, Handles, Live, Object
<1>5. TypeOK'
  <2>1. Fd' \in [Object -> Number \cup {NULL_FD}] /\ mine' \in [Object -> File \cup {NoFile}]
        /\ table' \in [Number -> File \cup {NoFile}]
        /\ ptr' \in [Shared -> Cell \cup {NoCell}]
    BY <1>1, <1>2, <1>4 DEF TypeOK, PtMasterSlave
  <2>2. \A o \in Object : ~Live(o)' => Fd'[o] = NULL_FD
    <3> SUFFICES ASSUME NEW o \in Object, o # c, o # d, ~Live(o)' PROVE ~Live(o)
      BY <1>1, <1>2, <1>4 DEF TypeOK, PtMasterSlave, Live
    <3> QED
      BY <1>1, ConstantAssumption DEF TypeOK, PtMasterSlave, Live, Object
  <2> QED
    BY <1>1, <2>1, <2>2 DEF TypeOK, PtMasterSlave, faults
<1>6. HoldsOwn'
  <2>1. \A k \in Number : table'[k] = IF k = m THEN g ELSE IF k = n THEN f ELSE table[k]
    BY <1>1, <1>2 DEF TypeOK
  <2>2. \A o \in Object : /\ Fd'[o] = IF o = d THEN m ELSE IF o = c THEN n ELSE Fd[o]
                         /\ mine'[o] = IF o = d THEN g ELSE IF o = c THEN f ELSE mine[o]
    BY <1>1, <1>2, <1>4 DEF TypeOK, PtMasterSlave
  <2> SUFFICES ASSUME ~Broken, NEW o \in Object, Fd'[o] # NULL_FD
               PROVE  mine'[o] # NoFile /\ table'[Fd'[o]] = mine'[o]
    BY DEF HoldsOwn, Broken, PtMasterSlave, faults
  <2>3. CASE o = c \/ o = d
    BY <1>3, <1>4, <2>1, <2>2, <2>3, ConstantAssumption
  <2>4. CASE o # c /\ o # d
    <3>1. Fd'[o] = Fd[o] /\ mine'[o] = mine[o] /\ Fd[o] \in Number
      BY <1>1, <2>2, <2>4 DEF TypeOK
    <3>2. table[Fd[o]] = mine[o] /\ mine[o] # NoFile
      BY <1>1, <3>1 DEF HoldsOwn
    <3> QED
      BY <1>2, <1>3, <2>1, <3>1, <3>2
  <2> QED
    BY <2>3, <2>4
<1>7. OneHolder'
  BY <1>1, <1>2, <1>3, <1>4, ConstantAssumption
  DEF HoldsOwn, OneHolder, Holds, TypeOK, Broken, PtMasterSlave, faults, NULL_FD
<1>8. NothingLost'
  BY <1>1, <1>2, <1>3, <1>4, ConstantAssumption
  DEF NothingLost, Holds, TypeOK, PtMasterSlave, faults, NULL_FD
<1> QED
  BY <1>1, <1>5, <1>6, <1>7, <1>8
  DEF Inv, PtMasterSlave, faults, ForeignCloseNeedsThrow, ErrorsComeFromClose

LEMMA PtMasterSlaveThrowsInv ==
  ASSUME Inv, ~terminated, NEW f \in File, PtMasterSlaveThrows(f)
  PROVE  Inv'
<1>1. /\ TypeOK /\ HoldsOwn /\ OneHolder /\ NothingLost
      /\ ForeignCloseNeedsThrow /\ ErrorsComeFromClose
  BY DEF Inv
<1>2. PICK n \in Number : table[n] = NoFile /\ table' = [table EXCEPT ![n] = f]
  BY DEF PtMasterSlaveThrows, Lowest
<1>3. TypeOK'
  BY <1>1, <1>2 DEF TypeOK, PtMasterSlaveThrows, objects, faults, Live
<1>4. HoldsOwn' /\ OneHolder'
  BY <1>1, <1>2, ConstantAssumption
  DEF HoldsOwn, OneHolder, Holds, TypeOK, Broken, PtMasterSlaveThrows, objects, faults
<1>5. NothingLost'
  BY <1>1, <1>2 DEF NothingLost, Holds, TypeOK, PtMasterSlaveThrows, objects
<1> QED
  BY <1>1, <1>3, <1>4, <1>5
  DEF Inv, PtMasterSlaveThrows, faults, ForeignCloseNeedsThrow, ErrorsComeFromClose

\* Inv is preserved by every step.
LEMMA NextInv ==
  ASSUME Inv, [Next]_vars
  PROVE  Inv'
<1>1. CASE UNCHANGED vars
  BY <1>1
  DEF vars, Inv, TypeOK, Live, HoldsOwn, OneHolder, NothingLost, Broken, Holds,
      ForeignCloseNeedsThrow, ErrorsComeFromClose
<1>2. CASE ~terminated /\ UniqueStep
  <2>1. CASE \E u \in Unique : Empty(u)
    BY <2>1
    DEF Empty, kernel, faults, Inv, TypeOK, Live, HoldsOwn, OneHolder, NothingLost,
        Broken, Holds, ForeignCloseNeedsThrow, ErrorsComeFromClose
  <2>2. CASE \E u \in Unique, f \in File : Open(u, f)
    BY <1>2, <2>2, OpenInv
  <2>3. CASE \E u, v \in Unique, f, g \in File : Pipe(u, v, f, g)
    BY <1>2, <2>3, PipeInv
  <2>4. CASE \E u \in Unique, n \in Number : Adopt(u, n)
    BY <1>2, <2>4, AdoptInv
  <2>5. CASE \E u, v \in Unique : MoveConstruct(u, v)
    BY <1>2, <2>5, MoveConstructInv
  <2>6. CASE \E u, v \in Unique : MoveAssign(u, v)
    BY <1>2, <2>6, MoveAssignInv
  <2>7. CASE \E u, v \in Unique : MoveAssignTerminates(u, v)
    BY <1>2, <2>7, FailureInv DEF MoveAssignTerminates, Broken, Inv, TypeOK
  <2>8. CASE \E u \in Unique : Release(u)
    BY <1>2, <2>8, ReleaseInv
  <2>9. CASE \E u \in Unique, n \in Number \cup {NULL_FD} : Reset(u, n)
    BY <1>2, <2>9, ResetInv
  <2>10. CASE \E u \in Unique : ResetThrows(u)
    BY <1>2, <2>10, FailureInv DEF ResetThrows, Broken, Inv, TypeOK
  <2>11. CASE \E u \in Unique : Destroy(u)
    BY <1>2, <2>11, DestroyInv
  <2> QED
    BY <1>2, <2>1, <2>2, <2>3, <2>4, <2>5, <2>6, <2>7, <2>8, <2>9, <2>10, <2>11
    DEF UniqueStep
<1>3. CASE ~terminated /\ SharedStep
  BY <1>3, ShareNumberInv, ShareUniqueInv, CopyInv, MoveInv, ForgetInv,
     PtMasterSlaveInv, PtMasterSlaveThrowsInv DEF SharedStep
<1> QED
  BY <1>1, <1>2, <1>3 DEF Next

LEMMA Always == Spec => []Inv
  BY InitInv, NextInv, PTL DEF Spec

\* Every variable keeps its type, and what does not exist has no number.
THEOREM TypeCorrect == Spec => []TypeOK
<1>1. Inv => TypeOK
  BY DEF Inv
<1> QED
  BY <1>1, Always, PTL

\* Until a Reset throws, every object's number stands for its own file, and no
\* number has two owners that would both close it.
THEOREM ClosedOnceByItsOwner == Spec => []OwnedOnce
<1>1. Inv => OwnedOnce
  BY DEF Inv, OwnedOnce
<1> QED
  BY <1>1, Always, PTL

\* Whatever fails, an open number other than 0 has an owner or was lost by
\* PtMasterSlave.
THEOREM NoLeakButTheMaster == Spec => []NothingLost
<1>1. Inv => NothingLost
  BY DEF Inv
<1> QED
  BY <1>1, Always, PTL

\* Another owner's file is closed only after a Reset that threw, and nothing
\* throws before close() has failed.
THEOREM FailuresExplained == Spec => []FailureExplained
<1>1. Inv => FailureExplained
  BY DEF Inv, FailureExplained
<1> QED
  BY <1>1, Always, PTL

\* A step that closes the objects of D leaves a cell outside D alone.
LEMMA OutsideStaysOpen ==
  ASSUME Inv, ~Broken, NEW D \in SUBSET Object, Closing(D),
         NEW c \in Cell \ D, Fd[c] # NULL_FD, Fd'[c] = Fd[c]
  PROVE  table'[Fd[c]] = table[Fd[c]] /\ Fd'[c] = Fd[c]
  BY Survives DEF Object

\* A new number is none of a cell's.
LEMMA OthersStayOpen ==
  ASSUME Inv, ~Broken, NEW n \in Number, NEW m \in Number, NEW f, NEW g,
         table[n] = NoFile, table[m] = NoFile,
         table' = [table EXCEPT ![n] = f] \/ table' = [table EXCEPT ![n] = f, ![m] = g],
         NEW c \in Cell, Fd[c] # NULL_FD
  PROVE  table'[Fd[c]] = table[Fd[c]]
<1>1. Fd[c] \in Number /\ Fd[c] # n /\ Fd[c] # m
  BY DEF Inv, TypeOK, HoldsOwn, Object
<1> QED
  BY <1>1 DEF Inv, TypeOK

\* The descriptor of a cell that keeps a handle stays open.
LEMMA SharedStep1 ==
  ASSUME Inv, Next, ~Broken', NEW s \in Shared, NEW c \in Cell,
         ptr[s] = c, ptr'[s] = c, Fd[c] # NULL_FD
  PROVE  table'[Fd[c]] = table[Fd[c]] /\ Fd'[c] = Fd[c]
<1>1. TypeOK /\ ~terminated /\ c \in Object /\ c \notin Unique
  BY ConstantAssumption DEF Inv, Next, Object
<1>2. ~Dead(c)
  BY DEF Dead, Handles
<1>3. CASE UniqueStep
  <2>1. CASE \E u \in Unique : Empty(u) \/ Release(u)
    BY <1>1, <2>1 DEF Empty, Release, kernel, TypeOK
  <2>2. CASE \E u \in Unique, n \in Number : Adopt(u, n)
    BY <1>1, <2>2 DEF Adopt, kernel, TypeOK
  <2>3. CASE \E u, v \in Unique : MoveConstruct(u, v)
    BY <1>1, <2>3 DEF MoveConstruct, kernel, TypeOK
  <2>4. CASE \E u \in Unique, f \in File : Open(u, f)
    <3>1. ~Broken /\ Fd'[c] = Fd[c]
      BY <1>1, <2>4 DEF Open, Broken, faults, TypeOK
    <3> QED
      BY <2>4, <3>1, OthersStayOpen DEF Open, Lowest
  <2>5. CASE \E u, v \in Unique, f, g \in File : Pipe(u, v, f, g)
    <3> PICK u \in Unique, v \in Unique, f \in File, g \in File : Pipe(u, v, f, g)
      BY <2>5
    <3>1. ~Broken /\ Fd'[c] = Fd[c]
      BY <1>1 DEF Pipe, Broken, faults, TypeOK
    <3>2. PICK n \in Number, m \in Number :
             /\ table[n] = NoFile /\ [table EXCEPT ![n] = f][m] = NoFile
             /\ table' = [table EXCEPT ![n] = f, ![m] = g]
      BY DEF Pipe, Lowest
    <3>3. table[m] = NoFile
      BY <1>1, <3>2, ConstantAssumption DEF TypeOK
    <3> QED
      BY <3>1, <3>2, <3>3, OthersStayOpen
  <2>6. CASE \E u, v \in Unique : MoveAssign(u, v)
    <3> PICK u \in Unique, v \in Unique : MoveAssign(u, v)
      BY <2>6
    <3>1. ~Broken /\ Closing({u}) /\ Fd'[c] = Fd[c]
      BY <1>1, CloseEffect DEF MoveAssign, Broken, TypeOK, Object
    <3> QED
      BY <1>1, <3>1, OutsideStaysOpen DEF Object
  <2>7. CASE \E u, v \in Unique : MoveAssignTerminates(u, v)
    BY <2>7 DEF MoveAssignTerminates, Broken
  <2>8. CASE \E u \in Unique : ResetThrows(u)
    BY <2>8 DEF ResetThrows, Broken
  <2>9. CASE \E u \in Unique, n \in Number \cup {NULL_FD} : Reset(u, n)
    <3> PICK u \in Unique, n \in Number \cup {NULL_FD} : Reset(u, n)
      BY <2>9
    <3>1. ~Broken /\ Closing({u}) /\ Fd'[c] = Fd[c]
      BY <1>1, CloseEffect DEF Reset, Broken, TypeOK, Object
    <3> QED
      BY <1>1, <3>1, OutsideStaysOpen DEF Object
  <2>10. CASE \E u \in Unique : Destroy(u)
    <3> PICK u \in Unique : Destroy(u)
      BY <2>10
    <3>1. ~Broken /\ Closing({u}) /\ Fd'[c] = Fd[c]
      BY <1>1, CloseEffect DEF Destroy, CloseQuietly, Broken, TypeOK, Object
    <3> QED
      BY <1>1, <3>1, OutsideStaysOpen DEF Object
  <2> QED
    BY <1>3, <2>1, <2>2, <2>3, <2>4, <2>5, <2>6, <2>7, <2>8, <2>9, <2>10 DEF UniqueStep
<1>4. ASSUME NEW r \in Shared, CloseDropped(r), ~Broken, c \notin Drop(r), Fd'[c] = Fd[c]
      PROVE  table'[Fd[c]] = table[Fd[c]] /\ Fd'[c] = Fd[c]
  BY <1>1, <1>4, DropEffect, OutsideStaysOpen DEF Object
<1>5. CASE SharedStep
  <2>1. ASSUME NEW r \in Shared, NEW d \in Cell, NEW n \in Number \cup {NULL_FD},
               ShareNumber(r, d, n)
        PROVE  table'[Fd[c]] = table[Fd[c]] /\ Fd'[c] = Fd[c]
    <3>1. c # d /\ ~Broken /\ CloseDropped(r)
      BY <1>2, <2>1 DEF ShareNumber, Broken
    <3>2. c \notin Drop(r)
      BY <1>1, <2>1, <3>1 DEF ShareNumber, Drop, LastHandle, Handles, TypeOK
    <3> QED
      BY <1>1, <1>4, <2>1, <3>1, <3>2 DEF ShareNumber, Without
  <2>2. ASSUME NEW r \in Shared, NEW d \in Cell, NEW u \in Unique, ShareUnique(r, d, u)
        PROVE  table'[Fd[c]] = table[Fd[c]] /\ Fd'[c] = Fd[c]
    <3>1. c # d /\ ~Broken /\ CloseDropped(r)
      BY <1>2, <2>2 DEF ShareUnique, Broken
    <3>2. c \notin Drop(r)
      BY <1>1, <2>2, <3>1 DEF ShareUnique, Drop, LastHandle, Handles, TypeOK
    <3> QED
      BY <1>1, <1>4, <2>2, <3>1, <3>2 DEF ShareUnique, Without
  <2>3. ASSUME NEW r \in Shared, NEW t \in Shared, Copy(r, t)
        PROVE  table'[Fd[c]] = table[Fd[c]] /\ Fd'[c] = Fd[c]
    <3>1. c \notin Drop(r)
      BY <1>1, <2>3 DEF Copy, Drop, LastHandle, Handles, TypeOK
    <3> QED
      BY <1>1, <1>4, <2>3, <3>1 DEF Copy, Without, Broken
  <2>4. ASSUME NEW r \in Shared, NEW t \in Shared, Move(r, t)
        PROVE  table'[Fd[c]] = table[Fd[c]] /\ Fd'[c] = Fd[c]
    <3>1. c \notin Drop(r)
      BY <1>1, <2>4 DEF Move, Drop, LastHandle, Handles, TypeOK
    <3> QED
      BY <1>1, <1>4, <2>4, <3>1 DEF Move, Without, Broken
  <2>5. ASSUME NEW r \in Shared, Forget(r)
        PROVE  table'[Fd[c]] = table[Fd[c]] /\ Fd'[c] = Fd[c]
    <3>1. c \notin Drop(r)
      BY <1>1, <2>5, ConstantAssumption DEF Forget, Drop, LastHandle, Handles, TypeOK
    <3> QED
      BY <1>1, <1>4, <2>5, <3>1 DEF Forget, Without, Broken
  <2>6. ASSUME NEW r \in Shared, NEW t \in Shared, NEW d \in Cell, NEW e \in Cell,
               NEW f \in File, NEW g \in File, PtMasterSlave(r, t, d, e, f, g)
        PROVE  table'[Fd[c]] = table[Fd[c]] /\ Fd'[c] = Fd[c]
    <3>1. ~Broken /\ Fd'[c] = Fd[c]
      BY <1>1, <1>2, <2>6 DEF PtMasterSlave, Broken, faults, TypeOK
    <3>2. PICK n \in Number, m \in Number :
             /\ table[n] = NoFile /\ [table EXCEPT ![n] = f][m] = NoFile
             /\ table' = [table EXCEPT ![n] = f, ![m] = g]
      BY <2>6 DEF PtMasterSlave, Lowest
    <3>3. table[m] = NoFile
      BY <1>1, <3>2, ConstantAssumption DEF TypeOK
    <3> QED
      BY <3>1, <3>2, <3>3, OthersStayOpen
  <2>7. ASSUME NEW f \in File, PtMasterSlaveThrows(f)
        PROVE  table'[Fd[c]] = table[Fd[c]] /\ Fd'[c] = Fd[c]
    <3>1. ~Broken /\ Fd'[c] = Fd[c]
      BY <2>7 DEF PtMasterSlaveThrows, Broken, objects, faults
    <3> QED
      BY <2>7, <3>1, OthersStayOpen DEF PtMasterSlaveThrows, Lowest
  <2> QED
    BY <1>5, <2>1, <2>2, <2>3, <2>4, <2>5, <2>6, <2>7 DEF SharedStep
<1> QED
  BY <1>3, <1>5 DEF Next

\* No step but a failing one closes a shared descriptor that keeps a handle.
THEOREM SharedKeptOpen == Spec => SharedStaysOpen
<1>1. Inv /\ [Next]_vars =>
        [~Broken' =>
         \A c \in Cell :
            ((\E s \in Shared : ptr[s] = c /\ ptr'[s] = c) /\ Fd[c] # NULL_FD)
                => table'[Fd[c]] = table[Fd[c]] /\ Fd'[c] = Fd[c]]_vars
  BY SharedStep1
<1> QED
  BY <1>1, Always, PTL DEF Spec, SharedStaysOpen
=============================================================================
