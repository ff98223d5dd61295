-------------------------- MODULE SocketPoolProofs --------------------------
(***************************************************************************)
(* What TSocketPool guarantees for any number of connections, descriptors, *)
(* threads and any capacities.                                             *)
(***************************************************************************)
EXTENDS SocketPool, FiniteSetTheorems, TLAPS

\* TypeOK and OneHome hold together: Set writes into the entry of a pooled
\* socket, which OneHome says exists.
HomeInv == TypeOK /\ OneHome

\* The constructor leaves an empty pool in which nothing is out of place.
LEMMA InitHome == Init => HomeInv
<1> SUFFICES ASSUME Init PROVE HomeInv
  OBVIOUS
<1> USE ConstantAssumption DEF Init
<1>1. TypeOK
  <2>1. pipe \in 0..PipeCap /\ buffered \in 0..(BufSize - 1) /\ pollCap \in Nat \ {0}
    OBVIOUS
  <2>2. /\ stage \in [Conn -> {"fresh", "held", "pooled", "gone"}]
        /\ id \in [Conn -> Fd \cup {NoFd}]
        /\ descriptor \in [Fd -> Conn \cup {NoConn}]
        /\ ready \in [Conn -> SUBSET EPollEvent]
        /\ Sockets \in [Fd -> Entry \cup {NoEntry}]
    OBVIOUS
  <2> QED
    BY <2>1, <2>2 DEF TypeOK
<1>2. OneHome
  BY DEF OneHome, Keys
<1> QED
  BY <1>1, <1>2 DEF HomeInv

\* ~TConnectedSocket keeps the types of what it changes.
LEMMA DestroyType ==
  ASSUME NEW c \in Conn, TypeOK, Destroy(c)
  PROVE  /\ stage' \in [Conn -> {"fresh", "held", "pooled", "gone"}]
         /\ id' \in [Conn -> Fd \cup {NoFd}]
         /\ descriptor' \in [Fd -> Conn \cup {NoConn}]
         /\ ready' \in [Conn -> SUBSET EPollEvent]
         /\ shut' \subseteq Conn
  BY DEF TypeOK, Destroy

\* Reading the command leaves a character's room in the stream's buffer.
LEMMA CommandType ==
  ASSUME TypeOK, ConsumeWake
  PROVE  pipe' \in 0..PipeCap /\ buffered' \in 0..(BufSize - 1)
  BY ConstantAssumption DEF TypeOK, ConsumeWake, ReadCommand, Drained, waking

\* Reading the command takes bytes from the pipe and puts none in.
LEMMA ConsumeType ==
  ASSUME TypeOK, PollFds' = PollFds, pc' = "idle", wake' = FALSE
  PROVE  /\ PollFds' \subseteq PollFd /\ pc' \in {"idle", "polling", "returned"}
         /\ wake' \in BOOLEAN /\ (wake' => pc' = "returned" /\ pipe' > 0)
  BY DEF TypeOK

\* The entry Get makes for a socket in the map is a well-formed pollfd.
LEMMA PollFdOfType ==
  ASSUME TypeOK, NEW k \in Keys
  PROVE  PollFdOf(k) \in PollFd
<1>1. Sockets[k] \in Entry
  BY DEF TypeOK, Keys
<1>2. Sockets[k].conn \in Conn /\ Sockets[k].event \in Interests
  BY <1>1 DEF Entry
<1>3. GetFd(Sockets[k].conn) \in Fd \cup {NoFd}
  BY DEF GetFd
<1> QED
  BY <1>2, <1>3 DEF PollFdOf, PollFd

\* No step takes a variable out of its type.
LEMMA TypeStep == HomeInv /\ [Next]_vars => TypeOK'
<1> SUFFICES ASSUME TypeOK, OneHome, [Next]_vars
             PROVE  TypeOK'
  BY DEF HomeInv
<1> USE ConstantAssumption
<1>1. ASSUME NEW t \in Thread, NEW c \in Conn, NEW f \in Fd, Accept(t, c, f)
      PROVE  TypeOK'
  BY <1>1 DEF TypeOK, Accept, waking, getting, EPollEvent
<1>2. ASSUME NEW t \in Thread, NEW c \in Conn,
             Drop(t, c) \/ AddRejected(t, c)
      PROVE  TypeOK'
  <2>1. Destroy(c) /\ UNCHANGED <<Sockets, writer, waking, pollCap, getting>>
    BY <1>2 DEF Drop, AddRejected
  <2> QED
    BY <2>1, DestroyType DEF TypeOK, waking, getting
<1>3. ASSUME NEW c \in Conn, PeerSends(c) \/ PeerReads(c) \/ PeerCloses(c)
      PROVE  TypeOK'
  <2>1. /\ ready' \in [Conn -> SUBSET EPollEvent]
        /\ UNCHANGED <<stage, id, descriptor, shut, Sockets, writer, pipe,
                       buffered, pollCap, getting>>
    BY <1>3 DEF TypeOK, PeerSends, PeerReads, PeerCloses, objects, waking,
                EPollEvent
  <2> QED
    BY <2>1 DEF TypeOK, getting
<1>4. ASSUME NEW t \in Thread, NEW c \in Conn, NEW e \in Interests,
             AddInsert(t, c, e)
      PROVE  TypeOK'
  <2>1. [conn |-> c, event |-> e] \in Entry
    BY DEF Entry
  <2> QED
    BY <1>4, <2>1 DEF TypeOK, AddInsert, kernel, waking, getting
<1>5. ASSUME NEW t \in Thread, NEW c \in Conn, AddCollides(t, c)
      PROVE  TypeOK'
  BY <1>5, DestroyType DEF TypeOK, AddCollides, waking, getting
<1>6. ASSUME NEW t \in Thread, AddWake(t)
      PROVE  TypeOK'
  BY <1>6 DEF TypeOK, AddWake, objects, kernel, getting
<1>7. ASSUME NEW t \in Thread, NEW c \in Conn, NEW e \in Interests, Set(t, c, e)
      PROVE  TypeOK'
  <2>1. id[c] \in Keys
    BY <1>7 DEF Set, OneHome
  <2>2. Sockets[id[c]] \in Entry
    BY <2>1 DEF TypeOK, Keys
  <2>3. Sockets' \in [Fd -> Entry \cup {NoEntry}]
    BY <1>7, <2>1, <2>2 DEF TypeOK, Set, Entry
  <2> QED
    BY <1>7, <2>3 DEF TypeOK, Set, objects, kernel, waking, getting
<1>8. ASSUME NEW t \in Thread, NEW c \in Conn, Remove(t, c)
      PROVE  TypeOK'
  BY <1>8, DestroyType DEF TypeOK, Remove, waking
<1>9. CASE Fill
  <2>1. PollFds' \subseteq PollFd
    BY <1>9, PollFdOfType DEF Fill
  <2>2. pollCap' \in Nat \ {0}
    BY <1>9 DEF Fill, Grown, TypeOK
  <2> QED
    BY <1>9, <2>1, <2>2 DEF TypeOK, Fill, objects, kernel, waking
<1>10. CASE PollReturn
  <2>1. ASSUME NEW p \in PollFds
        PROVE  Scan(p) \subseteq Revents
    <3>1. Scan(p) \subseteq {"NVAL", p.events, "HUP", "ERR"}
      BY DEF Scan
    <3>2. p.events \in EPollEvent
      BY DEF TypeOK, PollFd
    <3> QED
      BY <3>1, <3>2, Zenon DEF Revents, EPollEvent
  <2>2. PollFds' \subseteq PollFd
    BY <1>10, <2>1 DEF PollReturn, TypeOK, PollFd
  <2> QED
    BY <1>10, <2>2 DEF TypeOK, PollReturn, objects, kernel, waking
<1>11. CASE PollTimeout \/ PollFail
  BY <1>11 DEF TypeOK, PollTimeout, PollFail, objects, kernel, waking
<1>12. CASE Collect
  <2>1. \A p \in PollFds : Reported(p) \in TPollEvent
    <3> TAKE p \in PollFds
    <3>1. Sockets[p.fd] \in Entry
      BY <1>12 DEF Collect, AllFound, Keys, TypeOK
    <3>2. p.revents \in SUBSET Revents
      BY DEF TypeOK, PollFd
    <3> QED
      BY <3>1, <3>2 DEF Reported, TPollEvent, Entry
  <2>2. results' \subseteq TPollEvent
    BY <1>12, <2>1 DEF Collect
  <2>3. ConsumeWake /\ PollFds' = PollFds /\ pc' = "idle" /\ wake' = FALSE
    BY <1>12 DEF Collect
  <2> QED
    BY <1>12, <2>2, <2>3, CommandType, ConsumeType
    DEF TypeOK, Collect, objects, kernel
<1>13. CASE CollectThrows
  <2>1. ConsumeWake /\ PollFds' = PollFds /\ pc' = "idle" /\ wake' = FALSE
    BY <1>13 DEF CollectThrows
  <2> QED
    BY <1>13, <2>1, CommandType, ConsumeType
    DEF TypeOK, CollectThrows, objects, kernel
<1>14. ASSUME NEW r \in results, Handle(r)
       PROVE  TypeOK'
  <2>1. ready' \in [Conn -> SUBSET EPollEvent]
    BY <1>14 DEF Handle, TypeOK
  <2> QED
    BY <1>14, <2>1 DEF TypeOK, Handle, objects, waking
<1>15. ASSUME NEW r \in results, CloseReference(r)
       PROVE  TypeOK'
  BY <1>15 DEF TypeOK, CloseReference, objects, waking
<1>16. CASE UNCHANGED vars
  BY <1>16 DEF TypeOK, vars
<1> QED
  BY <1>1, <1>2, <1>3, <1>4, <1>5, <1>6, <1>7, <1>8, <1>9, <1>10, <1>11,
     <1>12, <1>13, <1>14, <1>15, <1>16
  DEF Next, Peer, Call, Get, Handler

\* OneHome reads nothing but the objects, the descriptors and the map.
LEMMA HomeFrame ==
  ASSUME OneHome, UNCHANGED <<stage, id, descriptor, Sockets>>
  PROVE  OneHome'
  BY DEF OneHome, Keys, GetFd

\* Destroying a connection that is not in the map leaves the others at home.
LEMMA DestroyHome ==
  ASSUME HomeInv, NEW c \in Conn, stage[c] = "held", Destroy(c),
         UNCHANGED Sockets
  PROVE  OneHome'
<1> USE ConstantAssumption DEF HomeInv, TypeOK, OneHome, Keys
<1>1. \A k \in Keys : Sockets[k].conn \in Conn /\ Sockets[k].conn # c
  BY DEF Entry
<1>2. \A k \in Keys' : stage'[Sockets'[k].conn] = "pooled" /\ id'[Sockets'[k].conn] = k
  BY <1>1 DEF Destroy
<1>3. \A d \in Conn : stage'[d] = "pooled" =>
          id'[d] \in Keys' /\ Sockets'[id'[d]].conn = d
  BY DEF Destroy
<1>4. \A d \in Conn : stage'[d] = "held" => GetFd(d)' = id'[d] /\ id'[d] \in Fd
  BY DEF Destroy, GetFd
<1> QED
  BY <1>2, <1>3, <1>4

\* No step orphans a pooled connection or puts one into the map twice.
LEMMA HomeStep == HomeInv /\ [Next]_vars => OneHome'
<1> SUFFICES ASSUME HomeInv, [Next]_vars
             PROVE  OneHome'
  OBVIOUS
<1> USE ConstantAssumption DEF HomeInv
<1>0. \A k \in Keys : Sockets[k].conn \in Conn
  BY DEF TypeOK, Keys, Entry
<1>1. ASSUME NEW t \in Thread, NEW c \in Conn, NEW f \in Fd, Accept(t, c, f)
      PROVE  OneHome'
  <2> USE <1>1 DEF TypeOK, OneHome, Keys
  <2>1. \A k \in Keys' : stage'[Sockets'[k].conn] = "pooled" /\ id'[Sockets'[k].conn] = k
    BY <1>0 DEF Accept
  <2>2. \A d \in Conn : stage'[d] = "pooled" =>
            id'[d] \in Keys' /\ Sockets'[id'[d]].conn = d
    BY DEF Accept
  <2>3. \A d \in Conn : stage'[d] = "held" => GetFd(d)' = id'[d] /\ id'[d] \in Fd
    BY DEF Accept, GetFd
  <2> QED
    BY <2>1, <2>2, <2>3
<1>2. ASSUME NEW t \in Thread, NEW c \in Conn,
             Drop(t, c) \/ AddRejected(t, c) \/ AddCollides(t, c)
      PROVE  OneHome'
  BY <1>2, DestroyHome DEF Drop, AddRejected, AddCollides
<1>3. ASSUME NEW c \in Conn, PeerSends(c) \/ PeerReads(c) \/ PeerCloses(c)
      PROVE  OneHome'
  BY <1>3, HomeFrame DEF PeerSends, PeerReads, PeerCloses, objects
<1>4. ASSUME NEW t \in Thread, NEW c \in Conn, NEW e \in Interests,
             AddInsert(t, c, e)
      PROVE  OneHome'
  <2> USE <1>4 DEF AddInsert, kernel, OneHome
  <2>1. id[c] \in Fd /\ id' = id /\ descriptor' = descriptor
    OBVIOUS
  <2>2. /\ Sockets'[id[c]].conn = c
        /\ \A k \in Fd \ {id[c]} : Sockets'[k] = Sockets[k]
        /\ \A k \in Keys' : k \in Keys \/ k = id[c]
        /\ \A k \in Keys : k \in Keys' /\ k # id[c]
        /\ id[c] \in Keys'
    <3>1. [conn |-> c, event |-> e] \in Entry
      BY DEF Entry
    <3> QED
      BY <2>1, <3>1 DEF Keys, TypeOK
  <2>3. stage'[c] = "pooled" /\ \A d \in Conn \ {c} : stage'[d] = stage[d]
    BY DEF TypeOK
  <2>4. \A k \in Keys : Sockets[k].conn # c
    BY <1>0
  <2>5. Keys \subseteq Fd
    BY DEF Keys
  <2>6. \A k \in Keys' : stage'[Sockets'[k].conn] = "pooled" /\ id'[Sockets'[k].conn] = k
    BY <1>0, <2>1, <2>2, <2>3, <2>4, <2>5
  <2>7. \A d \in Conn : stage'[d] = "pooled" =>
            id'[d] \in Keys' /\ Sockets'[id'[d]].conn = d
    BY <2>1, <2>2, <2>3, <2>5
  <2>8. \A d \in Conn : stage'[d] = "held" => GetFd(d)' = id'[d] /\ id'[d] \in Fd
    BY <2>1, <2>3 DEF GetFd
  <2> QED
    BY <2>6, <2>7, <2>8
<1>5. ASSUME NEW t \in Thread, AddWake(t)
      PROVE  OneHome'
  BY <1>5, HomeFrame DEF AddWake, objects, kernel
<1>6. ASSUME NEW t \in Thread, NEW c \in Conn, NEW e \in Interests, Set(t, c, e)
      PROVE  OneHome'
  <2>1. id[c] \in Keys /\ Sockets[id[c]] \in Entry
    BY <1>6 DEF Set, OneHome, TypeOK, Keys
  <2>2. \A k \in Fd : /\ (Sockets'[k] = NoEntry <=> Sockets[k] = NoEntry)
                      /\ (Sockets[k] # NoEntry => Sockets'[k].conn = Sockets[k].conn)
    BY <1>6, <2>1 DEF Set, TypeOK, Entry
  <2>3. Keys' = Keys
    BY <2>2 DEF Keys
  <2> QED
    BY <1>6, <2>2, <2>3 DEF Set, OneHome, Keys, objects, kernel, GetFd
<1>7. ASSUME NEW t \in Thread, NEW c \in Conn, Remove(t, c)
      PROVE  OneHome'
  <2> USE <1>7 DEF TypeOK, OneHome
  <2>1. id[c] \in Keys /\ Sockets[id[c]].conn = c
    BY DEF Remove
  <2>2. Keys' = Keys \ {id[c]} /\ \A k \in Keys' : Sockets'[k] = Sockets[k]
    BY <2>1 DEF Remove, Keys
  <2>3. \A k \in Keys' : Sockets[k].conn # c
    BY <2>1, <2>2
  <2>4. \A d \in Conn \ {c} : stage'[d] = stage[d] /\ id'[d] = id[d]
    BY DEF Remove, Destroy
  <2>5. \A k \in Keys' : stage'[Sockets'[k].conn] = "pooled" /\ id'[Sockets'[k].conn] = k
    BY <1>0, <2>2, <2>3, <2>4
  <2>6. stage'[c] = "gone"
    BY DEF Remove, Destroy
  <2>7. \A d \in Conn : stage'[d] = "pooled" =>
            id'[d] \in Keys' /\ Sockets'[id'[d]].conn = d
    BY <2>1, <2>2, <2>4, <2>6
  <2>8. \A d \in Conn : stage'[d] = "held" => GetFd(d)' = id'[d] /\ id'[d] \in Fd
    BY <2>4, <2>6 DEF Remove, Destroy, GetFd
  <2> QED
    BY <2>5, <2>7, <2>8
<1>8. CASE Fill \/ PollReturn \/ PollTimeout \/ PollFail \/ Collect \/ CollectThrows
  BY <1>8, HomeFrame DEF Fill, PollReturn, PollTimeout, PollFail, Collect,
     CollectThrows, objects, kernel
<1>9. ASSUME NEW r \in results, Handle(r)
      PROVE  OneHome'
  BY <1>9, HomeFrame DEF Handle, objects
<1>10. ASSUME NEW r \in results, CloseReference(r)
       PROVE  OneHome'
  <2>1. r.conn \in Conn
    BY DEF TypeOK, TPollEvent
  <2> QED
    BY <1>10, <2>1 DEF CloseReference, objects, OneHome, Keys, TypeOK, GetFd
<1>11. CASE UNCHANGED vars
  BY <1>11, HomeFrame DEF vars
<1> QED
  BY <1>1, <1>2, <1>3, <1>4, <1>5, <1>6, <1>7, <1>8, <1>9, <1>10, <1>11
  DEF Next, Peer, Call, Get, Handler

\* The variables keep their types: no read-ahead overfills the stream's
\* buffer, no wake-up overfills the pipe.
THEOREM TypeCorrect == Spec => []TypeOK
<1>1. Init => HomeInv
  BY InitHome
<1>2. HomeInv /\ [Next]_vars => HomeInv'
  BY TypeStep, HomeStep DEF HomeInv
<1>3. HomeInv => TypeOK
  BY DEF HomeInv
<1> QED
  BY <1>1, <1>2, <1>3, PTL DEF Spec

\* Every pooled connection is in the map once, under its own Id, whatever the
\* threads and the handlers do.
THEOREM HomeAlways == Spec => []OneHome
<1>1. HomeInv /\ [Next]_vars => HomeInv'
  BY TypeStep, HomeStep DEF HomeInv
<1>2. HomeInv => OneHome
  BY DEF HomeInv
<1> QED
  BY InitHome, <1>1, <1>2, PTL DEF Spec

-----------------------------------------------------------------------------
(* No Add goes unnoticed. *)

\* Get's list names every socket that is in the map when it is made.
LEMMA FillNamesAll ==
  ASSUME Fill
  PROVE  \A k \in Keys' : \E p \in PollFds' : p.conn = Sockets'[k].conn
<1>1. Keys' = Keys /\ Sockets' = Sockets
  BY DEF Fill, Keys
<1>2. \A k \in Keys : PollFdOf(k).conn = Sockets[k].conn
  BY DEF PollFdOf
<1> QED
  BY <1>1, <1>2 DEF Fill

\* No step leaves a sleeping poller with an unannounced socket.
LEMMA WakeupStep == HomeInv /\ NoLostWakeup /\ [Next]_vars => NoLostWakeup'
<1> SUFFICES ASSUME TypeOK, OneHome, NoLostWakeup, [Next]_vars
             PROVE  NoLostWakeup'
  BY DEF HomeInv
<1> USE ConstantAssumption
<1>1. ASSUME UNCHANGED <<Sockets, PollFds, pc, pipe, writer>>
      PROVE  NoLostWakeup'
  BY <1>1 DEF NoLostWakeup, Keys
<1>2. ASSUME NEW t \in Thread, NEW c \in Conn,
             Drop(t, c) \/ AddRejected(t, c) \/ \E f \in Fd : Accept(t, c, f)
      PROVE  NoLostWakeup'
  BY <1>1, <1>2 DEF Drop, AddRejected, Accept, waking, getting
<1>3. ASSUME NEW c \in Conn, PeerSends(c) \/ PeerReads(c) \/ PeerCloses(c)
      PROVE  NoLostWakeup'
  BY <1>1, <1>3 DEF PeerSends, PeerReads, PeerCloses, waking, getting
<1>4. ASSUME NEW t \in Thread, NEW c \in Conn,
             AddCollides(t, c) \/ \E e \in Interests : AddInsert(t, c, e)
      PROVE  NoLostWakeup'
  <2>1. writer' # NoThread
    BY <1>4 DEF AddCollides, AddInsert
  <2> QED
    BY <2>1 DEF NoLostWakeup
<1>5. ASSUME NEW t \in Thread, AddWake(t)
      PROVE  NoLostWakeup'
  <2>1. pipe' > 0
    BY <1>5 DEF AddWake, TypeOK
  <2> QED
    BY <2>1 DEF NoLostWakeup
<1>6. ASSUME NEW t \in Thread, NEW c \in Conn, NEW e \in Interests, Set(t, c, e)
      PROVE  NoLostWakeup'
  <2>1. Sockets[id[c]] \in Entry /\ id[c] \in Fd
    BY <1>6 DEF Set, OneHome, TypeOK, Keys
  <2>2. \A k \in Keys' : k \in Keys /\ Sockets'[k].conn = Sockets[k].conn
    BY <1>6, <2>1 DEF Set, Keys, TypeOK, Entry
  <2> QED
    BY <1>6, <2>2 DEF Set, NoLostWakeup, waking, getting
<1>7. ASSUME NEW t \in Thread, NEW c \in Conn, Remove(t, c)
      PROVE  NoLostWakeup'
  <2>1. \A k \in Keys' : k \in Keys /\ Sockets'[k] = Sockets[k]
    BY <1>7 DEF Remove, Keys, TypeOK
  <2> QED
    BY <1>7, <2>1 DEF Remove, NoLostWakeup, waking
<1>8. CASE Fill
  BY <1>8, FillNamesAll DEF NoLostWakeup
<1>9. CASE PollReturn \/ PollTimeout \/ PollFail \/ Collect \/ CollectThrows
  <2>1. pc' # "polling"
    BY <1>9 DEF PollReturn, PollTimeout, PollFail, Collect, CollectThrows
  <2> QED
    BY <2>1 DEF NoLostWakeup
<1>10. ASSUME NEW r \in results, Handle(r) \/ CloseReference(r)
       PROVE  NoLostWakeup'
  BY <1>1, <1>10 DEF Handle, CloseReference, waking
<1>11. CASE UNCHANGED vars
  BY <1>1, <1>11 DEF vars
<1> QED
  BY <1>2, <1>3, <1>4, <1>5, <1>6, <1>7, <1>8, <1>9, <1>10, <1>11
  DEF Next, Peer, Call, Get, Handler

\* A poller never sleeps on a list that misses a pooled socket unless a
\* wake-up is in the pipe or about to be written.
THEOREM WakeupSafe == Spec => []NoLostWakeup
<1>1. Init => HomeInv /\ NoLostWakeup
  BY InitHome DEF Init, NoLostWakeup
<1>2. HomeInv /\ NoLostWakeup /\ [Next]_vars => (HomeInv /\ NoLostWakeup)'
  BY TypeStep, HomeStep, WakeupStep DEF HomeInv
<1> QED
  BY <1>1, <1>2, PTL DEF Spec

-----------------------------------------------------------------------------
(* How many sockets the pool takes. *)

\* The map has no more keys than there are descriptor numbers.
LEMMA KeysFinite == IsFiniteSet(Keys) /\ Cardinality(Keys) \in Nat
  BY ConstantAssumption, FS_Subset, FS_CardinalityType DEF Keys

\* No step takes the map more than one past the vector's capacity.
LEMMA BoundStep == HomeInv /\ PoolBounded /\ [Next]_vars => PoolBounded'
<1> SUFFICES ASSUME TypeOK, OneHome, PoolBounded, [Next]_vars
             PROVE  PoolBounded'
  BY DEF HomeInv
<1> USE ConstantAssumption
<1>1. ASSUME Keys' \subseteq Keys, pollCap' \in Nat, pollCap' >= pollCap
      PROVE  PoolBounded'
  <2>1. Cardinality(Keys') <= Cardinality(Keys) /\ Cardinality(Keys') \in Nat
    BY <1>1, KeysFinite, FS_Subset, FS_CardinalityType
  <2> QED
    BY <1>1, <2>1, KeysFinite DEF PoolBounded, TypeOK
<1>2. ASSUME UNCHANGED <<Sockets, pollCap>>
      PROVE  PoolBounded'
  BY <1>2 DEF PoolBounded, Keys
<1>3. ASSUME NEW t \in Thread, NEW c \in Conn, NEW e \in Interests,
             AddInsert(t, c, e)
      PROVE  PoolBounded'
  <2>1. Keys' \subseteq Keys \cup {id[c]}
    BY <1>3 DEF AddInsert, Keys, TypeOK
  <2>2. /\ IsFiniteSet(Keys \cup {id[c]})
        /\ Cardinality(Keys \cup {id[c]}) \in Nat
        /\ Cardinality(Keys \cup {id[c]}) <= Cardinality(Keys) + 1
    <3>1. IsFiniteSet(Keys \cup {id[c]})
      BY KeysFinite, FS_AddElement
    <3>2. Cardinality(Keys \cup {id[c]}) = Cardinality(Keys)
          \/ Cardinality(Keys \cup {id[c]}) = Cardinality(Keys) + 1
      BY KeysFinite, FS_AddElement
    <3> QED
      BY <3>1, <3>2, KeysFinite
  <2>3. Cardinality(Keys') <= Cardinality(Keys) + 1 /\ Cardinality(Keys') \in Nat
    BY <2>1, <2>2, KeysFinite, FS_Subset, FS_CardinalityType
  <2>4. Cardinality(Keys) <= pollCap /\ pollCap' = pollCap
    BY <1>3, KeysFinite DEF AddInsert, Full, TypeOK
  <2> QED
    BY <2>3, <2>4, KeysFinite DEF PoolBounded, TypeOK
<1>4. ASSUME NEW t \in Thread, NEW c \in Conn, NEW e \in Interests, Set(t, c, e)
      PROVE  PoolBounded'
  <2>1. id[c] \in Keys
    BY <1>4 DEF Set, OneHome
  <2>2. Keys' \subseteq Keys
    BY <1>4, <2>1 DEF Set, Keys, TypeOK
  <2> QED
    BY <1>1, <1>4, <2>2 DEF Set, TypeOK
<1>5. ASSUME NEW t \in Thread, NEW c \in Conn, Remove(t, c)
      PROVE  PoolBounded'
  <2>1. Keys' \subseteq Keys
    BY <1>5 DEF Remove, Keys, TypeOK
  <2> QED
    BY <1>1, <1>5, <2>1 DEF Remove, TypeOK
<1>6. CASE Fill
  <2>1. Keys' \subseteq Keys
    BY <1>6 DEF Fill, Keys
  <2>2. pollCap' \in Nat /\ pollCap' >= pollCap
    BY <1>6 DEF Fill, Grown, TypeOK
  <2> QED
    BY <1>1, <2>1, <2>2
<1>7. ASSUME NEW t \in Thread, NEW c \in Conn,
             \/ Drop(t, c) \/ AddRejected(t, c) \/ AddCollides(t, c)
             \/ \E f \in Fd : Accept(t, c, f)
             \/ PeerSends(c) \/ PeerReads(c) \/ PeerCloses(c)
      PROVE  PoolBounded'
  BY <1>2, <1>7 DEF Drop, AddRejected, AddCollides, Accept,
     PeerSends, PeerReads, PeerCloses
<1>8. ASSUME NEW t \in Thread, AddWake(t)
      PROVE  PoolBounded'
  BY <1>2, <1>8 DEF AddWake
<1>9. CASE PollReturn \/ PollTimeout \/ PollFail \/ Collect \/ CollectThrows
  BY <1>2, <1>9 DEF PollReturn, PollTimeout, PollFail, Collect, CollectThrows
<1>10. ASSUME NEW r \in results, Handle(r) \/ CloseReference(r)
       PROVE  PoolBounded'
  BY <1>2, <1>10 DEF Handle, CloseReference
<1>11. CASE UNCHANGED vars
  BY <1>2, <1>11 DEF vars
<1>12. Thread # {}
  BY DEF Thread
<1> QED
  BY <1>3, <1>4, <1>5, <1>6, <1>7, <1>8, <1>9, <1>10, <1>11, <1>12
  DEF Next, Peer, Call, Get, Handler

\* The pool never holds more than one socket above the vector's capacity,
\* which starts one above the constructor's argument.
THEOREM SizeBounded == Spec => []PoolBounded
<1>1. Init => HomeInv /\ PoolBounded
  <2> SUFFICES ASSUME Init PROVE PoolBounded
    BY InitHome
  <2>1. Keys = {}
    BY DEF Init, Keys
  <2> QED
    BY <2>1, FS_EmptySet, ConstantAssumption DEF Init, PoolBounded
<1>2. HomeInv /\ PoolBounded /\ [Next]_vars => (HomeInv /\ PoolBounded)'
  BY TypeStep, HomeStep, BoundStep DEF HomeInv
<1> QED
  BY <1>1, <1>2, PTL DEF Spec

-----------------------------------------------------------------------------
(* A full pipe wedges the pool. *)

\* No step makes room in the pipe or releases the lock of a wedged pool.
LEMMA WedgeStep == TypeOK /\ Wedged /\ [Next]_vars => Wedged'
<1> SUFFICES ASSUME TypeOK, Wedged, [Next]_vars
             PROVE  UNCHANGED <<writer, pipe>>
  BY DEF Wedged
<1>1. writer # NoThread /\ ~(pipe < PipeCap)
  BY ConstantAssumption DEF Wedged, TypeOK
<1>2. \A t \in Thread : ~MayCall(t) /\ ~AddWake(t)
  BY <1>1 DEF MayCall, AddWake
<1>3. ~Fill /\ ~Collect /\ ~CollectThrows /\ ~MayCall(Poller)
  BY <1>1 DEF Fill, Collect, CollectThrows, MayCall
<1>4. ASSUME NEW t \in Thread, Call(t)
      PROVE  UNCHANGED <<writer, pipe>>
  BY <1>2, <1>4 DEF Call, Accept, Drop, AddRejected, AddCollides, AddInsert, Set,
     Remove, waking
<1>5. ASSUME Peer \/ PollReturn \/ PollTimeout \/ PollFail \/ UNCHANGED vars
      PROVE  UNCHANGED <<writer, pipe>>
  BY <1>5 DEF Peer, PeerSends, PeerReads, PeerCloses, PollReturn, PollTimeout,
     PollFail, waking, vars
<1>6. ~Handler
  BY <1>3 DEF Handler, Handle, CloseReference
<1> QED
  BY <1>3, <1>4, <1>5, <1>6 DEF Next, Get

\* An Add that finds the pipe full blocks the pool for ever.
THEOREM WedgePermanent == Spec => WedgeIsForever
<1>1. TypeOK /\ [Next]_vars => [Wedged => Wedged']_vars
  BY WedgeStep
<1> QED
  BY <1>1, TypeCorrect, PTL DEF Spec, WedgeIsForever

-----------------------------------------------------------------------------
(* A disciplined use: nothing the poller looks at changes under it. *)

\* The descriptors of pooled connections stay open: no handler closes them.
PooledOpen ==
    \A c \in Conn : stage[c] = "pooled" => id[c] \in Fd /\ descriptor[id[c]] = c

\* The poller has one entry for a connection, with what the kernel said of it.
PolledOnce ==
    /\ \A p, q \in PollFds : p.conn = q.conn => p = q
    /\ pc = "returned" => \A p \in PollFds : p.revents \subseteq Readiness(p.conn)

\* It has one result for a connection, and none while it is inside Get.
ResultsOnce ==
    /\ \A r, s \in results : r.conn = s.conn => r = s
    /\ pc # "idle" => results = {}

DiscInv ==
    /\ HomeInv /\ PooledOpen /\ SnapshotValid /\ IdsExclusive
    /\ PolledOnce /\ ResultsOnce /\ ResultsHold

\* With every pooled descriptor open, destroying a connection frees its own
\* number and shuts nobody else down.
LEMMA DestroyOwn ==
  ASSUME DiscInv, NEW c \in Conn, stage[c] \in {"held", "pooled"}, Destroy(c)
  PROVE  /\ shut' = {}
         /\ \A d \in Conn \ {c} : /\ stage'[d] = stage[d] /\ id'[d] = id[d]
                                  /\ ready'[d] = ready[d]
         /\ \A f \in Fd : descriptor[f] # c => descriptor'[f] = descriptor[f]
         /\ stage'[c] = "gone"
<1>1. id[c] \in Fd /\ descriptor[id[c]] = c
  BY ConstantAssumption DEF DiscInv, PooledOpen, HomeInv, OneHome, GetFd
<1>2. shut' = {}
  BY <1>1 DEF Destroy, DiscInv, IdsExclusive
<1> QED
  BY <1>2 DEF Destroy, DiscInv, HomeInv, TypeOK

\* A held connection has a descriptor, so no pooled one has its number.
LEMMA HeldApart == HomeInv /\ PooledOpen /\ shut = {} => IdsExclusive
<1> SUFFICES ASSUME HomeInv, PooledOpen, shut = {},
                    NEW c \in Conn, stage[c] = "held", Sockets[id[c]] # NoEntry
             PROVE  FALSE
  BY DEF IdsExclusive
<1>1. id[c] \in Fd /\ descriptor[id[c]] = c
  BY ConstantAssumption DEF HomeInv, OneHome, GetFd
<1>2. id[c] \in Keys /\ Sockets[id[c]].conn \in Conn
  BY <1>1 DEF Keys, HomeInv, TypeOK, Entry
<1>3. stage[Sockets[id[c]].conn] = "pooled" /\ id[Sockets[id[c]].conn] = id[c]
  BY <1>2 DEF HomeInv, OneHome
<1>4. descriptor[id[c]] = Sockets[id[c]].conn
  BY <1>2, <1>3 DEF PooledOpen
<1> QED
  BY <1>1, <1>3, <1>4

\* IdsExclusive follows from the rest of DiscInv.
DiscCore ==
    PooledOpen /\ SnapshotValid /\ shut = {} /\ PolledOnce /\ ResultsOnce
    /\ ResultsHold

\* What is polled is pooled.
LEMMA PolledPooled ==
  ASSUME DiscInv, pc # "idle", NEW p \in PollFds
  PROVE  /\ p.fd \in Fd /\ p.conn \in Conn /\ stage[p.conn] = "pooled"
         /\ id[p.conn] = p.fd /\ descriptor[p.fd] = p.conn
<1>1. pc \in {"polling", "returned"}
  BY DEF DiscInv, HomeInv, TypeOK
<1>2. p.fd \in Keys /\ Sockets[p.fd].conn = p.conn /\ descriptor[p.fd] = p.conn
  BY <1>1 DEF DiscInv, SnapshotValid
<1>3. p.conn \in Conn
  BY DEF DiscInv, HomeInv, TypeOK, PollFd
<1> QED
  BY <1>2, <1>3 DEF DiscInv, HomeInv, OneHome, Keys

\* What is reported is a connection.
LEMMA ReportedConn ==
  ASSUME DiscInv, NEW r \in results
  PROVE  r.conn \in Conn /\ stage[r.conn] = "pooled"
  BY DEF DiscInv, HomeInv, TypeOK, TPollEvent, ResultsHold

\* DiscCore is undisturbed by a step that changes only connections nobody
\* polls, adds to what is ready, and leaves the pool's entries their sockets.
LEMMA DiscFrame ==
  ASSUME DiscInv, UNCHANGED <<pc, PollFds, results, shut>>,
         \A c \in Conn : stage[c] = "pooled" =>
             /\ stage'[c] = "pooled" /\ id'[c] = id[c]
             /\ ready[c] \subseteq ready'[c],
         \A c \in Conn : stage'[c] = "pooled" =>
             id'[c] \in Fd /\ descriptor'[id'[c]] = c,
         \A k \in Keys : k \in Keys' /\ Sockets'[k].conn = Sockets[k].conn
  PROVE  DiscCore'
<1>1. PooledOpen'
  BY DEF PooledOpen
<1>2. SnapshotValid'
  <2> SUFFICES ASSUME pc \in {"polling", "returned"}, NEW p \in PollFds
               PROVE  /\ p.fd \in Keys' /\ Sockets'[p.fd].conn = p.conn
                      /\ descriptor'[p.fd] = p.conn
    BY DEF SnapshotValid
  <2>1. p.fd \in Keys /\ Sockets[p.fd].conn = p.conn
    BY DEF DiscInv, SnapshotValid
  <2>2. p.conn \in Conn /\ stage[p.conn] = "pooled" /\ id[p.conn] = p.fd
    BY PolledPooled
  <2> QED
    BY <2>1, <2>2
<1>3. PolledOnce'
  <2>1. pc = "returned" => \A p \in PollFds : p.revents \subseteq Readiness(p.conn)'
    <3> SUFFICES ASSUME pc = "returned", NEW p \in PollFds
                 PROVE  p.revents \subseteq Readiness(p.conn)'
      OBVIOUS
    <3>1. p.conn \in Conn /\ stage[p.conn] = "pooled"
      BY PolledPooled
    <3> QED
      BY <3>1 DEF DiscInv, PolledOnce, Readiness
  <2> QED
    BY <2>1 DEF DiscInv, PolledOnce
<1>4. ResultsOnce'
  BY DEF DiscInv, ResultsOnce
<1>5. ResultsHold'
  <2> SUFFICES ASSUME NEW r \in results
               PROVE  /\ stage'[r.conn] = "pooled"
                      /\ r.revents \subseteq Readiness(r.conn)'
    BY DEF ResultsHold
  <2>1. r.conn \in Conn /\ stage[r.conn] = "pooled"
    BY ReportedConn
  <2> QED
    BY <2>1 DEF DiscInv, ResultsHold, Readiness
<1> QED
  BY <1>1, <1>2, <1>3, <1>4, <1>5 DEF DiscCore, DiscInv, IdsExclusive

\* The steps of other threads, of the peers and of the kernel.
LEMMA DiscOthers ==
  ASSUME DiscInv, NEW t \in Thread, NEW c \in Conn,
         \/ \E f \in Fd : Accept(t, c, f)
         \/ Drop(t, c) \/ AddRejected(t, c) \/ AddCollides(t, c)
         \/ \E e \in Interests : AddInsert(t, c, e)
         \/ \E e \in Interests : Set(t, c, e)
         \/ PeerSends(c) \/ PeerReads(c) \/ PeerCloses(c)
  PROVE  DiscCore'
<1> USE ConstantAssumption
<1>1. ASSUME NEW f \in Fd, Accept(t, c, f)
      PROVE  DiscCore'
  <2>1. \A d \in Conn : stage[d] = "pooled" => d # c /\ id[d] # f
    BY <1>1 DEF Accept, DiscInv, PooledOpen
  <2>2. /\ \A d \in Conn \ {c} : /\ stage'[d] = stage[d] /\ id'[d] = id[d]
                                 /\ ready'[d] = ready[d]
        /\ stage'[c] # "pooled"
    BY <1>1 DEF Accept, DiscInv, HomeInv, TypeOK
  <2>3. \A d \in Conn : stage'[d] = "pooled" => id'[d] \in Fd /\ descriptor'[id'[d]] = d
    BY <1>1, <2>1, <2>2 DEF Accept, DiscInv, HomeInv, TypeOK, PooledOpen
  <2>4. Keys' = Keys /\ Sockets' = Sockets /\ UNCHANGED <<pc, PollFds, results, shut>>
    BY <1>1 DEF Accept, Keys, getting
  <2> QED
    BY <2>1, <2>2, <2>3, <2>4, DiscFrame
<1>2. ASSUME Drop(t, c) \/ AddRejected(t, c) \/ AddCollides(t, c)
      PROVE  DiscCore'
  <2>1. stage[c] = "held" /\ Destroy(c) /\ Sockets' = Sockets
        /\ UNCHANGED <<pc, PollFds, results>>
    BY <1>2 DEF Drop, AddRejected, AddCollides, getting
  <2>2. /\ shut' = {} /\ shut' = shut
        /\ \A d \in Conn \ {c} : /\ stage'[d] = stage[d] /\ id'[d] = id[d]
                                 /\ ready'[d] = ready[d]
        /\ \A f \in Fd : descriptor[f] # c => descriptor'[f] = descriptor[f]
        /\ stage'[c] = "gone"
    BY <2>1, DestroyOwn DEF DiscInv, IdsExclusive
  <2>3. \A d \in Conn : stage'[d] = "pooled" => id'[d] \in Fd /\ descriptor'[id'[d]] = d
    BY <2>1, <2>2 DEF DiscInv, PooledOpen
  <2>4. Keys' = Keys
    BY <2>1 DEF Keys
  <2> QED
    BY <2>1, <2>2, <2>3, <2>4, DiscFrame
<1>3. ASSUME NEW e \in Interests, AddInsert(t, c, e)
      PROVE  DiscCore'
  <2>1. stage[c] = "held" /\ id[c] \in Fd /\ descriptor[id[c]] = c
    BY <1>3 DEF AddInsert, DiscInv, HomeInv, OneHome, GetFd
  <2>2. /\ stage'[c] = "pooled"
        /\ \A d \in Conn \ {c} : stage'[d] = stage[d]
        /\ UNCHANGED <<id, descriptor, ready, shut, pc, PollFds, results>>
    BY <1>3 DEF AddInsert, kernel, getting, DiscInv, HomeInv, TypeOK
  <2>3. \A k \in Keys : k \in Keys' /\ Sockets'[k].conn = Sockets[k].conn
    BY <1>3 DEF AddInsert, Keys, DiscInv, HomeInv, TypeOK
  <2>4. \A d \in Conn : stage'[d] = "pooled" => id'[d] \in Fd /\ descriptor'[id'[d]] = d
    BY <2>1, <2>2 DEF DiscInv, PooledOpen
  <2>5. \A d \in Conn : stage[d] = "pooled" =>
             /\ stage'[d] = "pooled" /\ id'[d] = id[d] /\ ready[d] \subseteq ready'[d]
    BY <2>1, <2>2
  <2> QED
    BY <2>2, <2>3, <2>4, <2>5, DiscFrame
<1>4. ASSUME NEW e \in Interests, Set(t, c, e)
      PROVE  DiscCore'
  <2>1. Sockets[id[c]] \in Entry /\ id[c] \in Fd
    BY <1>4 DEF Set, DiscInv, HomeInv, OneHome, TypeOK, Keys
  <2>2. \A k \in Keys : k \in Keys' /\ Sockets'[k].conn = Sockets[k].conn
    BY <1>4, <2>1 DEF Set, Keys, DiscInv, HomeInv, TypeOK, Entry
  <2>3. UNCHANGED <<stage, id, descriptor, ready, shut, pc, PollFds, results>>
    BY <1>4 DEF Set, objects, kernel, getting
  <2> QED
    BY <2>2, <2>3, DiscFrame DEF DiscInv, PooledOpen
<1>5. ASSUME PeerSends(c) \/ PeerReads(c) \/ PeerCloses(c)
      PROVE  DiscCore'
  <2>1. UNCHANGED <<stage, id, descriptor, shut, Sockets, pc, PollFds, results>>
    BY <1>5 DEF PeerSends, PeerReads, PeerCloses, objects, waking, getting
  <2>2. \A d \in Conn : ready[d] \subseteq ready'[d]
    BY <1>5 DEF PeerSends, PeerReads, PeerCloses, DiscInv, HomeInv, TypeOK
  <2>3. Keys' = Keys
    BY <2>1 DEF Keys
  <2> QED
    BY <2>1, <2>2, <2>3, DiscFrame DEF DiscInv, PooledOpen
<1> QED
  BY <1>1, <1>2, <1>3, <1>4, <1>5

\* The poller's own steps, and those that leave all it looks at alone.
LEMMA DiscFill ==
  ASSUME DiscInv, Fill
  PROVE  DiscCore'
<1> USE ConstantAssumption DEF Fill, objects, kernel
<1>1. \A k \in Keys : LET c == Sockets[k].conn
                      IN c \in Conn /\ stage[c] = "pooled" /\ id[c] = k
                         /\ descriptor[k] = c /\ GetFd(c) = k
  BY DEF DiscInv, HomeInv, OneHome, TypeOK, Entry, Keys, PooledOpen, GetFd
<1>2. \A p \in PollFds' : \E k \in Keys : p = PollFdOf(k)
  OBVIOUS
<1>3. \A p \in PollFds' : /\ p.fd \in Keys /\ Sockets[p.fd].conn = p.conn
                          /\ descriptor[p.fd] = p.conn
                          /\ p = PollFdOf(p.fd)
  BY <1>1, <1>2 DEF PollFdOf
<1>4. Keys' = Keys
  BY DEF Keys
<1>5. SnapshotValid'
  BY <1>3, <1>4 DEF SnapshotValid
<1>6. PolledOnce'
  <2> SUFFICES ASSUME NEW p \in PollFds', NEW q \in PollFds', p.conn = q.conn
               PROVE  p = q
    BY DEF PolledOnce
  <2>1. id[p.conn] = p.fd /\ id[q.conn] = q.fd
    BY <1>1, <1>3
  <2> QED
    BY <2>1, <1>3
<1>7. PooledOpen' /\ shut' = {} /\ ResultsOnce' /\ ResultsHold'
  BY DEF DiscInv, PooledOpen, IdsExclusive, ResultsOnce, ResultsHold
<1> QED
  BY <1>5, <1>6, <1>7 DEF DiscCore

\* The return of poll keeps the invariant: it reports of each number what the
\* kernel says of the connection Fill took the number from.
LEMMA DiscPollReturn ==
  ASSUME DiscInv, PollReturn
  PROVE  DiscCore'
<1> USE ConstantAssumption DEF PollReturn, objects, kernel
<1>1. \A p \in PollFds : /\ p.fd \in Keys /\ Sockets[p.fd].conn = p.conn
                         /\ descriptor[p.fd] = p.conn /\ p.conn \in Conn
                         /\ p.fd \in Fd
  BY PolledPooled DEF DiscInv, SnapshotValid
<1>2. \A q \in PollFds' : \E p \in PollFds : q = [p EXCEPT !.revents = Scan(p)]
  OBVIOUS
<1>3. \A p \in PollFds : p = [fd |-> p.fd, events |-> p.events,
                              revents |-> p.revents, conn |-> p.conn]
  BY DEF DiscInv, HomeInv, TypeOK, PollFd
<1>4. \A q \in PollFds' : \E p \in PollFds :
          /\ q = [p EXCEPT !.revents = Scan(p)]
          /\ q.fd = p.fd /\ q.conn = p.conn /\ q.revents = Scan(p)
  BY <1>2, <1>3
<1>5. SnapshotValid'
  <2>1. Keys' = Keys
    BY DEF Keys
  <2> QED
    BY <1>1, <1>4, <2>1 DEF SnapshotValid
<1>6. \A p \in PollFds : Scan(p) \subseteq Readiness(p.conn)
  BY <1>1 DEF Scan
<1>7. PolledOnce'
  <2>1. \A q \in PollFds' : q.revents \subseteq Readiness(q.conn)'
    BY <1>4, <1>6 DEF Readiness
  <2>2. \A p, q \in PollFds' : p.conn = q.conn => p = q
    BY <1>4 DEF DiscInv, PolledOnce
  <2> QED
    BY <2>1, <2>2 DEF PolledOnce
<1>8. PooledOpen' /\ shut' = {} /\ ResultsOnce' /\ ResultsHold'
  BY DEF DiscInv, PooledOpen, IdsExclusive, ResultsOnce, ResultsHold
<1> QED
  BY <1>5, <1>7, <1>8 DEF DiscCore

\* Collect keeps the invariant: every key is found and names its connection.
LEMMA DiscCollect ==
  ASSUME DiscInv, Collect
  PROVE  DiscCore'
<1> USE ConstantAssumption DEF Collect, objects, kernel
<1>1. \A p \in PollFds : /\ Sockets[p.fd].conn = p.conn
                         /\ stage[p.conn] = "pooled"
  BY PolledPooled DEF DiscInv, SnapshotValid
<1>2. \A r \in results' : \E p \in PollFds :
          r.conn = p.conn /\ r.revents = p.revents /\ r = Reported(p)
  BY <1>1 DEF Reported
<1>3. ResultsHold'
  BY <1>1, <1>2 DEF ResultsHold, DiscInv, PolledOnce, Readiness
<1>4. ResultsOnce'
  BY <1>2 DEF ResultsOnce, DiscInv, PolledOnce
<1>5. PooledOpen' /\ shut' = {} /\ SnapshotValid' /\ PolledOnce'
  BY DEF DiscInv, PooledOpen, IdsExclusive, SnapshotValid, PolledOnce
<1> QED
  BY <1>3, <1>4, <1>5 DEF DiscCore

\* Handling a result keeps the invariant.
LEMMA DiscHandle ==
  ASSUME DiscInv, NEW r \in results, Handle(r)
  PROVE  DiscCore'
<1> USE DEF Handle, objects
<1>1. r.conn \in Conn /\ pc = "idle"
  BY ReportedConn DEF MayCall
<1>2. \A s \in results' : s \in results /\ s.conn # r.conn
  BY DEF DiscInv, ResultsOnce
<1>3. ResultsHold'
  <2> SUFFICES ASSUME NEW s \in results'
               PROVE  /\ stage[s.conn] = "pooled"
                      /\ s.revents \subseteq Readiness(s.conn)'
    BY DEF ResultsHold
  <2>1. s \in results /\ s.conn # r.conn /\ s.conn \in Conn
    BY <1>2, ReportedConn
  <2>2. ready'[s.conn] = ready[s.conn]
    BY <2>1, <1>1 DEF DiscInv, HomeInv, TypeOK
  <2> QED
    BY <2>1, <2>2 DEF DiscInv, ResultsHold, Readiness
<1>4. PooledOpen' /\ shut' = {} /\ SnapshotValid' /\ PolledOnce' /\ ResultsOnce'
  BY <1>1 DEF DiscInv, PooledOpen, IdsExclusive, SnapshotValid, PolledOnce,
     ResultsOnce
<1> QED
  BY <1>3, <1>4 DEF DiscCore

\* A Remove by the poller, between two Gets, keeps the invariant.
LEMMA DiscRemove ==
  ASSUME DiscInv, Disciplined, NEW t \in Thread, NEW c \in Conn, Remove(t, c)
  PROVE  DiscCore'
<1>1. t = Poller /\ pc = "idle" /\ pc' = "idle" /\ PollFds' = PollFds
  BY DEF Remove, Disciplined, MayCall
<1>2. Destroy(c) /\ stage[c] = "pooled" /\ results' = {r \in results : r.conn # c}
  BY <1>1 DEF Remove
<1>3. /\ shut' = {}
      /\ \A d \in Conn \ {c} : /\ stage'[d] = stage[d] /\ id'[d] = id[d]
                               /\ ready'[d] = ready[d]
      /\ \A f \in Fd : descriptor[f] # c => descriptor'[f] = descriptor[f]
      /\ stage'[c] = "gone"
  BY <1>2, DestroyOwn
<1>4. PooledOpen'
  BY <1>3 DEF DiscInv, PooledOpen
<1>5. ResultsHold'
  <2> SUFFICES ASSUME NEW s \in results'
               PROVE  /\ stage'[s.conn] = "pooled"
                      /\ s.revents \subseteq Readiness(s.conn)'
    BY DEF ResultsHold
  <2>1. s \in results /\ s.conn # c /\ s.conn \in Conn
    BY <1>2, ReportedConn
  <2>2. shut = {}
    BY DEF DiscInv, IdsExclusive
  <2> QED
    BY <2>1, <2>2, <1>3 DEF DiscInv, ResultsHold, Readiness
<1>6. SnapshotValid' /\ PolledOnce' /\ ResultsOnce'
  BY <1>1, <1>2 DEF DiscInv, SnapshotValid, PolledOnce, ResultsOnce
<1> QED
  BY <1>3, <1>4, <1>5, <1>6 DEF DiscCore

\* Every step of a disciplined use keeps the invariant.
LEMMA DiscStep == DiscInv /\ Disciplined /\ [Next]_vars => DiscInv'
<1> SUFFICES ASSUME DiscInv, Disciplined, [Next]_vars
             PROVE  DiscInv'
  OBVIOUS
<1>1. ASSUME NEW t \in Thread, NEW c \in Conn, NEW f \in Fd, Accept(t, c, f)
      PROVE  DiscCore'
  BY <1>1, DiscOthers
<1>2. ASSUME NEW t \in Thread, NEW c \in Conn,
             Drop(t, c) \/ AddRejected(t, c) \/ AddCollides(t, c)
      PROVE  DiscCore'
  BY <1>2, DiscOthers
<1>3. ASSUME NEW t \in Thread, NEW c \in Conn, NEW e \in Interests,
             AddInsert(t, c, e) \/ Set(t, c, e)
      PROVE  DiscCore'
  BY <1>3, DiscOthers
<1>4. ASSUME NEW c \in Conn, PeerSends(c) \/ PeerReads(c) \/ PeerCloses(c)
      PROVE  DiscCore'
  <2>1. Poller \in Thread
    BY DEF Thread
  <2> QED
    BY <1>4, <2>1, DiscOthers
<1>5. ASSUME NEW t \in Thread, NEW c \in Conn, Remove(t, c)
      PROVE  DiscCore'
  BY <1>5, DiscRemove
<1>6. ASSUME UNCHANGED <<stage, id, descriptor, ready, shut, Sockets, PollFds,
                         results>>, pc' = pc \/ pc' = "idle"
      PROVE  DiscCore'
  BY <1>6 DEF DiscCore, DiscInv, PooledOpen, SnapshotValid, IdsExclusive,
     PolledOnce, ResultsOnce, ResultsHold, Readiness, Keys
<1>7. ASSUME PollTimeout \/ PollFail \/ CollectThrows
      PROVE  DiscCore'
  BY <1>6, <1>7 DEF PollTimeout, PollFail, CollectThrows, objects, kernel
<1>8. ASSUME NEW t \in Thread, AddWake(t)
      PROVE  DiscCore'
  BY <1>6, <1>8 DEF AddWake, objects, kernel, getting
<1>9. ASSUME UNCHANGED vars
      PROVE  DiscCore'
  BY <1>6, <1>9 DEF vars
<1>10. ASSUME NEW r \in results, CloseReference(r)
       PROVE  FALSE
  BY <1>10 DEF CloseReference, Disciplined
<1>11. DiscCore'
  BY <1>1, <1>2, <1>3, <1>4, <1>5, <1>7, <1>8, <1>9, <1>10, DiscFill,
     DiscPollReturn, DiscCollect, DiscHandle
  DEF Next, Peer, Call, Get, Handler
<1>12. HomeInv'
  BY TypeStep, HomeStep DEF DiscInv, HomeInv
<1>13. IdsExclusive'
  <2>1. (HomeInv /\ PooledOpen /\ shut = {})'
    BY <1>11, <1>12 DEF DiscCore
  <2> QED
    BY <2>1, HeldApart, PTL
<1> QED
  BY <1>11, <1>12, <1>13 DEF DiscCore, DiscInv

\* The constructor establishes it.
LEMMA InitDisc == Init => DiscInv
<1> SUFFICES ASSUME Init PROVE DiscInv
  OBVIOUS
<1>1. HomeInv
  BY InitHome
<1> QED
  BY <1>1 DEF Init, DiscInv, PooledOpen, SnapshotValid, IdsExclusive, PolledOnce,
     ResultsOnce, ResultsHold

\* In a disciplined use Get never throws out_of_range, no event reaches the
\* wrong connection, no reference dangles and no destructor reaches past its
\* own connection.
THEOREM DisciplinedSafe ==
  ASSUME Disciplined
  PROVE  Spec => [](SnapshotValid /\ ResultsHold /\ IdsExclusive)
<1>1. DiscInv /\ [Next]_vars => DiscInv'
  BY DiscStep
<1>2. DiscInv => SnapshotValid /\ ResultsHold /\ IdsExclusive
  BY DEF DiscInv
<1> QED
  BY InitDisc, <1>1, <1>2, PTL DEF Spec

=============================================================================
