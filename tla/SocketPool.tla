----------------------------- MODULE SocketPool -----------------------------
(***************************************************************************)
(* TSocketPool (src/lib/posix/net/socket_pool.cpp): a map of connected     *)
(* sockets that one thread polls (Get) while other threads add, change and *)
(* remove sockets under a shared mutex.  Add wakes the polling thread      *)
(* through a pipe.                                                         *)
(*                                                                         *)
(* The mutex makes every locked section one action, with one exception:    *)
(* Add writes its wake-up byte while it still holds the lock, and that     *)
(* write blocks when the pipe is full, so Add is two actions with `writer' *)
(* holding the lock between them.  The mutable PollFds makes the class     *)
(* usable by one polling thread only: Poller is that thread.               *)
(***************************************************************************)
EXTENDS Naturals, FiniteSets

CONSTANTS
    Conn,          \* the connections accepted during the behaviour
    Fd,            \* the descriptor numbers the kernel can give them
    Poller,        \* the thread that calls Get and handles its results
    Workers,       \* the other threads; they accept connections and call Add
    Setters,       \* the workers that also call Set
    Removers,      \* the workers that also call Remove
    ClosesPooled,  \* may a handler Close() a pooled socket by its reference
    HasTimeout,    \* does Get pass poll a finite timeout
    Interests,     \* the EPollEvent values Add and Set are called with
    Capacity,      \* the constructor's argument
    PipeCap,       \* bytes the kernel pipe holds before a write blocks
    BufSize,       \* characters in the buffer of the pipe's input stream
    NoConn, NoFd, NoThread, NoEntry

Thread == Workers \cup {Poller}

\* poll also reports POLLNVAL, for a number that is not an open descriptor.
EPollEvent == {"IN", "OUT", "HUP", "ERR"}
Revents    == EPollEvent \cup {"NVAL"}

Entry == [conn : Conn, event : Interests]

\* `conn' is a history field: the connection the entry was made for.
PollFd == [fd : Fd \cup {NoFd}, events : Interests, revents : SUBSET Revents,
           conn : Conn]

TPollEvent == [conn : Conn, revents : SUBSET Revents]

ASSUME ConstantAssumption ==
    /\ IsFiniteSet(Fd)
    /\ NoConn \notin Conn /\ NoFd \notin Fd /\ NoThread \notin Thread
    /\ NoEntry \notin Entry
    /\ Poller \notin Workers
    /\ Setters \subseteq Workers /\ Removers \subseteq Workers
    /\ ClosesPooled \in BOOLEAN /\ HasTimeout \in BOOLEAN
    /\ Interests \subseteq EPollEvent
    /\ Capacity \in Nat /\ PipeCap \in Nat \ {0} /\ BufSize \in Nat \ {0}

VARIABLES
    stage,       \* where each connection object is
    id,          \* TConnectedSocket::Id, the descriptor it was created with
    descriptor,  \* the kernel's table: the open connection behind a number
    ready,       \* what the kernel would report of a connection
    shut,        \* live connections shut down through another object's Id
    Sockets,     \* the pool's map from Id to connection and interest
    writer,      \* the thread inside Add that still holds the unique lock
    pipe,        \* wake-up bytes in the kernel pipe
    buffered,    \* wake-up characters read into the input stream's buffer
    pollCap,     \* PollFds.capacity()
    pc,          \* where the poller is in Get
    PollFds,     \* the entries the current Get polls, besides the pipe's
    wake,        \* POLLIN in the revents of the pipe's entry
    results      \* what the last Get returned and is not handled yet

kernel  == <<descriptor, ready, shut>>
objects == <<stage, id>>
waking  == <<pipe, buffered>>
getting == <<pc, PollFds, wake, results>>
vars    == <<stage, id, descriptor, ready, shut, Sockets, writer, pipe,
             buffered, pollCap, pc, PollFds, wake, results>>

-----------------------------------------------------------------------------
Keys == {k \in Fd : Sockets[k] # NoEntry}

\* socket.GetFd().Get(): -1 once the socket was closed.
GetFd(c) == IF id[c] \in Fd /\ descriptor[id[c]] = c THEN id[c] ELSE NoFd

\* The lock is free, and t is neither inside Add nor inside Get.
MayCall(t) ==
    /\ writer = NoThread
    /\ t = Poller => pc = "idle"

Init ==
    /\ stage = [c \in Conn |-> "fresh"]
    /\ id = [c \in Conn |-> NoFd]
    /\ descriptor = [f \in Fd |-> NoConn]
    /\ ready = [c \in Conn |-> {}]
    /\ shut = {}
    /\ Sockets = [f \in Fd |-> NoEntry]
    /\ writer = NoThread
    /\ pipe = 0 /\ buffered = 0
    /\ pollCap = Capacity + 1
    /\ pc = "idle" /\ PollFds = {} /\ wake = FALSE /\ results = {}

-----------------------------------------------------------------------------
(* Connections: created by Accept, destroyed by their owner or by the pool. *)

\* accept() returns a number that is free in the table; the TConnectedSocket
\* made from it remembers the number as its Id.
Accept(t, c, f) ==
    /\ writer # t /\ (t = Poller => pc = "idle")
    /\ stage[c] = "fresh" /\ descriptor[f] = NoConn
    /\ stage' = [stage EXCEPT ![c] = "held"]
    /\ id' = [id EXCEPT ![c] = f]
    /\ descriptor' = [descriptor EXCEPT ![f] = c]
    /\ ready' = [ready EXCEPT ![c] = {"OUT"}]
    /\ UNCHANGED <<shut, Sockets, writer, waking, pollCap, getting>>

\* ~TConnectedSocket: shutdown(Id), whoever has that number by now, then the
\* stream closes its own descriptor if it still has one.
Destroy(c) ==
    /\ stage' = [stage EXCEPT ![c] = "gone"]
    /\ id' = [id EXCEPT ![c] = NoFd]
    /\ descriptor' = [f \in Fd |-> IF descriptor[f] = c THEN NoConn
                                                        ELSE descriptor[f]]
    /\ ready' = [ready EXCEPT ![c] = {}]
    /\ shut' = (shut \cup {d \in Conn \ {c} : descriptor[id[c]] = d}) \ {c}

\* A thread destroys a connection it has not handed to the pool.
Drop(t, c) ==
    /\ writer # t /\ (t = Poller => pc = "idle")
    /\ stage[c] = "held"
    /\ Destroy(c)
    /\ UNCHANGED <<Sockets, writer, waking, pollCap, getting>>

PeerSends(c) ==
    /\ stage[c] \in {"held", "pooled"} /\ GetFd(c) \in Fd
    /\ "IN" \notin ready[c]
    /\ ready' = [ready EXCEPT ![c] = @ \cup {"IN"}]
    /\ UNCHANGED <<objects, descriptor, shut, Sockets, writer, waking,
                   pollCap, getting>>

PeerReads(c) ==
    /\ stage[c] \in {"held", "pooled"} /\ GetFd(c) \in Fd
    /\ "OUT" \notin ready[c]
    /\ ready' = [ready EXCEPT ![c] = @ \cup {"OUT"}]
    /\ UNCHANGED <<objects, descriptor, shut, Sockets, writer, waking,
                   pollCap, getting>>

PeerCloses(c) ==
    /\ stage[c] \in {"held", "pooled"} /\ GetFd(c) \in Fd
    /\ "HUP" \notin ready[c]
    /\ ready' = [ready EXCEPT ![c] = @ \cup {"IN", "HUP"}]
    /\ UNCHANGED <<objects, descriptor, shut, Sockets, writer, waking,
                   pollCap, getting>>

-----------------------------------------------------------------------------
(* Add, Set and Remove: under the unique lock. *)

Full == pollCap < Cardinality(Keys)

\* Add throws "Too many sockets in pool"; the caller's temporary goes with
\* the exception.
AddRejected(t, c) ==
    /\ MayCall(t) /\ stage[c] = "held"
    /\ Full
    /\ Destroy(c)
    /\ UNCHANGED <<Sockets, writer, waking, pollCap, getting>>

\* Fault: Add releases the lock without the wake-up.
SilentAddInsert(t, c, e) ==
    /\ MayCall(t) /\ stage[c] = "held"
    /\ ~Full
    /\ Sockets[id[c]] = NoEntry
    /\ Sockets' = [Sockets EXCEPT ![id[c]] = [conn |-> c, event |-> e]]
    /\ stage' = [stage EXCEPT ![c] = "pooled"]
    /\ UNCHANGED <<id, kernel, writer, waking, pollCap, getting>>

\* The first part of Add: the socket moves into the map.
AddInsert(t, c, e) ==
    /\ MayCall(t) /\ stage[c] = "held"
    /\ ~Full
    /\ Sockets[id[c]] = NoEntry
    /\ Sockets' = [Sockets EXCEPT ![id[c]] = [conn |-> c, event |-> e]]
    /\ stage' = [stage EXCEPT ![c] = "pooled"]
    /\ writer' = t
    /\ UNCHANGED <<id, kernel, waking, pollCap, getting>>

\* Fault: the new entry replaces the old one, whose socket stays open.
ReplacingAddCollides(t, c) ==
    /\ MayCall(t) /\ stage[c] = "held"
    /\ ~Full
    /\ Sockets[id[c]] # NoEntry
    /\ Sockets' = [Sockets EXCEPT ![id[c]].conn = c]
    /\ stage' = [stage EXCEPT ![c] = "pooled"]
    /\ writer' = t
    /\ UNCHANGED <<id, kernel, waking, pollCap, getting>>

\* emplace finds the Id taken, by a pooled socket that was closed through its
\* reference: the map stays as it is, the new connection is destroyed, and
\* Add goes on to its wake-up as if it had been added.
AddCollides(t, c) ==
    /\ MayCall(t) /\ stage[c] = "held"
    /\ ~Full
    /\ Sockets[id[c]] # NoEntry
    /\ Destroy(c)
    /\ writer' = t
    /\ UNCHANGED <<Sockets, waking, pollCap, getting>>

\* The second part of Add: Pipe.second << '0' << std::flush, a write that
\* blocks while the pipe is full, then the lock is released.  No signal
\* interrupts the write: the library installs no handlers, and a program with
\* one that does not restart calls, whose Add goes on without the byte, is not
\* modelled.
AddWake(t) ==
    /\ writer = t
    /\ pipe < PipeCap
    /\ pipe' = pipe + 1
    /\ writer' = NoThread
    /\ UNCHANGED <<objects, kernel, Sockets, buffered, pollCap, getting>>

\* Set changes the interest of a pooled socket and wakes nobody.
Set(t, c, e) ==
    /\ t \in Setters \cup {Poller} /\ MayCall(t)
    /\ stage[c] = "pooled" /\ Sockets[id[c]].event # e
    /\ Sockets' = [Sockets EXCEPT ![id[c]].event = e]
    /\ UNCHANGED <<objects, kernel, writer, waking, pollCap, getting>>

\* Fault: the socket is destroyed and its key stays in the map.
KeepingRemove(t, c) ==
    /\ t \in Removers \cup {Poller} /\ MayCall(t)
    /\ stage[c] = "pooled"
    /\ Destroy(c)
    /\ results' = IF t = Poller THEN {r \in results : r.conn # c} ELSE results
    /\ UNCHANGED <<Sockets, writer, waking, pollCap, pc, PollFds, wake>>

\* Remove erases a pooled socket and destroys it.  The poller drops the result
\* that referred to it; a reference another thread's Remove leaves dangles.
Remove(t, c) ==
    /\ t \in Removers \cup {Poller} /\ MayCall(t)
    /\ stage[c] = "pooled"
    /\ Sockets' = [Sockets EXCEPT ![id[c]] = NoEntry]
    /\ Destroy(c)
    /\ results' = IF t = Poller THEN {r \in results : r.conn # c} ELSE results
    /\ UNCHANGED <<writer, waking, pollCap, pc, PollFds, wake>>

-----------------------------------------------------------------------------
(* Get. *)

PollFdOf(k) == [fd |-> GetFd(Sockets[k].conn), events |-> Sockets[k].event,
                revents |-> {}, conn |-> Sockets[k].conn]

\* The vector doubles until n entries fit; Add lets n exceed the capacity by
\* two at most, and the smallest capacity is one.
Grown(cap, n) == IF n <= cap THEN cap
                 ELSE IF n <= 2 * cap THEN 2 * cap ELSE 4 * cap

\* Fault: Get does not clear the entries of the call before.
UnclearedFill ==
    /\ pc = "idle" /\ writer = NoThread
    /\ PollFds' = PollFds \cup {PollFdOf(k) : k \in Keys}
    /\ pollCap' = Grown(pollCap, 1 + Cardinality(Keys))
    /\ pc' = "polling" /\ results' = {}
    /\ UNCHANGED <<objects, kernel, Sockets, writer, waking, wake>>

\* Fault: every entry asks for input, whatever the socket's interest.
InputOnlyFill ==
    /\ pc = "idle" /\ writer = NoThread
    /\ PollFds' = {[PollFdOf(k) EXCEPT !.events = "IN"] : k \in Keys}
    /\ pollCap' = Grown(pollCap, 1 + Cardinality(Keys))
    /\ pc' = "polling" /\ results' = {}
    /\ UNCHANGED <<objects, kernel, Sockets, writer, waking, wake>>

\* Get up to poll: one entry for the pipe and one for every socket, under the
\* shared lock.
Fill ==
    /\ pc = "idle" /\ writer = NoThread
    /\ PollFds' = {PollFdOf(k) : k \in Keys}
    /\ pollCap' = Grown(pollCap, 1 + Cardinality(Keys))
    /\ pc' = "polling" /\ results' = {}
    /\ UNCHANGED <<objects, kernel, Sockets, writer, waking, wake>>

\* What poll finds behind the number of p: it looks the number up each time
\* it scans, ignores -1, and always reports hang-ups and errors.
Readiness(c) == ready[c] \cup (IF c \in shut THEN {"IN", "OUT", "HUP"} ELSE {})
Scan(p) ==
    IF p.fd = NoFd THEN {}
    ELSE IF descriptor[p.fd] = NoConn THEN {"NVAL"}
    ELSE Readiness(descriptor[p.fd]) \cap {p.events, "HUP", "ERR"}

SomethingToReport == pipe > 0 \/ \E p \in PollFds : Scan(p) # {}

\* poll returns a positive number.
PollReturn ==
    /\ pc = "polling" /\ SomethingToReport
    /\ PollFds' = {[p EXCEPT !.revents = Scan(p)] : p \in PollFds}
    /\ wake' = (pipe > 0)
    /\ pc' = "returned"
    /\ UNCHANGED <<objects, kernel, Sockets, writer, waking, pollCap, results>>

\* poll returns zero: Get returns an empty vector.
PollTimeout ==
    /\ pc = "polling" /\ ~SomethingToReport /\ HasTimeout
    /\ pc' = "idle"
    /\ UNCHANGED <<objects, kernel, Sockets, writer, waking, pollCap, PollFds,
                   wake, results>>

\* A signal interrupts a poll that has nothing to report: Get throws.
PollFail ==
    /\ pc = "polling" /\ ~SomethingToReport
    /\ pc' = "idle"
    /\ UNCHANGED <<objects, kernel, Sockets, writer, waking, pollCap, PollFds,
                   wake, results>>

Drained == IF pipe < BufSize THEN pipe ELSE BufSize

\* Fault: the command is looked at and left in the buffer.
PeekCommand ==
    IF buffered > 0
    THEN UNCHANGED waking
    ELSE /\ pipe' = pipe - Drained
         /\ buffered' = Drained

\* Pipe.first >> command: one character from the stream's buffer, which is
\* filled with what the pipe holds when it is empty.
ReadCommand ==
    IF buffered > 0
    THEN /\ buffered' = buffered - 1
         /\ UNCHANGED pipe
    ELSE /\ pipe' = pipe - Drained
         /\ buffered' = Drained - 1

ConsumeWake == IF wake THEN ReadCommand ELSE UNCHANGED waking

\* Sockets.at(fd) for every entry, reported or not.
AllFound == \A p \in PollFds : p.fd \in Keys

Reported(p) == [conn |-> Sockets[p.fd].conn, revents |-> p.revents]

\* Fault: the caller gets the events it asked for, not those that occurred.
RequestedCollect ==
    /\ pc = "returned" /\ writer = NoThread
    /\ AllFound
    /\ ConsumeWake
    /\ results' = {[conn |-> Sockets[p.fd].conn, revents |-> {p.events}] :
                       p \in {q \in PollFds : q.revents # {}}}
    /\ pc' = "idle" /\ wake' = FALSE
    /\ UNCHANGED <<objects, kernel, Sockets, writer, pollCap, PollFds>>

\* Fault: the second lock is forgotten.
UnlockedCollect ==
    /\ pc = "returned"
    /\ AllFound
    /\ ConsumeWake
    /\ results' = {Reported(p) : p \in {q \in PollFds : q.revents # {}}}
    /\ pc' = "idle" /\ wake' = FALSE
    /\ UNCHANGED <<objects, kernel, Sockets, writer, pollCap, PollFds>>

\* Get after poll, under the shared lock: take the wake-up, look every polled
\* number up in the map, and return a reference for each that has events.
Collect ==
    /\ pc = "returned" /\ writer = NoThread
    /\ AllFound
    /\ ConsumeWake
    /\ results' = {Reported(p) : p \in {q \in PollFds : q.revents # {}}}
    /\ pc' = "idle" /\ wake' = FALSE
    /\ UNCHANGED <<objects, kernel, Sockets, writer, pollCap, PollFds>>

\* A polled number has left the map: at() throws out of Get after the wake-up
\* was taken, and what was found so far is lost.
CollectThrows ==
    /\ pc = "returned" /\ writer = NoThread
    /\ ~AllFound
    /\ ConsumeWake
    /\ pc' = "idle" /\ wake' = FALSE
    /\ UNCHANGED <<objects, kernel, Sockets, writer, pollCap, PollFds, results>>

-----------------------------------------------------------------------------
(* The poller between two Gets handles what Get returned. *)

\* It reads all the input, or fills the peer's window, as reported.  The end
\* of a stream stays readable.
Handle(r) ==
    /\ MayCall(Poller) /\ r \in results
    /\ results' = results \ {r}
    /\ ready' = [ready EXCEPT ![r.conn] = IF "HUP" \in @ THEN @
                                                        ELSE @ \ r.revents]
    /\ UNCHANGED <<objects, descriptor, shut, Sockets, writer, waking, pollCap,
                   pc, PollFds, wake>>

\* It calls Close() on the reference instead of Remove.
CloseReference(r) ==
    /\ ClosesPooled
    /\ MayCall(Poller) /\ r \in results
    /\ stage[r.conn] = "pooled" /\ GetFd(r.conn) \in Fd
    /\ descriptor' = [descriptor EXCEPT ![id[r.conn]] = NoConn]
    /\ ready' = [ready EXCEPT ![r.conn] = {}]
    /\ shut' = shut \ {r.conn}
    /\ results' = results \ {r}
    /\ UNCHANGED <<objects, Sockets, writer, waking, pollCap, pc, PollFds, wake>>

-----------------------------------------------------------------------------
Peer == \E c \in Conn : PeerSends(c) \/ PeerReads(c) \/ PeerCloses(c)

Call(t) ==
    \/ \E c \in Conn, f \in Fd : Accept(t, c, f)
    \/ \E c \in Conn : Drop(t, c) \/ AddRejected(t, c) \/ AddCollides(t, c)
                       \/ Remove(t, c)
    \/ \E c \in Conn, e \in Interests : AddInsert(t, c, e) \/ Set(t, c, e)
    \/ AddWake(t)

Get == Fill \/ PollReturn \/ PollTimeout \/ PollFail \/ Collect \/ CollectThrows

Handler == \E r \in results : Handle(r) \/ CloseReference(r)

Next == Peer \/ (\E t \in Thread : Call(t)) \/ Get \/ Handler

Spec == Init /\ [][Next]_vars

\* The poller is an event loop: it calls Get again after every Get, and the
\* scheduler lets it run.  A write to a pipe with room, a poll with something
\* to report and a finite timeout come to an end.  Nothing is assumed of the
\* peers, of the workers' calls or of the handler.
LiveSpec ==
    /\ Spec
    /\ WF_vars(Fill) /\ WF_vars(PollReturn) /\ WF_vars(PollTimeout)
    /\ WF_vars(Collect) /\ WF_vars(CollectThrows)
    /\ \A t \in Thread : WF_vars(AddWake(t))

-----------------------------------------------------------------------------
(* Properties of every use of the pool by one polling thread. *)

\* Each variable has its type: in particular a read never leaves a full stream
\* buffer (TBasicIFdStreamBuf::sync) and a write never overfills the pipe.
TypeOK ==
    /\ stage \in [Conn -> {"fresh", "held", "pooled", "gone"}]
    /\ id \in [Conn -> Fd \cup {NoFd}]
    /\ descriptor \in [Fd -> Conn \cup {NoConn}]
    /\ ready \in [Conn -> SUBSET EPollEvent]
    /\ shut \subseteq Conn
    /\ Sockets \in [Fd -> Entry \cup {NoEntry}]
    /\ writer \in Thread \cup {NoThread}
    /\ pipe \in 0..PipeCap
    /\ buffered \in 0..(BufSize - 1)
    /\ pollCap \in Nat \ {0}
    /\ pc \in {"idle", "polling", "returned"}
    /\ PollFds \subseteq PollFd
    /\ wake \in BOOLEAN /\ (wake => pc = "returned" /\ pipe > 0)
    /\ results \subseteq TPollEvent

\* While the poller sleeps on a list that misses a pooled socket, a byte is in
\* the pipe or the adding thread is still about to write it: no Add goes
\* unnoticed, although the stream's buffer swallows many bytes at a time.
NoLostWakeup ==
    pc = "polling" /\ (\E k \in Keys : \A p \in PollFds :
                                           p.conn # Sockets[k].conn)
        => pipe > 0 \/ writer # NoThread

\* What Add's check of PollFds.capacity() really guarantees: one socket more
\* than the vector has room for, a vector that starts one above the
\* constructor's argument and that Get lets grow.
PoolBounded ==
    /\ pollCap > Capacity
    /\ Cardinality(Keys) <= pollCap + 1

\* A pooled connection is in the map once, under the Id it remembers; nothing
\* else is in the map; and a connection in no map still has its descriptor.
\* Add's failing emplace, Remove and Drop neither orphan nor duplicate one.
OneHome ==
    /\ \A k \in Keys : stage[Sockets[k].conn] = "pooled" /\ id[Sockets[k].conn] = k
    /\ \A c \in Conn : stage[c] = "pooled" =>
           id[c] \in Keys /\ Sockets[id[c]].conn = c
    /\ \A c \in Conn : stage[c] = "held" => GetFd(c) = id[c] /\ id[c] \in Fd

\* Add waits for room in the pipe with the lock Get needs to make room.
Wedged == writer # NoThread /\ pipe = PipeCap

\* Once a wake-up byte has to wait, the pool is wedged for good: no step of
\* any thread lets the Add go on.
WedgeIsForever == [][Wedged => Wedged']_vars

-----------------------------------------------------------------------------
(* Properties of a disciplined use: only the polling thread removes sockets, *)
(* and it does so by Remove.                                                 *)

Disciplined == Removers = {} /\ ~ClosesPooled

\* From Fill to Collect every polled number stays the descriptor and the key
\* of the socket it was taken from: Get throws no out_of_range and puts no
\* event down to the wrong connection, however many Adds, Sets and closes of
\* other connections happen while it polls without the lock.
SnapshotValid ==
    pc \in {"polling", "returned"} =>
        \A p \in PollFds : /\ p.fd \in Keys /\ Sockets[p.fd].conn = p.conn
                           /\ descriptor[p.fd] = p.conn

\* The references Get returned stay valid until the poller is done with them,
\* and what they report is still so.
ResultsHold ==
    \A r \in results : /\ stage[r.conn] = "pooled"
                       /\ r.revents \subseteq Readiness(r.conn)

\* No new connection meets the Id of a pooled one, and no destructor shuts a
\* connection down that is not its own.
IdsExclusive ==
    /\ shut = {}
    /\ \A c \in Conn : stage[c] = "held" => Sockets[id[c]] = NoEntry

-----------------------------------------------------------------------------
(* Liveness, for a disciplined use. *)

\* Every socket added is polled in the end, with no help from a timeout,
\* unless it is removed before or the pool wedges.
AddedIsPolled ==
    \A c \in Conn :
        stage[c] = "pooled" ~> \/ pc = "polling" /\ \E p \in PollFds : p.conn = c
                               \/ stage[c] # "pooled"
                               \/ Wedged

Unreported(c) ==
    /\ stage[c] = "pooled"
    /\ Sockets[id[c]].event \in ready[c]
    /\ \A r \in results : r.conn # c

\* A pooled socket with the event it waits for is reported in the end.  Set
\* does not wake the poller, so where other threads call Set this needs a
\* finite timeout.
ReadyIsReported ==
    \A c \in Conn : Unreported(c) ~> ~Unreported(c) \/ Wedged

\* Wake-ups come to an end: the characters the stream reads ahead cost a
\* wake-up each at most, never an endless run of empty Gets.
WakeupsQuiesce == <>[](pipe = 0 \/ Wedged)

-----------------------------------------------------------------------------
\* What the constructor's argument and the text of Add's exception say.
PoolWithinCapacity == Cardinality(Keys) <= Capacity

=============================================================================
