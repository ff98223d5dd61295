------------------------------- MODULE Server -------------------------------
(***************************************************************************)
(* TServer and TClient (src/lib/posix/net/server.h, server.cpp, client.h,  *)
(* client.cpp), their stop tokens, and the end of a TConnectedSocket       *)
(* (socket.cpp): servers that follow each other on one UNIX socket path,   *)
(* the threads in each one's accept loop, and clients that send requests   *)
(* and wait for answers.                                                   *)
(*                                                                         *)
(* Each server and each client is a process of its own, and a client       *)
(* connects once, so that it names its connection.  Requests and answers   *)
(* are one byte; what the streams do with more is the subject of FdStream. *)
(* A handler reads one request, answers it and lets its connection go,     *)
(* which is what a replier that takes the connection by value does.        *)
(***************************************************************************)
EXTENDS Naturals, FiniteSets

CONSTANTS
    Server,    \* the TServer objects, one after the other or at once
    Worker,    \* the threads that call operator() of a server
    Home,      \* the server of each worker
    Client,    \* the TClient objects
    Connects,  \* listen's backlog
    NoServer, NoClient

ASSUME ConstantAssumption ==
    /\ NoServer \notin Server /\ NoClient \notin Client
    /\ Home \in [Worker -> Server]
    /\ Connects \in Nat \ {0}

VARIABLES
    phase,    \* the life of each TServer
    path,     \* the server that bound the socket's file, if it exists
    Stopped,  \* the stop tokens of the servers
    loop,     \* where each worker is in operator()
    serving,  \* the connection each worker's handler has
    backlog,  \* the connections the kernel holds for each server
    late,     \* history: the workers that accepted after the stop, with whom
    peer,     \* where each client is
    host,     \* the server each client connected to
    request,  \* the requests on their way
    answer    \* the answer to each client

server == <<phase, path, Stopped>>
loops  == <<loop, serving, backlog, late>>
client == <<peer, host, request, answer>>
vars   == <<phase, path, Stopped, loop, serving, backlog, late, peer, host,
            request, answer>>

Phase == {"none", "listening", "unbound", "halfway", "released", "closed", "crashed"}
Step  == {"idle", "check", "accept", "read", "reply", "flushed", "ended", "threw"}
Peer  == {"out", "refused", "check", "waits", "told", "gone"}
\* An answer is in the stream's buffer, with the kernel, or gone.
Answer == {"none", "buffered", "sent", "lost"}

InLoop == {"check", "accept", "read", "reply", "flushed"}

Init ==
    /\ phase = [s \in Server |-> "none"]
    /\ path = NoServer
    /\ Stopped = [s \in Server |-> FALSE]
    /\ loop = [w \in Worker |-> "idle"]
    /\ serving = [w \in Worker |-> NoClient]
    /\ backlog = [s \in Server |-> {}]
    /\ late = {}
    /\ peer = [c \in Client |-> "out"]
    /\ host = [c \in Client |-> NoServer]
    /\ request = {}
    /\ answer = [c \in Client |-> "none"]

Goes(w, step)  == loop' = [loop EXCEPT ![w] = step]
Enters(s, new) == phase' = [phase EXCEPT ![s] = new]

Workers(s) == {w \in Worker : Home[w] = s}

\* The clients that a server's kernel still connects to it.
Connected(s) == backlog[s] \cup ({serving[w] : w \in Workers(s)} \ {NoClient})

-----------------------------------------------------------------------------
(* The life of a server. *)

\* Fault: the constructor removes a file that is there.
ConstructAnyway(s) ==
    /\ phase[s] = "none"
    /\ Enters(s, "listening")
    /\ path' = s
    /\ loop' = [w \in Worker |-> IF Home[w] = s THEN "check" ELSE loop[w]]
    /\ UNCHANGED <<Stopped, serving, backlog, late, client>>

\* TServer(replier, path, connects): bind, then listen.  The program's threads
\* call operator() at once.
Construct(s) ==
    /\ phase[s] = "none" /\ path = NoServer
    /\ Enters(s, "listening")
    /\ path' = s
    /\ loop' = [w \in Worker |-> IF Home[w] = s THEN "check" ELSE loop[w]]
    /\ UNCHANGED <<Stopped, serving, backlog, late, client>>

\* bind: the file exists, whoever made it.
BindThrows(s) ==
    /\ phase[s] = "none" /\ path # NoServer
    /\ Enters(s, "unbound")
    /\ UNCHANGED <<path, Stopped, loops, client>>

\* listen fails: the constructor throws, so that the destructor, which would
\* remove the file, does not run.
ListenThrows(s) ==
    /\ phase[s] = "none" /\ path = NoServer
    /\ Enters(s, "halfway")
    /\ path' = s
    /\ UNCHANGED <<Stopped, loops, client>>

\* TStopToken::Stop, from any thread.
Stop(s) ==
    /\ phase[s] = "listening" /\ ~Stopped[s]
    /\ Stopped' = [Stopped EXCEPT ![s] = TRUE]
    /\ UNCHANGED <<phase, path, loops, client>>

\* ~TServer: first the file, then, in the socket's destructor, the socket.  The
\* program lets its threads come out of the loop first.
Release(s) ==
    /\ phase[s] = "listening"
    /\ \A w \in Workers(s) : loop[w] \notin InLoop
    /\ Enters(s, "released")
    /\ path' = NoServer
    /\ UNCHANGED <<Stopped, loops, client>>

\* Fault: the listening socket stays open.
CloseForgets(s) ==
    /\ phase[s] = "released"
    /\ Enters(s, "closed")
    /\ UNCHANGED <<path, Stopped, loops, client>>

CloseSocket(s) ==
    /\ phase[s] = "released"
    /\ Enters(s, "closed")
    /\ backlog' = [backlog EXCEPT ![s] = {}]
    /\ UNCHANGED <<path, Stopped, loop, serving, late, client>>

\* The process dies: the kernel closes its sockets and leaves the file.
Dies(s) ==
    /\ Enters(s, "crashed")
    /\ loop' = [w \in Worker |-> IF Home[w] = s THEN "ended" ELSE loop[w]]
    /\ serving' = [w \in Worker |-> IF Home[w] = s THEN NoClient ELSE serving[w]]
    /\ backlog' = [backlog EXCEPT ![s] = {}]

Crash(s) ==
    /\ phase[s] = "listening"
    /\ Dies(s)
    /\ UNCHANGED <<path, Stopped, late, client>>

-----------------------------------------------------------------------------
(* The accept loop: while (!token && Replier(Accept(Socket))); *)

\* Fault: the loop goes on without a look at the token.
CheckNothing(w) ==
    /\ loop[w] = "check"
    /\ Goes(w, "accept")
    /\ UNCHANGED <<server, serving, backlog, late, client>>

\* Fault: a thread that is stopped waits for the token to be cleared.
CheckWaits(w) ==
    /\ loop[w] = "check" /\ ~Stopped[Home[w]]
    /\ Goes(w, "accept")
    /\ UNCHANGED <<server, serving, backlog, late, client>>

Check(w) ==
    /\ loop[w] = "check"
    /\ Goes(w, IF Stopped[Home[w]] THEN "ended" ELSE "accept")
    /\ UNCHANGED <<server, serving, backlog, late, client>>

Accept(w, c) ==
    /\ loop[w] = "accept" /\ c \in backlog[Home[w]]
    /\ Goes(w, "read")
    /\ serving' = [serving EXCEPT ![w] = c]
    /\ backlog' = [backlog EXCEPT ![Home[w]] = @ \ {c}]
    /\ late' = IF Stopped[Home[w]] THEN late \cup {<<w, c>>} ELSE late
    /\ UNCHANGED <<server, client>>

\* accept fails, for want of a descriptor for instance: the exception leaves
\* the loop.
AcceptThrows(w) ==
    /\ loop[w] = "accept"
    /\ Goes(w, "threw")
    /\ UNCHANGED <<server, serving, backlog, late, client>>

\* The handler reads a request, or the end of the input of a client that left.
Read(w) ==
    /\ loop[w] = "read"
    /\ LET c == serving[w]
       IN  /\ c \in request \/ peer[c] = "gone"
           /\ request' = request \ {c}
           /\ answer' = IF c \in request THEN [answer EXCEPT ![c] = "buffered"]
                                         ELSE answer
    /\ Goes(w, "reply")
    /\ UNCHANGED <<server, serving, backlog, late, peer, host>>

\* A write to a connection that either side has shut down.  The library leaves
\* SIGPIPE alone, and its default is the end of the process.
Breaks(s, c) ==
    /\ Dies(s)
    /\ answer' = [answer EXCEPT ![c] = "lost"]

\* The handler flushes what it wrote.
Flush(w) ==
    /\ loop[w] = "reply"
    /\ LET c == serving[w]
       IN  IF answer[c] = "buffered" /\ peer[c] = "gone"
           THEN Breaks(Home[w], c)
           ELSE /\ answer' = IF answer[c] = "buffered"
                             THEN [answer EXCEPT ![c] = "sent"] ELSE answer
                /\ Goes(w, "flushed")
                /\ UNCHANGED <<phase, serving, backlog>>
    /\ UNCHANGED <<path, Stopped, late, peer, host, request>>

\* Fault: the destructor clears the error and nothing else happens.
ReplyQuietly(w, next) ==
    /\ loop[w] \in {"reply", "flushed"}
    /\ LET c == serving[w]
       IN  answer' = IF answer[c] = "buffered"
                     THEN [answer EXCEPT ![c] = "lost"] ELSE answer
    /\ Goes(w, next)
    /\ serving' = [serving EXCEPT ![w] = NoClient]
    /\ UNCHANGED <<phase, backlog, path, Stopped, late, peer, host, request>>

\* The replier returns or throws, and its connection is destroyed.  The
\* destructor of TConnectedSocket shuts the connection down before that of its
\* base class flushes what is left in the buffer.
Reply(w, next) ==
    /\ loop[w] \in {"reply", "flushed"}
    /\ LET c == serving[w]
       IN  IF answer[c] = "buffered"
           THEN Breaks(Home[w], c)
           ELSE /\ Goes(w, next)
                /\ serving' = [serving EXCEPT ![w] = NoClient]
                /\ UNCHANGED <<phase, backlog, answer>>
    /\ UNCHANGED <<path, Stopped, late, peer, host, request>>

-----------------------------------------------------------------------------
(* Clients: while (!token && Sender(Socket));  The sender writes a request, *)
(* flushes it and waits for the answer.                                     *)

\* Does a server listen behind the file?
Listening == path # NoServer /\ phase[path] = "listening"

\* ConnectUNIX.  With a full backlog connect waits.
Connect(c) ==
    /\ peer[c] = "out"
    /\ Listening
    /\ Cardinality(backlog[path]) < Connects
    /\ backlog' = [backlog EXCEPT ![path] = @ \cup {c}]
    /\ host' = [host EXCEPT ![c] = path]
    /\ peer' = [peer EXCEPT ![c] = "check"]
    /\ UNCHANGED <<server, loop, serving, late, request, answer>>

\* There is no file, or nobody listens behind it.
ConnectThrows(c) ==
    /\ peer[c] = "out"
    /\ ~Listening
    /\ peer' = [peer EXCEPT ![c] = "refused"]
    /\ UNCHANGED <<server, loops, host, request, answer>>

\* The sender's request.
Send(c) ==
    /\ peer[c] = "check" /\ c \in Connected(host[c])
    /\ request' = request \cup {c}
    /\ peer' = [peer EXCEPT ![c] = "waits"]
    /\ UNCHANGED <<server, loops, host, answer>>

\* The answer, or the end of the input when the server has let go.
Receive(c) ==
    /\ peer[c] = "waits"
    /\ answer[c] = "sent" \/ c \notin Connected(host[c])
    /\ peer' = [peer EXCEPT ![c] = "told"]
    /\ UNCHANGED <<server, loops, host, request, answer>>

\* The sender returns false or the token is set: ~TClient closes the socket.
\* A client whose server has let go before its request dies of SIGPIPE.
Leave(c) ==
    /\ peer[c] \in {"check", "told"}
    /\ peer' = [peer EXCEPT ![c] = "gone"]
    /\ UNCHANGED <<server, loops, host, request, answer>>

\* The client dies while it waits.
Vanish(c) ==
    /\ peer[c] = "waits"
    /\ peer' = [peer EXCEPT ![c] = "gone"]
    /\ UNCHANGED <<server, loops, host, request, answer>>

-----------------------------------------------------------------------------
WorkerStep(w) ==
    \/ Check(w)
    \/ \E c \in Client : Accept(w, c)
    \/ Read(w)
    \/ Flush(w)
    \/ \E next \in {"check", "ended", "threw"} : Reply(w, next)

ClientStep(c) == Send(c) \/ Receive(c) \/ Leave(c)

Next ==
    \/ \E s \in Server :
        \/ Construct(s) \/ BindThrows(s) \/ ListenThrows(s)
        \/ Stop(s) \/ Release(s) \/ CloseSocket(s) \/ Crash(s)
    \/ \E w \in Worker : AcceptThrows(w) \/ WorkerStep(w)
    \/ \E c \in Client : Connect(c) \/ ConnectThrows(c) \/ Vanish(c) \/ ClientStep(c)

Spec == Init /\ [][Next]_vars

\* Threads run, handlers and senders come to an end, and a server whose loops
\* are over is destroyed.  Nobody has to connect, stop or crash.
Fairness ==
    /\ \A s \in Server : WF_vars(Release(s)) /\ WF_vars(CloseSocket(s))
    /\ \A w \in Worker : WF_vars(WorkerStep(w))
    /\ \A c \in Client : WF_vars(ClientStep(c))

LiveSpec == Spec /\ Fairness

-----------------------------------------------------------------------------
(* Properties. *)

\* Every variable has its type, and a worker has a connection exactly while its
\* replier runs.
TypeOK ==
    /\ phase \in [Server -> Phase]
    /\ path \in Server \cup {NoServer}
    /\ Stopped \in [Server -> BOOLEAN]
    /\ loop \in [Worker -> Step]
    /\ serving \in [Worker -> Client \cup {NoClient}]
    /\ backlog \in [Server -> SUBSET Client]
    /\ late \subseteq Worker \X Client
    /\ peer \in [Client -> Peer]
    /\ host \in [Client -> Server \cup {NoServer}]
    /\ request \subseteq Client
    /\ answer \in [Client -> Answer]
    /\ \A w \in Worker :
          serving[w] # NoClient <=> loop[w] \in {"read", "reply", "flushed"}

\* The loop looks at the token between two connections only: after the stop
\* each thread still accepts one connection, and never a second one.
StopBound ==
    \A w \in Worker : Cardinality({c \in Client : <<w, c>> \in late}) <= 1

\* The file is there as long as its server listens, so that no two servers
\* listen; otherwise it was left by a crash or by a constructor that threw.
PathExplained ==
    /\ \A s \in Server : phase[s] = "listening" => path = s
    /\ path # NoServer => phase[path] \in {"listening", "halfway", "crashed"}

\* An answer is lost only in the destructor of a connection that was not
\* flushed or on the way to a client that died, and then not quietly: the
\* server is gone, and its file keeps every later one from starting.
LostAnswerBlocksPath ==
    \A c \in Client :
        answer[c] = "lost" => path = host[c] /\ phase[host[c]] = "crashed"

\* A thread that is stopped comes out of the loop, or sleeps in accept until
\* another client connects.
StopNoticed ==
    \A w \in Worker :
        (Stopped[Home[w]] /\ loop[w] \in InLoop)
            ~> \/ loop[w] \notin InLoop
               \/ loop[w] = "accept" /\ backlog[Home[w]] = {}

\* A client that waits is answered or told that the server let go, also when
\* the threads end while it is in the backlog, and when its answer was lost.
ClientsTold ==
    \A c \in Client : (peer[c] = "waits") ~> (peer[c] # "waits")

=============================================================================
