---------------------------- MODULE ServerProofs ----------------------------
(***************************************************************************)
(* The safety properties of servers and clients, for any numbers of        *)
(* servers, threads and clients and any backlog.                           *)
(***************************************************************************)
EXTENDS Server, FiniteSetTheorems, TLAPS

Serving == {"read", "reply", "flushed"}

Types ==
    /\ phase \in [Server -> Phase]
    /\ path \in Server \cup {NoServer}
    /\ Stopped \in [Server -> BOOLEAN]
    /\ loop \in [Worker -> Step]
    /\ serving \in [Worker -> Client \cup {NoClient}]
    /\ backlog \in [Server -> SUBSET Client]
    /\ late \subseteq Worker \X Client
    /\ peer \in [Client -> Peer]
    /\ host \in [Client -> Server \cup {NoServer}]
    /\ request \subseteq Client
    /\ answer \in [Client -> Answer]

\* A thread is in the loop of a server that listens, and has a connection
\* exactly while its replier runs.
Running ==
    \A w \in Worker :
        /\ loop[w] \in InLoop => phase[Home[w]] = "listening"
        /\ phase[Home[w]] = "none" => loop[w] = "idle"
        /\ serving[w] # NoClient <=> loop[w] \in Serving

\* Who is connected to a server has connected to it, and nothing is on its way
\* to or from a client that has not connected.
Belonging ==
    /\ \A s \in Server, c \in Client :
          c \in backlog[s] => host[c] = s /\ peer[c] # "out"
    /\ \A w \in Worker, c \in Client :
          serving[w] = c => host[c] = Home[w] /\ peer[c] # "out"
    /\ \A c \in Client : c \in request \/ answer[c] # "none" => peer[c] # "out"
    /\ \A c \in Client : answer[c] # "none" => host[c] \in Server

\* A thread that accepted after the stop does not come to accept again.
LateOnce ==
    \A w \in Worker, c \in Client :
        <<w, c>> \in late =>
            /\ Stopped[Home[w]] /\ loop[w] # "accept"
            /\ \A d \in Client : <<w, d>> \in late => c = d

Inv == Types /\ Running /\ Belonging /\ LateOnce /\ PathExplained /\ LostAnswerBlocksPath

\* Nothing has been constructed.
LEMMA InitInv == Init => Inv
  BY ConstantAssumption
  DEF Init, Inv, Types, Running, Belonging, LateOnce, PathExplained,
      LostAnswerBlocksPath, Phase, Step, Peer, Answer, InLoop, Serving

\* The steps of a server's life, but for a crash.
LEMMA LifeStep ==
  ASSUME Inv, NEW s \in Server,
         \/ Construct(s) \/ BindThrows(s) \/ ListenThrows(s)
         \/ Stop(s) \/ Release(s) \/ CloseSocket(s)
  PROVE  Inv'
<1> USE ConstantAssumption
<1>1. Types /\ Running /\ Belonging /\ LateOnce /\ PathExplained /\ LostAnswerBlocksPath
  BY DEF Inv
<1>2. CASE Construct(s)
  <2>1. /\ phase[s] = "none" /\ path = NoServer
        /\ phase' = [phase EXCEPT ![s] = "listening"] /\ path' = s
        /\ loop' = [w \in Worker |-> IF Home[w] = s THEN "check" ELSE loop[w]]
        /\ UNCHANGED <<Stopped, serving, backlog, late, peer, host, request, answer>>
    BY <1>2 DEF Construct, Enters, client
  <2>2. Types'
    BY <1>1, <2>1 DEF Types, Phase, Step
  <2>3. Running'
    BY <1>1, <2>1 DEF Types, Running, InLoop, Serving
  <2>4. Belonging' /\ LateOnce'
    BY <1>1, <2>1 DEF Belonging, LateOnce
  <2>5. PathExplained'
    BY <1>1, <2>1 DEF Types, PathExplained
  <2>6. \A c \in Client : answer[c] # "lost"
    BY <1>1, <2>1 DEF Belonging, LostAnswerBlocksPath
  <2>7. LostAnswerBlocksPath'
    BY <2>1, <2>6 DEF LostAnswerBlocksPath
  <2> QED
    BY <2>2, <2>3, <2>4, <2>5, <2>7 DEF Inv
<1>3. CASE BindThrows(s)
  <2>1. /\ phase[s] = "none"
        /\ phase' = [phase EXCEPT ![s] = "unbound"]
        /\ UNCHANGED <<path, Stopped, loop, serving, backlog, late, peer, host, request, answer>>
    BY <1>3 DEF BindThrows, Enters, loops, client
  <2>2. Types' /\ Belonging' /\ LateOnce'
    BY <1>1, <2>1 DEF Types, Phase, Belonging, LateOnce
  <2>3. Running'
    BY <1>1, <2>1 DEF Types, Running, InLoop
  <2>4. PathExplained'
    BY <1>1, <2>1 DEF Types, PathExplained
  <2>5. \A c \in Client : answer[c] = "lost" => host[c] # s
    BY <1>1, <2>1 DEF LostAnswerBlocksPath
  <2>6. \A c \in Client : answer[c] = "lost" => host[c] \in Server
    BY <1>1 DEF Belonging
  <2>7. LostAnswerBlocksPath'
    BY <1>1, <2>1, <2>5, <2>6 DEF Types, LostAnswerBlocksPath
  <2> QED
    BY <2>2, <2>3, <2>4, <2>7 DEF Inv
<1>4. CASE ListenThrows(s)
  <2>1. /\ phase[s] = "none" /\ path = NoServer
        /\ phase' = [phase EXCEPT ![s] = "halfway"] /\ path' = s
        /\ UNCHANGED <<Stopped, loop, serving, backlog, late, peer, host, request, answer>>
    BY <1>4 DEF ListenThrows, Enters, loops, client
  <2>2. Types' /\ Belonging' /\ LateOnce'
    BY <1>1, <2>1 DEF Types, Phase, Belonging, LateOnce
  <2>3. Running'
    BY <1>1, <2>1 DEF Types, Running, InLoop
  <2>4. PathExplained'
    BY <1>1, <2>1 DEF Types, PathExplained
  <2>5. \A c \in Client : answer[c] # "lost"
    BY <1>1, <2>1 DEF Belonging, LostAnswerBlocksPath
  <2>6. LostAnswerBlocksPath'
    BY <2>1, <2>5 DEF LostAnswerBlocksPath
  <2> QED
    BY <2>2, <2>3, <2>4, <2>6 DEF Inv
<1>5. CASE Stop(s)
  <2>1. /\ Stopped' = [Stopped EXCEPT ![s] = TRUE]
        /\ UNCHANGED <<phase, path, loop, serving, backlog, late, peer, host, request, answer>>
    BY <1>5 DEF Stop, loops, client
  <2>2. Types' /\ Running' /\ Belonging' /\ PathExplained' /\ LostAnswerBlocksPath'
    BY <1>1, <2>1 DEF Types, Running, Belonging, PathExplained, LostAnswerBlocksPath
  <2>3. LateOnce'
    BY <1>1, <2>1 DEF Types, LateOnce
  <2> QED
    BY <2>2, <2>3 DEF Inv
<1>6. CASE Release(s)
  <2>1. /\ phase[s] = "listening" /\ path' = NoServer
        /\ \A w \in Worker : Home[w] = s => loop[w] \notin InLoop
        /\ phase' = [phase EXCEPT ![s] = "released"]
        /\ UNCHANGED <<Stopped, loop, serving, backlog, late, peer, host, request, answer>>
    BY <1>6 DEF Release, Enters, Workers, loops, client
  <2>2. Types' /\ Belonging' /\ LateOnce'
    BY <1>1, <2>1 DEF Types, Phase, Belonging, LateOnce
  <2>3. Running'
    BY <1>1, <2>1 DEF Types, Running
  <2>4. PathExplained'
    BY <1>1, <2>1 DEF Types, PathExplained
  <2>5. \A c \in Client : answer[c] # "lost"
    BY <1>1, <2>1 DEF PathExplained, LostAnswerBlocksPath
  <2>6. LostAnswerBlocksPath'
    BY <2>1, <2>5 DEF LostAnswerBlocksPath
  <2> QED
    BY <2>2, <2>3, <2>4, <2>6 DEF Inv
<1>7. CASE CloseSocket(s)
  <2>1. /\ phase[s] = "released"
        /\ phase' = [phase EXCEPT ![s] = "closed"]
        /\ backlog' = [backlog EXCEPT ![s] = {}]
        /\ UNCHANGED <<path, Stopped, loop, serving, late, peer, host, request, answer>>
    BY <1>7 DEF CloseSocket, Enters, client
  <2>2. Types' /\ Belonging' /\ LateOnce'
    BY <1>1, <2>1 DEF Types, Phase, Belonging, LateOnce
  <2>3. Running'
    BY <1>1, <2>1 DEF Types, Running, InLoop
  <2>4. PathExplained' /\ LostAnswerBlocksPath'
    BY <1>1, <2>1 DEF Types, PathExplained, LostAnswerBlocksPath
  <2> QED
    BY <2>2, <2>3, <2>4 DEF Inv
<1> QED
  BY <1>2, <1>3, <1>4, <1>5, <1>6, <1>7

\* A server that listens dies, by itself or of an answer that it loses to one
\* of its clients: its path stays.
LEMMA DeathStep ==
  ASSUME Inv, NEW s \in Server, phase[s] = "listening", Dies(s),
         UNCHANGED <<path, Stopped, late, peer, host, request>>,
         \/ UNCHANGED answer
         \/ \E c \in Client : /\ host[c] = s /\ peer[c] # "out"
                              /\ answer' = [answer EXCEPT ![c] = "lost"]
  PROVE  Inv'
<1> USE ConstantAssumption
<1>1. Types /\ Running /\ Belonging /\ LateOnce /\ PathExplained /\ LostAnswerBlocksPath
  BY DEF Inv
<1>2. /\ phase' = [phase EXCEPT ![s] = "crashed"]
      /\ loop' = [w \in Worker |-> IF Home[w] = s THEN "ended" ELSE loop[w]]
      /\ serving' = [w \in Worker |-> IF Home[w] = s THEN NoClient ELSE serving[w]]
      /\ backlog' = [backlog EXCEPT ![s] = {}]
  BY DEF Dies, Enters
<1>3. path = s
  BY <1>1 DEF PathExplained
<1>4. answer' \in [Client -> Answer]
  BY <1>1 DEF Types, Answer
<1>5. Types'
  BY <1>1, <1>2, <1>4 DEF Types, Phase, Step
<1>6. Running'
  BY <1>1, <1>2 DEF Types, Running, InLoop, Serving
<1>7. Belonging'
  <2>1. \A c \in Client :
           answer'[c] # "none" => answer[c] # "none" \/ (peer[c] # "out" /\ host[c] \in Server)
    BY <1>1 DEF Types
  <2>2. \A t \in Server : backlog'[t] \subseteq backlog[t]
    BY <1>1, <1>2 DEF Types
  <2>3. \A w \in Worker, c \in Client : serving'[w] = c => serving[w] = c
    BY <1>1, <1>2 DEF Types
  <2> QED
    BY <1>1, <2>1, <2>2, <2>3 DEF Belonging
<1>8. LateOnce'
  BY <1>1, <1>2 DEF Types, LateOnce
<1>9. PathExplained'
  BY <1>1, <1>2, <1>3 DEF Types, PathExplained
<1>10. LostAnswerBlocksPath'
  <2>1. \A c \in Client : answer'[c] = "lost" => answer[c] = "lost" \/ host[c] = s
    BY <1>1 DEF Types
  <2> QED
    BY <1>1, <1>2, <1>3, <2>1 DEF Types, LostAnswerBlocksPath
<1> QED
  BY <1>5, <1>6, <1>7, <1>8, <1>9, <1>10 DEF Inv

\* The thread of a replier belongs to a server that listens, and its connection
\* to a client of that server.
LEMMA Served ==
  ASSUME Inv, NEW w \in Worker, loop[w] \in Serving
  PROVE  /\ Home[w] \in Server /\ phase[Home[w]] = "listening"
         /\ serving[w] \in Client
         /\ host[serving[w]] = Home[w] /\ peer[serving[w]] # "out"
<1>1. Types /\ Running /\ Belonging
  BY DEF Inv
<1>2. Home[w] \in Server /\ phase[Home[w]] = "listening"
  BY <1>1, ConstantAssumption DEF Running, InLoop, Serving
<1>3. serving[w] \in Client
  BY <1>1 DEF Types, Running
<1> QED
  BY <1>1, <1>2, <1>3 DEF Belonging

\* A thread of the accept loop goes on to step, with connection c or none.
LEMMA WorkerMoves ==
  ASSUME Inv, NEW w \in Worker, NEW step \in Step, NEW c \in Client \cup {NoClient},
         loop[w] \in InLoop,
         loop' = [loop EXCEPT ![w] = step],
         serving' = [serving EXCEPT ![w] = c],
         c # NoClient <=> step \in Serving,
         c \in Client => host[c] = Home[w] /\ peer[c] # "out",
         step # "accept" \/ ~Stopped[Home[w]],
         step # "idle",
         UNCHANGED <<phase, path, Stopped, peer, host>>,
         backlog' \in [Server -> SUBSET Client],
         \A s \in Server : backlog'[s] \subseteq backlog[s],
         late' = late \/ (/\ Stopped[Home[w]] /\ loop[w] = "accept" /\ c \in Client
                          /\ late' = late \cup {<<w, c>>}),
         request' \subseteq request,
         answer' \in [Client -> Answer],
         \A d \in Client : answer'[d] # answer[d] =>
             answer'[d] # "lost" /\ peer[d] # "out" /\ host[d] \in Server
  PROVE  Inv'
<1> USE ConstantAssumption
<1>1. Types /\ Running /\ Belonging /\ LateOnce /\ PathExplained /\ LostAnswerBlocksPath
  BY DEF Inv
<1>2. Types'
  BY <1>1 DEF Types
<1>3. Running'
  BY <1>1 DEF Types, Running, InLoop, Serving
<1>4. Belonging'
  <2>1. \A v \in Worker, d \in Client : serving'[v] = d => serving[v] = d \/ (v = w /\ d = c)
    BY <1>1 DEF Types
  <2>2. \A d \in Client :
           answer'[d] # "none" => answer[d] # "none" \/ (peer[d] # "out" /\ host[d] \in Server)
    OBVIOUS
  <2> QED
    BY <1>1, <2>1, <2>2 DEF Belonging
<1>5. LateOnce'
  <2>1. CASE late' = late
    BY <1>1, <2>1 DEF Types, LateOnce
  <2>2. CASE /\ Stopped[Home[w]] /\ loop[w] = "accept" /\ c \in Client
             /\ late' = late \cup {<<w, c>>}
    <3>1. \A d \in Client : <<w, d>> \notin late
      BY <1>1, <2>2 DEF LateOnce
    <3>2. \A v \in Worker, d \in Client : <<v, d>> \in late' => <<v, d>> \in late \/ (v = w /\ d = c)
      BY <2>2
    <3>3. step # "accept"
      BY <2>2
    <3> QED
      BY <1>1, <2>2, <3>1, <3>2, <3>3 DEF Types, LateOnce
  <2> QED
    BY <2>1, <2>2
<1>6. PathExplained' /\ LostAnswerBlocksPath'
  BY <1>1 DEF PathExplained, LostAnswerBlocksPath
<1> QED
  BY <1>2, <1>3, <1>4, <1>5, <1>6 DEF Inv

\* The steps of the accept loop.
LEMMA LoopStep ==
  ASSUME Inv, NEW w \in Worker, AcceptThrows(w) \/ WorkerStep(w)
  PROVE  Inv'
<1>1. Types /\ Running /\ Belonging /\ LateOnce
  BY DEF Inv
<1>2. /\ serving \in [Worker -> Client \cup {NoClient}]
      /\ backlog \in [Server -> SUBSET Client] /\ answer \in [Client -> Answer]
      /\ \A s \in Server : backlog[s] \subseteq backlog[s]
      /\ Home[w] \in Server
  BY <1>1, ConstantAssumption DEF Types
<1>3. ASSUME NEW step \in Step \ {"idle", "accept"}, step \notin Serving,
             loop[w] \in {"check", "accept"}, Goes(w, step),
             UNCHANGED <<server, serving, backlog, late, client>>
      PROVE  Inv'
  <2>1. serving[w] = NoClient /\ serving' = [serving EXCEPT ![w] = NoClient]
    BY <1>1, <1>2, <1>3 DEF Running, Serving
  <2> QED
    BY <1>2, <1>3, <2>1, WorkerMoves, ConstantAssumption
    DEF Goes, server, client, InLoop
<1>4. CASE Check(w)
  <2>1. CASE Stopped[Home[w]]
    BY <1>3, <1>4, <2>1 DEF Check, Step, Serving
  <2>2. CASE ~Stopped[Home[w]]
    <3>1. /\ loop[w] = "check" /\ loop' = [loop EXCEPT ![w] = "accept"]
          /\ UNCHANGED <<phase, path, Stopped, serving, backlog, late, peer, host, request, answer>>
      BY <1>4, <2>2 DEF Check, Goes, server, client
    <3>2. serving[w] = NoClient /\ serving' = [serving EXCEPT ![w] = NoClient]
      BY <1>1, <1>2, <3>1 DEF Running, Serving
    <3> QED
      BY <1>2, <2>2, <3>1, <3>2, WorkerMoves, ConstantAssumption
      DEF InLoop, Step, Serving
  <2> QED
    BY <2>1, <2>2
<1>5. CASE AcceptThrows(w)
  BY <1>3, <1>5 DEF AcceptThrows, Step, Serving
<1>6. ASSUME NEW c \in Client, Accept(w, c)
      PROVE  Inv'
  <2>1. /\ loop[w] = "accept" /\ c \in backlog[Home[w]]
        /\ loop' = [loop EXCEPT ![w] = "read"]
        /\ serving' = [serving EXCEPT ![w] = c]
        /\ backlog' = [backlog EXCEPT ![Home[w]] = @ \ {c}]
        /\ late' = late \/ (Stopped[Home[w]] /\ late' = late \cup {<<w, c>>})
        /\ UNCHANGED <<phase, path, Stopped, peer, host, request, answer>>
    BY <1>6 DEF Accept, Goes, server, client
  <2>2. host[c] = Home[w] /\ peer[c] # "out"
    BY <1>1, <1>2, <2>1 DEF Belonging
  <2>3. /\ backlog' \in [Server -> SUBSET Client]
        /\ \A s \in Server : backlog'[s] \subseteq backlog[s]
    BY <1>2, <2>1
  <2> QED
    BY <1>2, <2>1, <2>2, <2>3, WorkerMoves, ConstantAssumption
    DEF InLoop, Step, Serving
<1>7. CASE Read(w)
  <2> DEFINE c == serving[w]
  <2>1. /\ loop[w] = "read"
        /\ request' = request \ {c}
        /\ answer' = answer \/ answer' = [answer EXCEPT ![c] = "buffered"]
        /\ loop' = [loop EXCEPT ![w] = "reply"]
        /\ UNCHANGED <<phase, path, Stopped, serving, backlog, late, peer, host>>
    BY <1>7 DEF Read, Goes, server
  <2>2. c \in Client /\ host[c] = Home[w] /\ peer[c] # "out"
    BY <2>1, Served DEF Serving
  <2>3. serving' = [serving EXCEPT ![w] = c]
    BY <1>2, <2>1
  <2>4. /\ answer' \in [Client -> Answer]
        /\ \A d \in Client : answer'[d] # answer[d] =>
              answer'[d] # "lost" /\ peer[d] # "out" /\ host[d] \in Server
    BY <1>2, <2>1, <2>2 DEF Answer
  <2> HIDE DEF c
  <2> QED
    BY <1>2, <2>1, <2>2, <2>3, <2>4, WorkerMoves, ConstantAssumption
    DEF InLoop, Step, Serving
<1>8. ASSUME loop[w] \in Serving, Breaks(Home[w], serving[w]),
             UNCHANGED <<path, Stopped, late, peer, host, request>>
      PROVE  Inv'
  <2>1. /\ phase[Home[w]] = "listening" /\ serving[w] \in Client
        /\ host[serving[w]] = Home[w] /\ peer[serving[w]] # "out"
    BY <1>8, Served
  <2> QED
    BY <1>2, <1>8, <2>1, DeathStep DEF Breaks
<1>9. CASE Flush(w)
  <2> DEFINE c == serving[w]
  <2>1. loop[w] = "reply" /\ UNCHANGED <<path, Stopped, late, peer, host, request>>
    BY <1>9 DEF Flush
  <2>2. c \in Client /\ host[c] = Home[w] /\ peer[c] # "out"
    BY <2>1, Served DEF Serving
  <2>3. CASE Breaks(Home[w], c)
    BY <1>8, <2>1, <2>3 DEF Serving
  <2>4. CASE ~Breaks(Home[w], c)
    <3>1. /\ answer' = answer \/ answer' = [answer EXCEPT ![c] = "sent"]
          /\ loop' = [loop EXCEPT ![w] = "flushed"]
          /\ UNCHANGED <<phase, serving, backlog>>
      BY <1>9, <2>4 DEF Flush, Goes
    <3>2. serving' = [serving EXCEPT ![w] = c]
      BY <1>2, <3>1
    <3>3. /\ answer' \in [Client -> Answer]
          /\ \A d \in Client : answer'[d] # answer[d] =>
                answer'[d] # "lost" /\ peer[d] # "out" /\ host[d] \in Server
      BY <1>2, <2>1, <2>2, <3>1 DEF Answer
    <3> HIDE DEF c
    <3> QED
      BY <1>2, <2>1, <2>2, <3>1, <3>2, <3>3, WorkerMoves, ConstantAssumption
      DEF InLoop, Step, Serving
  <2> QED
    BY <2>3, <2>4
<1>10. ASSUME NEW next \in {"check", "ended", "threw"}, Reply(w, next)
       PROVE  Inv'
  <2>1. /\ loop[w] \in {"reply", "flushed"}
        /\ UNCHANGED <<path, Stopped, late, peer, host, request>>
    BY <1>10 DEF Reply
  <2>2. CASE Breaks(Home[w], serving[w])
    BY <1>8, <2>1, <2>2 DEF Serving
  <2>3. CASE ~Breaks(Home[w], serving[w])
    <3>1. /\ loop' = [loop EXCEPT ![w] = next]
          /\ serving' = [serving EXCEPT ![w] = NoClient]
          /\ UNCHANGED <<phase, backlog, answer>>
      BY <1>10, <2>3 DEF Reply, Goes
    <3> QED
      BY <1>2, <2>1, <3>1, WorkerMoves, ConstantAssumption
      DEF InLoop, Step, Serving
  <2> QED
    BY <2>2, <2>3
<1> QED
  BY <1>4, <1>5, <1>6, <1>7, <1>9, <1>10 DEF WorkerStep

\* A client connects, once, to the server whose path it finds.
LEMMA ConnectStep ==
  ASSUME Inv, NEW c \in Client, Connect(c)
  PROVE  Inv'
<1> USE ConstantAssumption
<1>1. Types /\ Running /\ Belonging /\ LateOnce /\ PathExplained /\ LostAnswerBlocksPath
  BY DEF Inv
<1>2. /\ peer[c] = "out" /\ path \in Server
      /\ backlog' = [backlog EXCEPT ![path] = @ \cup {c}]
      /\ host' = [host EXCEPT ![c] = path]
      /\ peer' = [peer EXCEPT ![c] = "check"]
      /\ UNCHANGED <<phase, path, Stopped, loop, serving, late, request, answer>>
  BY <1>1 DEF Connect, Listening, server, Types
<1>3. Types'
  BY <1>1, <1>2 DEF Types, Peer
<1>4. Running' /\ LateOnce' /\ PathExplained'
  BY <1>1, <1>2 DEF Running, LateOnce, PathExplained
<1>5. answer[c] = "none" /\ \A w \in Worker : serving[w] # c
  BY <1>1, <1>2 DEF Belonging
<1>6. /\ \A d \in Client : d # c => host'[d] = host[d] /\ peer'[d] = peer[d]
      /\ host'[c] = path /\ peer'[c] = "check"
      /\ \A s \in Server, d \in Client : d \in backlog'[s] => d \in backlog[s] \/ (s = path /\ d = c)
  BY <1>1, <1>2 DEF Types
<1>7. \A s \in Server : c \notin backlog[s]
  BY <1>1, <1>2 DEF Belonging
<1>8. Belonging'
  BY <1>1, <1>2, <1>5, <1>6, <1>7 DEF Belonging
<1>9. LostAnswerBlocksPath'
  BY <1>1, <1>2, <1>5, <1>6 DEF LostAnswerBlocksPath
<1> QED
  BY <1>3, <1>4, <1>8, <1>9 DEF Inv

\* The other steps of a client.
LEMMA ClientSteps ==
  ASSUME Inv, NEW c \in Client, ConnectThrows(c) \/ Vanish(c) \/ ClientStep(c)
  PROVE  Inv'
<1>1. Types /\ Running /\ Belonging /\ LateOnce /\ PathExplained /\ LostAnswerBlocksPath
  BY DEF Inv
<1>2. /\ UNCHANGED <<phase, path, Stopped, loop, serving, backlog, late, host, answer>>
      /\ peer' \in [Client -> Peer]
      /\ \A d \in Client : peer[d] # "out" => peer'[d] # "out"
      /\ request' = request \/ (request' = request \cup {c} /\ peer'[c] # "out")
  BY <1>1
  DEF Types, Peer, ConnectThrows, Vanish, ClientStep, Send, Receive, Leave,
      server, loops
<1>3. Types' /\ Running' /\ LateOnce' /\ PathExplained' /\ LostAnswerBlocksPath'
  BY <1>1, <1>2 DEF Types, Running, LateOnce, PathExplained, LostAnswerBlocksPath
<1>4. Belonging'
  BY <1>1, <1>2 DEF Types, Belonging
<1> QED
  BY <1>3, <1>4 DEF Inv

\* Every step keeps the invariant.
LEMMA NextInv == Inv /\ [Next]_vars => Inv'
<1> SUFFICES ASSUME Inv, [Next]_vars PROVE Inv'
  OBVIOUS
<1>1. CASE UNCHANGED vars
  BY <1>1
  DEF vars, Inv, Types, Running, Belonging, LateOnce, PathExplained, LostAnswerBlocksPath
<1>2. ASSUME NEW s \in Server, Crash(s)
      PROVE  Inv'
  BY <1>2, DeathStep DEF Crash, client
<1> QED
  BY <1>1, <1>2, LifeStep, LoopStep, ConnectStep, ClientSteps DEF Next

LEMMA Always == Spec => []Inv
  BY InitInv, NextInv, PTL DEF Spec

\* Every variable has its type, and a thread has a connection exactly while
\* its replier runs (the loop of TServer::operator()).
THEOREM TypeCorrect == Spec => []TypeOK
<1>1. Inv => TypeOK
  BY DEF Inv, Types, Running, TypeOK, Serving
<1> QED
  BY Always, <1>1, PTL

\* After the stop a thread accepts at most one more connection (the test of
\* the token in TServer::operator()).
THEOREM StopBounded == Spec => []StopBound
<1>1. Inv => StopBound
  <2> SUFFICES ASSUME Inv, NEW w \in Worker
               PROVE  Cardinality({c \in Client : <<w, c>> \in late}) <= 1
    BY DEF StopBound
  <2> DEFINE L == {c \in Client : <<w, c>> \in late}
  <2>1. CASE L = {}
    <3>1. Cardinality(L) = 0
      BY <2>1, FS_EmptySet
    <3> QED
      BY <3>1
  <2>2. CASE L # {}
    <3>1. PICK c \in L : TRUE
      BY <2>2
    <3>2. L = {c}
      BY <3>1 DEF Inv, LateOnce
    <3>3. Cardinality(L) = 1
      BY <3>2, FS_Singleton
    <3> QED
      BY <3>3
  <2> QED
    BY <2>1, <2>2
<1> QED
  BY Always, <1>1, PTL

\* The socket's file is there while its server listens, so that never two
\* listen, and otherwise what a crash or a constructor that threw left
\* (TServer's constructor and destructor).
THEOREM PathAlwaysExplained == Spec => []PathExplained
<1>1. Inv => PathExplained
  BY DEF Inv
<1> QED
  BY Always, <1>1, PTL

\* An answer that is lost has ended its server, and the path that stays keeps
\* every later one from starting (~TConnectedSocket, ~TServer).
THEOREM LossNeverQuiet == Spec => []LostAnswerBlocksPath
<1>1. Inv => LostAnswerBlocksPath
  BY DEF Inv
<1> QED
  BY Always, <1>1, PTL

=============================================================================
