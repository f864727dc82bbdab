-------------------------- MODULE NamedObjects_proof --------------------------
(***************************************************************************)
(* Proofs about the programs that meet at a name in the system:            *)
(* UnixSocket, for any numbers of servers and clients, any backlog and any *)
(* limit of descriptors, ProducerConsumer, for every buffer size, number   *)
(* of lines and capacity of the FIFO, and SharedMemory, for any numbers of *)
(* writers, readers, lines and segments.                                   *)
(***************************************************************************)
EXTENDS UnixSocket, ProducerConsumer, SharedMemory,
        SequenceTheorems, FiniteSetTheorems, TLAPS

-----------------------------------------------------------------------------
(* UnixSocket.                                                             *)

(* A server that nobody has robbed of its path has it.                     *)
Owns == \A s \in Server : (Serving(s) /\ s \notin robbed) => path = s

(* The inductive invariant of the sockets.                                 *)
Inv == TypeOK /\ Owns /\ RestartBlockedOnlyAfterCrash

(* The names of places and marks are all different.                        *)
LEMMA Names ==
  /\ None \notin Server \cup Client /\ Stale \notin Server \cup Client
  /\ Broken \notin Server \cup Client /\ Mute \notin Server \cup Client
  /\ Gone \notin Server \cup Client
  /\ None # Stale /\ None # Broken /\ Backlog \in Nat /\ MaxFds \in Nat
  /\ MaxFds > 0 /\ None \notin Peer
BY SocketAssumption DEF None, Stale, Broken, Mute, Gone, Peer

(* A queue with the mark of a client that left in its place.               *)
Marked(q, c, mark) == [n \in DOMAIN q |-> IF q[n] = c THEN mark ELSE q[n]]

(* Marking the entries of a client that leaves keeps a queue a queue.      *)
LEMMA MarkedQueue ==
  ASSUME NEW q \in Seq(Peer), NEW c, NEW mark \in Peer
  PROVE  /\ Marked(q, c, mark) \in Seq(Peer)
         /\ Len(Marked(q, c, mark)) = Len(q)
<1> DEFINE r == [n \in DOMAIN q |-> IF q[n] = c THEN mark ELSE q[n]]
<1>1. Len(q) \in Nat /\ DOMAIN q = 1..Len(q)
  BY LenProperties
<1>2. \A n \in 1..Len(q) : q[n] \in Peer
  BY ElementOfSeq
<1>3. r \in [1..Len(q) -> Peer]
  BY <1>1, <1>2
<1>4. r \in Seq(Peer)
  BY <1>1, <1>3
<1>5. Len(r) = Len(q)
  BY <1>1, <1>3, <1>4, LenProperties
<1> QED BY <1>4, <1>5 DEF Marked

(* It holds at first.                                                      *)
LEMMA InitInv == Init => Inv
<1> SUFFICES ASSUME Init PROVE Inv
  OBVIOUS
<1> USE Names
<1>1. crashed \in BOOLEAN
  BY Zenon DEF Init
<1>2. fresh \in [Server -> BOOLEAN]
  BY Zenon DEF Init
<1>3. queue \in [Server -> Seq(Peer)] /\ \A s \in Server : Len(queue[s]) = 0
  BY EmptySeq DEF Init
<1>4. TypeOK
  BY <1>1, <1>2, <1>3 DEF Init, TypeOK
<1>5. Owns /\ RestartBlockedOnlyAfterCrash
  BY DEF Init, Owns, Serving, RestartBlockedOnlyAfterCrash
<1> QED BY <1>4, <1>5 DEF Inv

(* What the end of a server does to the types.                             *)
LEMMA ClosingTypes ==
  ASSUME Inv, NEW s \in Server, CloseSockets(s)
  PROVE  /\ path' \in Server \cup {None, Stale}
         /\ peer' \in [Server -> Peer \cup {None}]
         /\ queue' \in [Server -> Seq(Peer)]
         /\ \A t \in Server : Len(queue'[t]) <= Backlog + 1
         /\ fds' \in [Server -> 0..MaxFds] /\ fresh' \in [Server -> BOOLEAN]
         /\ at' \in [Client -> Server \cup {None, Broken}]
         /\ robbed' \subseteq Server
<1> USE Names DEF Inv, TypeOK, CloseSockets
<1>1. fresh' \in [Server -> BOOLEAN]
  BY Zenon
<1>2. queue' \in [Server -> Seq(Peer)] /\ \A t \in Server : Len(queue'[t]) <= Backlog + 1
  BY EmptySeq
<1>3. path' \in Server \cup {None, Stale} /\ robbed' \subseteq Server
  OBVIOUS
<1>4. peer' \in [Server -> Peer \cup {None}] /\ fds' \in [Server -> 0..MaxFds]
  OBVIOUS
<1>5. at' \in [Client -> Server \cup {None, Broken}]
  OBVIOUS
<1> QED BY <1>1, <1>2, <1>3, <1>4, <1>5

(* A server that ends keeps the types.                                     *)
LEMMA DiesType ==
  ASSUME Inv, NEW s \in Server, Dies(s)
  PROVE  TypeOK'
<1>1. CloseSockets(s) /\ srv' = [srv EXCEPT ![s] = "off"] /\ UNCHANGED <<kind, cl>>
  BY DEF Dies, ServerTo
<1>2. crashed' \in BOOLEAN
  <2>1. crashed' = (crashed \/ path = s \/ srv[s] = "closing")
    BY Zenon DEF Dies
  <2>2. (crashed \/ path = s \/ srv[s] = "closing") \in BOOLEAN
    OBVIOUS
  <2> QED BY <2>1, <2>2, Zenon
<1>3. srv' \in [Server -> {"off", "start", "bound", "accept", "read", "answer", "closing"}]
  BY <1>1 DEF Inv, TypeOK
<1>4. kind' \in {"stream", "datagram"}
      /\ cl' \in [Client -> {"off", "start", "write", "read", "silent", "reply", "spin"}]
  BY <1>1 DEF Inv, TypeOK
<1> QED BY <1>1, <1>2, <1>3, <1>4, ClosingTypes DEF TypeOK

(* So does a client that leaves, which marks its place in the queue.       *)
LEMMA LeavesType ==
  ASSUME Inv, NEW c \in Client, Leaves(c)
  PROVE  TypeOK'
<1> DEFINE mark == IF cl[c] = "read" THEN Gone ELSE Mute
<1> USE Names DEF Inv, TypeOK
<1>1. mark \in Peer
  BY DEF Peer
<1>2. /\ queue' = [s \in Server |-> Marked(queue[s], c, mark)]
      /\ peer' = [s \in Server |-> IF peer[s] = c THEN mark ELSE peer[s]]
      /\ at' = [at EXCEPT ![c] = None]
      /\ cl' = [cl EXCEPT ![c] = "off"]
      /\ UNCHANGED <<kind, path, srv, fds, fresh, hist>>
  BY Zenon DEF Leaves, ClientTo, Marked
<1>3. \A s \in Server : /\ Marked(queue[s], c, mark) \in Seq(Peer)
                        /\ Len(Marked(queue[s], c, mark)) = Len(queue[s])
  BY <1>1, MarkedQueue
<1>4. queue' \in [Server -> Seq(Peer)] /\ \A s \in Server : Len(queue'[s]) <= Backlog + 1
  BY <1>2, <1>3
<1> HIDE DEF mark
<1>5. peer' \in [Server -> Peer \cup {None}]
  BY <1>1, <1>2
<1>6. at' \in [Client -> Server \cup {None, Broken}]
      /\ cl' \in [Client -> {"off", "start", "write", "read", "silent", "reply", "spin"}]
  BY <1>2
<1> QED BY <1>2, <1>4, <1>5, <1>6 DEF hist

(* Every step keeps the types.                                             *)
LEMMA TypeStep == Inv /\ [Next]_vars => TypeOK'
<1> SUFFICES ASSUME Inv, [Next]_vars PROVE TypeOK'
  OBVIOUS
<1> USE Names DEF Inv, TypeOK, ServerTo, ClientTo, server, client, hist
<1>1. ASSUME NEW s \in Server, ServerStep(s) PROVE TypeOK'
  <2>1. CASE Bind(s)
    <3>1. CASE path = None
      BY <2>1, <3>1 DEF Bind
    <3>2. CASE path # None
      BY <2>1, <3>2 DEF Bind
    <3> QED BY <3>1, <3>2
  <2>9. CASE Listen(s)
    BY <2>9 DEF Listen
  <2>2. CASE Accept(s)
    <3>1. fresh' \in [Server -> BOOLEAN]
      BY <2>2, Zenon DEF Accept
    <3>2. Head(queue[s]) \in Peer /\ Tail(queue[s]) \in Seq(Peer)
          /\ Len(Tail(queue[s])) <= Backlog + 1
      BY <2>2, HeadTailProperties DEF Accept
    <3>3. queue' \in [Server -> Seq(Peer)] /\ \A t \in Server : Len(queue'[t]) <= Backlog + 1
      BY <2>2, <3>2 DEF Accept
    <3>4. fds' \in [Server -> 0..MaxFds] /\ peer' \in [Server -> Peer \cup {None}]
      BY <2>2, <3>2 DEF Accept
    <3> QED BY <2>2, <3>1, <3>3, <3>4 DEF Accept
  <2>3. CASE AcceptFails(s)
    BY <2>3, DiesType DEF AcceptFails
  <2>4. CASE Read(s)
    BY <2>4 DEF Read
  <2>5. CASE Receive(s)
    <3>1. Head(queue[s]) \in Peer /\ Tail(queue[s]) \in Seq(Peer)
          /\ Len(Tail(queue[s])) <= Backlog + 1
      BY <2>5, HeadTailProperties DEF Receive
    <3>2. queue' \in [Server -> Seq(Peer)] /\ \A t \in Server : Len(queue'[t]) <= Backlog + 1
      BY <2>5, <3>1 DEF Receive
    <3>3. peer' \in [Server -> Peer \cup {None}]
      BY <2>5, <3>1 DEF Receive
    <3> QED BY <2>5, <3>2, <3>3 DEF Receive
  <2>6. CASE Answer(s)
    BY <2>6 DEF Answer
  <2>7. CASE AnswerGone(s)
    <3>1. CASE kind = "stream"
      BY <2>7, <3>1, DiesType DEF AnswerGone
    <3>2. CASE kind # "stream"
      BY <2>7, <3>2 DEF AnswerGone
    <3> QED BY <3>1, <3>2
  <2>8. CASE HandlerRemoves(s)
    BY <2>8 DEF HandlerRemoves
  <2> QED BY <1>1, <2>1, <2>2, <2>3, <2>4, <2>5, <2>6, <2>7, <2>8, <2>9 DEF ServerStep
<1>2. ASSUME NEW s \in Server, Start(s) PROVE TypeOK'
  BY <1>2 DEF Start
<1>3. ASSUME NEW s \in Server, Kill(s) PROVE TypeOK'
  BY <1>3, DiesType DEF Kill
<1>4. ASSUME NEW s \in Server, Interrupt(s) PROVE TypeOK'
  <2>1. srv' \in [Server -> {"off", "start", "bound", "accept", "read", "answer", "closing"}]
    BY <1>4 DEF Interrupt
  <2> QED BY <1>4, <2>1, ClosingTypes DEF Interrupt
<1>5. ASSUME NEW c \in Client, ClientStep(c) \/ Run(c) \/ WriteNothing(c) \/ InterruptClient(c)
      PROVE  TypeOK'
  <2>1. CASE Connect(c)
    <3>1. queue' \in [Server -> Seq(Peer)] /\ \A t \in Server : Len(queue'[t]) <= Backlog + 1
      <4>1. path \in Server /\ queue[path] \in Seq(Peer) /\ c \in Peer
        BY <2>1 DEF Connect, Peer
      <4>2. Append(queue[path], c) \in Seq(Peer)
            /\ Len(Append(queue[path], c)) <= Backlog + 1
        BY <2>1, <4>1, AppendProperties, LenProperties DEF Connect
      <4> QED BY <2>1, <4>1, <4>2 DEF Connect
    <3> QED BY <2>1, <3>1 DEF Connect
  <2>2. CASE ConnectFails(c) \/ PrintReply(c) \/ ReadsEnd(c) \/ Run(c) \/ WriteNothing(c)
    BY <2>2 DEF ConnectFails, PrintReply, ReadsEnd, Run, WriteNothing
  <2>3. CASE Write(c)
    BY <2>3, LeavesType DEF Write
  <2>4. CASE InterruptClient(c)
    BY <2>4, LeavesType DEF InterruptClient
  <2> QED BY <1>5, <2>1, <2>2, <2>3, <2>4 DEF ClientStep
<1>6. CASE RemoveStale
  BY <1>6 DEF RemoveStale
<1>7. CASE UNCHANGED vars
  BY <1>7 DEF vars
<1> QED BY <1>1, <1>2, <1>3, <1>4, <1>5, <1>6, <1>7 DEF Next

(* A server that ends gives up its own path and no other one's.            *)
LEMMA ClosingKeeps ==
  ASSUME Inv, NEW s \in Server, CloseSockets(s),
         srv' = [srv EXCEPT ![s] = "off"] \/ srv' = [srv EXCEPT ![s] = "closing"]
  PROVE  Owns'
BY Names DEF Inv, TypeOK, CloseSockets, Owns, Serving

(* A server that ends leaves the path to its owner, or explained.          *)
LEMMA DiesKeeps ==
  ASSUME Inv, NEW s \in Server, Dies(s)
  PROVE  Owns' /\ RestartBlockedOnlyAfterCrash'
<1>1. CloseSockets(s) /\ srv' = [srv EXCEPT ![s] = "off"]
  BY DEF Dies, ServerTo
<1>2. Owns'
  BY <1>1, ClosingKeeps
<1>3. (path = s \/ srv[s] = "closing" \/ crashed) => crashed'
  BY Zenon DEF Dies
<1>4. RestartBlockedOnlyAfterCrash'
  BY <1>1, <1>3, Names DEF Inv, TypeOK, RestartBlockedOnlyAfterCrash, CloseSockets
<1> QED BY <1>2, <1>4

(* Every step keeps the path its owner's, and explained.                   *)
LEMMA PathStep == Inv /\ [Next]_vars => Owns' /\ RestartBlockedOnlyAfterCrash'
<1> DEFINE Goal == Owns' /\ RestartBlockedOnlyAfterCrash'
<1> SUFFICES ASSUME Inv, [Next]_vars PROVE Goal
  OBVIOUS
<1> USE Names DEF Inv, TypeOK, Owns, Serving, RestartBlockedOnlyAfterCrash, ServerTo,
                  ClientTo, server, client, hist
<1>1. ASSUME NEW s \in Server, ServerStep(s) PROVE Goal
  <2>1. CASE Bind(s)
    BY <2>1 DEF Bind
  <2>2. CASE Listen(s) \/ Accept(s) \/ Read(s) \/ Receive(s) \/ Answer(s)
    BY <2>2 DEF Listen, Accept, Read, Receive, Answer
  <2>3. CASE AcceptFails(s)
    BY <2>3, DiesKeeps DEF AcceptFails
  <2>4. CASE AnswerGone(s)
    <3>1. CASE kind = "stream"
      BY <2>4, <3>1, DiesKeeps DEF AnswerGone
    <3>2. CASE kind # "stream"
      BY <2>4, <3>2 DEF AnswerGone
    <3> QED BY <3>1, <3>2
  <2>5. CASE HandlerRemoves(s)
    BY <2>5 DEF HandlerRemoves
  <2> QED BY <1>1, <2>1, <2>2, <2>3, <2>4, <2>5 DEF ServerStep
<1>2. ASSUME NEW s \in Server, Start(s) PROVE Goal
  BY <1>2 DEF Start
<1>3. ASSUME NEW s \in Server, Kill(s) PROVE Goal
  BY <1>3, DiesKeeps DEF Kill
<1>4. ASSUME NEW s \in Server, Interrupt(s) PROVE Goal
  <2>1. Owns'
    BY <1>4, ClosingKeeps DEF Interrupt
  <2>2. srv'[s] = "closing"
    BY <1>4 DEF Interrupt
  <2> QED BY <2>1, <2>2
<1>5. ASSUME NEW c \in Client, ClientStep(c) \/ Run(c) \/ WriteNothing(c) \/ InterruptClient(c)
      PROVE  Goal
  <2>1. UNCHANGED <<path, srv, hist>>
    BY <1>5, Zenon DEF ClientStep, Connect, ConnectFails, Write, PrintReply, ReadsEnd, Run,
                WriteNothing, InterruptClient, Leaves
  <2> QED BY <2>1
<1>6. CASE RemoveStale
  BY <1>6 DEF RemoveStale
<1>7. CASE UNCHANGED vars
  BY <1>7 DEF vars
<1> QED BY <1>1, <1>2, <1>3, <1>4, <1>5, <1>6, <1>7 DEF Next

(* The invariant of the sockets holds for ever.                            *)
LEMMA Invariance == Spec => []Inv
<1>1. Inv /\ [Next]_vars => Inv'
  BY TypeStep, PathStep DEF Inv
<1> QED BY InitInv, <1>1, PTL DEF Spec

(* Every variable keeps its type; no queue exceeds what the kernel grants. *)
THEOREM TypeCorrect == Spec => []TypeOK
<1>1. Inv => TypeOK
  BY DEF Inv
<1> QED BY Invariance, <1>1, PTL

(* For any number of servers, two serve at the same time only if another   *)
(* process's handler has removed the path of one of them: bind, which      *)
(* refuses a path that exists, is enough to keep them apart.               *)
THEOREM ServersApart == Spec => []OneServerAtATime
<1>1. Inv => OneServerAtATime
  BY DEF Inv, Owns, OneServerAtATime
<1> QED BY Invariance, <1>1, PTL

(* Whatever ends the servers, and in whatever order, a path without a      *)
(* server was left by one that ended without its handler.                  *)
THEOREM StalePathExplained == Spec => []RestartBlockedOnlyAfterCrash
<1>1. Inv => RestartBlockedOnlyAfterCrash
  BY DEF Inv
<1> QED BY Invariance, <1>1, PTL

(* c's connection or datagram waits in the queue of s, or s handles it.    *)
InLine(c, s) == peer[s] = c \/ \E n \in DOMAIN queue[s] : queue[s][n] = c

(* At most once.                                                           *)
InLineOnce(c, s) ==
  \A n \in DOMAIN queue[s] :
    queue[s][n] = c => peer[s] # c /\ \A m \in DOMAIN queue[s] : queue[s][m] = c => m = n

(* Whoever is at a server is in line there and nowhere else.               *)
LinesMatch ==
  \A c \in Client : \A s \in Server : (at[c] = s <=> InLine(c, s)) /\ InLineOnce(c, s)

(* Whoever is at a server has not finished.                                *)
AtTheServer ==
  /\ \A c \in Client : at[c] # None => cl[c] \in {"write", "read", "silent", "spin"}
  /\ \A c \in Client : cl[c] = "spin" => at[c] \notin Server
  /\ kind = "datagram" => \A c \in Client : at[c] \in Server => cl[c] = "read"

(* A path names a server that runs; a server handles somebody exactly      *)
(* while it reads or answers, and it answers only who has written.         *)
InHand ==
  /\ path \in Server => Serving(path)
  /\ \A s \in Server : peer[s] = None <=> srv[s] \notin {"read", "answer"}
  /\ \A s \in Server : srv[s] = "read" => kind = "stream"
  /\ \A s \in Server : queue[s] # <<>> => srv[s] \in {"accept", "read", "answer"}
  /\ \A s \in Server : srv[s] = "answer" =>
       peer[s] # Mute /\ \A c \in Client : peer[s] = c => cl[c] = "read"
  /\ kind = "datagram" =>
       \A s \in Server : \A n \in DOMAIN queue[s] : queue[s][n] # Mute

(* The invariant of the exchanges.                                         *)
Exchanges == LinesMatch /\ AtTheServer /\ InHand

(* Where nobody joins or leaves a line, who is in line stays.              *)
LEMMA SameLines ==
  ASSUME UNCHANGED <<peer, queue>>
  PROVE  \A c, s : (InLine(c, s)' <=> InLine(c, s)) /\ (InLineOnce(c, s)' <=> InLineOnce(c, s))
BY DEF InLine, InLineOnce

(* Whose line a server has is at that server.                              *)
LEMMA QueuedIsAt ==
  ASSUME LinesMatch, NEW s \in Server, NEW n \in DOMAIN queue[s],
         NEW c \in Client, queue[s][n] = c
  PROVE  at[c] = s
BY DEF LinesMatch, InLine

(* The end of a server ends its line.                                      *)
LEMMA ClosingEndsLine ==
  ASSUME Inv, Exchanges, NEW s \in Server, CloseSockets(s), UNCHANGED <<kind, cl>>,
         srv' = [srv EXCEPT ![s] = "off"] \/ srv' = [srv EXCEPT ![s] = "closing"]
  PROVE  Exchanges'
<1>1. /\ \A t \in Server \ {s} : /\ peer'[t] = peer[t] /\ queue'[t] = queue[t]
                                 /\ srv'[t] = srv[t]
      /\ peer'[s] = None /\ queue'[s] = <<>> /\ srv'[s] \in {"off", "closing"}
      /\ \A c \in Client : at'[c] = IF at[c] = s THEN Broken ELSE at[c]
      /\ path' = IF path = s THEN Stale ELSE path
  BY DEF CloseSockets, Inv, TypeOK
<1>2. \A c \in Client : \A t \in Server :
        /\ InLine(c, t)' <=> t # s /\ InLine(c, t)
        /\ InLineOnce(c, t) => InLineOnce(c, t)'
  BY <1>1, Names DEF InLine, InLineOnce
<1>3. LinesMatch'
  BY <1>1, <1>2, Names DEF Exchanges, LinesMatch
<1>4. AtTheServer'
  <2>1. ASSUME NEW c \in Client
        PROVE  /\ at'[c] # None => at[c] # None
               /\ at'[c] \in Server => at[c] \in Server
    BY <1>1, Names
  <2> QED BY <2>1 DEF Exchanges, AtTheServer
<1>5. InHand'
  <2>1. path' \in Server => Serving(path)'
    BY <1>1, Names DEF Exchanges, InHand, Serving
  <2>2. ASSUME NEW t \in Server
        PROVE  /\ peer'[t] = None <=> srv'[t] \notin {"read", "answer"}
               /\ srv'[t] = "read" => kind' = "stream"
               /\ queue'[t] # <<>> => srv'[t] \in {"accept", "read", "answer"}
               /\ srv'[t] = "answer" =>
                    peer'[t] # Mute /\ \A c \in Client : peer'[t] = c => cl'[c] = "read"
               /\ kind' = "datagram" => \A n \in DOMAIN queue'[t] : queue'[t][n] # Mute
    BY <1>1, EmptySeq DEF Exchanges, InHand
  <2> QED BY <2>1, <2>2 DEF InHand
<1> QED BY <1>3, <1>4, <1>5 DEF Exchanges

(* A client that leaves leaves a mark in its place and nothing else.       *)
LEMMA LeavingLeavesLine ==
  ASSUME Inv, Exchanges, NEW c \in Client, Leaves(c)
  PROVE  Exchanges'
<1> USE Names DEF Inv, TypeOK, Exchanges
<1> DEFINE mark == IF cl[c] = "read" THEN Gone ELSE Mute
<1>1. /\ \A s \in Server : /\ DOMAIN queue'[s] = DOMAIN queue[s]
                           /\ \A n \in DOMAIN queue[s] :
                                queue'[s][n] = IF queue[s][n] = c THEN mark ELSE queue[s][n]
                           /\ peer'[s] = IF peer[s] = c THEN mark ELSE peer[s]
      /\ at' = [at EXCEPT ![c] = None] /\ cl' = [cl EXCEPT ![c] = "off"]
      /\ UNCHANGED <<kind, path, srv>>
  BY DEF Leaves, ClientTo
<1>2. mark \notin Client \cup {None} /\ (mark = Mute => cl[c] # "read")
  BY SocketAssumption DEF Gone, Mute, None
<1> HIDE DEF mark
<1>3. \A d \in Client : \A s \in Server :
        /\ InLine(d, s)' <=> d # c /\ InLine(d, s)
        /\ InLineOnce(d, s) => InLineOnce(d, s)'
  <2> SUFFICES ASSUME NEW d \in Client, NEW s \in Server
               PROVE  /\ InLine(d, s)' <=> d # c /\ InLine(d, s)
                      /\ InLineOnce(d, s) => InLineOnce(d, s)'
    OBVIOUS
  <2> HIDE DEF Inv, TypeOK, Exchanges
  <2>1. /\ DOMAIN queue'[s] = DOMAIN queue[s]
        /\ \A n \in DOMAIN queue[s] :
             queue'[s][n] = d <=> queue[s][n] = d /\ d # c
        /\ peer'[s] = d <=> peer[s] = d /\ d # c
    BY <1>1, <1>2
  <2> QED BY <2>1 DEF InLine, InLineOnce
<1>4. LinesMatch' /\ AtTheServer'
  BY <1>1, <1>3 DEF LinesMatch, AtTheServer
<1>5. InHand'
  <2>1. \A s \in Server : peer'[s] = None <=> srv'[s] \notin {"read", "answer"}
    BY <1>1, <1>2 DEF InHand
  <2>2. \A s \in Server : queue'[s] # <<>> => srv'[s] \in {"accept", "read", "answer"}
    <3> SUFFICES ASSUME NEW s \in Server, queue[s] = <<>> PROVE queue'[s] = <<>>
      BY <1>1 DEF InHand
    <3>1. queue' = [t \in Server |-> Marked(queue[t], c, mark)]
      BY DEF Leaves, Marked, mark
    <3>2. Marked(queue[s], c, mark) \in Seq(Peer) /\ Len(Marked(queue[s], c, mark)) = 0
      <4>1. mark \in Peer
        BY DEF mark, Peer
      <4> QED BY <4>1, MarkedQueue
    <3> QED BY <3>1, <3>2, EmptySeq
  <2>3. ASSUME NEW s \in Server, srv'[s] = "answer"
        PROVE  peer'[s] # Mute /\ \A d \in Client : peer'[s] = d => cl'[d] = "read"
    BY <1>1, <1>2, <2>3 DEF InHand
  <2>4. ASSUME kind' = "datagram", NEW s \in Server, NEW n \in DOMAIN queue'[s]
        PROVE  queue'[s][n] # Mute
    <3>1. kind = "datagram" /\ n \in DOMAIN queue[s]
      BY <1>1, <2>4
    <3>2. queue[s][n] = c => cl[c] = "read"
      BY <3>1, QueuedIsAt DEF AtTheServer
    <3> QED BY <1>1, <1>2, <3>1, <3>2 DEF InHand
  <2>5. path' \in Server => Serving(path)'
    BY <1>1 DEF InHand, Serving
  <2> QED BY <1>1, <2>1, <2>2, <2>3, <2>4, <2>5 DEF InHand
<1> QED BY <1>4, <1>5

(* The first of the queue, and the others.                                 *)
LEMMA FirstOfQueue ==
  ASSUME NEW q \in Seq(Peer), q # <<>>
  PROVE  /\ 1 \in DOMAIN q /\ Head(q) = q[1]
         /\ \A n \in DOMAIN Tail(q) : n + 1 \in DOMAIN q /\ Tail(q)[n] = q[n + 1]
         /\ \A n \in DOMAIN q : n # 1 => n - 1 \in DOMAIN Tail(q) /\ Tail(q)[n - 1] = q[n]
         /\ DOMAIN q \subseteq Nat /\ DOMAIN Tail(q) \subseteq Nat
<1>1. /\ Len(q) \in Nat /\ Len(q) > 0 /\ DOMAIN q = 1..Len(q)
      /\ Tail(q) \in Seq(Peer) /\ Len(Tail(q)) = Len(q) - 1
      /\ \A n \in 1..(Len(q) - 1) : Tail(q)[n] = q[n + 1]
      /\ Head(q) = q[1]
  BY HeadTailProperties, LenProperties, EmptySeq
<1>2. DOMAIN Tail(q) = 1..(Len(q) - 1)
  BY <1>1, LenProperties
<1> QED BY <1>1, <1>2

(* accept and recvfrom take the first of the line in hand.                 *)
LEMMA TakenStaysInLine ==
  ASSUME Inv, Exchanges, NEW s \in Server, Accept(s) \/ Receive(s)
  PROVE  Exchanges'
<1> USE Names DEF Inv, TypeOK, Exchanges
<1> DEFINE q == queue[s]
<1>1. /\ srv[s] = "accept" /\ q # <<>> /\ peer[s] = None
      /\ peer' = [peer EXCEPT ![s] = Head(q)] /\ queue' = [queue EXCEPT ![s] = Tail(q)]
      /\ UNCHANGED <<kind, path, at, cl>>
      /\ srv' = [srv EXCEPT ![s] = IF kind = "stream" THEN "read" ELSE "answer"]
  BY DEF Accept, Receive, ServerTo, client, InHand
<1>2. q \in Seq(Peer)
  OBVIOUS
<1>3. /\ 1 \in DOMAIN q /\ Head(q) = q[1]
      /\ \A n \in DOMAIN Tail(q) : n + 1 \in DOMAIN q /\ Tail(q)[n] = q[n + 1]
      /\ \A n \in DOMAIN q : n # 1 => n - 1 \in DOMAIN Tail(q) /\ Tail(q)[n - 1] = q[n]
      /\ DOMAIN q \subseteq Nat /\ DOMAIN Tail(q) \subseteq Nat
  BY <1>1, <1>2, FirstOfQueue
<1>4. \A t \in Server \ {s} : peer'[t] = peer[t] /\ queue'[t] = queue[t] /\ srv'[t] = srv[t]
  BY <1>1
<1>5. peer'[s] = q[1] /\ queue'[s] = Tail(q)
  BY <1>1, <1>3
<1>6. ASSUME NEW c \in Client, NEW t \in Server
      PROVE  (InLine(c, t)' <=> InLine(c, t)) /\ (InLineOnce(c, t) => InLineOnce(c, t)')
  <2>1. CASE t # s
    BY <1>4, <2>1 DEF InLine, InLineOnce
  <2>2. CASE t = s
    <3>1. InLine(c, s)' <=> \E n \in DOMAIN q : q[n] = c
      <4>1. InLine(c, s)' => \E n \in DOMAIN q : q[n] = c
        BY <1>3, <1>5 DEF InLine
      <4>2. ASSUME NEW n \in DOMAIN q, q[n] = c PROVE InLine(c, s)'
        BY <1>3, <1>5, <4>2 DEF InLine
      <4> QED BY <4>1, <4>2
    <3>2. InLine(c, s) <=> \E n \in DOMAIN q : q[n] = c
      BY <1>1 DEF InLine
    <3>3. ASSUME InLineOnce(c, s) PROVE InLineOnce(c, s)'
      <4> SUFFICES ASSUME NEW n \in DOMAIN Tail(q), Tail(q)[n] = c
                   PROVE  /\ q[1] # c
                          /\ \A m \in DOMAIN Tail(q) : Tail(q)[m] = c => m = n
        BY <1>5 DEF InLineOnce
      <4>1. n + 1 \in DOMAIN q /\ q[n + 1] = c /\ n \in Nat
        BY <1>3
      <4>2. \A m \in DOMAIN q : q[m] = c => m = n + 1
        BY <3>3, <4>1 DEF InLineOnce
      <4>3. n # 0
        <5>1. DOMAIN Tail(q) = 1..Len(Tail(q))
          BY <1>1, <1>2, HeadTailProperties, LenProperties
        <5> QED BY <5>1
      <4>4. q[1] # c
        BY <1>3, <4>1, <4>2, <4>3
      <4>5. ASSUME NEW m \in DOMAIN Tail(q), Tail(q)[m] = c PROVE m = n
        BY <1>3, <4>1, <4>2, <4>5
      <4> QED BY <4>4, <4>5
    <3> QED BY <2>2, <3>1, <3>2, <3>3
  <2> QED BY <2>1, <2>2
<1>7. LinesMatch' /\ AtTheServer'
  BY <1>1, <1>6 DEF LinesMatch, AtTheServer
<1>8. InHand'
  <2>1. q[1] \in Peer /\ q[1] # None
    BY <1>2, <1>3, ElementOfSeq, LenProperties
  <2>2. ASSUME kind = "datagram"
        PROVE  /\ q[1] # Mute /\ \A n \in DOMAIN Tail(q) : Tail(q)[n] # Mute
               /\ \A c \in Client : q[1] = c => cl[c] = "read"
    <3>1. \A n \in DOMAIN q : q[n] # Mute
      BY <2>2 DEF InHand
    <3>2. \A c \in Client : q[1] = c => cl[c] = "read"
      BY <1>3, <2>2, QueuedIsAt DEF AtTheServer
    <3> QED BY <1>3, <3>1, <3>2
  <2>3. kind = "stream" \/ kind = "datagram"
    OBVIOUS
  <2> HIDE DEF q
  <2> QED BY <1>1, <1>4, <1>5, <2>1, <2>2, <2>3 DEF InHand, Serving
<1> QED BY <1>7, <1>8

(* connect and sendto put the client at the end of one line.               *)
LEMMA ConnectJoinsLine ==
  ASSUME Inv, Exchanges, NEW c \in Client, Connect(c)
  PROVE  Exchanges'
<1> USE Names DEF Inv, TypeOK, Exchanges
<1> DEFINE q == queue[path]
<1>1. /\ path \in Server /\ srv[path] # "bound" /\ cl[c] = "start"
      /\ queue' = [queue EXCEPT ![path] = Append(q, c)] /\ at' = [at EXCEPT ![c] = path]
      /\ cl' = [cl EXCEPT ![c] = IF kind = "stream" THEN "write" ELSE "read"]
      /\ UNCHANGED <<kind, path, srv, peer>>
  BY DEF Connect, ClientTo
<1>2. at[c] = None /\ \A s \in Server : ~InLine(c, s)
  BY <1>1 DEF LinesMatch, AtTheServer
<1>3. /\ q \in Seq(Peer) /\ Len(q) \in Nat /\ DOMAIN q = 1..Len(q)
      /\ DOMAIN Append(q, c) = 1..(Len(q) + 1)
      /\ Append(q, c)[Len(q) + 1] = c
      /\ \A n \in DOMAIN q : Append(q, c)[n] = q[n]
  <2>1. q \in Seq(Peer) /\ c \in Peer
    BY <1>1 DEF Peer
  <2>2. Append(q, c) \in Seq(Peer) /\ Len(Append(q, c)) = Len(q) + 1
        /\ \A n \in 1..Len(q) : Append(q, c)[n] = q[n]
        /\ Append(q, c)[Len(q) + 1] = c
    BY <2>1, AppendProperties
  <2> QED BY <2>1, <2>2, LenProperties
<1>4. \A s \in Server \ {path} : queue'[s] = queue[s]
  BY <1>1
<1>5. queue'[path] = Append(q, c)
  BY <1>1
<1> HIDE DEF q
<1>6. ASSUME NEW d \in Client, NEW s \in Server
      PROVE  /\ InLine(d, s)' <=> InLine(d, s) \/ (d = c /\ s = path)
             /\ InLineOnce(d, s)'
  <2>1. InLineOnce(d, s)
    BY DEF LinesMatch
  <2>2. CASE s # path
    BY <1>1, <1>4, <2>1, <2>2 DEF InLine, InLineOnce
  <2>3. CASE s = path
    <3>1. DOMAIN queue'[s] = DOMAIN q \cup {Len(q) + 1} /\ Len(q) + 1 \notin DOMAIN q
      BY <1>3, <1>5, <2>3
    <3>2. /\ queue'[s][Len(q) + 1] = c /\ \A n \in DOMAIN q : queue'[s][n] = q[n]
          /\ peer'[s] = peer[s] /\ queue[s] = q
      BY <1>1, <1>3, <1>5, <2>3 DEF q
    <3>3. peer[s] # c /\ \A n \in DOMAIN q : q[n] # c
      BY <1>2, <3>2 DEF InLine
    <3>4. InLine(d, s)' <=> InLine(d, s) \/ d = c
      BY <3>1, <3>2 DEF InLine
    <3>5. InLineOnce(d, s)'
      BY <2>1, <3>1, <3>2, <3>3 DEF InLineOnce
    <3> QED BY <2>3, <3>4, <3>5
  <2> QED BY <2>2, <2>3
<1>7. LinesMatch' /\ AtTheServer'
  BY <1>1, <1>2, <1>6 DEF LinesMatch, AtTheServer
<1>8. InHand'
  <2>1. srv[path] \in {"accept", "read", "answer"}
    BY <1>1 DEF InHand, Serving
  <2> QED BY <1>1, <1>3, <1>4, <1>5, <2>1 DEF InHand, Serving, q
<1> QED BY <1>7, <1>8

(* read and the answer take their client out of hand, or keep it there.    *)
LEMMA HandedOn ==
  ASSUME Inv, Exchanges, NEW s \in Server,
         Read(s) \/ Answer(s) \/ (AnswerGone(s) /\ kind # "stream")
  PROVE  Exchanges'
<1> USE Names DEF Inv, TypeOK, Exchanges
<1>1. CASE Read(s) /\ UNCHANGED peer
  <2>1. /\ srv' = [srv EXCEPT ![s] = "answer"] /\ srv[s] = "read"
        /\ peer[s] = Gone \/ \E c \in Client : peer[s] = c /\ cl[c] = "read"
        /\ UNCHANGED <<kind, path, peer, queue, cl, at>>
    BY <1>1 DEF Read, ServerTo, client, InHand
  <2>2. LinesMatch' /\ AtTheServer'
    BY <2>1, SameLines DEF LinesMatch, AtTheServer
  <2>3. Gone # Mute /\ Mute \notin Client
    BY SocketAssumption DEF Gone, Mute
  <2> QED BY <2>1, <2>2, <2>3 DEF InHand, Serving
<1>2. CASE ~(Read(s) /\ UNCHANGED peer)
  <2>1. /\ srv' = [srv EXCEPT ![s] = "accept"] /\ srv[s] \in {"read", "answer"}
        /\ peer' = [peer EXCEPT ![s] = None]
        /\ UNCHANGED <<kind, path, queue>>
        /\ \/ peer[s] \notin Client /\ UNCHANGED <<cl, at>>
           \/ /\ srv[s] = "answer" /\ peer[s] \in Client
              /\ cl' = [cl EXCEPT ![peer[s]] = "reply"]
              /\ at' = [at EXCEPT ![peer[s]] = None]
    <3>1. Mute \notin Client /\ Gone \notin Client
      BY SocketAssumption DEF Gone, Mute
    <3> QED BY <1>2, <3>1 DEF Read, Answer, AnswerGone, ServerTo, client
  <2>2. \A c \in Client : at'[c] = IF c = peer[s] THEN None ELSE at[c]
    BY <2>1
  <2>3. ASSUME NEW c \in Client, NEW t \in Server
        PROVE  /\ InLine(c, t)' <=> InLine(c, t) /\ ~(t = s /\ c = peer[s])
               /\ InLineOnce(c, t)'
    <3>1. InLineOnce(c, t)
      BY DEF LinesMatch
    <3> QED BY <2>1, <3>1 DEF InLine, InLineOnce
  <2>4. \A c \in Client : c = peer[s] => at[c] = s
    BY DEF LinesMatch, InLine
  <2>5. LinesMatch'
    BY <2>2, <2>3, <2>4 DEF LinesMatch
  <2>6. AtTheServer'
    <3>1. \A c \in Client : c # peer[s] => cl'[c] = cl[c]
      BY <2>1
    <3>2. \A c \in Client : c = peer[s] => cl'[c] # "spin" \/ UNCHANGED <<cl, at>>
      BY <2>1
    <3>3. peer[s] \in Client => at'[peer[s]] = None
      BY <2>2
    <3> QED BY <2>1, <2>2, <3>1, <3>2, <3>3 DEF AtTheServer
  <2>7. ASSUME NEW t \in Server, srv'[t] = "answer"
        PROVE  peer'[t] # Mute /\ \A c \in Client : peer'[t] = c => cl'[c] = "read"
    <3>1. t # s /\ srv[t] = "answer" /\ peer'[t] = peer[t]
      BY <2>1, <2>7
    <3>2. \A c \in Client : peer[t] = c => c # peer[s]
      BY <2>4, <3>1 DEF LinesMatch, InLine
    <3> QED BY <2>1, <3>1, <3>2 DEF InHand
  <2>8. InHand'
    BY <2>1, <2>7 DEF InHand, Serving
  <2> QED BY <2>5, <2>6, <2>8
<1> QED BY <1>1, <1>2

(* bind gives a server the path before anybody is in its line.             *)
LEMMA BindServesNobody ==
  ASSUME Inv, Exchanges, NEW s \in Server, Bind(s)
  PROVE  Exchanges'
<1>1. UNCHANGED <<kind, peer, queue, cl, at>> /\ srv[s] = "start"
  BY DEF Bind, client
<1>2. /\ \A t \in Server \ {s} : srv'[t] = srv[t]
      /\ srv'[s] \in {"off", "bound", "accept"}
      /\ path' = path \/ (path' = s /\ srv'[s] # "off")
  BY Zenon DEF Bind, ServerTo, Inv, TypeOK
<1>3. LinesMatch' /\ AtTheServer'
  BY <1>1, SameLines DEF Exchanges, LinesMatch, AtTheServer
<1>4. peer[s] = None /\ queue[s] = <<>> /\ path # s
  BY <1>1, Names DEF Exchanges, InHand, Serving
<1>5. path' \in Server => Serving(path)'
  BY <1>2, <1>4 DEF Exchanges, InHand, Serving
<1>6. InHand'
  BY <1>1, <1>2, <1>4, <1>5 DEF Exchanges, InHand
<1> QED BY <1>3, <1>6 DEF Exchanges

(* The lines are kept by every step.                                       *)
LEMMA ExchangesStep == Inv /\ Exchanges /\ [Next]_vars => Exchanges'
<1> SUFFICES ASSUME Inv, Exchanges, [Next]_vars PROVE Exchanges'
  OBVIOUS
<1> USE Names DEF Inv, TypeOK, Exchanges, AtTheServer, InHand, Serving, ServerTo, ClientTo,
                  server, client, hist
<1>1. ASSUME UNCHANGED <<peer, queue>>
      PROVE  /\ UNCHANGED at => LinesMatch'
             /\ \A s \in Server : UNCHANGED <<peer[s], queue[s]>>
  BY <1>1, SameLines DEF LinesMatch
<1>2. ASSUME NEW s \in Server, Dies(s) PROVE Exchanges'
  BY <1>2, ClosingEndsLine DEF Dies
<1>3. ASSUME NEW s \in Server, ServerStep(s) PROVE Exchanges'
  <2>2. CASE Listen(s)
    BY <1>1, <2>2 DEF Listen
  <2>3. CASE HandlerRemoves(s)
    BY <1>1, <2>3 DEF HandlerRemoves
  <2>4. CASE AcceptFails(s) \/ (AnswerGone(s) /\ kind = "stream")
    BY <1>2, <2>4 DEF AcceptFails, AnswerGone
  <2> QED BY <1>3, <2>2, <2>3, <2>4, BindServesNobody, TakenStaysInLine, HandedOn
         DEF ServerStep
<1>4. ASSUME NEW s \in Server, Start(s) PROVE Exchanges'
  BY <1>1, <1>4 DEF Start
<1>5. ASSUME NEW s \in Server, Kill(s) \/ Interrupt(s) PROVE Exchanges'
  BY <1>2, <1>5, ClosingEndsLine DEF Kill, Interrupt
<1>6. ASSUME NEW c \in Client, Write(c) \/ InterruptClient(c) PROVE Exchanges'
  <2>1. CASE Leaves(c)
    BY <2>1, LeavingLeavesLine
  <2>2. CASE Write(c) /\ at[c] # Broken
    BY <1>1, <2>2 DEF Write
  <2> QED BY <1>6, <2>1, <2>2 DEF Write, InterruptClient
<1>7. ASSUME NEW c \in Client, ClientStep(c) \/ Run(c) \/ WriteNothing(c) PROVE Exchanges'
  <2>1. CASE ConnectFails(c) \/ PrintReply(c) \/ Run(c)
    <3>1. UNCHANGED <<kind, path, srv, peer, queue, at>> /\ cl[c] \in {"off", "start", "reply"}
      BY <2>1 DEF ConnectFails, PrintReply, Run
    <3>2. PICK p : cl' = [cl EXCEPT ![c] = p]
      BY <2>1 DEF ConnectFails, PrintReply, Run
    <3>3. at[c] = None
      BY <3>1
    <3>4. \A s \in Server : peer[s] # c
      BY <3>3 DEF InLine, LinesMatch
    <3> QED BY <1>1, <3>1, <3>2, <3>3, <3>4
  <2>2. CASE ReadsEnd(c)
    <3>1. UNCHANGED <<kind, path, srv, peer, queue, at>> /\ at[c] = Broken
      BY <2>2 DEF ReadsEnd
    <3>2. cl' = [cl EXCEPT ![c] = "spin"]
      BY <2>2 DEF ReadsEnd
    <3>3. \A s \in Server : peer[s] # c
      BY <3>1 DEF InLine, LinesMatch
    <3> QED BY <1>1, <3>1, <3>2, <3>3
  <2>3. CASE WriteNothing(c)
    BY <1>1, <2>3 DEF WriteNothing
  <2> QED BY <1>6, <1>7, <2>1, <2>2, <2>3, ConnectJoinsLine DEF ClientStep
<1>8. CASE RemoveStale
  BY <1>1, <1>8 DEF RemoveStale
<1>9. CASE UNCHANGED vars
  BY <1>1, <1>9 DEF vars
<1> QED BY <1>3, <1>4, <1>5, <1>6, <1>7, <1>8, <1>9 DEF Next

(* The invariant of the exchanges holds for ever.                          *)
LEMMA ExchangesInvariant == Spec => []Exchanges
<1>1. Init => Exchanges
  BY Names, EmptySeq DEF Init, Exchanges, LinesMatch, AtTheServer, InHand, InLine, InLineOnce, Serving
<1> QED BY Invariance, ExchangesStep, <1>1, PTL DEF Spec

(* Nobody is forgotten and nobody is asked twice: a client that waits for  *)
(* an answer of a server that runs has one place there, in the queue or in *)
(* the server's hand, and none at any other server, whichever servers and  *)
(* clients were interrupted, killed and run again before.                  *)
THEOREM WaitersAreInLine ==
  Spec => [](\A c \in Client : \A s \in Server :
               /\ cl[c] = "read" /\ at[c] = s =>
                    InLine(c, s) /\ InLineOnce(c, s) /\ \A t \in Server \ {s} : ~InLine(c, t)
               /\ InLine(c, s) => at[c] = s /\ cl[c] \in {"write", "read", "silent"})
<1>1. Inv /\ Exchanges =>
        \A c \in Client : \A s \in Server :
          /\ cl[c] = "read" /\ at[c] = s =>
               InLine(c, s) /\ InLineOnce(c, s) /\ \A t \in Server \ {s} : ~InLine(c, t)
          /\ InLine(c, s) => at[c] = s /\ cl[c] \in {"write", "read", "silent"}
  BY Names DEF Exchanges, LinesMatch, AtTheServer
<1> QED BY Invariance, ExchangesInvariant, <1>1, PTL

(* A server has c's line and is about to answer it.                        *)
AnswerReady(c) ==
  /\ cl[c] = "read" /\ at[c] \in Server
  /\ srv[at[c]] = "answer" /\ peer[at[c]] = c
InNoLine(c) == \A s \in Server : ~InLine(c, s)

(* An answer reaches a client that has written and waits, from the server  *)
(* it asked, and there is no second one: with it the client is in no line. *)
THEOREM AnsweredOnce ==
  Spec => [][\A c \in Client : cl[c] # "reply" /\ cl'[c] = "reply" =>
               AnswerReady(c) /\ InNoLine(c)']_vars
<1>1. Inv /\ Exchanges /\ Exchanges' /\ [Next]_vars =>
        [\A c \in Client : cl[c] # "reply" /\ cl'[c] = "reply" =>
           AnswerReady(c) /\ InNoLine(c)']_vars
  <2> SUFFICES ASSUME Inv, Exchanges, Exchanges', Next,
                      NEW c \in Client, cl[c] # "reply", cl'[c] = "reply"
               PROVE  AnswerReady(c) /\ InNoLine(c)'
    OBVIOUS
  <2>1. PICK s \in Server : Answer(s) /\ peer[s] = c
    <3>1. cl' # cl /\ cl \in [Client -> {"off", "start", "write", "read", "silent", "reply", "spin"}]
      BY DEF Inv, TypeOK
    <3>2. \A d \in Client : ~ClientStep(d) /\ ~Run(d) /\ ~WriteNothing(d) /\ ~InterruptClient(d)
      BY <3>1 DEF ClientStep, Run, WriteNothing, InterruptClient, Connect, ConnectFails, Write,
         PrintReply, ReadsEnd, Leaves, ClientTo
    <3>3. \A s \in Server : ~Answer(s) => ~ServerStep(s)
      BY <3>1 DEF ServerStep, Bind, Listen, Accept, AcceptFails, Read, Receive, AnswerGone,
         HandlerRemoves, Dies, client
    <3>4. \A s \in Server : ~Start(s) /\ ~Kill(s) /\ ~Interrupt(s)
      BY <3>1 DEF Start, Kill, Interrupt, Dies, client
    <3>5. ~RemoveStale
      BY <3>1 DEF RemoveStale, client
    <3>6. PICK s \in Server : Answer(s)
      BY <3>2, <3>3, <3>4, <3>5 DEF Next
    <3> QED BY <3>1, <3>6 DEF Answer
  <2>2. srv[s] = "answer" /\ cl[c] = "read" /\ at[c] = s
    BY <2>1 DEF Answer, Exchanges, LinesMatch, InHand, InLine
  <2>3. at'[c] = None
    BY <2>1 DEF Answer, Inv, TypeOK
  <2>4. InNoLine(c)'
    BY <2>3, Names DEF Exchanges, LinesMatch, InNoLine
  <2> QED BY <2>1, <2>2, <2>4 DEF AnswerReady
<1> QED BY Invariance, ExchangesInvariant, <1>1, PTL DEF Spec

(* What a server can do next: take the first of its queue, read what has   *)
(* been written, see that its client has left, or answer.                  *)
ServerGoesOn(s) ==
  \/ srv[s] = "accept" /\ queue[s] # <<>>
  \/ /\ srv[s] = "read"
     /\ peer[s] \in {Gone, Mute} \/ \E c \in Client : peer[s] = c /\ cl[c] = "read"
  \/ srv[s] = "answer" /\ peer[s] \in Client \cup {Gone}

(* A client that waits for its answer has a server that goes on, or one    *)
(* that waits in read for another client, which has connected and not      *)
(* written.  Nothing else holds a server up; this is what SentIsAnswered   *)
(* rests on.                                                               *)
THEOREM OnlyTheSilentHoldUp ==
  Spec => [](\A c \in Client : \A s \in Server :
               cl[c] = "read" /\ at[c] = s =>
                 \/ ServerGoesOn(s)
                 \/ /\ srv[s] = "read"
                    /\ \E d \in Client \ {c} : /\ peer[s] = d /\ at[d] = s
                                              /\ cl[d] \in {"write", "silent"})
<1>1. Inv /\ Exchanges =>
        \A c \in Client : \A s \in Server :
          cl[c] = "read" /\ at[c] = s =>
            \/ ServerGoesOn(s)
            \/ /\ srv[s] = "read"
               /\ \E d \in Client \ {c} : /\ peer[s] = d /\ at[d] = s
                                         /\ cl[d] \in {"write", "silent"}
  <2> SUFFICES ASSUME Inv, Exchanges, NEW c \in Client, NEW s \in Server,
                      cl[c] = "read", at[c] = s, ~ServerGoesOn(s)
               PROVE  /\ srv[s] = "read"
                      /\ \E d \in Client \ {c} : /\ peer[s] = d /\ at[d] = s
                                                /\ cl[d] \in {"write", "silent"}
    OBVIOUS
  <2> USE Names DEF Inv, TypeOK, Exchanges, InHand, ServerGoesOn, Peer
  <2>1. InLine(c, s)
    BY DEF LinesMatch
  <2>2. srv[s] \in {"accept", "read", "answer"}
    BY <2>1 DEF InLine
  <2>3. srv[s] # "accept"
    BY <2>1 DEF InLine
  <2>4. srv[s] # "answer"
    BY <2>2
  <2>5. srv[s] = "read"
    BY <2>2, <2>3, <2>4
  <2>6. peer[s] \in Client /\ cl[peer[s]] # "read"
    BY <2>5
  <2>7. at[peer[s]] = s /\ cl[peer[s]] \in {"write", "silent"}
    BY <2>6 DEF LinesMatch, AtTheServer, InLine
  <2> QED BY <2>5, <2>6, <2>7
<1> QED BY Invariance, ExchangesInvariant, <1>1, PTL

-----------------------------------------------------------------------------
(* ProducerConsumer.                                                       *)

(* A line has a number, and whoever is about to write it has one.          *)
FifoTypes ==
  /\ prod \in ProducerPlace /\ cons \in ConsumerPlace
  /\ line \in TypedLine
  /\ line.len > 0 => line.msg > 0
  /\ prod \in {"open", "opening", "write", "close"} => line.len > 0
  /\ buf \in [1..BufSize -> Byte \cup {Garbage}]
  /\ pipe \in Seq(Byte)
  /\ shown \in Nat /\ got \in BOOLEAN /\ killed \in BOOLEAN

(* Where a piece of a line is in the FIFO, the rest of it follows.         *)
Whole(q) ==
  \A n \in 1..Len(q) :
    /\ n + q[n].left <= Len(q)
    /\ \A k \in 0..q[n].left : /\ q[n + k].msg = q[n].msg
                               /\ q[n + k].left = q[n].left - k

(* Printed, read, in the FIFO, typed: in this order, none goes back.       *)
InOrder ==
  /\ shown <= line.msg
  /\ \A n \in 1..Len(pipe) : shown <= pipe[n].msg /\ pipe[n].msg <= line.msg
  /\ \A m, n \in 1..Len(pipe) : m <= n => pipe[m].msg <= pipe[n].msg
  /\ got => /\ shown <= buf[1].msg /\ buf[1].msg <= line.msg
            /\ \A n \in 1..Len(pipe) : buf[1].msg <= pipe[n].msg

(* What a consumer has read begins with one line or the rest of one.       *)
OneLine ==
  \E n \in 1..BufSize :
    /\ buf[n].left = 0
    /\ \A k \in 1..n : buf[k].msg = buf[n].msg /\ buf[k].left = n - k

(* Before a consumer's first read there are bytes, or a writer about to    *)
(* write them, unless somebody was killed.                                 *)
FirstReadWaits ==
  /\ (~got /\ ~killed) =>
       /\ cons = "read" => prod = "write" \/ pipe # <<>>
       /\ prod = "close" => pipe # <<>>
       /\ cons \notin {"print", "close"}
  /\ (cons = "off" /\ got) => killed

(* The inductive invariant of producer and consumer.                       *)
FifoInv == FifoTypes /\ Whole(pipe) /\ InOrder /\ (got => OneLine) /\ FirstReadWaits

(* The sizes, as the assumptions give them.                                *)
LEMMA Sizes ==
  /\ BufSize \in Nat /\ BufSize >= 2 /\ MaxMsgs \in Nat /\ MaxMsgs >= 1
BY ProducerConsumerAssumption

(* What a byte consists of.                                                *)
LEMMA ByteFields ==
  ASSUME NEW b \in Byte
  PROVE  b.msg \in 1..MaxMsgs /\ b.left \in 0..(BufSize - 1)
BY DEF Byte, Msg

(* The bytes of a typed line: as many as it has, the line's number on each. *)
LEMMA BytesOfLine ==
  ASSUME NEW l \in TypedLine, l.len > 0, l.msg > 0
  PROVE  /\ Bytes(l) \in Seq(Byte) /\ Len(Bytes(l)) = l.len
         /\ l.len \in 2..BufSize
         /\ \A n \in 1..l.len : Bytes(l)[n].msg = l.msg /\ Bytes(l)[n].left = l.len - n
         /\ Whole(Bytes(l))
<1>1. l.len \in 2..BufSize /\ l.msg \in 1..MaxMsgs
  BY Sizes DEF TypedLine
<1>2. \A n \in 1..l.len : [msg |-> l.msg, left |-> l.len - n] \in Byte
  BY <1>1, Sizes DEF Byte, Msg
<1>3. Bytes(l) \in [1..l.len -> Byte]
  BY <1>2 DEF Bytes
<1>4. Bytes(l) \in Seq(Byte) /\ Len(Bytes(l)) = l.len
  <2>1. l.len \in Nat
    BY <1>1, Sizes
  <2>2. Bytes(l) \in Seq(Byte)
    BY <1>3, <2>1
  <2> QED BY <1>3, <2>1, <2>2, LenProperties
<1>5. \A n \in 1..l.len : Bytes(l)[n].msg = l.msg /\ Bytes(l)[n].left = l.len - n
  BY DEF Bytes
<1>6. Whole(Bytes(l))
  <2>1. ASSUME NEW n \in 1..l.len
        PROVE  n + Bytes(l)[n].left <= l.len /\ Bytes(l)[n].left = l.len - n
    BY <1>1, <1>5, Sizes
  <2>2. ASSUME NEW n \in 1..l.len, NEW k \in 0..(l.len - n)
        PROVE  /\ Bytes(l)[n + k].msg = Bytes(l)[n].msg
               /\ Bytes(l)[n + k].left = Bytes(l)[n].left - k
    <3>1. n + k \in 1..l.len
      BY <1>1, Sizes
    <3> QED BY <1>1, <1>5, <3>1, Sizes
  <2> QED BY <1>4, <2>1, <2>2 DEF Whole
<1> QED BY <1>1, <1>4, <1>5, <1>6

(* Whole lines stay whole behind others, and when bytes in front go.       *)
LEMMA WholeConcat ==
  ASSUME NEW q \in Seq(Byte), NEW r \in Seq(Byte), Whole(q), Whole(r)
  PROVE  Whole(q \o r)
<1>1. /\ q \o r \in Seq(Byte) /\ Len(q \o r) = Len(q) + Len(r)
      /\ \A n \in 1..Len(q) + Len(r) :
           (q \o r)[n] = IF n <= Len(q) THEN q[n] ELSE r[n - Len(q)]
      /\ Len(q) \in Nat /\ Len(r) \in Nat
  BY ConcatProperties, LenProperties
<1> DEFINE t == q \o r
<1> HIDE DEF t
<1>2. ASSUME NEW n \in 1..Len(q)
      PROVE  /\ n + t[n].left <= Len(t)
             /\ \A k \in 0..t[n].left : t[n + k].msg = t[n].msg /\ t[n + k].left = t[n].left - k
  <2>1. t[n] = q[n] /\ q[n] \in Byte
    BY <1>1, ElementOfSeq DEF t
  <2>2. q[n].left \in Nat
    BY <2>1, ByteFields, Sizes
  <2>3. n + q[n].left <= Len(q)
    BY DEF Whole
  <2>4. ASSUME NEW k \in 0..q[n].left
        PROVE  t[n + k] = q[n + k]
    <3>1. n + k \in 1..Len(q)
      BY <1>1, <2>2, <2>3
    <3> QED BY <1>1, <3>1 DEF t
  <2>5. Len(t) >= Len(q) /\ Len(t) \in Nat
    BY <1>1 DEF t
  <2>6. n + t[n].left <= Len(t)
    BY <1>1, <2>1, <2>2, <2>3, <2>5
  <2> QED BY <2>1, <2>4, <2>6 DEF Whole
<1>3. ASSUME NEW m \in 1..Len(r)
      PROVE  LET n == Len(q) + m
             IN /\ n + t[n].left <= Len(t)
                /\ \A k \in 0..t[n].left : t[n + k].msg = t[n].msg /\ t[n + k].left = t[n].left - k
  <2> DEFINE n == Len(q) + m
  <2>1. t[n] = r[m] /\ r[m] \in Byte
    <3>1. n \in 1..Len(q) + Len(r) /\ ~(n <= Len(q)) /\ n - Len(q) = m
      BY <1>1
    <3> QED BY <1>1, <3>1, ElementOfSeq DEF t
  <2>2. r[m].left \in Nat
    BY <2>1, ByteFields, Sizes
  <2>3. m + r[m].left <= Len(r)
    BY DEF Whole
  <2>4. ASSUME NEW k \in 0..r[m].left
        PROVE  t[n + k] = r[m + k]
    <3>1. n + k \in 1..Len(q) + Len(r) /\ ~(n + k <= Len(q)) /\ (n + k) - Len(q) = m + k
      BY <1>1, <2>2, <2>3
    <3> QED BY <1>1, <3>1 DEF t
  <2>5. n + t[n].left <= Len(t)
    BY <1>1, <2>1, <2>2, <2>3 DEF t
  <2>6. \A k \in 0..t[n].left : t[n + k].msg = t[n].msg /\ t[n + k].left = t[n].left - k
    <3> HIDE DEF n
    <3> QED BY <2>1, <2>4 DEF Whole
  <2> QED BY <2>5, <2>6
<1>4. ASSUME NEW n \in 1..Len(t)
      PROVE  n \in 1..Len(q) \/ \E m \in 1..Len(r) : n = Len(q) + m
  <2>1. n \in 1..Len(q) \/ (n - Len(q) \in 1..Len(r) /\ n = Len(q) + (n - Len(q)))
    BY <1>1 DEF t
  <2> QED BY <2>1
<1>5. Whole(t)
  <2> SUFFICES ASSUME NEW n \in 1..Len(t)
               PROVE  /\ n + t[n].left <= Len(t)
                      /\ \A k \in 0..t[n].left : /\ t[n + k].msg = t[n].msg
                                                 /\ t[n + k].left = t[n].left - k
    BY DEF Whole
  <2>1. CASE n \in 1..Len(q)
    BY <1>2, <2>1
  <2>2. CASE \E m \in 1..Len(r) : n = Len(q) + m
    BY <1>3, <2>2
  <2> QED BY <1>4, <2>1, <2>2
<1> QED BY <1>5 DEF t

(* What a read leaves in the FIFO goes on to a NUL, as the whole did.      *)
LEMMA WholeSuffix ==
  ASSUME NEW q \in Seq(Byte), NEW n \in 0..Len(q), Whole(q)
  PROVE  /\ SubSeq(q, n + 1, Len(q)) \in Seq(Byte)
         /\ Len(SubSeq(q, n + 1, Len(q))) = Len(q) - n
         /\ \A k \in 1..(Len(q) - n) : SubSeq(q, n + 1, Len(q))[k] = q[n + k]
         /\ Whole(SubSeq(q, n + 1, Len(q)))
<1> DEFINE r == SubSeq(q, n + 1, Len(q))
<1>1. Len(q) \in Nat /\ \A k \in 1..Len(q) : q[k] \in Byte
  BY LenProperties, ElementOfSeq
<1>2. r \in Seq(Byte) /\ Len(r) = Len(q) - n /\ \A k \in 1..(Len(q) - n) : r[k] = q[n + k]
  <2>1. \A k \in (n + 1)..Len(q) : q[k] \in Byte
    BY <1>1
  <2>2. /\ r \in Seq(Byte)
        /\ Len(r) = IF n + 1 <= Len(q) THEN Len(q) - (n + 1) + 1 ELSE 0
        /\ \A k \in 1..Len(q) - (n + 1) + 1 : r[k] = q[(n + 1) + k - 1]
    BY <1>1, <2>1, SubSeqProperties
  <2> QED BY <1>1, <2>2
<1> HIDE DEF r
<1>3. Whole(r)
  <2> SUFFICES ASSUME NEW m \in 1..Len(r)
               PROVE  /\ m + r[m].left <= Len(r)
                      /\ \A k \in 0..r[m].left : /\ r[m + k].msg = r[m].msg
                                                 /\ r[m + k].left = r[m].left - k
    BY DEF Whole
  <2>1. r[m] = q[n + m] /\ n + m \in 1..Len(q) /\ q[n + m] \in Byte
    BY <1>1, <1>2
  <2>2. q[n + m].left \in Nat
    BY <2>1, ByteFields, Sizes
  <2>3. n + m + q[n + m].left <= Len(q)
    BY <2>1 DEF Whole
  <2>4. ASSUME NEW k \in 0..q[n + m].left
        PROVE  r[m + k] = q[n + m + k]
    <3> DEFINE L == q[n + m].left
    <3>1. L \in Nat /\ k \in 0..L /\ n + m + L <= Len(q) /\ m \in Nat /\ m > 0
      BY <1>1, <1>2, <2>2, <2>3
    <3> HIDE DEF L
    <3>2. m + k \in 1..(Len(q) - n) /\ n + (m + k) = n + m + k
      BY <1>1, <3>1
    <3> QED BY <1>2, <3>2
  <2>5. m + r[m].left <= Len(r)
    BY <1>1, <1>2, <2>1, <2>2, <2>3
  <2>6. \A k \in 0..r[m].left : r[m + k].msg = r[m].msg /\ r[m + k].left = r[m].left - k
    <3> DEFINE z == n + m
    <3>1. z \in 1..Len(q) /\ r[m] = q[z] /\ \A k \in 0..q[z].left : r[m + k] = q[z + k]
      BY <2>1, <2>4
    <3> HIDE DEF z
    <3> QED BY <3>1 DEF Whole
  <2> QED BY <2>5, <2>6
<1> QED BY <1>2, <1>3 DEF r

(* It holds at first.                                                      *)
LEMMA FifoStart == FifoInit => FifoInv
<1> SUFFICES ASSUME FifoInit PROVE FifoInv
  OBVIOUS
<1>1. got \in BOOLEAN /\ killed \in BOOLEAN /\ ~got
  BY Zenon DEF FifoInit
<1>2. pipe \in Seq(Byte) /\ Len(pipe) = 0
  BY EmptySeq DEF FifoInit
<1>3. line \in TypedLine /\ line.len = 0 /\ line.msg = 0 /\ shown = 0
  BY Sizes DEF FifoInit, TypedLine
<1>4. buf \in [1..BufSize -> Byte \cup {Garbage}]
  BY DEF FifoInit, FreshBuf
<1>5. prod = "off" /\ cons = "off"
  BY DEF FifoInit
<1>6. FifoTypes
  BY <1>1, <1>2, <1>3, <1>4, <1>5 DEF FifoTypes, ProducerPlace, ConsumerPlace
<1> QED
  BY <1>1, <1>2, <1>3, <1>5, <1>6 DEF FifoInv, Whole, InOrder, FirstReadWaits

(* What happens to the two flags.                                          *)
FlagsSame ==
  /\ got' = got /\ killed' = killed
  /\ got' <=> got
  /\ killed' <=> killed

(* Steps that set neither got nor killed.                                  *)
Unflagged ==
  \/ StartProducer \/ AskUser \/ OpenWrite \/ WriteBytes \/ WriteFails \/ CloseWrite
  \/ OpenRead \/ ReadEnd \/ PrintText \/ CloseRead \/ UNCHANGED fifoVars

(* What each step does to got and killed, which are Boolean throughout.    *)
LEMMA FlagsKept ==
  /\ Unflagged => FlagsSame
  /\ ReadBytes => got' /\ got' \in BOOLEAN /\ killed' = killed /\ (killed' <=> killed)
  /\ StartConsumer => ~got' /\ got' \in BOOLEAN /\ killed' = killed /\ (killed' <=> killed)
  /\ KillProducer \/ KillConsumer => got' = got /\ (got' <=> got) /\ killed' /\ killed' \in BOOLEAN
<1>1. ASSUME StartProducer PROVE FlagsSame
  BY <1>1, Zenon DEF StartProducer, FlagsSame
<1>2. ASSUME AskUser PROVE FlagsSame
  BY <1>2, Zenon DEF AskUser, FlagsSame
<1>3. ASSUME OpenWrite PROVE FlagsSame
  BY <1>3, Zenon DEF OpenWrite, FlagsSame
<1>4. ASSUME WriteBytes PROVE FlagsSame
  BY <1>4, Zenon DEF WriteBytes, FlagsSame
<1>5. ASSUME WriteFails PROVE FlagsSame
  BY <1>5, Zenon DEF WriteFails, FlagsSame
<1>6. ASSUME CloseWrite PROVE FlagsSame
  BY <1>6, Zenon DEF CloseWrite, FlagsSame
<1>7. ASSUME OpenRead PROVE FlagsSame
  BY <1>7, Zenon DEF OpenRead, FlagsSame
<1>8. ASSUME ReadEnd PROVE FlagsSame
  BY <1>8, Zenon DEF ReadEnd, FlagsSame
<1>9. ASSUME PrintText PROVE FlagsSame
  BY <1>9, Zenon DEF PrintText, FlagsSame
<1>10. ASSUME CloseRead PROVE FlagsSame
  BY <1>10, Zenon DEF CloseRead, FlagsSame
<1>11. ASSUME UNCHANGED fifoVars PROVE FlagsSame
  BY <1>11, Zenon DEF fifoVars, FlagsSame
<1>12. Unflagged => FlagsSame
  BY <1>1, <1>2, <1>3, <1>4, <1>5, <1>6, <1>7, <1>8, <1>9, <1>10, <1>11, Zenon DEF Unflagged
<1>13. ReadBytes => got' /\ got' \in BOOLEAN /\ killed' = killed /\ (killed' <=> killed)
  <2> SUFFICES ASSUME ReadBytes
               PROVE  got' /\ got' \in BOOLEAN /\ killed' = killed /\ (killed' <=> killed)
    OBVIOUS
  <2>1. got' /\ got' \in BOOLEAN
    BY Zenon DEF ReadBytes
  <2>2. killed' = killed
    BY Zenon DEF ReadBytes
  <2>3. killed' <=> killed
    BY Zenon DEF ReadBytes
  <2> QED BY <2>1, <2>2, <2>3, Zenon
<1>14. StartConsumer => ~got' /\ got' \in BOOLEAN /\ killed' = killed /\ (killed' <=> killed)
  <2> SUFFICES ASSUME StartConsumer
               PROVE  ~got' /\ got' \in BOOLEAN /\ killed' = killed /\ (killed' <=> killed)
    OBVIOUS
  <2>1. ~got' /\ got' \in BOOLEAN
    BY Zenon DEF StartConsumer
  <2>2. killed' = killed
    BY Zenon DEF StartConsumer
  <2>3. killed' <=> killed
    BY Zenon DEF StartConsumer
  <2> QED BY <2>1, <2>2, <2>3, Zenon
<1>15. KillProducer => got' = got /\ (got' <=> got) /\ killed' /\ killed' \in BOOLEAN
  <2> SUFFICES ASSUME KillProducer
               PROVE  got' = got /\ (got' <=> got) /\ killed' /\ killed' \in BOOLEAN
    OBVIOUS
  <2>1. killed' /\ killed' \in BOOLEAN
    BY Zenon DEF KillProducer
  <2>2. got' = got
    BY Zenon DEF KillProducer
  <2>3. got' <=> got
    BY Zenon DEF KillProducer
  <2> QED BY <2>1, <2>2, <2>3, Zenon
<1>16. KillConsumer => got' = got /\ (got' <=> got) /\ killed' /\ killed' \in BOOLEAN
  <2> SUFFICES ASSUME KillConsumer
               PROVE  got' = got /\ (got' <=> got) /\ killed' /\ killed' \in BOOLEAN
    OBVIOUS
  <2>1. killed' /\ killed' \in BOOLEAN
    BY Zenon DEF KillConsumer
  <2>2. got' = got
    BY Zenon DEF KillConsumer
  <2>3. got' <=> got
    BY Zenon DEF KillConsumer
  <2> QED BY <2>1, <2>2, <2>3, Zenon
<1> QED BY <1>12, <1>13, <1>14, <1>15, <1>16, Zenon

(* Both flags stay Boolean.                                                *)
LEMMA FifoFlags ==
  ASSUME FifoInv, [FifoNext]_fifoVars
  PROVE  got' \in BOOLEAN /\ killed' \in BOOLEAN
<1>1. got \in BOOLEAN /\ killed \in BOOLEAN
  BY DEF FifoInv, FifoTypes
<1>2. Unflagged \/ ReadBytes \/ StartConsumer \/ KillProducer \/ KillConsumer
  BY Zenon DEF FifoNext, ProducerStep, ConsumerStep, Unflagged
<1> QED BY <1>1, <1>2, FlagsKept, Zenon DEF FlagsSame

(* The steps that leave the FIFO's bytes and the consumer's buffer alone,  *)
(* or drop the bytes.                                                      *)
BytesKept == (pipe' = pipe \/ pipe' = <<>>) /\ (UNCHANGED buf \/ ~got')

(* They keep what is said of lines.                                        *)
LEMMA KeptBytes ==
  ASSUME FifoInv, BytesKept, got' => got, line'.msg >= line.msg, line' \in TypedLine,
         UNCHANGED shown
  PROVE  /\ pipe' \in Seq(Byte) /\ Whole(pipe)' /\ InOrder' /\ (got' => OneLine')
<1> USE DEF FifoInv
<1>1. Len(<<>>) = 0 /\ <<>> \in Seq(Byte)
  BY EmptySeq
<1>2. pipe' \in Seq(Byte) /\ Whole(pipe)'
  <2>1. CASE pipe' = pipe
    BY <2>1 DEF FifoTypes, Whole
  <2>2. CASE pipe' = <<>>
    BY <1>1, <2>2 DEF Whole
  <2> QED BY <2>1, <2>2 DEF BytesKept
<1>3. line.msg \in Nat /\ line'.msg \in Nat /\ shown \in Nat
  BY Sizes DEF FifoTypes, TypedLine
<1>4. \A n \in 1..Len(pipe) : pipe[n].msg \in Nat
  BY ElementOfSeq, ByteFields, Sizes DEF FifoTypes
<1>5. got => buf[1].msg \in Nat
  <2>1. buf[1] \in Byte \cup {Garbage}
    BY Sizes DEF FifoTypes
  <2> QED BY <2>1, ByteFields, Sizes DEF Garbage
<1>6. shown' <= line'.msg
  BY <1>3 DEF InOrder
<1>7. \A n \in 1..Len(pipe') : shown' <= pipe'[n].msg /\ pipe'[n].msg <= line'.msg
  BY <1>1, <1>3, <1>4 DEF InOrder, BytesKept
<1>8. \A m, n \in 1..Len(pipe') : m <= n => pipe'[m].msg <= pipe'[n].msg
  BY <1>1 DEF InOrder, BytesKept
<1>9. got' => /\ shown' <= buf'[1].msg /\ buf'[1].msg <= line'.msg
              /\ \A n \in 1..Len(pipe') : buf'[1].msg <= pipe'[n].msg
  BY <1>1, <1>3, <1>5 DEF InOrder, BytesKept
<1>10. got' => OneLine'
  BY DEF BytesKept, OneLine
<1> QED BY <1>2, <1>6, <1>7, <1>8, <1>9, <1>10 DEF InOrder

(* The steps of the producer.                                              *)
LEMMA ProducerKeeps ==
  ASSUME FifoInv, [FifoNext]_fifoVars, StartProducer \/ ProducerStep \/ KillProducer
  PROVE  FifoInv'
<1> USE DEF FifoInv
<1>1. ASSUME ~WriteBytes
      PROVE  /\ BytesKept /\ UNCHANGED shown /\ (got' <=> got)
             /\ UNCHANGED buf /\ line' \in TypedLine /\ line'.msg >= line.msg
             /\ line'.len > 0 => line'.msg > 0
             /\ prod' \in {"open", "opening", "write", "close"} => line'.len > 0
             /\ prod' \in ProducerPlace /\ cons' \in ConsumerPlace
  <2>1. got' <=> got
    <3>1. Unflagged \/ KillProducer
      BY <1>1 DEF ProducerStep, Unflagged
    <3> QED BY <3>1, FlagsKept DEF FlagsSame
  <2>2. line.msg \in 0..MaxMsgs /\ line.len \in {0} \cup 2..BufSize
        /\ line = [msg |-> line.msg, len |-> line.len]
    BY DEF FifoTypes, TypedLine
  <2>3. CASE StartProducer
    BY <2>1, <2>2, <2>3, Sizes
       DEF StartProducer, FifoTypes, TypedLine, BytesKept, ProducerPlace
  <2>4. CASE AskUser
    <3>1. NextMsg \in 1..MaxMsgs /\ NextMsg >= line.msg
      BY <2>2, Sizes DEF NextMsg
    <3>2. CASE \E len \in 2..BufSize : line' = [msg |-> NextMsg, len |-> len]
      BY <2>1, <2>2, <2>4, <3>1, <3>2, Sizes
         DEF AskUser, FifoTypes, TypedLine, BytesKept, ProducerPlace
    <3>3. CASE line.len > 0 /\ line' = line
      BY <2>1, <2>2, <2>4, <3>3, Sizes
         DEF AskUser, FifoTypes, BytesKept, ProducerPlace
    <3> QED BY <2>4, <3>2, <3>3 DEF AskUser
  <2>5. CASE OpenWrite
    BY <2>1, <2>2, <2>5, Sizes
       DEF OpenWrite, FifoTypes, BytesKept, ProducerPlace, ConsumerPlace
  <2>6. CASE WriteFails \/ CloseWrite \/ KillProducer
    BY <2>1, <2>2, <2>6, Sizes
       DEF WriteFails, CloseWrite, KillProducer, FifoTypes, BytesKept, ProducerPlace
  <2> QED BY <1>1, <2>3, <2>4, <2>5, <2>6 DEF ProducerStep
<1>2. CASE ~WriteBytes
  <2>1. /\ pipe' \in Seq(Byte) /\ Whole(pipe)' /\ InOrder' /\ (got' => OneLine')
    BY <1>1, <1>2, KeptBytes
  <2>2. FifoTypes'
    BY <1>1, <1>2, <2>1, FifoFlags DEF FifoTypes
  <2>3. FirstReadWaits'
    <3>1. CASE StartProducer \/ AskUser
      <4>1. (killed' <=> killed) /\ (got' <=> got)
        BY <3>1, FlagsKept DEF Unflagged, FlagsSame
      <4> QED BY <3>1, <4>1 DEF StartProducer, AskUser, FirstReadWaits
    <3>2. CASE OpenWrite
      <4>1. (killed' <=> killed) /\ (got' <=> got)
        BY <3>2, FlagsKept DEF Unflagged, FlagsSame
      <4> QED BY <3>2, <4>1 DEF OpenWrite, FirstReadWaits, ReaderOpen, FifoTypes, ConsumerPlace
    <3>3. CASE WriteFails \/ CloseWrite
      <4>1. (killed' <=> killed) /\ (got' <=> got)
        BY <3>3, FlagsKept DEF Unflagged, FlagsSame
      <4> QED BY <3>3, <4>1 DEF WriteFails, CloseWrite, FirstReadWaits, ReaderOpen
    <3>4. CASE KillProducer
      <4>1. killed'
        BY <3>4, Zenon DEF KillProducer
      <4> QED BY <4>1 DEF FirstReadWaits
    <3> QED BY <1>2, <3>1, <3>2, <3>3, <3>4 DEF ProducerStep
  <2> QED BY <2>1, <2>2, <2>3
<1>3. CASE WriteBytes
  <2>1. (killed' <=> killed) /\ (got' <=> got)
    BY <1>3, FlagsKept DEF Unflagged, FlagsSame
  <2>2. /\ prod = "write" /\ prod' = "close" /\ pipe' = pipe \o Bytes(line)
        /\ UNCHANGED <<line, cons, buf, shown>>
    BY <1>3 DEF WriteBytes
  <2>3. /\ Bytes(line) \in Seq(Byte) /\ Len(Bytes(line)) = line.len
        /\ line.len \in 2..BufSize /\ Whole(Bytes(line))
        /\ \A n \in 1..line.len : Bytes(line)[n].msg = line.msg
    BY <2>2, BytesOfLine DEF FifoTypes
  <2>4. /\ pipe' \in Seq(Byte) /\ Len(pipe') = Len(pipe) + line.len
        /\ \A n \in 1..Len(pipe') :
             pipe'[n] = IF n <= Len(pipe) THEN pipe[n] ELSE Bytes(line)[n - Len(pipe)]
        /\ Len(pipe) \in Nat
    BY <2>2, <2>3, ConcatProperties, LenProperties DEF FifoTypes
  <2>5. Whole(pipe)'
    BY <2>2, <2>3, WholeConcat DEF FifoTypes
  <2>6. FifoTypes'
    BY <2>2, <2>4, FifoFlags DEF FifoTypes, ProducerPlace
  <2>7. \A n \in 1..Len(pipe') :
          \/ n \in 1..Len(pipe) /\ pipe'[n].msg = pipe[n].msg
          \/ n > Len(pipe) /\ pipe'[n].msg = line.msg
    <3>1. ASSUME NEW n \in 1..Len(pipe'), n <= Len(pipe)
          PROVE  n \in 1..Len(pipe) /\ pipe'[n] = pipe[n]
      BY <2>4, <3>1
    <3>2. ASSUME NEW n \in 1..Len(pipe'), ~(n <= Len(pipe))
          PROVE  n > Len(pipe) /\ pipe'[n].msg = line.msg
      <4>1. n - Len(pipe) \in 1..line.len /\ n > Len(pipe)
        BY <2>3, <2>4, <3>2, Sizes
      <4> QED BY <2>3, <2>4, <3>2, <4>1
    <3> SUFFICES ASSUME NEW n \in 1..Len(pipe')
                 PROVE  \/ n \in 1..Len(pipe) /\ pipe'[n].msg = pipe[n].msg
                        \/ n > Len(pipe) /\ pipe'[n].msg = line.msg
      OBVIOUS
    <3> QED BY <3>1, <3>2
  <2>8. line.msg \in Nat /\ shown \in Nat
    BY Sizes DEF FifoTypes, TypedLine
  <2>9. InOrder'
    <3>1. shown' <= line'.msg
      BY <2>2 DEF InOrder
    <3>2. \A n \in 1..Len(pipe') : shown' <= pipe'[n].msg /\ pipe'[n].msg <= line'.msg
      <4> SUFFICES ASSUME NEW n \in 1..Len(pipe')
                   PROVE  shown <= pipe'[n].msg /\ pipe'[n].msg <= line.msg
        BY <2>2
      <4>1. CASE n \in 1..Len(pipe) /\ pipe'[n].msg = pipe[n].msg
        BY <4>1 DEF InOrder
      <4>2. CASE pipe'[n].msg = line.msg
        BY <2>8, <4>2 DEF InOrder
      <4> QED BY <2>7, <4>1, <4>2
    <3>3. \A m, n \in 1..Len(pipe') : m <= n => pipe'[m].msg <= pipe'[n].msg
      <4> SUFFICES ASSUME NEW m \in 1..Len(pipe'), NEW n \in 1..Len(pipe'), m <= n
                   PROVE  pipe'[m].msg <= pipe'[n].msg
        OBVIOUS
      <4>1. CASE m \in 1..Len(pipe) /\ pipe'[m].msg = pipe[m].msg
        <5>1. pipe[m].msg <= line.msg
          BY <4>1 DEF InOrder
        <5>2. CASE n \in 1..Len(pipe) /\ pipe'[n].msg = pipe[n].msg
          BY <4>1, <5>2 DEF InOrder
        <5> QED BY <2>7, <4>1, <5>1, <5>2
      <4>2. CASE m > Len(pipe) /\ pipe'[m].msg = line.msg
        <5>1. m \in Nat /\ n \in Nat /\ Len(pipe) \in Nat
          BY <2>4
        <5>2. n \notin 1..Len(pipe)
          BY <4>2, <5>1
        <5> QED BY <2>7, <2>8, <4>2, <5>2
      <4> QED BY <2>7, <4>1, <4>2
    <3>4. got' => /\ shown' <= buf'[1].msg /\ buf'[1].msg <= line'.msg
                  /\ \A n \in 1..Len(pipe') : buf'[1].msg <= pipe'[n].msg
      BY <2>1, <2>2, <2>7 DEF InOrder
    <3> QED BY <3>1, <3>2, <3>3, <3>4 DEF InOrder
  <2>10. pipe' # <<>>
    BY <2>3, <2>4, EmptySeq
  <2>11. FirstReadWaits' /\ (got' => OneLine')
    BY <2>1, <2>2, <2>10 DEF FirstReadWaits, OneLine
  <2> QED BY <2>5, <2>6, <2>9, <2>11
<1> QED BY <1>2, <1>3

(* A read puts what the FIFO begins with at the beginning of the buffer.   *)
LEMMA ReadKeeps ==
  ASSUME FifoInv, [FifoNext]_fifoVars, ReadBytes
  PROVE  FifoInv'
<1> USE DEF FifoInv
<1> DEFINE size == IF Len(pipe) < BufSize THEN Len(pipe) ELSE BufSize
<1>1. /\ pipe' = SubSeq(pipe, size + 1, Len(pipe)) /\ pipe # <<>>
      /\ buf' = [n \in 1..BufSize |-> IF n <= size THEN pipe[n] ELSE buf[n]]
      /\ cons' = "print" /\ UNCHANGED <<prod, line, shown>>
  BY DEF ReadBytes
<1>2. got'
  BY FlagsKept
<1>3. Len(pipe) \in Nat /\ Len(pipe) >= 1 /\ \A n \in 1..Len(pipe) : pipe[n] \in Byte
  BY <1>1, LenProperties, EmptySeq, ElementOfSeq DEF FifoTypes
<1>4. size \in 1..Len(pipe) /\ size \in 1..BufSize
      /\ (size = Len(pipe) \/ size = BufSize)
  BY <1>3, Sizes
<1> HIDE DEF size
<1>5. /\ pipe' \in Seq(Byte) /\ Len(pipe') = Len(pipe) - size /\ Whole(pipe)'
      /\ \A k \in 1..Len(pipe') : pipe'[k] = pipe[size + k]
  <2>1. size \in 0..Len(pipe)
    BY <1>4
  <2> QED BY <1>1, <2>1, WholeSuffix DEF FifoTypes
<1>6. buf' \in [1..BufSize -> Byte \cup {Garbage}]
  BY <1>1, <1>3, <1>4 DEF FifoTypes
<1>7. FifoTypes'
  BY <1>1, <1>5, <1>6, FifoFlags DEF FifoTypes, ConsumerPlace
<1>8. buf'[1] = pipe[1] /\ 1 \in 1..Len(pipe)
  BY <1>1, <1>3, <1>4, Sizes
<1>9. InOrder'
  <2>1. \A k \in 1..Len(pipe') : size + k \in 1..Len(pipe) /\ pipe'[k] = pipe[size + k]
                               /\ size + k >= 1
    BY <1>3, <1>4, <1>5
  <2>2. \A n \in 1..Len(pipe') : shown' <= pipe'[n].msg /\ pipe'[n].msg <= line'.msg
    BY <1>1, <2>1 DEF InOrder
  <2>3. \A m, n \in 1..Len(pipe') : m <= n => pipe'[m].msg <= pipe'[n].msg
    <3> SUFFICES ASSUME NEW m \in 1..Len(pipe'), NEW n \in 1..Len(pipe'), m <= n
                 PROVE  pipe'[m].msg <= pipe'[n].msg
      OBVIOUS
    <3>1. size + m <= size + n
      BY <1>3, <1>4, <1>5
    <3> QED BY <2>1, <3>1 DEF InOrder
  <2>4. shown' <= buf'[1].msg /\ buf'[1].msg <= line'.msg
    BY <1>1, <1>8 DEF InOrder
  <2>5. \A n \in 1..Len(pipe') : buf'[1].msg <= pipe'[n].msg
    BY <1>8, <2>1 DEF InOrder
  <2>6. shown' <= line'.msg
    BY <1>1 DEF InOrder
  <2> QED BY <2>2, <2>3, <2>4, <2>5, <2>6 DEF InOrder
<1>10. OneLine'
  <2> DEFINE n == pipe[1].left + 1
  <2>1. pipe[1].left \in 0..(BufSize - 1) /\ 1 + pipe[1].left <= Len(pipe)
    BY <1>3, <1>8, ByteFields DEF Whole
  <2>2. n \in 1..BufSize /\ n <= size /\ pipe[1].left \in Nat
    BY <1>3, <1>4, <2>1, Sizes
  <2>3. ASSUME NEW k \in 1..n
        PROVE  buf'[k].msg = pipe[1].msg /\ buf'[k].left = n - k
    <3>1. k - 1 \in 0..pipe[1].left /\ 1 + (k - 1) = k
      BY <2>2
    <3>2. pipe[1 + (k - 1)].msg = pipe[1].msg
          /\ pipe[1 + (k - 1)].left = pipe[1].left - (k - 1)
      BY <1>8, <3>1 DEF Whole
    <3>3. pipe[k].msg = pipe[1].msg /\ pipe[k].left = pipe[1].left - (k - 1)
      BY <3>1, <3>2
    <3>4. k \in 1..BufSize /\ k <= size
      BY <1>4, <2>2, Sizes
    <3>5. buf'[k] = pipe[k]
      BY <1>1, <3>4
    <3> QED BY <2>2, <3>3, <3>5
  <2>4. buf'[n].left = 0 /\ n \in 1..n
    BY <2>2, <2>3, Sizes
  <2> HIDE DEF n
  <2> QED BY <2>2, <2>3, <2>4 DEF OneLine
<1>11. FirstReadWaits'
  BY <1>1, <1>2 DEF FirstReadWaits
<1> QED BY <1>5, <1>7, <1>9, <1>10, <1>11

(* The other steps of the consumer.                                        *)
LEMMA ConsumerKeeps ==
  ASSUME FifoInv, [FifoNext]_fifoVars, StartConsumer \/ ConsumerStep \/ KillConsumer
  PROVE  FifoInv'
<1> USE DEF FifoInv
<1>0. line' = line => line'.msg >= line.msg /\ line' \in TypedLine
  BY Sizes DEF FifoTypes, TypedLine
<1>1. CASE StartConsumer
  <2>1. ~got' /\ (killed' <=> killed)
    BY <1>1, FlagsKept
  <2>2. /\ UNCHANGED <<prod, line, pipe, shown>> /\ cons = "off" /\ cons' = "open"
        /\ buf' = FreshBuf
    BY <1>1 DEF StartConsumer
  <2>3. /\ pipe' \in Seq(Byte) /\ Whole(pipe)' /\ InOrder' /\ (got' => OneLine')
    BY <1>0, <2>1, <2>2, KeptBytes DEF BytesKept
  <2>4. FifoTypes'
    BY <2>2, <2>3, FifoFlags DEF FifoTypes, ConsumerPlace, FreshBuf
  <2>5. FirstReadWaits'
    BY <2>1, <2>2 DEF FirstReadWaits
  <2> QED BY <2>3, <2>4, <2>5
<1>2. CASE OpenRead
  <2>1. (got' <=> got) /\ (killed' <=> killed)
    BY <1>2, FlagsKept DEF Unflagged, FlagsSame
  <2>2. /\ UNCHANGED <<line, buf, pipe, shown>>
    BY <1>2 DEF OpenRead
  <2>3. /\ pipe' \in Seq(Byte) /\ Whole(pipe)' /\ InOrder' /\ (got' => OneLine')
    BY <1>0, <2>1, <2>2, KeptBytes DEF BytesKept
  <2>4. FifoTypes'
    BY <1>2, <2>2, <2>3, FifoFlags DEF FifoTypes, ConsumerPlace, ProducerPlace, OpenRead
  <2>5. FirstReadWaits'
    <3>1. /\ cons = "open" /\ pipe' = pipe
          /\ cons' = IF prod \in {"opening", "write", "close"} THEN "read" ELSE "opening"
          /\ prod' = IF prod = "opening" THEN "write" ELSE prod
      BY <1>2 DEF OpenRead, WriterOpen
    <3> QED BY <2>1, <3>1 DEF FirstReadWaits
  <2> QED BY <2>3, <2>4, <2>5
<1>3. CASE ReadBytes
  BY <1>3, ReadKeeps
<1>4. CASE ReadEnd
  <2>1. (got' <=> got) /\ (killed' <=> killed)
    BY <1>4, FlagsKept DEF Unflagged, FlagsSame
  <2>2. /\ UNCHANGED <<prod, line, buf, pipe, shown>> /\ cons' = "print"
    BY <1>4 DEF ReadEnd
  <2>3. /\ pipe' \in Seq(Byte) /\ Whole(pipe)' /\ InOrder' /\ (got' => OneLine')
    BY <1>0, <2>1, <2>2, KeptBytes DEF BytesKept
  <2>4. FifoTypes'
    BY <2>2, <2>3, FifoFlags DEF FifoTypes, ConsumerPlace
  <2>5. FirstReadWaits'
    BY <1>4, <2>1, <2>2 DEF FirstReadWaits, ReadEnd, WriterOpen
  <2> QED BY <2>3, <2>4, <2>5
<1>5. CASE PrintText
  <2>1. (got' <=> got) /\ (killed' <=> killed)
    BY <1>5, FlagsKept DEF Unflagged, FlagsSame
  <2>2. /\ UNCHANGED <<prod, line, buf, pipe>> /\ cons = "print" /\ cons' = "close"
        /\ shown' = IF got THEN buf[1].msg ELSE shown
    BY <1>5 DEF PrintText
  <2>3. got => buf[1].msg \in Nat
    <3>1. buf[1] \in Byte \cup {Garbage}
      BY Sizes DEF FifoTypes
    <3> QED BY <3>1, ByteFields, Sizes DEF Garbage
  <2>4. FifoTypes'
    BY <2>2, <2>3, FifoFlags DEF FifoTypes, ConsumerPlace
  <2>5. InOrder'
    BY <2>1, <2>2, <2>3 DEF InOrder
  <2>6. Whole(pipe)' /\ (got' => OneLine') /\ FirstReadWaits'
    BY <2>1, <2>2 DEF Whole, OneLine, FirstReadWaits
  <2> QED BY <2>4, <2>5, <2>6
<1>6. CASE CloseRead
  <2>1. (got' <=> got) /\ (killed' <=> killed)
    BY <1>6, FlagsKept DEF Unflagged, FlagsSame
  <2>2. /\ UNCHANGED <<prod, line, buf, shown>> /\ cons = "close" /\ cons' = "open"
        /\ pipe' = pipe \/ pipe' = <<>>
    BY <1>6 DEF CloseRead
  <2>3. /\ pipe' \in Seq(Byte) /\ Whole(pipe)' /\ InOrder' /\ (got' => OneLine')
    BY <1>0, <2>1, <2>2, KeptBytes DEF BytesKept
  <2>4. FifoTypes'
    BY <2>2, <2>3, FifoFlags DEF FifoTypes, ConsumerPlace
  <2>5. FirstReadWaits'
    BY <2>1, <2>2 DEF FirstReadWaits
  <2> QED BY <2>3, <2>4, <2>5
<1>7. CASE KillConsumer
  <2>1. (got' <=> got) /\ killed'
    BY <1>7, FlagsKept
  <2>2. /\ UNCHANGED <<prod, line, buf, shown>> /\ cons' = "off"
        /\ pipe' = pipe \/ pipe' = <<>>
    BY <1>7 DEF KillConsumer
  <2>3. /\ pipe' \in Seq(Byte) /\ Whole(pipe)' /\ InOrder' /\ (got' => OneLine')
    BY <1>0, <2>1, <2>2, KeptBytes DEF BytesKept
  <2>4. FifoTypes'
    BY <2>2, <2>3, FifoFlags DEF FifoTypes, ConsumerPlace
  <2>5. FirstReadWaits'
    BY <2>1 DEF FirstReadWaits
  <2> QED BY <2>3, <2>4, <2>5
<1> QED BY <1>1, <1>2, <1>3, <1>4, <1>5, <1>6, <1>7 DEF ConsumerStep

(* The invariant of producer and consumer holds for ever.                  *)
LEMMA FifoInvariant == FifoSpec => []FifoInv
<1>1. FifoInv /\ [FifoNext]_fifoVars => FifoInv'
  <2> SUFFICES ASSUME FifoInv, [FifoNext]_fifoVars PROVE FifoInv'
    OBVIOUS
  <2>1. CASE UNCHANGED fifoVars
    <3>1. (got' <=> got) /\ (killed' <=> killed)
      BY <2>1, FlagsKept DEF Unflagged, FlagsSame
    <3> QED
      BY <2>1, <3>1, FifoFlags DEF fifoVars, FifoInv, FifoTypes, Whole, InOrder, OneLine,
         FirstReadWaits
  <2> QED BY <2>1, ProducerKeeps, ConsumerKeeps DEF FifoNext
<1> QED BY FifoStart, <1>1, PTL DEF FifoSpec

(* The consumer's printf ends at a NUL inside its buffer and prints the    *)
(* text of one line, for every BUF_SIZE, every capacity of the FIFO and    *)
(* any number of lines, kills and restarts.                                *)
THEOREM PrintsOneLine == FifoSpec => []TextIsOneLine
<1>1. FifoInv => TextIsOneLine
  BY DEF FifoInv, FirstReadWaits, OneLine, TextIsOneLine
<1> QED BY FifoInvariant, <1>1, PTL

(* Lines are printed in the order typed, none before it was typed.         *)
THEOREM PrintsInOrder == FifoSpec => PrintedInOrder
<1>1. FifoInv /\ [FifoNext]_fifoVars => [shown' >= shown /\ shown' <= line.msg]_fifoVars
  <2> SUFFICES ASSUME FifoInv, FifoNext
               PROVE  shown' >= shown /\ shown' <= line.msg
    OBVIOUS
  <2>1. shown \in Nat /\ shown <= line.msg
    BY DEF FifoInv, FifoTypes, InOrder
  <2>2. shown' = shown \/ (got /\ shown' = buf[1].msg)
    BY DEF FifoNext, ProducerStep, ConsumerStep, StartProducer, AskUser, OpenWrite,
       WriteBytes, WriteFails, CloseWrite, KillProducer, StartConsumer, OpenRead,
       ReadBytes, ReadEnd, PrintText, CloseRead, KillConsumer
  <2> QED BY <2>1, <2>2 DEF FifoInv, InOrder
<1> QED BY FifoInvariant, <1>1, PTL DEF FifoSpec, PrintedInOrder

(* Where a program waits for the other: in open, for the FIFO's other end; *)
(* in write, for room; in read, for bytes.                                 *)
ProducerWaits ==
  \/ prod = "opening"
  \/ prod = "write" /\ ReaderOpen /\ Len(pipe) + line.len > PipeCap
ConsumerWaits ==
  \/ cons = "opening"
  \/ cons = "read" /\ pipe = <<>> /\ WriterOpen

(* A program sleeps in open only while the other end is closed: the other  *)
(* program's open wakes it in the same step.                               *)
Sleepers ==
  /\ prod = "opening" => ~ReaderOpen
  /\ cons = "opening" => ~WriterOpen

LEMMA SleepersInvariant == FifoSpec => []Sleepers
<1>1. FifoInit => Sleepers
  BY DEF FifoInit, Sleepers
<1>2. Sleepers /\ [FifoNext]_fifoVars => Sleepers'
  <2> SUFFICES ASSUME Sleepers, [FifoNext]_fifoVars PROVE Sleepers'
    OBVIOUS
  <2> USE DEF Sleepers, ReaderOpen, WriterOpen
  <2>1. CASE StartProducer \/ ProducerStep \/ KillProducer
    BY <2>1 DEF StartProducer, ProducerStep, KillProducer, AskUser, OpenWrite, WriteBytes,
       WriteFails, CloseWrite
  <2>2. CASE StartConsumer \/ ConsumerStep \/ KillConsumer
    BY <2>2 DEF StartConsumer, ConsumerStep, KillConsumer, OpenRead, ReadBytes, ReadEnd,
       PrintText, CloseRead
  <2>3. CASE UNCHANGED fifoVars
    BY <2>3 DEF fifoVars
  <2> QED BY <2>1, <2>2, <2>3 DEF FifoNext
<1> QED BY <1>1, <1>2, PTL DEF FifoSpec

(* Producer and consumer never wait for each other, at any moment of their *)
(* opens, writes, reads and closes, whoever is killed and started again    *)
(* and for every size of the buffers and of the FIFO: a line always fits   *)
(* into the FIFO that a reader has found empty.                            *)
THEOREM OneProceeds == FifoSpec => []~(ProducerWaits /\ ConsumerWaits)
<1>1. FifoInv /\ Sleepers => ~(ProducerWaits /\ ConsumerWaits)
  <2> SUFFICES ASSUME FifoInv, Sleepers, ProducerWaits, ConsumerWaits PROVE FALSE
    OBVIOUS
  <2>1. prod # "opening"
    BY DEF Sleepers, ConsumerWaits, ReaderOpen, WriterOpen
  <2>2. cons = "read" /\ pipe = <<>>
    BY <2>1 DEF Sleepers, ProducerWaits, ConsumerWaits, ReaderOpen, WriterOpen
  <2>3. Len(pipe) = 0 /\ line.len > PipeCap
    <3>1. line.len \in Nat
      BY DEF FifoInv, FifoTypes, TypedLine
    <3> QED BY <2>1, <2>2, <3>1 DEF ProducerWaits
  <2> QED BY <2>3, ProducerConsumerAssumption DEF FifoInv, FifoTypes, TypedLine
<1> QED BY FifoInvariant, SleepersInvariant, <1>1, PTL

-----------------------------------------------------------------------------
(* SharedMemory.                                                           *)

(* What a program's place says of its segment.  Of POSIX objects: nothing  *)
(* is ever written to them, and whoever works with one has given it a      *)
(* size.                                                                   *)
ProgramsPlaced ==
  /\ \A p \in Proc : id[p] = Nothing <=> pc[p] = "off"
  /\ \A p \in gone : pc[p] \in {"got", "fault"}
  /\ \A p \in Proc : pc[p] = "fault" => p \in gone
  /\ \A p \in Proc : pc[p] = "detached" => p \in Reader
  /\ api = "sysv" => \A p \in Proc : pc[p] # "open"
  /\ api = "posix" => gone = {} /\ box \in {Empty, Unknown}
  /\ api = "posix" => \A g \in Segment : half[g] = Blank
  /\ api = "posix" =>
       \A p \in Proc : pc[p] \in {"open", "map", "mid", "done"} => id[p] \in sized
  /\ api = "posix" => \A w \in Writer : pc[w] \notin {"map", "mid"}

(* The segments that exist; the identifiers of the others are blank.       *)
Existing ==
  {g \in Segment : \/ \E k \in Key : name[k] = g
                   \/ \E q \in Proc : id[q] = g /\ Holds(q)}

(* An identifier that stands for nothing is blank when it is used again.   *)
OthersBlank == \A g \in Segment \ Existing : half[g] = Blank

(* A program without another beside it has the segment with the name.      *)
LoneHasName ==
  lone # Nothing =>
    /\ pc[lone] # "off" /\ \A q \in Proc \ {lone} : pc[q] = "off"
    /\ name[MyKey] = id[lone]
    /\ lone \notin gone

(* What a program that starts alone finds is what the history says; a lone *)
(* reader has it before it, a lone writer has put its line there.          *)
InTheBox == IF name[MyKey] = Nothing THEN Blank ELSE half[name[MyKey]]

BoxTold ==
  /\ (box # Unknown /\ \A q \in Proc : pc[q] = "off") => InTheBox = <<box, box>>
  /\ (lone \in Reader /\ box # Unknown /\ pc[lone] # "detached") =>
       /\ half[id[lone]] = <<box, box>>
       /\ pc[lone] = "mid" => text[lone][1] = box
       /\ pc[lone] = "done" => text[lone] = <<box, box>>
  /\ (lone \in Writer /\ api = "sysv" /\ pc[lone] \in {"mid", "done"}) =>
       /\ text[lone][2] = text[lone][1]
       /\ half[id[lone]][1] = text[lone][1]
       /\ pc[lone] = "done" => half[id[lone]][2] = text[lone][1]

(* The inductive invariant of the shared memory.                           *)
SegmentsInv == SegmentsOK /\ ProgramsPlaced /\ OthersBlank /\ LoneHasName /\ BoxTold

(* The constants that mean nothing or nobody are none of the others.       *)
LEMMA SegmentNames ==
  /\ Writer \cap Reader = {} /\ Proc = Writer \cup Reader
  /\ Nothing \notin Proc /\ Nothing \notin Segment
  /\ Empty \notin Line /\ Unknown \notin Line /\ Unknown # Empty
  /\ Blank = <<Empty, Empty>>
BY SegmentAssumption DEF Nothing, Empty, Unknown, Blank, Proc

(* There are identifiers enough: each other program pins one at most, and  *)
(* the key that is not mine names one.                                     *)
LEMMA FreeSegment ==
  ASSUME SegmentsOK, NEW p \in Proc, id[p] = Nothing, name[MyKey] = Nothing
  PROVE  \E g \in Segment : g \in Unused
<1> SUFFICES ASSUME Unused = {} PROVE FALSE
  BY DEF Unused
<1> USE SegmentNames
<1> DEFINE other == IF MyKey = "ftok" THEN "fallback" ELSE "ftok"
           f == [q \in Proc |-> IF q = p THEN name[other] ELSE id[q]]
           image == {f[q] : q \in Proc}
<1>1. \A k \in Key : k = MyKey \/ k = other
  BY DEF Key, MyKey
<1>2. Segment \subseteq image
  <2> SUFFICES ASSUME NEW g \in Segment PROVE g \in image
    OBVIOUS
  <2>1. (\E k \in Key : name[k] = g) \/ \E q \in Proc : id[q] = g
    BY DEF Unused
  <2>2. CASE \E k \in Key : name[k] = g
    <3>1. name[other] = g
      BY <1>1, <2>2
    <3>2. f[p] = g
      BY <3>1
    <3> QED BY <3>2
  <2>3. CASE \E q \in Proc : id[q] = g
    <3>1. PICK q \in Proc : id[q] = g
      BY <2>3
    <3>2. q # p /\ f[q] = g
      BY <3>1
    <3> QED BY <3>2
  <2> QED BY <2>1, <2>2, <2>3
<1>3. IsFiniteSet(Proc) /\ IsFiniteSet(Segment) /\ Cardinality(Segment) > Cardinality(Proc)
  BY SegmentAssumption
<1>4. f \in Surjection(Proc, image)
  BY DEF Surjection
<1> HIDE DEF f
<1>5. IsFiniteSet(image) /\ Cardinality(image) <= Cardinality(Proc)
  BY <1>3, <1>4, FS_Surjection
<1>6. Cardinality(Segment) <= Cardinality(image)
  BY <1>2, <1>5, FS_Subset
<1>7. Cardinality(Segment) \in Nat /\ Cardinality(image) \in Nat /\ Cardinality(Proc) \in Nat
  BY <1>3, <1>5, FS_CardinalityType
<1> QED BY <1>3, <1>5, <1>6, <1>7

(* The halves of a text.                                                   *)
Text == (Line \cup {Empty}) \X (Line \cup {Empty})

LEMMA Halves ==
  ASSUME NEW t \in Text, NEW l \in Line \cup {Empty}
  PROVE  /\ t = <<t[1], t[2]>> /\ t[1] \in Line \cup {Empty} /\ t[2] \in Line \cup {Empty}
         /\ [t EXCEPT ![1] = l] = <<l, t[2]>>
         /\ [t EXCEPT ![2] = l] = <<t[1], l>>
         /\ <<l, t[2]>> \in Text /\ <<t[1], l>> \in Text
BY DEF Text

(* It holds at first: no program runs and the box is empty.                *)
LEMMA SegmentsStart == SegmentsInit => SegmentsInv
<1> SUFFICES ASSUME SegmentsInit PROVE SegmentsInv
  OBVIOUS
<1> USE SegmentNames DEF SegmentsInit, Place
<1>1. SegmentsOK
  BY DEF SegmentsOK
<1>2. ProgramsPlaced
  BY DEF ProgramsPlaced
<1>3. OthersBlank
  BY DEF OthersBlank
<1>4. LoneHasName
  BY DEF LoneHasName
<1>5. BoxTold
  <2>1. InTheBox = <<box, box>>
    BY DEF InTheBox, MyKey, Key
  <2> QED BY <2>1 DEF BoxTold
<1> QED BY <1>1, <1>2, <1>3, <1>4, <1>5 DEF SegmentsInv

(* A program that starts has what the name stands for before it: what was  *)
(* in the box, or a blank segment that nothing else stands for.            *)
LEMMA FoundKeeps ==
  ASSUME SegmentsInv, NEW p \in Proc, pc[p] = "off", NEW g \in Segment, Found(p, g),
         UNCHANGED <<half, sized, text>>,
         \/ name[MyKey] = g /\ UNCHANGED name
         \/ name[MyKey] = Nothing /\ g \in Unused /\ name' = [name EXCEPT ![MyKey] = g]
  PROVE  SegmentsInv'
<1> USE SegmentNames
<1>0. /\ pc' = [pc EXCEPT ![p] = "got"] /\ id' = [id EXCEPT ![p] = g]
      /\ lone' = IF \A q \in Proc : pc[q] = "off" THEN p ELSE Nothing
      /\ UNCHANGED <<api, file, gone, box>>
  BY DEF Found, Goto
<1>1. MyKey \in Key /\ MyKey' = MyKey
  BY <1>0 DEF MyKey, Key
<1>2. /\ SegmentsOK /\ ProgramsPlaced /\ OthersBlank /\ LoneHasName /\ BoxTold
      /\ name \in [Key -> Segment \cup {Nothing}] /\ pc \in [Proc -> Place]
      /\ id \in [Proc -> Segment \cup {Nothing}]
  BY DEF SegmentsInv, SegmentsOK
<1>3. name'[MyKey] = g /\ \A k \in Key : name[k] # Nothing => name'[k] = name[k]
  BY <1>1, <1>2
<1>4. pc'[p] = "got" /\ id'[p] = g /\ \A q \in Proc \ {p} : pc'[q] = pc[q] /\ id'[q] = id[q]
  BY <1>0, <1>2
<1>5. SegmentsOK'
  BY <1>0, <1>1, <1>2 DEF SegmentsOK, Place
<1>6. ProgramsPlaced'
  <2>1. p \notin gone
    BY <1>2 DEF ProgramsPlaced
  <2> QED BY <1>0, <1>2, <1>4, <2>1 DEF ProgramsPlaced
<1>7. OthersBlank'
  <2>1. ASSUME NEW h \in Existing PROVE h \in Existing'
    <3>1. CASE \E k \in Key : name[k] = h
      BY <1>3, <3>1 DEF Existing
    <3>2. CASE \E q \in Proc : id[q] = h /\ Holds(q)
      <4>1. PICK q \in Proc : id[q] = h /\ Holds(q)
        BY <3>2
      <4>2. q # p
        BY <4>1 DEF Holds
      <4>3. id'[q] = h /\ Holds(q)'
        BY <1>0, <1>4, <4>1, <4>2 DEF Holds
      <4> QED BY <4>3, <2>1 DEF Existing
    <3> QED BY <2>1, <3>1, <3>2 DEF Existing
  <2> QED BY <1>2, <2>1 DEF OthersBlank
<1>8. LoneHasName'
  <2>1. p \notin gone
    BY <1>2 DEF ProgramsPlaced
  <2> QED BY <1>0, <1>1, <1>3, <1>4, <2>1 DEF LoneHasName
<1>9. BoxTold'
  <2>1. half'[g] = InTheBox
    <3>1. CASE name[MyKey] = g
      BY <3>1 DEF InTheBox
    <3>2. CASE name[MyKey] = Nothing /\ g \in Unused
      <4>1. g \notin Existing
        BY <3>2 DEF Existing, Unused
      <4> QED BY <1>2, <3>2, <4>1 DEF OthersBlank, InTheBox
    <3> QED BY <3>1, <3>2
  <2>2. lone' \in {p, Nothing}
    BY <1>0
  <2>3. lone' = p /\ box' # Unknown => half'[g] = <<box', box'>>
    BY <1>0, <1>2, <2>1 DEF BoxTold
  <2> QED BY <1>4, <2>2, <2>3 DEF BoxTold
<1> QED BY <1>5, <1>6, <1>7, <1>8, <1>9 DEF SegmentsInv

(* shmget and shm_open(O_CREAT), with a segment of that name or a new one. *)
LEMMA GetKeeps == ASSUME SegmentsInv, NEW p \in Proc, Get(p) PROVE SegmentsInv'
<1> USE SegmentNames
<1>1. pc[p] = "off" /\ UNCHANGED <<half, sized, text>>
  BY DEF Get
<1>2. MyKey \in Key /\ SegmentsOK /\ id[p] = Nothing
  BY <1>1 DEF MyKey, Key, SegmentsInv, ProgramsPlaced
<1>3. CASE name[MyKey] # Nothing
  <2>1. name[MyKey] \in Segment
    BY <1>2, <1>3 DEF SegmentsOK
  <2>2. Found(p, name[MyKey]) /\ UNCHANGED name
    BY <1>3 DEF Get
  <2> QED BY <1>1, <2>1, <2>2, FoundKeeps
<1>4. CASE name[MyKey] = Nothing
  <2>1. PICK g \in Unused : Found(p, g) /\ name' = [name EXCEPT ![MyKey] = g]
    BY <1>4 DEF Get
  <2>2. g \in Segment
    BY DEF Unused
  <2> QED BY <1>1, <1>4, <2>1, <2>2, FoundKeeps
<1> QED BY <1>3, <1>4

(* shm_open without O_CREAT.                                               *)
LEMMA OpenKeeps == ASSUME SegmentsInv, NEW r \in Reader, OpenExisting(r) PROVE SegmentsInv'
<1> USE SegmentNames
<1>1. MyKey \in Key /\ name[MyKey] \in Segment
  BY DEF MyKey, Key, SegmentsInv, SegmentsOK, OpenExisting
<1> QED BY <1>1, FoundKeeps DEF OpenExisting

(* A program that goes on with its segment: the names, what each program   *)
(* found and the history stay, and nobody lets a segment go.               *)
LEMMA OnKeepsOthersBlank ==
  ASSUME SegmentsInv, NEW p \in Proc, UNCHANGED <<api, name, id>>,
         NEW l \in Place, pc' = [pc EXCEPT ![p] = l],
         \/ pc[p] = "got" /\ api = "sysv"
         \/ l \in {"open", "map", "mid", "done"},
         \A g \in Segment \ Existing : half'[g] = half[g]
  PROVE  OthersBlank'
<1>1. pc \in [Proc -> Place] /\ OthersBlank
  BY DEF SegmentsInv, SegmentsOK
<1>2. ASSUME NEW h \in Existing PROVE h \in Existing'
  <2>1. CASE \E k \in Key : name[k] = h
    BY <2>1, <1>2 DEF Existing
  <2>2. CASE \E q \in Proc : id[q] = h /\ Holds(q)
    <3>1. PICK q \in Proc : id[q] = h /\ Holds(q)
      BY <2>2
    <3>2. Holds(q)'
      BY <1>1, <3>1 DEF Holds
    <3> QED BY <3>1, <3>2, <1>2 DEF Existing
  <2> QED BY <1>2, <2>1, <2>2 DEF Existing
<1> QED BY <1>1, <1>2 DEF OthersBlank

(* shmat, which fails only for a program in gone.                          *)
LEMMA AttachKeeps == ASSUME SegmentsInv, NEW p \in Proc, Attach(p) PROVE SegmentsInv'
<1> USE SegmentNames
<1> DEFINE l == IF p \in gone THEN "fault" ELSE "map"
<1>0. /\ api = "sysv" /\ pc[p] = "got" /\ pc' = [pc EXCEPT ![p] = l]
      /\ UNCHANGED <<api, file, name, half, sized, id, text, lone, gone, box>>
      /\ l \in Place /\ l \in {"fault", "map"} /\ (l = "fault" => p \in gone)
  BY DEF Attach, Goto, Place
<1> HIDE DEF l
<1>1. /\ SegmentsOK /\ ProgramsPlaced /\ OthersBlank /\ LoneHasName /\ BoxTold
      /\ pc \in [Proc -> Place]
  BY DEF SegmentsInv, SegmentsOK
<1>2. pc'[p] = l /\ \A q \in Proc \ {p} : pc'[q] = pc[q]
  BY <1>0, <1>1
<1>3. SegmentsOK'
  BY <1>0, <1>1 DEF SegmentsOK
<1>4. ProgramsPlaced'
  <2>1. p \in gone => l = "fault"
    BY DEF l
  <2> QED BY <1>0, <1>1, <1>2, <2>1 DEF ProgramsPlaced
<1>5. OthersBlank'
  BY <1>0, OnKeepsOthersBlank
<1>6. LoneHasName'
  BY <1>0, <1>1, <1>2 DEF LoneHasName, MyKey
<1>7. BoxTold'
  BY <1>0, <1>1, <1>2 DEF BoxTold, LoneHasName
<1> QED BY <1>3, <1>4, <1>5, <1>6, <1>7 DEF SegmentsInv

(* ftruncate: from here on the object has its size while it is held.       *)
LEMMA TruncateKeeps == ASSUME SegmentsInv, NEW p \in Proc, Truncate(p) PROVE SegmentsInv'
<1> USE SegmentNames
<1>0. /\ api = "posix" /\ pc[p] = "got" /\ pc' = [pc EXCEPT ![p] = "open"]
      /\ sized' = sized \cup {id[p]}
      /\ UNCHANGED <<api, file, name, half, id, text, lone, gone, box>>
  BY DEF Truncate, Goto
<1>1. /\ SegmentsOK /\ ProgramsPlaced /\ OthersBlank /\ LoneHasName /\ BoxTold
      /\ pc \in [Proc -> Place]
  BY DEF SegmentsInv, SegmentsOK
<1>2. pc'[p] = "open" /\ \A q \in Proc \ {p} : pc'[q] = pc[q]
  BY <1>0, <1>1
<1>3. SegmentsOK'
  <2>1. id[p] \in Segment
    BY <1>0, <1>1 DEF SegmentsOK, ProgramsPlaced
  <2> QED BY <1>0, <1>1, <2>1 DEF SegmentsOK, Place
<1>4. ProgramsPlaced'
  BY <1>0, <1>1, <1>2 DEF ProgramsPlaced
<1>5. OthersBlank'
  BY <1>0, OnKeepsOthersBlank DEF Place
<1>6. LoneHasName'
  BY <1>0, <1>1, <1>2 DEF LoneHasName, MyKey
<1>7. BoxTold'
  BY <1>0, <1>1, <1>2 DEF BoxTold, LoneHasName
<1> QED BY <1>3, <1>4, <1>5, <1>6, <1>7 DEF SegmentsInv

(* Both programs have given the object its size before they map it.        *)
LEMMA MapKeeps == ASSUME SegmentsInv, NEW p \in Proc, Map(p) PROVE SegmentsInv'
<1> USE SegmentNames
<1> DEFINE l == IF p \in Writer THEN "done" ELSE "map"
<1>1. /\ SegmentsOK /\ ProgramsPlaced /\ OthersBlank /\ LoneHasName /\ BoxTold
      /\ pc \in [Proc -> Place]
  BY DEF SegmentsInv, SegmentsOK
<1>0. /\ api = "posix" /\ pc[p] = "open" /\ pc' = [pc EXCEPT ![p] = l]
      /\ UNCHANGED <<api, file, name, half, sized, id, text, lone, gone, box>>
      /\ l \in Place /\ l \in {"done", "map"} /\ (l = "map" => p \notin Writer)
      /\ id[p] \in sized
  <2>1. api = "posix" /\ pc[p] = "open" /\ id[p] \in sized
    BY <1>1 DEF Map, ProgramsPlaced
  <2> QED BY <2>1 DEF Map, Goto, Place
<1>8. p \in Writer <=> l = "done"
  OBVIOUS
<1> HIDE DEF l
<1>2. pc'[p] = l /\ \A q \in Proc \ {p} : pc'[q] = pc[q]
  BY <1>0, <1>1
<1>3. SegmentsOK'
  BY <1>0, <1>1 DEF SegmentsOK
<1>4. ProgramsPlaced'
  BY <1>0, <1>1, <1>2 DEF ProgramsPlaced
<1>5. OthersBlank'
  BY <1>0, OnKeepsOthersBlank
<1>6. LoneHasName'
  BY <1>0, <1>1, <1>2 DEF LoneHasName, MyKey
<1>7. BoxTold'
  <2>1. lone = p /\ lone \in Reader /\ box # Unknown => half[id[lone]] = <<box, box>>
    BY <1>0, <1>1 DEF BoxTold
  <2>2. ~\A q \in Proc : pc'[q] = "off"
    BY <1>0, <1>2
  <2>3. lone \notin Proc \/ lone = p
    BY <1>0, <1>1 DEF LoneHasName
  <2> QED BY <1>0, <1>1, <1>2, <1>8, <2>1, <2>2, <2>3 DEF BoxTold
<1> QED BY <1>3, <1>4, <1>5, <1>6, <1>7 DEF SegmentsInv

(* What a program that has its segment attached finds: no other one runs   *)
(* when it, or somebody, is alone, and its segment exists.                 *)
LEMMA Attached ==
  ASSUME SegmentsInv, NEW p \in Proc, pc[p] \in {"map", "mid"}
  PROVE  /\ id[p] \in Existing /\ id[p] \in Segment /\ half[id[p]] \in Text /\ text[p] \in Text
         /\ lone = Nothing \/ lone = p
         /\ ~ \A q \in Proc : pc[q] = "off"
         /\ p \in Writer => api = "sysv"
<1>1. SegmentsOK /\ ProgramsPlaced /\ LoneHasName
  BY DEF SegmentsInv
<1>2. id[p] \in Segment
  BY <1>1 DEF SegmentsOK, ProgramsPlaced
<1> QED BY <1>1, <1>2 DEF SegmentsOK, ProgramsPlaced, LoneHasName, Existing, Holds, Text

(* fgets writes the first half, of a segment that exists.                  *)
LEMMA FillFirstKeeps == ASSUME SegmentsInv, NEW w \in Proc, FillFirst(w) PROVE SegmentsInv'
<1> USE SegmentNames
<1>0. /\ api = "sysv" /\ w \in Writer /\ pc[w] = "map" /\ pc' = [pc EXCEPT ![w] = "mid"]
      /\ UNCHANGED <<api, file, name, sized, id, lone, gone, box>>
  BY DEF FillFirst, Goto
<1>1. PICK l \in Line : /\ text' = [text EXCEPT ![w] = <<l, l>>]
                        /\ half' = [half EXCEPT ![id[w]][1] = l]
  BY DEF FillFirst
<1>2. /\ SegmentsOK /\ ProgramsPlaced /\ OthersBlank /\ LoneHasName /\ BoxTold
      /\ pc \in [Proc -> Place] /\ half \in [Segment -> Text] /\ text \in [Proc -> Text]
  BY DEF SegmentsInv, SegmentsOK, Text
<1>3. pc'[w] = "mid" /\ \A q \in Proc \ {w} : pc'[q] = pc[q]
  BY <1>0, <1>2
<1>4. /\ id[w] \in Existing /\ id[w] \in Segment /\ half[id[w]] \in Text
      /\ lone = Nothing \/ lone = w
  BY <1>0, Attached
<1>5. half' = [half EXCEPT ![id[w]] = <<l, half[id[w]][2]>>] /\ <<l, half[id[w]][2]>> \in Text
  BY <1>1, <1>4, Halves
<1>6. SegmentsOK'
  <2>0. <<l, l>> \in Text
    BY DEF Text
  <2>1. half' \in [Segment -> Text]
    BY <1>2, <1>5
  <2>2. text' \in [Proc -> Text]
    BY <1>1, <1>2, <2>0
  <2> QED BY <1>0, <1>2, <2>1, <2>2 DEF SegmentsOK, Text, Place
<1>7. ProgramsPlaced'
  BY <1>0, <1>2, <1>3 DEF ProgramsPlaced
<1>8. OthersBlank'
  <2>1. \A g \in Segment \ Existing : half'[g] = half[g]
    BY <1>2, <1>4, <1>5
  <2> QED BY <1>0, <2>1, OnKeepsOthersBlank DEF Place
<1>9. LoneHasName'
  BY <1>0, <1>2, <1>3 DEF LoneHasName, MyKey
<1>10. BoxTold'
  <2>1. half'[id[w]][1] = l
    BY <1>2, <1>4, <1>5
  <2>2. text'[w][1] = l /\ text'[w][2] = l
    BY <1>1, <1>2
  <2> QED BY <1>0, <1>3, <1>4, <2>1, <2>2 DEF BoxTold
<1> QED BY <1>6, <1>7, <1>8, <1>9, <1>10 DEF SegmentsInv

(* The second half of the line; a lone writer has now told the box.        *)
LEMMA FillSecondKeeps == ASSUME SegmentsInv, NEW w \in Proc, FillSecond(w) PROVE SegmentsInv'
<1> USE SegmentNames
<1>0. /\ w \in Writer /\ pc[w] = "mid" /\ pc' = [pc EXCEPT ![w] = "done"]
      /\ UNCHANGED <<api, file, name, sized, id, text, lone, gone, box>>
  BY DEF FillSecond, Goto
<1> DEFINE l == text[w][2]
<1>1. half' = [half EXCEPT ![id[w]][2] = l]
  BY DEF FillSecond
<1>2. /\ SegmentsOK /\ ProgramsPlaced /\ OthersBlank /\ LoneHasName /\ BoxTold
      /\ pc \in [Proc -> Place] /\ half \in [Segment -> Text] /\ text \in [Proc -> Text]
  BY DEF SegmentsInv, SegmentsOK, Text
<1>3. pc'[w] = "done" /\ \A q \in Proc \ {w} : pc'[q] = pc[q]
  BY <1>0, <1>2
<1>4. /\ id[w] \in Existing /\ id[w] \in Segment /\ half[id[w]] \in Text /\ text[w] \in Text
      /\ lone = Nothing \/ lone = w
      /\ api = "sysv"
  BY <1>0, Attached
<1>11. l \in Line \cup {Empty}
  BY <1>4 DEF Text
<1> HIDE DEF l
<1>5. /\ half' = [half EXCEPT ![id[w]] = <<half[id[w]][1], l>>]
      /\ <<half[id[w]][1], l>> \in Text
  BY <1>1, <1>4, <1>11, Halves
<1>6. SegmentsOK'
  <2>1. half' \in [Segment -> Text]
    BY <1>2, <1>5
  <2> QED BY <1>0, <1>2, <2>1 DEF SegmentsOK, Text, Place
<1>7. ProgramsPlaced'
  BY <1>0, <1>2, <1>3, <1>4 DEF ProgramsPlaced
<1>8. OthersBlank'
  <2>1. \A g \in Segment \ Existing : half'[g] = half[g]
    BY <1>2, <1>4, <1>5
  <2> QED BY <1>0, <2>1, OnKeepsOthersBlank DEF Place
<1>9. LoneHasName'
  BY <1>0, <1>2, <1>3 DEF LoneHasName, MyKey
<1>10. BoxTold'
  <2>1. half'[id[w]][1] = half[id[w]][1] /\ half'[id[w]][2] = l
    BY <1>2, <1>4, <1>5
  <2>2. lone = w => l = text[w][1] /\ half[id[w]][1] = text[w][1]
    BY <1>0, <1>2, <1>4 DEF BoxTold, l
  <2>3. ~\A q \in Proc : pc'[q] = "off"
    BY <1>3
  <2>4. lone \notin Reader
    BY <1>0, <1>4
  <2> QED BY <1>0, <1>3, <1>4, <2>1, <2>2, <2>3, <2>4 DEF BoxTold, l
<1> QED BY <1>6, <1>7, <1>8, <1>9, <1>10 DEF SegmentsInv

(* The parts of the invariant that the two halves of a print leave alone.  *)
LEMMA PrintKeeps ==
  ASSUME SegmentsInv, NEW r \in Reader, NEW l \in {"mid", "done"}, NEW t \in Text,
         pc[r] \in {"map", "mid"},
         pc' = [pc EXCEPT ![r] = l], text' = [text EXCEPT ![r] = t],
         UNCHANGED <<api, file, name, half, sized, id, lone, gone, box>>,
         (lone = r /\ box # Unknown) => /\ l = "mid" => t[1] = box
                                        /\ l = "done" => t = <<box, box>>
  PROVE  SegmentsInv'
<1> USE SegmentNames
<1>1. /\ SegmentsOK /\ ProgramsPlaced /\ OthersBlank /\ LoneHasName /\ BoxTold
      /\ pc \in [Proc -> Place] /\ text \in [Proc -> Text]
  BY DEF SegmentsInv, SegmentsOK, Text
<1>2. /\ pc'[r] = l /\ \A q \in Proc \ {r} : pc'[q] = pc[q]
      /\ text'[r] = t
  BY <1>1
<1>3. lone = Nothing \/ lone = r
  BY Attached
<1>4. SegmentsOK'
  <2>1. text' \in [Proc -> Text]
    BY <1>1
  <2>2. pc' \in [Proc -> Place]
    BY <1>1 DEF Place
  <2> QED BY <1>1, <2>1, <2>2 DEF SegmentsOK, Text
<1>5. ProgramsPlaced'
  BY <1>1, <1>2 DEF ProgramsPlaced
<1>6. OthersBlank'
  BY OnKeepsOthersBlank DEF Place
<1>7. LoneHasName'
  BY <1>1, <1>2 DEF LoneHasName, MyKey
<1>8. BoxTold'
  <2>1. (lone = r /\ box # Unknown) => half[id[r]] = <<box, box>>
    BY <1>1 DEF BoxTold
  <2> QED BY <1>2, <1>3, <2>1 DEF BoxTold
<1> QED BY <1>4, <1>5, <1>6, <1>7, <1>8 DEF SegmentsInv

(* The first half that printf reads is what a lone reader has to find.     *)
LEMMA PrintFirstKeeps == ASSUME SegmentsInv, NEW r \in Proc, PrintFirst(r) PROVE SegmentsInv'
<1> USE SegmentNames
<1> DEFINE t == <<half[id[r]][1], Empty>>
<1>1. /\ r \in Reader /\ pc[r] = "map" /\ pc' = [pc EXCEPT ![r] = "mid"]
      /\ text' = [text EXCEPT ![r] = t]
      /\ UNCHANGED <<api, file, name, half, sized, id, lone, gone, box>>
  BY DEF PrintFirst, Goto
<1>2. t \in Text
  BY <1>1, Attached DEF Text
<1>3. (lone = r /\ box # Unknown) => t[1] = box
  BY <1>1 DEF SegmentsInv, BoxTold
<1> HIDE DEF t
<1> QED BY <1>1, <1>2, <1>3, PrintKeeps

(* So is the second, unless the first was empty.                           *)
LEMMA PrintSecondKeeps == ASSUME SegmentsInv, NEW r \in Proc, PrintSecond(r) PROVE SegmentsInv'
<1> USE SegmentNames
<1> DEFINE t == IF text[r][1] = Empty THEN Blank ELSE <<text[r][1], half[id[r]][2]>>
<1>0. text \in [Proc -> Text]
  BY DEF SegmentsInv, SegmentsOK, Text
<1>1. /\ r \in Reader /\ pc[r] = "mid" /\ pc' = [pc EXCEPT ![r] = "done"]
      /\ text' = [text EXCEPT ![r] = t]
      /\ UNCHANGED <<api, file, name, half, sized, id, lone, gone, box>>
  BY <1>0 DEF PrintSecond, Goto
<1>2. t \in Text
  BY <1>1, Attached DEF Text
<1>3. (lone = r /\ box # Unknown) => t = <<box, box>>
  <2> SUFFICES ASSUME lone = r, box # Unknown PROVE t = <<box, box>>
    OBVIOUS
  <2>1. text[r][1] = box /\ half[id[r]] = <<box, box>>
    BY <1>1 DEF SegmentsInv, BoxTold
  <2> QED BY <2>1
<1> HIDE DEF t
<1> QED BY <1>1, <1>2, <1>3, PrintKeeps

(* A program that lets its segment go.  What it may have destroyed is only *)
(* what no name stands for and no other program holds; a program that is   *)
(* alone leaves in the box what the history says.                          *)
LEMMA ReleaseKeeps ==
  ASSUME SegmentsInv, NEW p \in Proc, pc[p] # "off",
         NEW l \in {"off", "detached"}, NEW names \in [Key -> Segment \cup {Nothing}],
         Release(p, l, names), UNCHANGED <<api, file>>,
         l = "detached" => p \in Reader /\ names = name /\ pc[p] = "done",
         box' \in Line \cup {Empty, Unknown},
         api = "posix" => box' \in {Empty, Unknown},
         l = "detached" => box' = box,
         (l = "off" /\ box' # Unknown) =>
           IF names[MyKey] = Nothing THEN box' = Empty
           ELSE half'[names[MyKey]] = <<box', box'>>
  PROVE  SegmentsInv'
<1> USE SegmentNames
<1> DEFINE destroyed == {g \in Segment : /\ \A k \in Key : names[k] # g
                                         /\ \A q \in Proc \ {p} : ~(id[q] = g /\ Holds(q))}
<1>0. /\ name' = names /\ pc' = [pc EXCEPT ![p] = l]
      /\ gone' = (gone \cup {q \in Proc : pc[q] = "got" /\ id[q] \in destroyed}) \ {p}
      /\ half' = [g \in Segment |-> IF g \in destroyed THEN Blank ELSE half[g]]
      /\ sized' = sized \ destroyed
      /\ id' = IF l = "off" THEN [id EXCEPT ![p] = Nothing] ELSE id
      /\ text' = IF l = "off" THEN [text EXCEPT ![p] = Blank] ELSE text
      /\ lone' = IF l = "off" /\ lone = p THEN Nothing ELSE lone
      /\ UNCHANGED <<api, file>>
  BY DEF Release, Goto
<1>1. /\ SegmentsOK /\ ProgramsPlaced /\ OthersBlank /\ LoneHasName /\ BoxTold
      /\ pc \in [Proc -> Place] /\ half \in [Segment -> Text] /\ text \in [Proc -> Text]
      /\ id \in [Proc -> Segment \cup {Nothing}]
  BY DEF SegmentsInv, SegmentsOK, Text
<1>2. /\ pc'[p] = l /\ \A q \in Proc \ {p} : pc'[q] = pc[q] /\ id'[q] = id[q]
      /\ id'[p] = IF l = "off" THEN Nothing ELSE id[p]
  BY <1>0, <1>1
<1>3. destroyed \subseteq Segment
  OBVIOUS
<1>4. \A q \in Proc \ {p} : Holds(q) => id[q] \notin destroyed
  OBVIOUS
<1>5. \A k \in Key : names[k] \notin destroyed
  OBVIOUS
<1>6. \A g \in Segment \ destroyed :
        \/ \E k \in Key : names[k] = g
        \/ \E q \in Proc \ {p} : id[q] = g /\ Holds(q)
  OBVIOUS
<1> HIDE DEF destroyed
<1>7. SegmentsOK'
  <2>0. Blank \in Text
    BY DEF Text
  <2>1. half' \in [Segment -> Text] /\ text' \in [Proc -> Text]
    BY <1>0, <1>1, <2>0
  <2>2. id' \in [Proc -> Segment \cup {Nothing}] /\ pc' \in [Proc -> Place]
    BY <1>0, <1>1 DEF Place
  <2>3. name' \in [Key -> Segment \cup {Nothing}]
    BY <1>0
  <2> QED BY <1>0, <1>1, <2>1, <2>2, <2>3 DEF SegmentsOK, Text
<1>8. ProgramsPlaced'
  <2>1. \A q \in Proc \ {p} : q \in gone => q \in gone'
    BY <1>0
  <2>2. gone' \subseteq Proc /\ p \notin gone'
    BY <1>0, <1>1 DEF SegmentsOK
  <2>3. \A q \in gone' : pc'[q] \in {"got", "fault"}
    BY <1>0, <1>1, <1>2 DEF ProgramsPlaced
  <2>4. /\ \A q \in Proc : id'[q] = Nothing <=> pc'[q] = "off"
        /\ \A q \in Proc : pc'[q] = "fault" => q \in gone'
        /\ \A q \in Proc : pc'[q] = "detached" => q \in Reader
        /\ api = "sysv" => \A q \in Proc : pc'[q] # "open"
    BY <1>1, <1>2, <2>1 DEF ProgramsPlaced
  <2>5. CASE api = "posix"
    <3>1. gone' = {}
      BY <1>0, <1>1, <1>4, <2>5 DEF ProgramsPlaced, Holds
    <3>2. \A g \in Segment : half'[g] = Blank
      BY <1>0, <1>1, <2>5 DEF ProgramsPlaced
    <3>3. \A q \in Proc : pc'[q] \in {"open", "map", "mid", "done"} => id'[q] \in sized'
      <4> SUFFICES ASSUME NEW q \in Proc, pc'[q] \in {"open", "map", "mid", "done"}
                   PROVE  id'[q] \in sized'
        OBVIOUS
      <4>1. q # p /\ pc'[q] = pc[q] /\ id'[q] = id[q]
        BY <1>2
      <4>2. id[q] \in sized /\ id[q] \notin destroyed
        BY <1>1, <1>4, <2>5, <4>1 DEF ProgramsPlaced, Holds
      <4> QED BY <1>0, <4>1, <4>2
    <3>4. \A w \in Writer : pc'[w] \notin {"map", "mid"}
      BY <1>1, <1>2, <2>5 DEF ProgramsPlaced
    <3> QED BY <1>0, <2>3, <2>4, <2>5, <3>1, <3>2, <3>3, <3>4 DEF ProgramsPlaced
  <2>6. CASE api # "posix"
    BY <1>0, <2>3, <2>4, <2>6 DEF ProgramsPlaced
  <2> QED BY <2>5, <2>6
<1>9. OthersBlank'
  <2> SUFFICES ASSUME NEW g \in Segment, g \notin Existing' PROVE half'[g] = Blank
    BY DEF OthersBlank
  <2>1. g \in destroyed
    <3>1. CASE \E k \in Key : names[k] = g
      BY <1>0, <3>1 DEF Existing
    <3>2. ASSUME NEW q \in Proc \ {p}, id[q] = g, Holds(q) PROVE FALSE
      <4>1. id'[q] = g /\ Holds(q)'
        BY <1>0, <1>2, <3>2 DEF Holds
      <4> QED BY <4>1 DEF Existing
    <3> QED BY <1>6, <3>1, <3>2
  <2> QED BY <1>0, <2>1
<1>10. lone' # Nothing => lone' = p /\ lone = p /\ l = "detached"
  BY <1>0, <1>1 DEF LoneHasName
<1>11. LoneHasName'
  <2>1. p \notin gone'
    BY <1>0
  <2>2. MyKey' = MyKey
    BY <1>0 DEF MyKey
  <2> QED BY <1>0, <1>1, <1>2, <1>10, <2>1, <2>2 DEF LoneHasName
<1>12. BoxTold'
  <2>1. ASSUME box' # Unknown, \A q \in Proc : pc'[q] = "off"
        PROVE  InTheBox' = <<box', box'>>
    <3>1. l = "off"
      BY <1>2, <2>1
    <3>2. MyKey' = MyKey
      BY <1>0 DEF MyKey
    <3> QED BY <1>0, <2>1, <3>1, <3>2 DEF InTheBox
  <2> QED BY <1>2, <1>10, <2>1 DEF BoxTold
<1> QED BY <1>7, <1>8, <1>9, <1>11, <1>12 DEF SegmentsInv

(* A lone writer leaves its line, and with POSIX the blank object.         *)
LEMMA WriterLeavesKeeps ==
  ASSUME SegmentsInv, NEW w \in Proc, WriterLeaves(w) PROVE SegmentsInv'
<1> USE SegmentNames
<1>0. /\ w \in Writer /\ pc[w] = "done" /\ Release(w, "off", name) /\ UNCHANGED <<api, file>>
      /\ box' = IF lone # w THEN Unknown ELSE IF api = "sysv" THEN text[w][1] ELSE Empty
  BY DEF WriterLeaves
<1>1. /\ SegmentsOK /\ ProgramsPlaced /\ LoneHasName /\ BoxTold
      /\ name \in [Key -> Segment \cup {Nothing}] /\ api \in {"sysv", "posix"}
      /\ half \in [Segment -> Text] /\ text \in [Proc -> Text] /\ MyKey \in Key
  BY DEF SegmentsInv, SegmentsOK, Text, MyKey, Key
<1>2. box' \in Line \cup {Empty, Unknown} /\ (api = "posix" => box' \in {Empty, Unknown})
  <2>1. text[w] \in Text
    BY <1>1
  <2> QED BY <1>0, <1>1, <2>1 DEF Text
<1>3. ASSUME box' # Unknown
      PROVE  name[MyKey] # Nothing /\ half'[name[MyKey]] = <<box', box'>>
  <2>1. lone = w /\ name[MyKey] = id[w] /\ id[w] \in Segment
    BY <1>0, <1>1, <1>3 DEF LoneHasName, ProgramsPlaced, SegmentsOK
  <2>2. half'[id[w]] = half[id[w]]
    BY <1>0, <1>1, <2>1 DEF Release
  <2>3. CASE api = "sysv"
    <3>1. half[id[w]] \in Text /\ box' = text[w][1]
      BY <1>0, <1>1, <2>1, <2>3
    <3>2. half[id[w]][1] = box' /\ half[id[w]][2] = box'
      BY <1>0, <1>1, <2>1, <2>3, <3>1 DEF BoxTold
    <3>3. half[id[w]] = <<half[id[w]][1], half[id[w]][2]>>
      BY <3>1 DEF Text
    <3> QED BY <2>1, <2>2, <3>2, <3>3
  <2>4. CASE api = "posix"
    BY <1>0, <1>1, <2>1, <2>2, <2>4 DEF ProgramsPlaced
  <2> QED BY <1>1, <2>3, <2>4
<1> QED BY <1>0, <1>1, <1>2, <1>3, ReleaseKeeps

(* shmdt keeps a lone reader's segment, which still has its name.          *)
LEMMA ReaderDetachesKeeps ==
  ASSUME SegmentsInv, NEW r \in Proc, ReaderDetaches(r) PROVE SegmentsInv'
<1>1. /\ r \in Reader /\ pc[r] = "done" /\ Release(r, "detached", name)
      /\ UNCHANGED <<api, file, box>>
  BY DEF ReaderDetaches
<1>2. /\ name \in [Key -> Segment \cup {Nothing}] /\ box \in Line \cup {Empty, Unknown}
      /\ api = "posix" => box \in {Empty, Unknown}
  BY DEF SegmentsInv, SegmentsOK, ProgramsPlaced
<1> QED BY <1>1, <1>2, ReleaseKeeps

(* A lone reader removes the name of what it has read: the box is empty.   *)
LEMMA RemoveKeeps == ASSUME SegmentsInv, NEW r \in Proc, Remove(r) PROVE SegmentsInv'
<1> USE SegmentNames
<1> DEFINE names == [k \in Key |->
                       IF IF api = "sysv" THEN name[k] = id[r] ELSE k = MyKey THEN Nothing
                       ELSE name[k]]
<1>1. /\ r \in Reader /\ pc[r] = "detached" /\ Release(r, "off", names)
      /\ UNCHANGED <<api, file>> /\ box' = IF lone = r THEN Empty ELSE Unknown
  BY DEF Remove
<1>2. name \in [Key -> Segment \cup {Nothing}] /\ MyKey \in Key /\ LoneHasName
  BY DEF SegmentsInv, SegmentsOK, MyKey, Key
<1>3. names \in [Key -> Segment \cup {Nothing}]
  BY <1>2
<1>4. lone = r => names[MyKey] = Nothing
  BY <1>1, <1>2 DEF LoneHasName
<1> HIDE DEF names
<1> QED BY <1>1, <1>3, <1>4, ReleaseKeeps

(* After a kill nothing is said of the box.                                *)
LEMMA ProgramDiesKeeps == ASSUME SegmentsInv, NEW p \in Proc, ProgramDies(p) PROVE SegmentsInv'
<1>1. /\ pc[p] # "off" /\ Release(p, "off", name) /\ UNCHANGED <<api, file>> /\ box' = Unknown
  BY DEF ProgramDies
<1>2. name \in [Key -> Segment \cup {Nothing}]
  BY DEF SegmentsInv, SegmentsOK
<1> QED BY <1>1, <1>2, ReleaseKeeps

(* Nor after the key has changed.                                          *)
LEMMA CreateFileKeeps == SegmentsInv /\ CreateFile => SegmentsInv'
<1> SUFFICES ASSUME SegmentsInv, CreateFile PROVE SegmentsInv'
  OBVIOUS
<1> USE SegmentNames
<1>1. /\ api = "sysv" /\ file' = TRUE /\ box' = Unknown /\ lone' = Nothing
      /\ UNCHANGED <<api, name, half, sized, pc, id, text, gone>>
  BY DEF CreateFile
<1>2. SegmentsOK /\ ProgramsPlaced /\ OthersBlank
  BY DEF SegmentsInv
<1>3. SegmentsOK'
  BY <1>1, <1>2 DEF SegmentsOK
<1>4. ProgramsPlaced'
  BY <1>1, <1>2 DEF ProgramsPlaced
<1>5. OthersBlank'
  BY <1>1, <1>2 DEF OthersBlank, Existing, Holds
<1>6. LoneHasName' /\ BoxTold'
  BY <1>1 DEF LoneHasName, BoxTold
<1> QED BY <1>3, <1>4, <1>5, <1>6 DEF SegmentsInv

(* Every step keeps the invariant.                                         *)
LEMMA SegmentsStep == SegmentsInv /\ [SegmentsNext]_segmentVars => SegmentsInv'
<1> SUFFICES ASSUME SegmentsInv, [SegmentsNext]_segmentVars PROVE SegmentsInv'
  OBVIOUS
<1>1. CASE UNCHANGED segmentVars
  BY <1>1 DEF segmentVars, SegmentsInv, SegmentsOK, ProgramsPlaced, OthersBlank, LoneHasName,
     BoxTold, Existing, Holds, InTheBox, MyKey
<1>2. ASSUME NEW p \in Proc, Step(p) PROVE SegmentsInv'
  BY <1>2, GetKeeps, AttachKeeps, TruncateKeeps, MapKeeps, ProgramDiesKeeps, FillFirstKeeps,
     FillSecondKeeps, WriterLeavesKeeps, PrintFirstKeeps, PrintSecondKeeps,
     ReaderDetachesKeeps, RemoveKeeps DEF Step
<1> QED BY <1>1, <1>2, OpenKeeps, CreateFileKeeps DEF SegmentsNext

(* The invariant of the shared memory holds for ever.                      *)
LEMMA SegmentsInvariant == SegmentsSpec => []SegmentsInv
BY SegmentsStart, SegmentsStep, PTL DEF SegmentsSpec

(* SharedMemory keeps its types: the writer and the reader never touch a   *)
(* segment that was not found.                                             *)
THEOREM SegmentTypes == SegmentsSpec => []SegmentsOK
<1>1. SegmentsInv => SegmentsOK
  BY DEF SegmentsInv
<1> QED BY <1>1, SegmentsInvariant, PTL

(* shmat fails, and its -1 is used as an address, only where another        *)
(* reader's IPC_RMID destroyed the segment after this program's shmget; the *)
(* POSIX programs always find their object as long as what they map.        *)
THEOREM FaultsNeedARival == SegmentsSpec => []FaultsOnlyByRivals
<1>1. SegmentsInv => FaultsOnlyByRivals
  <2> SUFFICES ASSUME SegmentsInv, NEW p \in Proc, pc[p] = "fault"
               PROVE  api = "sysv" /\ p \in gone /\ lone # p
    BY DEF FaultsOnlyByRivals
  <2>1. SegmentsOK /\ ProgramsPlaced /\ LoneHasName
    BY DEF SegmentsInv
  <2> QED BY <2>1, SegmentNames DEF SegmentsOK, ProgramsPlaced, LoneHasName
<1> QED BY <1>1, SegmentsInvariant, PTL

(* Programs that run one after another use the segment as a letter box,    *)
(* whatever happened while they overlapped before.                         *)
THEOREM LetterBox == SegmentsSpec => []LetterBoxWhenAlone
<1>1. SegmentsInv => LetterBoxWhenAlone
  BY SegmentNames DEF SegmentsInv, BoxTold, LetterBoxWhenAlone
<1> QED BY <1>1, SegmentsInvariant, PTL

(* shmget and shm_open with a create flag always find an unused identifier *)
(* where the key stands for nothing: each other run pins one, the key that *)
(* is not the program's one more (nobody removes what the key before       *)
(* ./shmfile stands for).  One identifier more than there are programs     *)
(* therefore hides no behaviour.                                           *)
THEOREM SegmentsSuffice ==
  SegmentsSpec =>
    [](\A p \in Proc : pc[p] = "off" /\ name[MyKey] = Nothing => Unused # {})
<1>1. SegmentsInv =>
        \A p \in Proc : pc[p] = "off" /\ name[MyKey] = Nothing => Unused # {}
  BY FreeSegment DEF SegmentsInv, ProgramsPlaced
<1> QED BY <1>1, SegmentsInvariant, PTL
=============================================================================
