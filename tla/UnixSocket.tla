----------------------------- MODULE UnixSocket -----------------------------
(***************************************************************************)
(* 7.1: a server that answers each client's line in upper case over a      *)
(* socket with a path in the file system, as a stream (7.1-Unix-Stream) or *)
(* as datagrams (7.1-Unix-Datagram).  The path outlives the server: only   *)
(* the handler of SIGINT removes it, and bind fails while it exists.       *)
(*                                                                         *)
(* The kernel is external.  A path that names a closed socket is stale:    *)
(* connect and sendto are refused.  They block while the server's queue is *)
(* full.  A line is of no interest here, only whether it has been written. *)
(* The memory behind argv[1] and the printing are left out.                *)
(***************************************************************************)
EXTENDS Integers, Sequences

CONSTANTS Server,  \* server processes, each may be run again and again
          Client,  \* client processes, likewise
          Backlog, \* BACKLOG, and the length of a datagram queue
          MaxFds   \* descriptors left to a server for accepted sockets

ASSUME SocketAssumption ==
  /\ Backlog \in Nat /\ MaxFds \in Nat \ {0}
  /\ Server \cap Client = {}
  /\ {"none", "stale", "broken", "mute", "gone"} \cap (Server \cup Client) = {}

VARIABLES
  kind,   \* which pair of programs: "stream" or "datagram"
  path,   \* the server whose socket SOCK_PATH names, None or Stale
  srv,    \* each server's place
  peer,   \* whose line the server is handling
  queue,  \* connections (datagrams) that wait for accept (recvfrom)
  fds,    \* accepted sockets; datafd is overwritten and never closed
  fresh,  \* the server's `len` is not initialised yet
  cl,     \* each client's place
  at,     \* the server a client is connected, or has sent its line, to
  \* History.
  robbed, \* serving, and another process has removed the path
  crashed \* the path is left by a server that died without its handler

server == <<srv, peer, queue, fds, fresh>>
client == <<cl, at>>
hist == <<robbed, crashed>>
vars == <<kind, path, srv, peer, queue, fds, fresh, cl, at, robbed, crashed>>

None == "none"      \* no path; nobody
Stale == "stale"    \* the path names a closed socket
Broken == "broken"  \* the server of this client has closed its sockets
Mute == "mute"      \* a client that left before it wrote
Gone == "gone"      \* a client that wrote and left

Peer == Client \cup {Mute, Gone}
Serving(s) == srv[s] \in {"bound", "accept", "read", "answer"}

Init ==
  /\ kind \in {"stream", "datagram"}
  /\ path = None /\ srv = [s \in Server |-> "off"]
  /\ peer = [s \in Server |-> None] /\ queue = [s \in Server |-> <<>>]
  /\ fds = [s \in Server |-> 0] /\ fresh = [s \in Server |-> TRUE]
  /\ cl = [c \in Client |-> "off"] /\ at = [c \in Client |-> None]
  /\ robbed = {} /\ crashed = FALSE

ServerTo(s, p) == srv' = [srv EXCEPT ![s] = p]
ClientTo(c, p) == cl' = [cl EXCEPT ![c] = p]

-----------------------------------------------------------------------------
(* The server. *)

(* signal and socket. *)
Start(s) ==
  /\ srv[s] = "off" /\ ServerTo(s, "start")
  /\ UNCHANGED <<kind, path, peer, queue, fds, fresh, client, hist>>

(* Wrong: the path is removed before bind, as many servers do. *)
BindUnlinks(s) ==
  /\ srv[s] = "start"
  /\ path' = s /\ ServerTo(s, IF kind = "stream" THEN "bound" ELSE "accept")
  /\ UNCHANGED <<kind, peer, queue, fds, fresh, client, hist>>

(* bind; a path that exists, stale or not, makes the server exit. *)
Bind(s) ==
  /\ srv[s] = "start"
  /\ IF path = None
       THEN path' = s /\ ServerTo(s, IF kind = "stream" THEN "bound" ELSE "accept")
       ELSE UNCHANGED path /\ ServerTo(s, "off")
  /\ UNCHANGED <<kind, peer, queue, fds, fresh, client, hist>>

Listen(s) ==
  /\ srv[s] = "bound" /\ ServerTo(s, "accept")
  /\ UNCHANGED <<kind, path, peer, queue, fds, fresh, client, hist>>

(* What the end of s, or close in its handler, does to everybody. *)
CloseSockets(s) ==
  /\ path' = IF path = s THEN Stale ELSE path
  /\ peer' = [peer EXCEPT ![s] = None]
  /\ queue' = [queue EXCEPT ![s] = <<>>]
  /\ fds' = [fds EXCEPT ![s] = 0] /\ fresh' = [fresh EXCEPT ![s] = TRUE]
  /\ at' = [c \in Client |-> IF at[c] = s THEN Broken ELSE at[c]]
  /\ robbed' = robbed \ {s}

(* s ends and sig_handler1 does not run, or does not finish. *)
Dies(s) ==
  /\ CloseSockets(s) /\ ServerTo(s, "off")
  /\ crashed' = (crashed \/ path = s \/ srv[s] = "closing")
  /\ UNCHANGED <<kind, cl>>

Kill(s) == srv[s] # "off" /\ Dies(s)

(* sig_handler1, wherever the server is: close, then remove.  Before bind  *)
(* it removes a path that belongs to somebody else, too.                   *)
Interrupt(s) ==
  /\ srv[s] \notin {"off", "closing"}
  /\ CloseSockets(s) /\ ServerTo(s, "closing")
  /\ UNCHANGED <<kind, cl, crashed>>

(* Wrong: the handler exits without remove. *)
HandlerExits(s) ==
  /\ srv[s] = "closing" /\ ServerTo(s, "off")
  /\ UNCHANGED <<kind, path, peer, queue, fds, fresh, client, hist>>

HandlerRemoves(s) ==
  /\ srv[s] = "closing" /\ ServerTo(s, "off")
  /\ path' = None /\ crashed' = FALSE
  /\ robbed' = robbed \cup ({path} \cap Server)
  /\ UNCHANGED <<kind, peer, queue, fds, fresh, client>>

(* accept, which overwrites datafd. *)
Accept(s) ==
  /\ kind = "stream" /\ srv[s] = "accept" /\ queue[s] # <<>> /\ fds[s] < MaxFds
  /\ peer' = [peer EXCEPT ![s] = Head(queue[s])]
  /\ queue' = [queue EXCEPT ![s] = Tail(@)]
  /\ fds' = [fds EXCEPT ![s] = @ + 1] /\ fresh' = [fresh EXCEPT ![s] = FALSE]
  /\ ServerTo(s, "read")
  /\ UNCHANGED <<kind, path, client, hist>>

(* No descriptor is left, which accept finds before it waits, or the       *)
(* uninitialised len is refused: exit.                                     *)
AcceptFails(s) ==
  /\ kind = "stream" /\ srv[s] = "accept"
  /\ fds[s] = MaxFds \/ (fresh[s] /\ queue[s] # <<>>)
  /\ Dies(s)

(* Wrong: read is repeated until a line comes. *)
ReadInsists(s) ==
  /\ srv[s] = "read"
  /\ peer[s] = Gone \/ \E c \in Client : peer[s] = c /\ cl[c] = "read"
  /\ ServerTo(s, "answer")
  /\ UNCHANGED <<kind, path, peer, queue, fds, fresh, client, hist>>

(* One read for each connection.  It waits for a client that has not       *)
(* written; at end of file the server takes the next connection.           *)
Read(s) ==
  /\ srv[s] = "read"
  /\ \/ /\ peer[s] = Gone \/ \E c \in Client : peer[s] = c /\ cl[c] = "read"
        /\ ServerTo(s, "answer") /\ UNCHANGED peer
     \/ /\ peer[s] = Mute
        /\ ServerTo(s, "accept") /\ peer' = [peer EXCEPT ![s] = None]
  /\ UNCHANGED <<kind, path, queue, fds, fresh, client, hist>>

(* recvfrom gives the line and its sender. *)
Receive(s) ==
  /\ kind = "datagram" /\ srv[s] = "accept" /\ queue[s] # <<>>
  /\ peer' = [peer EXCEPT ![s] = Head(queue[s])]
  /\ queue' = [queue EXCEPT ![s] = Tail(@)]
  /\ ServerTo(s, "answer")
  /\ UNCHANGED <<kind, path, fds, fresh, client, hist>>

(* toupper and write (sendto) to a client that waits. *)
Answer(s) ==
  /\ srv[s] = "answer" /\ peer[s] \in Client
  /\ cl' = [cl EXCEPT ![peer[s]] = "reply"]
  /\ at' = [at EXCEPT ![peer[s]] = None]
  /\ peer' = [peer EXCEPT ![s] = None]
  /\ ServerTo(s, "accept")
  /\ UNCHANGED <<kind, path, queue, fds, fresh, hist>>

(* The client has left: SIGPIPE ends a stream server, while sendto's error *)
(* is only printed.                                                        *)
AnswerGone(s) ==
  /\ srv[s] = "answer" /\ peer[s] = Gone
  /\ IF kind = "stream" THEN Dies(s)
     ELSE /\ ServerTo(s, "accept") /\ peer' = [peer EXCEPT ![s] = None]
          /\ UNCHANGED <<kind, path, queue, fds, fresh, client, hist>>

(* Someone at the shell removes a path that is in the way. *)
RemoveStale ==
  /\ path = Stale /\ path' = None /\ crashed' = FALSE
  /\ UNCHANGED <<kind, server, client, robbed>>

-----------------------------------------------------------------------------
(* The clients. *)

Run(c) ==
  /\ cl[c] = "off" /\ ClientTo(c, "start")
  /\ UNCHANGED <<kind, path, server, at, hist>>

(* connect, or sendto which carries the line at once; a full queue blocks. *)
Connect(c) ==
  /\ cl[c] = "start" /\ path \in Server /\ srv[path] # "bound"
  /\ Len(queue[path]) <= Backlog
  /\ queue' = [queue EXCEPT ![path] = Append(@, c)]
  /\ at' = [at EXCEPT ![c] = path]
  /\ ClientTo(c, IF kind = "stream" THEN "write" ELSE "read")
  /\ UNCHANGED <<kind, path, srv, peer, fds, fresh, hist>>

(* Nobody is there.  The stream client only prints that, writes into an    *)
(* unconnected socket and then repeats a read that fails; the other exits. *)
ConnectFails(c) ==
  /\ cl[c] = "start"
  /\ path \in Server => srv[path] = "bound"
  /\ ClientTo(c, IF kind = "stream" THEN "spin" ELSE "off")
  /\ UNCHANGED <<kind, path, server, at, hist>>

(* c's process ends, or closes its socket; what it wrote stays readable.   *)
Leaves(c) ==
  LET mark == IF cl[c] = "read" THEN Gone ELSE Mute
      without(x) == IF x = c THEN mark ELSE x
  IN /\ queue' = [s \in Server |-> [n \in DOMAIN queue[s] |-> without(queue[s][n])]]
     /\ peer' = [s \in Server |-> without(peer[s])]
     /\ at' = [at EXCEPT ![c] = None]
     /\ ClientTo(c, "off")
     /\ UNCHANGED <<kind, path, srv, fds, fresh, hist>>

(* write; after the server has closed it raises SIGPIPE. *)
Write(c) ==
  /\ cl[c] = "write"
  /\ IF at[c] = Broken THEN Leaves(c)
     ELSE ClientTo(c, "read") /\ UNCHANGED <<kind, path, server, at, hist>>

(* Run without an argument: write(sockfd, NULL, 30) writes nothing, and the *)
(* client goes on to wait for an answer.                                    *)
WriteNothing(c) ==
  /\ cl[c] = "write" /\ at[c] # Broken
  /\ ClientTo(c, "silent")
  /\ UNCHANGED <<kind, path, server, at, hist>>

(* The answer is printed and the client exits. *)
PrintReply(c) ==
  /\ cl[c] = "reply" /\ ClientTo(c, "off")
  /\ UNCHANGED <<kind, path, server, at, hist>>

(* read returns 0 or -1 and is repeated for ever: `while (1)`. *)
ReadsEnd(c) ==
  /\ kind = "stream" /\ cl[c] \in {"read", "silent"} /\ at[c] = Broken
  /\ ClientTo(c, "spin")
  /\ UNCHANGED <<kind, path, server, at, hist>>

(* Ctrl-C; the only end of a client that spins, is silent, or waits for the *)
(* answer of a datagram server that has died.                               *)
InterruptClient(c) == cl[c] # "off" /\ Leaves(c)

-----------------------------------------------------------------------------
ServerStep(s) ==
  \/ Bind(s) \/ Listen(s) \/ Accept(s) \/ AcceptFails(s) \/ Read(s)
  \/ Receive(s) \/ Answer(s) \/ AnswerGone(s) \/ HandlerRemoves(s)

ClientStep(c) ==
  \/ Connect(c) \/ ConnectFails(c) \/ Write(c) \/ PrintReply(c) \/ ReadsEnd(c)

Next ==
  \/ \E s \in Server : ServerStep(s) \/ Start(s) \/ Kill(s) \/ Interrupt(s)
  \/ \E c \in Client :
       ClientStep(c) \/ Run(c) \/ WriteNothing(c) \/ InterruptClient(c)
  \/ RemoveStale

Spec == Init /\ [][Next]_vars

(* Programs that run go on; nobody has to start, stop or kill one. *)
FairSpec ==
  /\ Spec
  /\ \A s \in Server : WF_vars(ServerStep(s))
  /\ \A c \in Client : WF_vars(ClientStep(c))

-----------------------------------------------------------------------------
(* The queue never exceeds what the kernel grants, descriptors their limit. *)
TypeOK ==
  /\ kind \in {"stream", "datagram"}
  /\ path \in Server \cup {None, Stale}
  /\ srv \in [Server ->
       {"off", "start", "bound", "accept", "read", "answer", "closing"}]
  /\ peer \in [Server -> Peer \cup {None}]
  /\ queue \in [Server -> Seq(Peer)]
  /\ \A s \in Server : Len(queue[s]) <= Backlog + 1
  /\ fds \in [Server -> 0..MaxFds] /\ fresh \in [Server -> BOOLEAN]
  /\ cl \in [Client ->
       {"off", "start", "write", "read", "silent", "reply", "spin"}]
  /\ at \in [Client -> Server \cup {None, Broken}]
  /\ robbed \subseteq Server /\ crashed \in BOOLEAN

(* bind is the only thing that keeps two servers apart.  Two serve at the   *)
(* same time only if a third run's handler, interrupted before its own      *)
(* bind or slow to come to remove, took the path from one of them: that one *)
(* is deaf for ever.                                                        *)
OneServerAtATime ==
  \A s, t \in Server :
    (Serving(s) /\ Serving(t) /\ s # t) => (s \in robbed \/ t \in robbed)

(* Restart: a path that no longer has a server, so that the next bind      *)
(* fails, was left by a server that died without its handler (killed, by   *)
(* SIGPIPE, or when accept failed), or its handler is about to remove it.  *)
RestartBlockedOnlyAfterCrash ==
  path = Stale => crashed \/ \E s \in Server : srv[s] = "closing"

(* A line that was sent is answered, unless its server ends, or is held up *)
(* in read by a client that has connected and never writes.                *)
SentIsAnswered ==
  \A c \in Client :
    (cl[c] = "read" /\ at[c] \in Server)
      ~> \/ cl[c] # "read" \/ at[c] = Broken
         \/ \E d \in Client : cl[d] = "silent" /\ at[d] = at[c]
=============================================================================
