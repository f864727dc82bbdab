----------------------------- MODULE StreamChat -----------------------------
(***************************************************************************)
(* 7-Socket/7.2-Internet-Stream: a chat over TCP, turn by turn.  A client  *)
(* connects, sends a line, waits for the answer, and so on; the server     *)
(* accepts one client at a time and answers line by line.  Either side     *)
(* leaves by sending "exit"; Ctrl-C closes the sockets.  The server never  *)
(* closes the socket of a client it has finished with, and a read that     *)
(* returns 0 is taken for a line on both sides.                            *)
(*                                                                         *)
(* TCP is external: bytes in flight as whole lines (shorter than a         *)
(* segment), an end that is closed, and a reset, which a side meets after  *)
(* sending to a closed end or when the other closes with lines unread.     *)
(* Every connection is a client process of its own.                        *)
(***************************************************************************)
EXTENDS Naturals, Sequences, FiniteSets

CONSTANTS Client,   \* client processes, one connection each
          Backlog,  \* BACKLOG
          MaxFds    \* sockets the server may hold

ASSUME ChatAssumption ==
  Backlog \in Nat \ {0} /\ MaxFds \in Nat \ {0} /\ "nobody" \notin Client

VARIABLES
  server,  \* where the server is
  cur,     \* the connection it serves or served last
  queue,   \* connections not yet accepted
  fds,     \* accepted sockets the server holds
  client,  \* where each client is
  up, down,          \* lines to the server, to the client
  reset,             \* connections whose server end has been reset
  cut,               \* connections whose client end has been reset
  rude     \* History: a client has left without sending or reading "exit"

vars == <<server, cur, queue, fds, client, up, down, reset, cut, rude>>
sides == <<up, down, reset, cut>>

Nobody == "nobody"
Text == {"text", "exit"}
ServerPlace == {"off", "accept", "read", "prompt", "stopped", "crashed"}
ClientPlace == {"new", "prompt", "read", "gone"}

Up == server \in {"accept", "read", "prompt"}
ClientOpen(c) == client[c] \in {"prompt", "read"}

Init ==
  /\ server = "off" /\ cur = Nobody /\ queue = <<>> /\ fds = 0
  /\ client = [c \in Client |-> "new"]
  /\ up = [c \in Client |-> <<>>] /\ down = [c \in Client |-> <<>>]
  /\ reset = {} /\ cut = {} /\ rude = FALSE

-----------------------------------------------------------------------------
(* The server. *)

(* socket, setsockopt, bind, listen; bind may find the port taken. *)
Listen ==
  /\ server = "off" /\ server' \in {"accept", "stopped"}
  /\ UNCHANGED <<cur, queue, fds, client, sides, rude>>

(* Closing an end with lines unread, or never accepted, resets the other.  *)
ServerEnds(how) ==
  /\ server' = how /\ queue' = <<>>
  /\ cut' = cut \cup {c \in Client :
                        ClientOpen(c) /\ (up[c] # <<>> \/
                                          \E n \in 1..Len(queue) : queue[n] = c)}
  /\ UNCHANGED <<cur, fds, client, up, down, reset, rude>>

Accept ==
  /\ server = "accept" /\ queue # <<>> /\ fds < MaxFds
  /\ cur' = Head(queue) /\ queue' = Tail(queue)
  /\ fds' = fds + 1 /\ server' = "read"
  /\ UNCHANGED <<client, sides, rude>>

(* accept() = -1: no descriptor is left (none was ever closed), which the  *)
(* kernel looks at before it waits, or the len of the first call, which is *)
(* uninitialised, is negative.                                             *)
AcceptFails ==
  /\ server = "accept"
  /\ fds = MaxFds \/ (fds = 0 /\ queue # <<>>)
  /\ ServerEnds("crashed")

(* Wrong: "exit" is not looked for. *)
ServerReadsOn ==
  /\ server = "read" /\ up[cur] # <<>>
  /\ up' = [up EXCEPT ![cur] = Tail(@)]
  /\ server' = "prompt"
  /\ UNCHANGED <<cur, queue, fds, client, down, reset, cut, rude>>

ServerReads ==
  /\ server = "read" /\ up[cur] # <<>>
  /\ up' = [up EXCEPT ![cur] = Tail(@)]
  /\ server' = IF Head(up[cur]) = "exit" THEN "accept" ELSE "prompt"
  /\ UNCHANGED <<cur, queue, fds, client, down, reset, cut, rude>>

(* read() = 0 is printed and answered like a line; it is also what read    *)
(* returns when the reset came after the end.                              *)
ServerReadsEnd ==
  /\ server = "read" /\ up[cur] = <<>> /\ ~ClientOpen(cur)
  /\ server' = "prompt"
  /\ UNCHANGED <<cur, queue, fds, client, sides, rude>>

(* read() = -1, or SIGPIPE on a write: the server ends. *)
ServerMeetsReset ==
  /\ \/ server = "read" /\ up[cur] = <<>> /\ cur \in reset
     \/ server = "prompt" /\ cur \in reset
  /\ ServerEnds("crashed")

(* Wrong: one answer, and on to the next client. *)
ServerSendsOnce ==
  /\ server = "prompt" /\ cur \notin reset
  /\ \E m \in Text :
       IF ClientOpen(cur)
       THEN down' = [down EXCEPT ![cur] = Append(@, m)] /\ UNCHANGED reset
       ELSE reset' = reset \cup {cur} /\ UNCHANGED down
  /\ server' = "accept"
  /\ UNCHANGED <<cur, queue, fds, client, up, cut, rude>>

(* Answer; after "exit" back to accept, the socket left open. *)
ServerSends ==
  /\ server = "prompt" /\ cur \notin reset
  /\ \E m \in Text :
       /\ IF ClientOpen(cur)
          THEN down' = [down EXCEPT ![cur] = Append(@, m)] /\ UNCHANGED reset
          ELSE reset' = reset \cup {cur} /\ UNCHANGED down
       /\ server' = IF m = "exit" THEN "accept" ELSE "read"
  /\ UNCHANGED <<cur, queue, fds, client, up, cut, rude>>

StopServer == Up /\ ServerEnds("stopped")

-----------------------------------------------------------------------------
(* A client. *)

(* Linux queues one connection more than BACKLOG; the rest wait. *)
Connect(c) ==
  /\ client[c] = "new" /\ Up /\ Len(queue) <= Backlog
  /\ client' = [client EXCEPT ![c] = "prompt"]
  /\ queue' = Append(queue, c)
  /\ UNCHANGED <<server, cur, fds, sides, rude>>

(* connect() = -1: nobody listens, or it has waited too long for room.     *)
ConnectRefused(c) ==
  /\ client[c] = "new" /\ (~Up \/ Len(queue) > Backlog)
  /\ client' = [client EXCEPT ![c] = "gone"]
  /\ UNCHANGED <<server, cur, queue, fds, sides, rude>>

Leave(c) ==
  /\ client' = [client EXCEPT ![c] = "gone"]
  /\ reset' = IF down[c] # <<>> THEN reset \cup {c} ELSE reset

(* Wrong: two lines before an answer is read. *)
ClientSendsTwice(c) ==
  /\ client[c] = "prompt" /\ c \notin cut /\ Up
  /\ up' = [up EXCEPT ![c] = Append(Append(@, "text"), "text")]
  /\ client' = [client EXCEPT ![c] = "read"]
  /\ UNCHANGED <<server, cur, queue, fds, down, reset, cut, rude>>

(* A line to a server that is gone brings a reset. *)
ClientSends(c) ==
  /\ client[c] = "prompt" /\ c \notin cut
  /\ cut' = IF Up THEN cut ELSE cut \cup {c}
  /\ \E m \in Text :
       /\ up' = IF Up THEN [up EXCEPT ![c] = Append(@, m)] ELSE up
       /\ IF m = "exit" THEN Leave(c)
          ELSE client' = [client EXCEPT ![c] = "read"] /\ UNCHANGED reset
  /\ UNCHANGED <<server, cur, queue, fds, down, rude>>

(* Wrong: "exit" from the server is taken for a line, the client quits. *)
ClientLeavesAtText(c) ==
  /\ client[c] = "read" /\ down[c] # <<>>
  /\ down' = [down EXCEPT ![c] = Tail(@)]
  /\ client' = [client EXCEPT
                  ![c] = IF Head(down[c]) = "exit" THEN "prompt" ELSE "gone"]
  /\ UNCHANGED <<server, cur, queue, fds, up, reset, cut, rude>>

ClientReads(c) ==
  /\ client[c] = "read" /\ down[c] # <<>>
  /\ down' = [down EXCEPT ![c] = Tail(@)]
  /\ client' = [client EXCEPT
                  ![c] = IF Head(down[c]) = "exit" THEN "gone" ELSE "prompt"]
  /\ UNCHANGED <<server, cur, queue, fds, up, reset, cut, rude>>

(* The server is gone: read() = 0 and the next prompt. *)
ClientReadsEnd(c) ==
  /\ client[c] = "read" /\ down[c] = <<>> /\ ~Up
  /\ client' = [client EXCEPT ![c] = "prompt"]
  /\ UNCHANGED <<server, cur, queue, fds, sides, rude>>

(* read() or write() = -1, or SIGPIPE. *)
ClientMeetsReset(c) ==
  /\ c \in cut
  /\ client[c] = "prompt" \/ (client[c] = "read" /\ down[c] = <<>>)
  /\ client' = [client EXCEPT ![c] = "gone"]
  /\ UNCHANGED <<server, cur, queue, fds, sides, rude>>

(* Ctrl-C *)
Interrupt(c) ==
  /\ ClientOpen(c) /\ Leave(c)
  /\ rude' = TRUE
  /\ UNCHANGED <<server, cur, queue, fds, up, down, cut>>

ServerStep ==
  \/ Accept \/ AcceptFails \/ ServerReads \/ ServerReadsEnd
  \/ ServerMeetsReset \/ ServerSends
ClientStep(c) ==
  ClientSends(c) \/ ClientReads(c) \/ ClientReadsEnd(c) \/ ClientMeetsReset(c)

Next ==
  \/ Listen \/ ServerStep \/ StopServer
  \/ \E c \in Client :
       Connect(c) \/ ConnectRefused(c) \/ ClientStep(c) \/ Interrupt(c)

Spec == Init /\ [][Next]_vars

(* Processes run and the users at both ends answer their prompts. *)
FairSpec ==
  Spec /\ WF_vars(ServerStep) /\ \A c \in Client : WF_vars(ClientStep(c))

-----------------------------------------------------------------------------
(* Types; the kernel keeps BACKLOG + 1 connections for accept. *)
TypeOK ==
  /\ server \in ServerPlace /\ cur \in Client \cup {Nobody}
  /\ queue \in Seq(Client) /\ Len(queue) <= Backlog + 1
  /\ fds \in 0..MaxFds
  /\ client \in [Client -> ClientPlace]
  /\ up \in [Client -> Seq(Text)] /\ down \in [Client -> Seq(Text)]
  /\ reset \subseteq Client /\ cut \subseteq Client /\ rude \in BOOLEAN

(* Turns, on every connection: at most one line is in flight, so a read    *)
(* never joins two lines, though TCP would allow it; the two ends of the   *)
(* connection being served never both wait for a line; and a client the    *)
(* server has turned away from is waiting to be accepted or has "exit"     *)
(* still to read, so nobody sits at a prompt for a server that has left.   *)
OneTurn ==
  \A c \in Client :
    LET serving == cur = c /\ server \in {"read", "prompt"}
        queued == \E n \in 1..Len(queue) : queue[n] = c
    IN /\ Len(up[c]) + Len(down[c]) <= 1
       /\ (Up /\ ClientOpen(c)) =>
            /\ (serving /\ server = "read" /\ client[c] = "read") =>
                 Len(up[c]) + Len(down[c]) = 1
            /\ ~serving /\ ~queued => down[c] = <<"exit">>

(* Only a client that leaves without "exit", a failed first accept, or     *)
(* running out of descriptors (no client's socket is ever closed) brings   *)
(* the server down: a polite client never does, whoever says "exit" and    *)
(* however the closing of its socket races the server's next step.         *)
PoliteClientsAreHarmless ==
  server = "crashed" => rude \/ fds \in {0, MaxFds}

(* Who has the floor and whom the server talks to: an answer gives a       *)
(* client the floor, its line gives it to the server, when they are sent.  *)
Floor ==
  [c \in Client |->
     IF client[c] = "new" THEN "away"
     ELSE IF ~Up \/ client[c] = "gone" \/ down[c] = <<"exit">> THEN "over"
     ELSE IF client[c] = "prompt" \/ down[c] # <<>> THEN "client" ELSE "server"]
Partner == IF server \in {"read", "prompt"} THEN cur ELSE Nobody

Talk == INSTANCE Conversations WITH floor <- Floor, partner <- Partner

(* The chat implements Conversations: whatever is in flight, whoever       *)
(* leaves and whatever is reset, each line of a client has one answer and  *)
(* the server turns to the next client only when a conversation is over.   *)
SpokenInTurn == Talk!CSpec

(* "exit" ends the conversation at both ends: read by the server, it goes  *)
(* back to accept the next client (or Ctrl-C stops it); sent to a client,  *)
(* the client leaves.                                                      *)
ExitEndsConversation ==
  \A c \in Client :
    /\ (server = "read" /\ cur = c /\ up[c] = <<"exit">>) ~>
         (server \in {"accept", "stopped"} \/ cur # c)
    /\ (down[c] = <<"exit">>) ~> (client[c] = "gone")
=============================================================================
