---------------------------- MODULE DatagramChat ----------------------------
(***************************************************************************)
(* 7-Socket/7.2-Internet-Datagram: the turn-by-turn chat over UDP.  Each   *)
(* client sends a line and waits, without a timeout, for an answer from    *)
(* anyone; the server waits for a line from anyone and answers whoever     *)
(* sent it.  Nothing is numbered or sent again.                            *)
(*                                                                         *)
(* UDP is external: a datagram may be lost, duplicated (received and still *)
(* in flight) or overtaken.  The length the server passes to recvfrom is   *)
(* uninitialised on the first call of each chat_func: the call may fail,   *)
(* or return part of the sender's address, and then the answer goes astray *)
(* or cannot be sent.  A send of part of a datagram, which the code tries  *)
(* to repeat, does not happen with UDP.                                    *)
(***************************************************************************)
EXTENDS Naturals

CONSTANTS Client,
          MaxLines  \* bound: lines a client sends

ASSUME LinesAssumption == MaxLines \in Nat \ {0}

VARIABLES
  server,   \* where the server is
  fresh,    \* len is not initialised yet
  peer, line,  \* *cliaddr, and the number of the line being answered
  astray,   \* cliaddr is not the sender's address
  client,   \* where each client is
  up, down, \* datagrams in flight to the server, to the clients
  \* History.
  sent, got,  \* lines a client has sent; the line its last answer was for
  lost, dup   \* clients with a datagram lost, duplicated

srv == <<server, fresh, peer, line, astray>>
vars == <<server, fresh, peer, line, astray, client, up, down, sent, got, lost,
          dup>>

Nobody == "nobody"
Text == {"text", "exit"}
Datagram == [c : Client, n : 1..MaxLines, text : Text]
Bound == server \in {"recv", "prompt"}

Init ==
  /\ server = "off" /\ fresh = TRUE /\ peer = Nobody /\ line = 0
  /\ astray = FALSE
  /\ client = [c \in Client |-> "prompt"] /\ up = {} /\ down = {}
  /\ sent = [c \in Client |-> 0] /\ got = [c \in Client |-> 0]
  /\ lost = {} /\ dup = {}

-----------------------------------------------------------------------------
(* The server. *)

(* socket, setsockopt, bind; the port may be taken. *)
Bind ==
  /\ server = "off" /\ server' \in {"recv", "stopped"}
  /\ UNCHANGED <<fresh, peer, line, astray, client, up, down, sent, got, lost,
                 dup>>

(* What has arrived at the socket, or is about to, is lost with it. *)
ServerEnds(how) ==
  /\ server' = how /\ up' = {} /\ lost' = lost \cup {m.c : m \in up}
  /\ UNCHANGED <<fresh, peer, line, astray, client, down, sent, got, dup>>

(* m is taken, or a duplicate of it is. *)
TakeUp(m) ==
  \/ up' = up \ {m} /\ UNCHANGED dup
  \/ dup' = dup \cup {m.c} /\ UNCHANGED up

(* "exit": chat_func returns and is called again. *)
ReceiveExit(m) ==
  /\ server = "recv" /\ m \in up /\ m.text = "exit"
  /\ TakeUp(m) /\ fresh' = TRUE
  /\ UNCHANGED <<server, peer, line, astray, client, down, sent, got, lost>>

(* Wrong: the address of the first sender is kept. *)
ReceiveKeepsPeer(m) ==
  /\ server = "recv" /\ m \in up /\ m.text # "exit"
  /\ TakeUp(m)
  /\ server' = "prompt" /\ line' = m.n
  /\ peer' = IF fresh THEN m.c ELSE peer
  /\ astray' \in IF fresh THEN BOOLEAN ELSE {FALSE}
  /\ fresh' = FALSE
  /\ UNCHANGED <<client, down, sent, got, lost>>

Receive(m) ==
  /\ server = "recv" /\ m \in up /\ m.text # "exit"
  /\ TakeUp(m)
  /\ server' = "prompt" /\ line' = m.n /\ peer' = m.c
  /\ astray' \in IF fresh THEN BOOLEAN ELSE {FALSE}
  /\ fresh' = FALSE
  /\ UNCHANGED <<client, down, sent, got, lost>>

(* recvfrom = -1. *)
ReceiveFails == server = "recv" /\ fresh /\ up # {} /\ ServerEnds("crashed")

(* An answer to a client that is gone finds no socket. *)
Answer(t) ==
  IF client[peer] = "gone" THEN {} ELSE {[c |-> peer, n |-> line, text |-> t]}

(* Wrong: the server may answer again before it reads. *)
ServerSendsAgain ==
  /\ server = "prompt" /\ ~astray
  /\ \E t \in Text :
       /\ down' = down \cup Answer(t)
       /\ fresh' = (t = "exit") /\ server' \in {"recv", "prompt"}
  /\ UNCHANGED <<peer, line, astray, client, up, sent, got, lost, dup>>

(* After "exit" chat_func is called again. *)
ServerSends ==
  /\ server = "prompt" /\ ~astray
  /\ \E t \in Text :
       /\ down' = down \cup Answer(t)
       /\ fresh' = (t = "exit") /\ server' = "recv" /\ line' = 0
  /\ UNCHANGED <<peer, astray, client, up, sent, got, lost, dup>>

ServerSendsAstray ==
  /\ server = "prompt" /\ astray
  /\ fresh' \in BOOLEAN /\ server' = "recv" /\ line' = 0
  /\ astray' = FALSE
  /\ lost' = lost \cup {peer}
  /\ UNCHANGED <<peer, client, up, down, sent, got, dup>>

(* sendto = -1: the address has no port. *)
SendFails == server = "prompt" /\ astray /\ ServerEnds("crashed")

StopServer == Bound /\ ServerEnds("stopped")

-----------------------------------------------------------------------------
(* A client. *)

(* A client that closes its socket drops what has come or will come for it. *)
Close(c) ==
  client' = [client EXCEPT ![c] = "gone"] /\ down' = {m \in down : m.c # c}

(* A datagram to a port nobody is bound to is lost. *)
ClientSends(c) ==
  /\ client[c] = "prompt" /\ sent[c] < MaxLines
  /\ sent' = [sent EXCEPT ![c] = @ + 1]
  /\ \E t \in Text :
       /\ IF t = "exit" THEN Close(c)
          ELSE client' = [client EXCEPT ![c] = "wait"] /\ UNCHANGED down
       /\ IF Bound
          THEN /\ up' = up \cup {[c |-> c, n |-> sent'[c], text |-> t]}
               /\ UNCHANGED lost
          ELSE lost' = lost \cup {c} /\ UNCHANGED up
  /\ UNCHANGED <<srv, got, dup>>

ClientReads(m) ==
  /\ m \in down /\ client[m.c] = "wait"
  /\ got' = [got EXCEPT ![m.c] = m.n]
  /\ IF m.text = "exit" THEN Close(m.c) /\ UNCHANGED dup
     ELSE /\ client' = [client EXCEPT ![m.c] = "prompt"]
          /\ \/ down' = down \ {m} /\ UNCHANGED dup
             \/ dup' = dup \cup {m.c} /\ UNCHANGED down
  /\ UNCHANGED <<srv, up, sent, lost>>

(* Ctrl-C *)
Interrupt(c) ==
  /\ client[c] # "gone" /\ Close(c)
  /\ UNCHANGED <<srv, up, sent, got, lost, dup>>

Lose(m) ==
  /\ m \in up \cup down
  /\ \/ m \in up /\ up' = up \ {m} /\ UNCHANGED down
     \/ m \in down /\ down' = down \ {m} /\ UNCHANGED up
  /\ lost' = lost \cup {m.c}
  /\ UNCHANGED <<srv, client, sent, got, dup>>

Next ==
  \/ Bind \/ ReceiveFails \/ ServerSends \/ ServerSendsAstray \/ SendFails
  \/ StopServer
  \/ \E m \in up : ReceiveExit(m) \/ Receive(m)
  \/ \E m \in down : ClientReads(m)
  \/ \E m \in up \cup down : Lose(m)
  \/ \E c \in Client : ClientSends(c) \/ Interrupt(c)

Spec == Init /\ [][Next]_vars

-----------------------------------------------------------------------------
(* Types; the server asks for an answer only with somebody to answer, and  *)
(* no client has an answer to a line it has yet to send.                   *)
TypeOK ==
  /\ server \in {"off", "recv", "prompt", "stopped", "crashed"}
  /\ fresh \in BOOLEAN /\ astray \in BOOLEAN
  /\ peer \in Client \cup {Nobody} /\ line \in 0..MaxLines
  /\ server = "prompt" => peer \in Client /\ line > 0
  /\ client \in [Client -> {"prompt", "wait", "gone"}]
  /\ up \subseteq Datagram /\ down \subseteq Datagram
  /\ sent \in [Client -> 0..MaxLines] /\ got \in [Client -> 0..MaxLines]
  /\ \A c \in Client : got[c] <= sent[c]
  /\ lost \subseteq Client /\ dup \subseteq Client

(* A client waits in vain only because UDP (or the uninitialised length)   *)
(* lost one of its datagrams or the server has gone: a server that talks   *)
(* to many clients in turn, and starts over at each "exit", forgets none.  *)
WaitsInVainOnlyAfterLoss ==
  \A c \in Client :
    client[c] = "wait" =>
      \/ \E m \in up \cup down : m.c = c
      \/ server = "prompt" /\ peer = c
      \/ c \in lost \/ ~Bound

(* The answer a client shows is to the line it sent last, whatever order   *)
(* the lines of several clients arrive in: lines are not numbered, so only *)
(* a duplicated datagram can shift a client's answers by one.              *)
AnswersOwnLine ==
  \A c \in Client : client[c] = "prompt" => got[c] = sent[c] \/ c \in dup
=============================================================================
