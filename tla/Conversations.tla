--------------------------- MODULE Conversations ---------------------------
(***************************************************************************)
(* What the TCP chat of 7-Socket/7.2-Internet-Stream promises to those who *)
(* type, with sockets, queues and lines in flight left out: on each        *)
(* connection the two ends speak in turn, every line of a client has one   *)
(* answer, and the server, which has one partner at a time, leaves it only *)
(* when their conversation is over.                                        *)
(***************************************************************************)
CONSTANT Client

VARIABLES
  floor,   \* who speaks next: a client that is "away" has not come yet
  partner  \* the client the server talks to, or "nobody"

conversation == <<floor, partner>>

CInit == floor = [c \in Client |-> "away"] /\ partner = "nobody"

Join(c) ==
  /\ floor[c] = "away" /\ floor' = [floor EXCEPT ![c] = "client"]
  /\ UNCHANGED partner

(* A client that says "exit" has the last word. *)
Speak(c) ==
  /\ floor[c] = "client"
  /\ \E next \in {"server", "over"} : floor' = [floor EXCEPT ![c] = next]
  /\ UNCHANGED partner

Meet(c) ==
  /\ partner = "nobody" /\ floor[c] # "away" /\ partner' = c
  /\ UNCHANGED floor

Answer(c) ==
  /\ partner = c /\ floor[c] = "server"
  /\ floor' = [floor EXCEPT ![c] = "client"]
  /\ UNCHANGED partner

(* The server's "exit". *)
Dismiss(c) ==
  /\ partner = c /\ floor[c] = "server"
  /\ floor' = [floor EXCEPT ![c] = "over"] /\ partner' = "nobody"

Part(c) ==
  /\ partner = c /\ floor[c] = "over" /\ partner' = "nobody"
  /\ UNCHANGED floor

(* A client is turned away, or leaves without a word. *)
Quit(c) ==
  /\ floor[c] # "over" /\ floor' = [floor EXCEPT ![c] = "over"]
  /\ UNCHANGED partner

(* The server ends, and with it every conversation. *)
Close ==
  /\ floor' = [c \in Client |-> IF floor[c] = "away" THEN "away" ELSE "over"]
  /\ partner' = "nobody"

CNext ==
  \/ Close
  \/ \E c \in Client : \/ Join(c) \/ Speak(c) \/ Meet(c) \/ Answer(c)
                       \/ Dismiss(c) \/ Part(c) \/ Quit(c)

CSpec == CInit /\ [][CNext]_conversation
=============================================================================
