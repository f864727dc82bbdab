------------------------- MODULE DatagramChat_proof -------------------------
(***************************************************************************)
(* Proofs about DatagramChat, for any set of clients, any number of lines  *)
(* and any loss, duplication and reordering.                               *)
(***************************************************************************)
EXTENDS DatagramChat, TLAPS

(* Only a client that has left says "exit"; a client that waits before the *)
(* server is there has lost its line.                                      *)
Leaving ==
  /\ \A m \in up : m.text = "exit" => client[m.c] = "gone"
  /\ server = "off" => \A c \in Client : client[c] = "wait" => c \in lost

(* Without duplicates there is at most one datagram of a client anywhere,  *)
(* or the server is answering it, and it is about the client's last line.  *)
(* A client at its prompt has none.                                        *)
Asks(c) == server = "prompt" /\ peer = c
Single(c) ==
  /\ \A m \in up \cup down : m.c = c => m.n = sent[c]
  /\ \A m, k \in up : m.c = c /\ k.c = c => m = k
  /\ \A m, k \in down : m.c = c /\ k.c = c => m = k
  /\ \A m \in up, k \in down : ~(m.c = c /\ k.c = c)
  /\ Asks(c) => line = sent[c] /\ \A m \in up \cup down : m.c # c
  /\ client[c] = "prompt" => /\ got[c] = sent[c] /\ ~Asks(c)
                             /\ \A m \in up \cup down : m.c # c
Singles == \A c \in Client : c \in dup \/ client[c] = "gone" \/ Single(c)

(* No datagram is about a line its client has not sent.                    *)
NoFuture ==
  /\ \A m \in up \cup down : m.n <= sent[m.c]
  /\ server = "prompt" => line <= sent[peer]

Inv == TypeOK /\ Leaving /\ NoFuture /\ Singles /\ WaitsInVainOnlyAfterLoss

LEMMA InitInv == Init => Inv
<1> SUFFICES ASSUME Init PROVE Inv
  OBVIOUS
<1> USE LinesAssumption DEF Init
<1>1. fresh \in BOOLEAN /\ astray \in BOOLEAN
  BY Zenon
<1>2. TypeOK
  BY <1>1 DEF TypeOK
<1>3. Leaving /\ NoFuture /\ Singles /\ WaitsInVainOnlyAfterLoss
  BY DEF Leaving, NoFuture, Singles, Single, Asks, WaitsInVainOnlyAfterLoss
<1> QED BY <1>2, <1>3 DEF Inv

(* The booleans of the server.                                             *)
LEMMA ServerFlags ==
  Inv /\ [Next]_vars => fresh' \in BOOLEAN /\ astray' \in BOOLEAN
<1> SUFFICES ASSUME Inv, [Next]_vars PROVE fresh' \in BOOLEAN /\ astray' \in BOOLEAN
  OBVIOUS
<1>1. fresh \in BOOLEAN /\ astray \in BOOLEAN
  BY DEF Inv, TypeOK
<1>2. fresh' = fresh \/ fresh' = TRUE \/ fresh' = FALSE \/ fresh' \in BOOLEAN
      \/ \E t \in Text : fresh' = (t = "exit")
  BY Zenon DEF Next, Bind, ReceiveFails, ServerEnds, ServerSends, ServerSendsAstray,
     SendFails, StopServer, ReceiveExit, Receive, ClientReads, Lose, ClientSends, Interrupt,
     Close, srv, vars
<1>3. \A t \in Text : (t = "exit") \in BOOLEAN
  OBVIOUS
<1>4. astray' = astray \/ astray' = FALSE \/ astray' \in BOOLEAN
  BY DEF Next, Bind, ReceiveFails, ServerEnds, ServerSends, ServerSendsAstray,
     SendFails, StopServer, ReceiveExit, Receive, ClientReads, Lose, ClientSends, Interrupt,
     Close, srv, vars
<1> QED BY <1>1, <1>2, <1>3, <1>4, Zenon

(* What a send adds, at either end, and what a receipt leaves.             *)
LEMMA AnswerAdds ==
  ASSUME Inv, ServerSends
  PROVE  /\ server = "prompt" /\ peer \in Client /\ server' = "recv" /\ line' = 0
         /\ \E k \in Datagram :
              /\ k.c = peer /\ k.n = line
              /\ down' = (IF client[peer] = "gone" THEN down ELSE down \cup {k})
         /\ UNCHANGED <<peer, astray, client, up, sent, got, lost, dup>>
<1>1. PICK t \in Text : down' = down \cup Answer(t)
  BY Zenon DEF ServerSends
<1> DEFINE k == [c |-> peer, n |-> line, text |-> t]
<1>2. k \in Datagram /\ k.c = peer /\ k.n = line
  BY LinesAssumption DEF Inv, TypeOK, ServerSends, Datagram
<1>3. down' = IF client[peer] = "gone" THEN down ELSE down \cup {k}
  BY <1>1 DEF Answer
<1>4. \E d \in Datagram : /\ d.c = peer /\ d.n = line
                          /\ down' = IF client[peer] = "gone" THEN down ELSE down \cup {d}
  BY <1>2, <1>3
<1> QED BY <1>4 DEF ServerSends, Inv, TypeOK

LEMMA LineAdds ==
  ASSUME Inv, NEW d \in Client, ClientSends(d)
  PROVE  /\ client[d] = "prompt" /\ sent[d] < MaxLines
         /\ sent' = [sent EXCEPT ![d] = @ + 1]
         /\ \E k \in Datagram :
              /\ k.c = d /\ k.n = sent[d] + 1
              /\ IF k.text = "exit" THEN Close(d)
                 ELSE client' = [client EXCEPT ![d] = "wait"] /\ UNCHANGED down
              /\ IF Bound THEN up' = up \cup {k} /\ UNCHANGED lost
                          ELSE lost' = lost \cup {d} /\ UNCHANGED up
         /\ UNCHANGED <<server, fresh, peer, line, astray, got, dup>>
<1>1. /\ client[d] = "prompt" /\ sent[d] < MaxLines
      /\ sent' = [sent EXCEPT ![d] = @ + 1]
      /\ UNCHANGED <<server, fresh, peer, line, astray, got, dup>>
  BY DEF ClientSends, srv
<1>2. PICK t \in Text :
        /\ IF t = "exit" THEN Close(d)
           ELSE client' = [client EXCEPT ![d] = "wait"] /\ UNCHANGED down
        /\ IF Bound THEN up' = up \cup {[c |-> d, n |-> sent'[d], text |-> t]} /\ UNCHANGED lost
                    ELSE lost' = lost \cup {d} /\ UNCHANGED up
  BY Zenon DEF ClientSends
<1> DEFINE k == [c |-> d, n |-> sent'[d], text |-> t]
<1>3. sent'[d] = sent[d] + 1 /\ sent'[d] \in 1..MaxLines
  BY <1>1, LinesAssumption DEF Inv, TypeOK
<1>4. k \in Datagram /\ k.c = d /\ k.n = sent[d] + 1 /\ k.text = t
  BY <1>3 DEF Datagram
<1> QED BY <1>1, <1>2, <1>4

LEMMA ReceiptLeaves ==
  ASSUME Inv, NEW m \in up, ReceiveExit(m) \/ Receive(m)
  PROVE  /\ server = "recv"
         /\ \/ up' = up \ {m} /\ dup' = dup
            \/ up' = up /\ dup' = dup \cup {m.c}
         /\ \/ m.text = "exit" /\ UNCHANGED <<server, peer, line>>
            \/ m.text # "exit" /\ server' = "prompt" /\ line' = m.n /\ peer' = m.c
         /\ UNCHANGED <<client, down, sent, got, lost>>
BY DEF ReceiveExit, Receive, TakeUp

LEMMA TypeStep == Inv /\ [Next]_vars => TypeOK' /\ NoFuture'
<1> DEFINE Goal == TypeOK' /\ NoFuture'
<1> SUFFICES ASSUME Inv, [Next]_vars PROVE Goal
  OBVIOUS
<1> USE LinesAssumption, ServerFlags DEF Inv, TypeOK, NoFuture, Datagram, Text, Nobody
<1>1. CASE Bind
  BY <1>1 DEF Bind
<1>2. CASE ReceiveFails \/ SendFails \/ StopServer
  BY <1>2 DEF ReceiveFails, SendFails, StopServer, ServerEnds
<1>3. CASE ServerSends
  BY <1>3, AnswerAdds
<1>4. CASE ServerSendsAstray
  BY <1>4 DEF ServerSendsAstray
<1>5. ASSUME NEW m \in up, ReceiveExit(m) \/ Receive(m) PROVE Goal
  BY <1>5, ReceiptLeaves
<1>6. ASSUME NEW m \in down, ClientReads(m) PROVE Goal
  <2>1. got' = [got EXCEPT ![m.c] = m.n] /\ UNCHANGED <<srv, up, sent, lost>>
    BY <1>6, Zenon DEF ClientReads
  <2>2. down' \subseteq down /\ dup' \subseteq Client
    BY <1>6 DEF ClientReads, Close
  <2>3. client' = [client EXCEPT ![m.c] = "gone"] \/ client' = [client EXCEPT ![m.c] = "prompt"]
    BY <1>6 DEF ClientReads, Close
  <2>4. client' \in [Client -> {"prompt", "wait", "gone"}]
    BY <2>3
  <2>5. m.c \in Client /\ m.n \in 0..MaxLines /\ m.n <= sent[m.c]
    OBVIOUS
  <2>6. /\ got' \in [Client -> 0..MaxLines]
        /\ \A c \in Client : got'[c] <= sent[c]
    BY <2>1, <2>5
  <2> QED BY <2>1, <2>2, <2>4, <2>6 DEF srv
<1>7. ASSUME NEW m \in up \cup down, Lose(m) PROVE Goal
  BY <1>7 DEF Lose, srv
<1>8. ASSUME NEW c \in Client, ClientSends(c) PROVE Goal
  BY <1>8, LineAdds DEF Close
<1>9. ASSUME NEW c \in Client, Interrupt(c) PROVE Goal
  BY <1>9 DEF Interrupt, Close, srv
<1>10. CASE UNCHANGED vars
  BY <1>10 DEF vars
<1> QED BY <1>1, <1>2, <1>3, <1>4, <1>5, <1>6, <1>7, <1>8, <1>9, <1>10 DEF Next

LEMMA WaitStep == Inv /\ [Next]_vars => Leaving' /\ WaitsInVainOnlyAfterLoss'
<1> DEFINE Goal == Leaving' /\ WaitsInVainOnlyAfterLoss'
<1> SUFFICES ASSUME Inv, [Next]_vars PROVE Goal
  OBVIOUS
<1> USE DEF Inv, TypeOK, Leaving, WaitsInVainOnlyAfterLoss, Bound, Datagram, Text
<1>1. CASE Bind
  BY <1>1 DEF Bind
<1>2. CASE ReceiveFails \/ SendFails \/ StopServer
  BY <1>2 DEF ReceiveFails, SendFails, StopServer, ServerEnds
<1>3. CASE ServerSends
  BY <1>3, AnswerAdds
<1>4. CASE ServerSendsAstray
  BY <1>4 DEF ServerSendsAstray
<1>5. ASSUME NEW m \in up, ReceiveExit(m) \/ Receive(m) PROVE Goal
  BY <1>5, ReceiptLeaves
<1>6. ASSUME NEW m \in down, ClientReads(m) PROVE Goal
  BY <1>6 DEF ClientReads, Close, srv
<1>7. ASSUME NEW m \in up \cup down, Lose(m) PROVE Goal
  BY <1>7 DEF Lose, srv
<1>8. ASSUME NEW c \in Client, ClientSends(c) PROVE Goal
  BY <1>8, LineAdds DEF Close
<1>9. ASSUME NEW c \in Client, Interrupt(c) PROVE Goal
  BY <1>9 DEF Interrupt, Close, srv
<1>10. CASE UNCHANGED vars
  BY <1>10 DEF vars
<1> QED BY <1>1, <1>2, <1>3, <1>4, <1>5, <1>6, <1>7, <1>8, <1>9, <1>10 DEF Next

LEMMA SingleStep == Inv /\ [Next]_vars => Singles'
<1> SUFFICES ASSUME Inv, [Next]_vars,
                    NEW c \in Client, c \notin dup', client'[c] # "gone"
             PROVE  Single(c)'
  BY DEF Singles
<1> USE DEF Inv, TypeOK, Singles, Single, Asks, Datagram, Text, Leaving, NoFuture
<1>1. CASE Bind
  BY <1>1 DEF Bind
<1>2. CASE ReceiveFails \/ SendFails \/ StopServer
  BY <1>2 DEF ReceiveFails, SendFails, StopServer, ServerEnds
<1>3. CASE ServerSends
  BY <1>3, AnswerAdds
<1>4. CASE ServerSendsAstray
  BY <1>4 DEF ServerSendsAstray
<1>5. ASSUME NEW m \in up, ReceiveExit(m) \/ Receive(m) PROVE Single(c)'
  BY <1>5, ReceiptLeaves
<1>6. ASSUME NEW m \in down, ClientReads(m) PROVE Single(c)'
  BY <1>6 DEF ClientReads, Close, srv
<1>7. ASSUME NEW m \in up \cup down, Lose(m) PROVE Single(c)'
  BY <1>7 DEF Lose, srv
<1>8. ASSUME NEW d \in Client, ClientSends(d) PROVE Single(c)'
  BY <1>8, LineAdds DEF Close
<1>9. ASSUME NEW d \in Client, Interrupt(d) PROVE Single(c)'
  BY <1>9 DEF Interrupt, Close, srv
<1>10. CASE UNCHANGED vars
  BY <1>10 DEF vars
<1> QED BY <1>1, <1>2, <1>3, <1>4, <1>5, <1>6, <1>7, <1>8, <1>9, <1>10 DEF Next

LEMMA Invariance == Spec => []Inv
<1>1. Inv /\ [Next]_vars => Inv'
  BY TypeStep, WaitStep, SingleStep DEF Inv
<1> QED BY InitInv, <1>1, PTL DEF Spec

(* For any number of clients and lines, the server that asks its user for  *)
(* an answer has a client's line to answer, and no answer is to a line its *)
(* client has yet to send.                                                 *)
THEOREM TypeCorrect == Spec => []TypeOK
<1>1. Inv => TypeOK
  BY DEF Inv
<1> QED BY Invariance, <1>1, PTL

(* For any number of clients, one waits in vain only after a loss.         *)
THEOREM WaitsExplained == Spec => []WaitsInVainOnlyAfterLoss
<1>1. Inv => WaitsInVainOnlyAfterLoss
  BY DEF Inv
<1> QED BY Invariance, <1>1, PTL

(* For any number of clients, an answer is to the client's last line       *)
(* unless one of its datagrams was duplicated.                             *)
THEOREM AnswersMatch == Spec => []AnswersOwnLine
<1>1. Inv => AnswersOwnLine
  BY DEF Inv, Singles, Single, AnswersOwnLine
<1> QED BY Invariance, <1>1, PTL
=============================================================================
