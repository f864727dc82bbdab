-------------------------- MODULE StreamChat_proof --------------------------
(***************************************************************************)
(* Proofs about StreamChat, for any set of clients, any backlog and any    *)
(* limit of descriptors.                                                   *)
(***************************************************************************)
EXTENDS StreamChat, SequenceTheorems, TLAPS

Queued(c) == \E n \in 1..Len(queue) : queue[n] = c
Serving(c) == cur = c /\ server \in {"read", "prompt"}
Wire == {<<>>, <<"text">>, <<"exit">>}

(* Nobody queues twice, nor while served; only a server that listens has a *)
(* queue, and no client is connected before it does.                       *)
Queue ==
  /\ \A m, n \in 1..Len(queue) : queue[m] = queue[n] => m = n
  /\ \A c \in Client : Queued(c) => client[c] # "new" /\ cur # c
  /\ cur \in Client => client[cur] # "new"
  /\ server \in {"read", "prompt"} => cur \in Client
  /\ ~Up => queue = <<>>
  /\ server = "off" => \A c \in Client : ~ClientOpen(c)

(* Whose turn it is on a connection whose two ends are open: at a prompt   *)
(* nothing is in flight and the other end reads.                           *)
Turn(c) ==
  \/ /\ Queued(c) /\ down[c] = <<>>
     /\ up[c] = IF client[c] = "prompt" THEN <<>> ELSE <<"text">>
  \/ /\ Serving(c) /\ server = "read" /\ client[c] = "prompt"
     /\ up[c] = <<>> /\ down[c] = <<>>
  \/ /\ Serving(c) /\ server = "read" /\ client[c] = "read"
     /\ \/ up[c] = <<"text">> /\ down[c] = <<>>
        \/ up[c] = <<>> /\ down[c] = <<"text">>
  \/ /\ Serving(c) /\ server = "prompt" /\ client[c] = "read"
     /\ up[c] = <<>> /\ down[c] = <<>>
  \/ /\ ~Serving(c) /\ ~Queued(c) /\ client[c] = "read"
     /\ up[c] = <<>> /\ down[c] = <<"exit">>

Turns ==
  \A c \in Client :
    /\ up[c] \in Wire /\ down[c] \in Wire
    /\ up[c] = <<>> \/ down[c] = <<>>
    /\ client[c] = "new" => up[c] = <<>> /\ down[c] = <<>>
    /\ Up /\ ClientOpen(c) => Turn(c)

(* With polite clients only, one that has gone while the server has it     *)
(* queued or serves it has left an "exit" to read, and nothing is reset.   *)
Polite ==
  ((Up \/ server = "off") /\ ~rude) =>
    /\ reset = {} /\ cut = {}
    /\ \A c \in Client : (Queued(c) \/ Serving(c)) =>
         \/ ClientOpen(c)
         \/ up[c] = <<"exit">> /\ (Serving(c) => server = "read")

Inv == TypeOK /\ Queue /\ Turns /\ Polite /\ PoliteClientsAreHarmless

LEMMA Lines ==
  /\ <<>> # <<"text">> /\ <<>> # <<"exit">> /\ <<"text">> # <<"exit">>
  /\ Wire \subseteq Seq(Text)
  /\ \A t \in Text : /\ Append(<<>>, t) = <<t>> /\ <<t>> \in Wire /\ <<t>> # <<>>
                     /\ Head(<<t>>) = t /\ Tail(<<t>>) = <<>>
  /\ Len(<<>>) = 0 /\ Len(<<"text">>) = 1 /\ Len(<<"exit">>) = 1
  /\ Append(<<>>, "text") = <<"text">> /\ Append(<<>>, "exit") = <<"exit">>
  /\ Head(<<"text">>) = "text" /\ Head(<<"exit">>) = "exit"
  /\ Tail(<<"text">>) = <<>> /\ Tail(<<"exit">>) = <<>>
BY DEF Wire, Text

(* What accept and connect do to the queue.                                *)
LEMMA QueueTail ==
  ASSUME Inv, queue # <<>>, queue' = Tail(queue)
  PROVE  /\ Head(queue) \in Client /\ Queued(Head(queue))
         /\ queue' \in Seq(Client) /\ Len(queue') <= Backlog + 1
         /\ \A m, n \in 1..Len(queue') : queue'[m] = queue'[n] => m = n
         /\ \A c \in Client : Queued(c)' <=> Queued(c) /\ c # Head(queue)
<1>1. queue \in Seq(Client) /\ Len(queue) \in Nat \ {0} /\ Len(queue) <= Backlog + 1
  BY EmptySeq DEF Inv, TypeOK
<1>2. /\ Head(queue) = queue[1] /\ Head(queue) \in Client
      /\ queue' \in Seq(Client) /\ Len(queue') = Len(queue) - 1
      /\ \A n \in 1..Len(queue') : queue'[n] = queue[n + 1]
  BY <1>1, HeadTailProperties
<1>3. \A m, n \in 1..Len(queue') : queue'[m] = queue'[n] => m = n
  <2> SUFFICES ASSUME NEW m \in 1..Len(queue'), NEW n \in 1..Len(queue'),
                      queue'[m] = queue'[n]
               PROVE  m = n
    OBVIOUS
  <2>1. m + 1 \in 1..Len(queue) /\ n + 1 \in 1..Len(queue)
    BY <1>1, <1>2
  <2>2. queue[m + 1] = queue[n + 1]
    BY <1>2
  <2>3. m + 1 = n + 1
    BY <2>1, <2>2 DEF Inv, Queue
  <2> QED BY <2>3
<1>4. ASSUME NEW c \in Client PROVE Queued(c)' <=> Queued(c) /\ c # Head(queue)
  <2>1. ASSUME Queued(c)' PROVE Queued(c) /\ c # Head(queue)
    <3>1. PICK n \in 1..Len(queue') : queue'[n] = c
      BY <2>1 DEF Queued
    <3>2. n + 1 \in 1..Len(queue) /\ 1 \in 1..Len(queue) /\ queue[n + 1] = c /\ n + 1 # 1
      BY <1>1, <1>2, <3>1
    <3> QED BY <3>2, <1>2 DEF Queued, Inv, Queue
  <2>2. ASSUME Queued(c), c # Head(queue) PROVE Queued(c)'
    <3>1. PICK n \in 1..Len(queue) : queue[n] = c
      BY <2>2 DEF Queued
    <3>2. n # 1 /\ n - 1 \in 1..Len(queue') /\ queue'[n - 1] = queue[(n - 1) + 1]
      BY <1>1, <1>2, <2>2, <3>1
    <3>3. (n - 1) + 1 = n
      BY <1>1
    <3> QED BY <3>1, <3>2, <3>3 DEF Queued
  <2> QED BY <2>1, <2>2
<1>5. Queued(Head(queue))
  BY <1>1, <1>2 DEF Queued
<1>6. Len(queue') <= Backlog + 1
  BY <1>1, <1>2, ChatAssumption
<1> QED BY <1>2, <1>3, <1>4, <1>5, <1>6

LEMMA QueueAppend ==
  ASSUME Inv, NEW c \in Client, client[c] = "new", Len(queue) <= Backlog,
         queue' = Append(queue, c)
  PROVE  /\ queue' \in Seq(Client) /\ Len(queue') <= Backlog + 1
         /\ \A m, n \in 1..Len(queue') : queue'[m] = queue'[n] => m = n
         /\ \A d \in Client : Queued(d)' <=> Queued(d) \/ d = c
<1>1. queue \in Seq(Client) /\ Len(queue) \in Nat
  BY DEF Inv, TypeOK
<1>2. /\ queue' \in Seq(Client) /\ Len(queue') = Len(queue) + 1
      /\ \A n \in 1..Len(queue) : queue'[n] = queue[n]
      /\ queue'[Len(queue) + 1] = c
  BY <1>1, AppendProperties
<1>3. \A n \in 1..Len(queue) : queue[n] # c
  BY DEF Inv, Queue, Queued
<1>4. 1..Len(queue') = 1..Len(queue) \cup {Len(queue) + 1}
  BY <1>1, <1>2
<1>5. \A m, n \in 1..Len(queue') : queue'[m] = queue'[n] => m = n
  BY <1>2, <1>3, <1>4 DEF Inv, Queue
<1>6. \A d \in Client : Queued(d)' <=> Queued(d) \/ d = c
  BY <1>2, <1>4 DEF Queued
<1>7. Len(queue') <= Backlog + 1
  BY <1>1, <1>2, ChatAssumption
<1> QED BY <1>2, <1>5, <1>6, <1>7

LEMMA InitInv == Init => Inv
<1> SUFFICES ASSUME Init PROVE Inv
  OBVIOUS
<1> USE Lines, ChatAssumption DEF Init
<1>1. queue \in Seq(Client) /\ Len(queue) = 0 /\ rude \in BOOLEAN
  BY EmptySeq, Zenon
<1>2. TypeOK
  BY <1>1 DEF TypeOK, ServerPlace, ClientPlace
<1>3. \A c \in Client : ~ClientOpen(c) /\ ~Queued(c) /\ ~Serving(c) /\ client[c] = "new"
  BY <1>1 DEF ClientOpen, Queued, Serving
<1>4. ~Up /\ server \notin {"read", "prompt", "crashed"}
  BY DEF Up
<1>5. Queue
  BY <1>1, <1>3, <1>4 DEF Queue, Nobody
<1>6. Turns
  BY <1>3 DEF Turns, Wire
<1>7. Polite /\ PoliteClientsAreHarmless
  BY <1>3, <1>4 DEF Polite, PoliteClientsAreHarmless
<1> QED BY <1>2, <1>5, <1>6, <1>7 DEF Inv

(* The listening socket closes.                                            *)
LEMMA Ends ==
  ASSUME Inv, NEW how \in {"stopped", "crashed"}, ServerEnds(how),
         how = "crashed" => rude \/ fds \in {0, MaxFds}
  PROVE  Inv'
<1> USE Lines, ChatAssumption DEF ServerEnds, Inv
<1>1. queue' \in Seq(Client) /\ Len(queue') = 0
  BY EmptySeq
<1>2. TypeOK'
  BY <1>1 DEF TypeOK, ServerPlace
<1>3. Queue' /\ Turns' /\ Polite' /\ PoliteClientsAreHarmless'
  BY <1>1 DEF Queue, Turns, Polite, PoliteClientsAreHarmless, Queued, Up, ClientOpen
<1> QED BY <1>2, <1>3

LEMMA Listens == Inv /\ Listen => Inv'
<1> SUFFICES ASSUME Inv, Listen PROVE Inv'
  OBVIOUS
<1> USE Lines DEF Listen, sides, Inv
<1>1. TypeOK'
  BY DEF TypeOK, ServerPlace
<1>2. \A c \in Client : ~ClientOpen(c) /\ ~Queued(c)
  BY EmptySeq DEF Queue, Queued, Up
<1>3. Queue'
  BY <1>2 DEF Queue, Queued, Up, ClientOpen
<1>4. Turns' /\ PoliteClientsAreHarmless'
  BY <1>2 DEF Turns, PoliteClientsAreHarmless, ClientOpen
<1>5. Polite'
  BY <1>2 DEF Polite, Queued, Serving, Up
<1> QED BY <1>1, <1>3, <1>4, <1>5

LEMMA Accepts == Inv /\ Accept => Inv'
<1> SUFFICES ASSUME Inv, Accept PROVE Inv'
  OBVIOUS
<1> DEFINE h == Head(queue)
<1>1. /\ h \in Client /\ Queued(h)
      /\ queue' \in Seq(Client) /\ Len(queue') <= Backlog + 1
      /\ \A m, n \in 1..Len(queue') : queue'[m] = queue'[n] => m = n
      /\ \A c \in Client : Queued(c)' <=> Queued(c) /\ c # h
  BY QueueTail DEF Accept
<1>2. /\ server = "accept" /\ server' = "read" /\ cur' = h
      /\ fds' = fds + 1 /\ fds < MaxFds
      /\ UNCHANGED <<client, up, down, reset, cut, rude>>
  BY DEF Accept, sides
<1> HIDE DEF h
<1> USE Lines, ChatAssumption DEF Inv
<1>3. TypeOK'
  BY <1>1, <1>2 DEF TypeOK, ServerPlace
<1>4. Queue'
  BY <1>1, <1>2 DEF Queue, Up, ClientOpen
<1>5. \A c \in Client : ~Serving(c) /\ (Serving(c)' <=> c = h)
  BY <1>2 DEF Serving
<1>6. Turns'
  BY <1>1, <1>2, <1>5 DEF Turns, Turn, Up, ClientOpen
<1>7. Polite'
  BY <1>1, <1>2, <1>5 DEF Polite, Up, ClientOpen
<1>8. PoliteClientsAreHarmless'
  BY <1>2 DEF PoliteClientsAreHarmless
<1> QED BY <1>3, <1>4, <1>6, <1>7, <1>8

(* Steps of the server that leave its queue alone.                         *)
LEMMA Reads == Inv /\ (ServerReads \/ ServerReadsEnd) => Inv'
<1> SUFFICES ASSUME Inv, ServerReads \/ ServerReadsEnd PROVE Inv'
  OBVIOUS
<1> USE Lines DEF Inv
<1>1. /\ cur \in Client /\ server = "read" /\ Serving(cur)
      /\ UNCHANGED <<cur, queue, fds, client, down, reset, cut, rude>>
      /\ \/ /\ up[cur] = <<"text">> /\ server' = "prompt"
            /\ up' = [up EXCEPT ![cur] = <<>>]
         \/ /\ up[cur] = <<"exit">> /\ server' = "accept"
            /\ up' = [up EXCEPT ![cur] = <<>>]
         \/ /\ up[cur] = <<>> /\ ~ClientOpen(cur) /\ server' = "prompt"
            /\ UNCHANGED up
  BY DEF ServerReads, ServerReadsEnd, sides, Queue, Turns, Wire, Serving
<1>2. TypeOK'
  BY <1>1, EmptySeq DEF TypeOK, ServerPlace
<1>3. Queue'
  BY <1>1 DEF Queue, Queued, Up, ClientOpen
<1>4. \A c \in Client : Queued(c)' <=> Queued(c)
  BY <1>1 DEF Queued
<1>5. \A c \in Client : c # cur => ~Serving(c) /\ ~Serving(c)'
  BY <1>1 DEF Serving
<1>6. Turns'
  <2> SUFFICES ASSUME NEW c \in Client
               PROVE  /\ up'[c] \in Wire /\ down'[c] \in Wire
                      /\ up'[c] = <<>> \/ down'[c] = <<>>
                      /\ client'[c] = "new" => up'[c] = <<>> /\ down'[c] = <<>>
                      /\ (Up /\ ClientOpen(c) => Turn(c))'
    BY DEF Turns, Wire
  <2>1. CASE c = cur
    BY <1>1, <1>4, <2>1 DEF Turns, Turn, Up, ClientOpen, TypeOK, Wire, Serving, Queue
  <2>2. CASE c # cur
    <3>1. up'[c] = up[c]
      BY <1>1, <2>2 DEF TypeOK
    <3> QED BY <1>1, <1>4, <1>5, <2>2, <3>1 DEF Turns, Turn, Up, ClientOpen
  <2> QED BY <2>1, <2>2
<1>7. Polite'
  BY <1>1, <1>4, <1>5 DEF Polite, Up, ClientOpen, TypeOK, Serving, Queue
<1>8. PoliteClientsAreHarmless'
  BY <1>1 DEF PoliteClientsAreHarmless
<1> QED BY <1>2, <1>3, <1>6, <1>7, <1>8

LEMMA Sends == Inv /\ ServerSends => Inv'
<1> SUFFICES ASSUME Inv, ServerSends PROVE Inv'
  OBVIOUS
<1> USE Lines DEF Inv
<1>1. PICK m \in Text :
        /\ IF ClientOpen(cur)
           THEN down' = [down EXCEPT ![cur] = Append(@, m)] /\ UNCHANGED reset
           ELSE reset' = reset \cup {cur} /\ UNCHANGED down
        /\ server' = IF m = "exit" THEN "accept" ELSE "read"
  BY Zenon DEF ServerSends
<1>2. /\ cur \in Client /\ server = "prompt" /\ Serving(cur)
      /\ UNCHANGED <<cur, queue, fds, client, up, cut, rude>>
  BY DEF ServerSends, Queue, Serving
<1>3. ~Queued(cur)
  BY <1>2 DEF Queue
<1>4. ClientOpen(cur) => /\ client[cur] = "read" /\ up[cur] = <<>> /\ down[cur] = <<>>
                         /\ down' = [down EXCEPT ![cur] = <<m>>]
  BY <1>1, <1>2, <1>3 DEF Turns, Turn, Up
<1>5. TypeOK'
  BY <1>1, <1>2, <1>4 DEF TypeOK, ServerPlace
<1>6. Queue'
  BY <1>1, <1>2 DEF Queue, Queued, Up, ClientOpen
<1>7. \A c \in Client : /\ Queued(c)' <=> Queued(c)
                        /\ c # cur => ~Serving(c) /\ ~Serving(c)'
  BY <1>1, <1>2 DEF Queued, Serving
<1>8. Turns'
  BY <1>1, <1>2, <1>3, <1>4, <1>7 DEF Turns, Turn, Up, ClientOpen, TypeOK, Wire, Serving, Text
<1>9. Polite'
  BY <1>1, <1>2, <1>3, <1>7 DEF Polite, Up, ClientOpen, TypeOK, Serving
<1>10. PoliteClientsAreHarmless'
  BY <1>1, <1>2 DEF PoliteClientsAreHarmless
<1> QED BY <1>5, <1>6, <1>8, <1>9, <1>10

(* Everything a client's step but connect leaves alone.                    *)
Frame == UNCHANGED <<server, cur, queue, fds>>

LEMMA FrameKeeps ==
  ASSUME Frame
  PROVE  /\ Up' <=> Up
         /\ \A c \in Client : (Queued(c)' <=> Queued(c)) /\ (Serving(c)' <=> Serving(c))
BY DEF Frame, Up, Queued, Serving

LEMMA Connects ==
  ASSUME Inv, NEW c \in Client, Connect(c)
  PROVE  Inv'
<1>1. /\ client[c] = "new" /\ Up /\ Len(queue) <= Backlog
      /\ client' = [client EXCEPT ![c] = "prompt"]
      /\ queue' = Append(queue, c)
      /\ UNCHANGED <<server, cur, fds, up, down, reset, cut, rude>>
  BY DEF Connect, sides
<1>2. /\ queue' \in Seq(Client) /\ Len(queue') <= Backlog + 1
      /\ \A m, n \in 1..Len(queue') : queue'[m] = queue'[n] => m = n
      /\ \A d \in Client : Queued(d)' <=> Queued(d) \/ d = c
  BY <1>1, QueueAppend
<1> USE Lines, ChatAssumption DEF Inv
<1>3. TypeOK'
  BY <1>1, <1>2 DEF TypeOK, ClientPlace
<1>4. Queue'
  BY <1>1, <1>2 DEF Queue, Up, TypeOK
<1>5. ~Serving(c) /\ \A d \in Client : Serving(d)' <=> Serving(d)
  BY <1>1 DEF Serving, Queue
<1>6. Turns'
  BY <1>1, <1>2, <1>5 DEF Turns, Turn, Up, ClientOpen, TypeOK
<1>7. Polite'
  BY <1>1, <1>2, <1>5 DEF Polite, Up, ClientOpen, TypeOK
<1>8. PoliteClientsAreHarmless'
  BY <1>1 DEF PoliteClientsAreHarmless
<1> QED BY <1>3, <1>4, <1>6, <1>7, <1>8

LEMMA Refused ==
  ASSUME Inv, NEW c \in Client, ConnectRefused(c)
  PROVE  Inv'
<1> USE Lines DEF Inv
<1>1. /\ Frame /\ client[c] = "new" /\ client' = [client EXCEPT ![c] = "gone"]
      /\ UNCHANGED <<up, down, reset, cut, rude>>
  BY DEF ConnectRefused, sides, Frame
<1>2. TypeOK'
  BY <1>1 DEF TypeOK, ClientPlace, Frame
<1>3. ~Queued(c) /\ ~Serving(c)
  BY <1>1 DEF Queue, Serving, Queued
<1>4. client'[c] = "gone" /\ \A d \in Client \ {c} : client'[d] = client[d]
  BY <1>1 DEF TypeOK
<1>5. Queue'
  BY <1>1, <1>3, <1>4, FrameKeeps DEF Queue, Frame, TypeOK, ClientOpen
<1>6. Turns'
  BY <1>1, <1>4, FrameKeeps DEF Turns, Turn, Frame, ClientOpen
<1>7. Polite'
  BY <1>1, <1>3, <1>4, FrameKeeps DEF Polite, Frame, ClientOpen
<1>8. PoliteClientsAreHarmless'
  BY <1>1 DEF PoliteClientsAreHarmless, Frame
<1> QED BY <1>2, <1>5, <1>6, <1>7, <1>8

LEMMA Interrupts ==
  ASSUME Inv, NEW c \in Client, Interrupt(c)
  PROVE  Inv'
<1> USE Lines DEF Inv
<1>1. /\ Frame /\ ClientOpen(c) /\ client' = [client EXCEPT ![c] = "gone"]
      /\ reset' \subseteq reset \cup {c} /\ rude' = TRUE
      /\ UNCHANGED <<up, down, cut>>
  BY DEF Interrupt, Leave, Frame
<1>2. TypeOK'
  BY <1>1 DEF TypeOK, ClientPlace, Frame
<1>3. Queue'
  BY <1>1, FrameKeeps DEF Queue, Frame, TypeOK, ClientOpen
<1>4. Turns'
  BY <1>1, FrameKeeps DEF Turns, Turn, Frame, TypeOK, ClientOpen
<1>5. Polite' /\ PoliteClientsAreHarmless'
  BY <1>1 DEF Polite, PoliteClientsAreHarmless
<1> QED BY <1>2, <1>3, <1>4, <1>5

LEMMA ClientSendsKeeps ==
  ASSUME Inv, NEW c \in Client, ClientSends(c)
  PROVE  Inv'
<1> USE Lines DEF Inv
<1>1. PICK m \in Text :
        /\ up' = IF Up THEN [up EXCEPT ![c] = Append(@, m)] ELSE up
        /\ IF m = "exit" THEN Leave(c)
           ELSE client' = [client EXCEPT ![c] = "read"] /\ UNCHANGED reset
  BY Zenon DEF ClientSends
<1>2. /\ Frame /\ client[c] = "prompt" /\ ClientOpen(c)
      /\ cut' = (IF Up THEN cut ELSE cut \cup {c}) /\ UNCHANGED <<down, rude>>
  BY DEF ClientSends, Frame, ClientOpen
<1>3. Up => /\ up[c] = <<>> /\ down[c] = <<>> /\ up' = [up EXCEPT ![c] = <<m>>]
            /\ Queued(c) \/ (Serving(c) /\ server = "read")
  BY <1>1, <1>2 DEF Turns, Turn
<1>4. /\ m = "exit" => client' = [client EXCEPT ![c] = "gone"]
      /\ m # "exit" => client' = [client EXCEPT ![c] = "read"] /\ m = "text"
      /\ reset' \subseteq reset \cup {c} /\ (Up => reset' = reset)
  BY <1>1, <1>3 DEF Leave, Text
<1>5. TypeOK'
  <2>1. up' \in [Client -> Seq(Text)]
    BY <1>1, <1>3 DEF TypeOK
  <2> QED BY <1>2, <1>4, <2>1 DEF TypeOK, ClientPlace, Frame
<1>6. Queue'
  BY <1>2, <1>4, FrameKeeps DEF Queue, Frame, TypeOK, ClientOpen
<1>7. Turns'
  <2>1. CASE Up
    BY <1>2, <1>3, <1>4, <2>1, FrameKeeps DEF Turns, Turn, Frame, TypeOK, ClientOpen, Wire
  <2>2. CASE ~Up
    BY <1>1, <1>2, <1>4, <2>2, FrameKeeps DEF Turns, Frame, TypeOK
  <2> QED BY <2>1, <2>2
<1>8. Polite'
  <2>1. server # "off"
    BY <1>2 DEF Queue
  <2>2. server' = server /\ rude' = rude /\ (Up => reset' = reset /\ cut' = cut)
    BY <1>2, <1>4 DEF Frame
  <2>3. ASSUME Up, NEW d \in Client, ClientOpen(d)
        PROVE  ClientOpen(d)' \/ (d = c /\ up'[c] = <<"exit">>)
    BY <1>3, <1>4, <2>3 DEF TypeOK, ClientOpen, Text
  <2>4. \A d \in Client : (Up /\ d # c) => up'[d] = up[d]
    BY <1>3 DEF TypeOK
  <2>5. ASSUME Up, ~rude, NEW d \in Client, Queued(d) \/ Serving(d)
        PROVE  ClientOpen(d)' \/ (up'[d] = <<"exit">> /\ (Serving(d) => server = "read"))
    <3>1. CASE d = c
      BY <1>2, <1>3, <2>3, <2>5, <3>1 DEF Queue, Serving
    <3>2. CASE d # c
      BY <2>3, <2>4, <2>5, <3>2 DEF Polite
    <3> QED BY <3>1, <3>2
  <2>6. (Up /\ ~rude) => reset = {} /\ cut = {}
    BY DEF Polite
  <2>7. /\ Up' <=> Up
        /\ \A d \in Client : (Queued(d)' <=> Queued(d)) /\ (Serving(d)' <=> Serving(d))
    BY <1>2, FrameKeeps
  <2> QED BY <2>1, <2>2, <2>5, <2>6, <2>7 DEF Polite
<1>9. PoliteClientsAreHarmless'
  BY <1>2 DEF PoliteClientsAreHarmless, Frame
<1> QED BY <1>5, <1>6, <1>7, <1>8, <1>9

LEMMA ClientReadsKeeps ==
  ASSUME Inv, NEW c \in Client, ClientReads(c)
  PROVE  Inv'
<1> USE Lines DEF Inv
<1>1. /\ Frame /\ client[c] = "read" /\ ClientOpen(c)
      /\ down' = [down EXCEPT ![c] = <<>>] /\ UNCHANGED <<up, reset, cut, rude>>
      /\ \/ down[c] = <<"exit">> /\ client' = [client EXCEPT ![c] = "gone"]
         \/ down[c] = <<"text">> /\ client' = [client EXCEPT ![c] = "prompt"]
  BY DEF ClientReads, Frame, ClientOpen, Turns, Wire
<1>2. TypeOK'
  BY <1>1, EmptySeq DEF TypeOK, ClientPlace, Frame
<1>3. Queue'
  BY <1>1, FrameKeeps DEF Queue, Frame, TypeOK, ClientOpen
<1>4. Turns'
  <2> SUFFICES ASSUME NEW d \in Client
               PROVE  /\ up'[d] \in Wire /\ down'[d] \in Wire
                      /\ up'[d] = <<>> \/ down'[d] = <<>>
                      /\ client'[d] = "new" => up'[d] = <<>> /\ down'[d] = <<>>
                      /\ (Up /\ ClientOpen(d) => Turn(d))'
    BY DEF Turns, Wire
  <2>1. CASE d = c
    BY <1>1, <2>1, FrameKeeps DEF Turns, Turn, Frame, TypeOK, ClientOpen, Wire
  <2>2. CASE d # c
    <3>1. up'[d] = up[d] /\ down'[d] = down[d] /\ client'[d] = client[d]
      BY <1>1, <2>2 DEF TypeOK
    <3> QED BY <1>1, <2>2, <3>1, FrameKeeps DEF Turns, Turn, Frame, ClientOpen
  <2> QED BY <2>1, <2>2
<1>5. Polite'
  <2>1. Up /\ down[c] = <<"exit">> => ~Queued(c) /\ ~Serving(c)
    BY <1>1 DEF Turns, Turn
  <2>2. server # "off"
    BY <1>1 DEF Queue
  <2> QED BY <1>1, <2>1, <2>2, FrameKeeps DEF Polite, Frame, TypeOK, ClientOpen
<1>6. PoliteClientsAreHarmless'
  BY <1>1 DEF PoliteClientsAreHarmless, Frame
<1> QED BY <1>2, <1>3, <1>4, <1>5, <1>6

(* The steps that follow the end of the server.                            *)
LEMMA ClientMeetsEnd ==
  ASSUME Inv, NEW c \in Client, ClientReadsEnd(c) \/ ClientMeetsReset(c)
  PROVE  Inv'
<1> USE Lines DEF Inv
<1>1. /\ Frame /\ client[c] \in {"prompt", "read"} /\ UNCHANGED <<up, down, reset, cut, rude>>
      /\ \/ ~Up /\ client' = [client EXCEPT ![c] = "prompt"]
         \/ c \in cut /\ client' = [client EXCEPT ![c] = "gone"]
  BY DEF ClientReadsEnd, ClientMeetsReset, Frame, sides
<1>2. TypeOK'
  BY <1>1 DEF TypeOK, ClientPlace, Frame
<1>3. Queue'
  BY <1>1, FrameKeeps DEF Queue, Frame, TypeOK, ClientOpen
<1>4. Turns'
  BY <1>1, FrameKeeps DEF Turns, Turn, Frame, TypeOK, ClientOpen
<1>5. Polite'
  BY <1>1, FrameKeeps DEF Polite, Frame, Queue, ClientOpen
<1>6. PoliteClientsAreHarmless'
  BY <1>1 DEF PoliteClientsAreHarmless, Frame
<1> QED BY <1>2, <1>3, <1>4, <1>5, <1>6

(* The server ends: by Ctrl-C, at a failed accept, at a reset.             *)
LEMMA ServerStops == Inv /\ (StopServer \/ AcceptFails \/ ServerMeetsReset) => Inv'
<1> SUFFICES ASSUME Inv, StopServer \/ AcceptFails \/ ServerMeetsReset PROVE Inv'
  OBVIOUS
<1>1. CASE StopServer
  BY <1>1, Ends DEF StopServer
<1>2. CASE AcceptFails
  BY <1>2, Ends DEF AcceptFails
<1>3. CASE ServerMeetsReset
  <2>1. rude
    BY <1>3 DEF ServerMeetsReset, Inv, Polite, Queue, Up
  <2> QED BY <1>3, <2>1, Ends DEF ServerMeetsReset
<1> QED BY <1>1, <1>2, <1>3

LEMMA Invariance == Spec => []Inv
<1>1. Inv /\ [Next]_vars => Inv'
  <2> SUFFICES ASSUME Inv, [Next]_vars PROVE Inv'
    OBVIOUS
  <2>1. CASE UNCHANGED vars
    BY <2>1 DEF Inv, TypeOK, Queue, Turns, Turn, Polite, PoliteClientsAreHarmless, Queued,
                Serving, Up, ClientOpen, vars
  <2>2. CASE Listen \/ ServerStep \/ StopServer
    BY <2>2, Listens, Accepts, Reads, Sends, ServerStops DEF ServerStep
  <2>3. ASSUME NEW c \in Client,
               Connect(c) \/ ConnectRefused(c) \/ ClientStep(c) \/ Interrupt(c)
        PROVE  Inv'
    BY <2>3, Connects, Refused, Interrupts, ClientSendsKeeps, ClientReadsKeeps,
       ClientMeetsEnd DEF ClientStep
  <2> QED BY <2>1, <2>2, <2>3 DEF Next
<1> QED BY InitInv, <1>1, PTL DEF Spec

(* Every variable keeps its type: for any number of clients, the kernel    *)
(* never holds more than BACKLOG + 1 of them for accept.                   *)
THEOREM TypeCorrect == Spec => []TypeOK
<1>1. Inv => TypeOK
  BY DEF Inv
<1> QED BY Invariance, <1>1, PTL

(* For any number of clients, at most one line is in flight on each        *)
(* connection, its ends never both wait for one, and nobody sits at a      *)
(* prompt for a server that has turned away.                               *)
THEOREM TakingTurns == Spec => []OneTurn
<1>1. Inv => OneTurn
  <2> SUFFICES ASSUME Inv, NEW c \in Client
               PROVE  /\ Len(up[c]) + Len(down[c]) <= 1
                      /\ (Up /\ ClientOpen(c)) =>
                           /\ (Serving(c) /\ server = "read" /\ client[c] = "read") =>
                                Len(up[c]) + Len(down[c]) = 1
                           /\ ~Serving(c) /\ ~Queued(c) => down[c] = <<"exit">>
    BY DEF OneTurn, Serving, Queued
  <2> DEFINE a == Len(up[c])
             b == Len(down[c])
  <2>0. /\ Len(up[c]) \in {0, 1} /\ (up[c] = <<>> <=> Len(up[c]) = 0)
        /\ Len(down[c]) \in {0, 1} /\ (down[c] = <<>> <=> Len(down[c]) = 0)
        /\ up[c] = <<>> \/ down[c] = <<>>
    BY Lines DEF Inv, Turns, Wire
  <2>4. a \in {0, 1} /\ b \in {0, 1} /\ (a = 0 \/ b = 0)
    BY <2>0
  <2>1. Len(up[c]) + Len(down[c]) <= 1
    <3>1. a + b <= 1
      <4> HIDE DEF a, b
      <4> QED BY <2>4
    <3> QED BY <3>1
  <2>2. ASSUME Up, ClientOpen(c)
        PROVE  /\ (Serving(c) /\ server = "read" /\ client[c] = "read") =>
                    Len(up[c]) + Len(down[c]) = 1
               /\ ~Serving(c) /\ ~Queued(c) => down[c] = <<"exit">>
    <3>1. Turn(c) /\ (Serving(c) => ~Queued(c))
      BY <2>2 DEF Inv, Turns, Queue, Serving
    <3>2. ASSUME Serving(c), server = "read", client[c] = "read"
          PROVE  Len(up[c]) + Len(down[c]) = 1
      <4>1. a # 0 \/ b # 0
        BY <2>0, <3>1, <3>2, Lines DEF Turn
      <4>2. a + b = 1
        <5> HIDE DEF a, b
        <5> QED BY <4>1, <2>4
      <4> QED BY <4>2
    <3>3. ~Serving(c) /\ ~Queued(c) => down[c] = <<"exit">>
      BY <3>1 DEF Turn
    <3> QED BY <3>2, <3>3
  <2> QED BY <2>1, <2>2
<1> QED BY Invariance, <1>1, PTL

(* For any number of clients, a server that crashes has met a client that  *)
(* left without "exit", a failed first accept, or its last descriptor.     *)
THEOREM OnlyRudeness == Spec => []PoliteClientsAreHarmless
<1>1. Inv => PoliteClientsAreHarmless
  BY DEF Inv
<1> QED BY Invariance, <1>1, PTL

(* What is left of a conversation after "exit": a client with a line to    *)
(* read is reading, whether or not the server is still there.              *)
Listening == \A c \in Client : (ClientOpen(c) /\ down[c] # <<>>) => client[c] = "read"

(* An "exit" is never lost, overtaken or followed by another line: sent to *)
(* a client, it stays until that client reads it and leaves; at the server *)
(* it stays until the server reads it and goes back to accept.             *)
ExitStands ==
  \A c \in Client :
    /\ down[c] = <<"exit">> => down'[c] = <<"exit">> \/ client'[c] = "gone"
    /\ (server = "read" /\ cur = c /\ up[c] = <<"exit">>) =>
         \/ server' = "read" /\ cur' = c /\ up'[c] = <<"exit">>
         \/ server' \in {"accept", "stopped"}

LEMMA ListeningKept == Inv /\ Listening /\ [Next]_vars => Listening'
<1> SUFFICES ASSUME Inv, Listening, [Next]_vars, NEW c \in Client,
                    ClientOpen(c)', down'[c] # <<>>
             PROVE  client'[c] = "read"
  BY DEF Listening
<1> USE Lines DEF Inv
<1>1. TypeOK /\ (Up /\ ClientOpen(c) => Turn(c)) /\ (client[c] = "new" => down[c] = <<>>)
  BY DEF Turns
<1>2. CASE UNCHANGED <<client, down>>
  BY <1>2 DEF Listening, ClientOpen
<1>3. CASE ServerSends
  <2>1. PICK m \in Text : IF ClientOpen(cur)
                          THEN down' = [down EXCEPT ![cur] = Append(@, m)] /\ UNCHANGED reset
                          ELSE reset' = reset \cup {cur} /\ UNCHANGED down
    BY <1>3, Zenon DEF ServerSends
  <2>2. server = "prompt" /\ UNCHANGED client /\ cur \in Client /\ ~Queued(cur)
    BY <1>3 DEF ServerSends, Queue
  <2>3. CASE c = cur
    BY <1>1, <2>2, <2>3 DEF Turn, Up, Serving, ClientOpen
  <2>4. CASE c # cur
    BY <1>1, <2>1, <2>2, <2>4 DEF Listening, ClientOpen, TypeOK
  <2> QED BY <2>3, <2>4
<1>4. ASSUME NEW d \in Client,
             Connect(d) \/ ConnectRefused(d) \/ ClientStep(d) \/ Interrupt(d)
      PROVE  client'[c] = "read"
  <2>1. CASE c # d
    <3>1. client'[c] = client[c] /\ down'[c] = down[c]
      BY <1>1, <1>4, <2>1 DEF Connect, ConnectRefused, ClientStep, ClientSends, ClientReads,
         ClientReadsEnd, ClientMeetsReset, Interrupt, Leave, sides, TypeOK
    <3> QED BY <3>1 DEF Listening, ClientOpen
  <2>2. CASE c = d /\ (ConnectRefused(c) \/ ClientMeetsReset(c) \/ Interrupt(c))
    <3>1. client'[c] = "gone"
      BY <1>1, <2>2 DEF ConnectRefused, ClientMeetsReset, Interrupt, Leave, TypeOK
    <3> QED BY <3>1 DEF ClientOpen
  <2>3. CASE c = d /\ ClientSends(c)
    <3>1. client'[c] \in {"gone", "read"}
      BY <1>1, <2>3 DEF ClientSends, Leave, TypeOK
    <3> QED BY <3>1 DEF ClientOpen
  <2>4. CASE c = d /\ ClientReads(c)
    <3>1. down[c] \in Wire /\ down'[c] = Tail(down[c]) /\ down[c] # <<>>
      BY <1>1, <2>4 DEF ClientReads, TypeOK, Turns
    <3>2. down'[c] = <<>>
      BY <3>1 DEF Wire
    <3> QED BY <3>2
  <2>5. CASE c = d /\ (Connect(c) \/ ClientReadsEnd(c))
    BY <1>1, <2>5 DEF Connect, ClientReadsEnd, sides
  <2> QED BY <1>4, <2>1, <2>2, <2>3, <2>4, <2>5 DEF ClientStep
<1> QED BY <1>2, <1>3, <1>4
        DEF Next, ServerStep, vars, Listen, StopServer, ServerEnds, Accept, AcceptFails,
            ServerReads, ServerReadsEnd, ServerMeetsReset, sides

LEMMA ExitStep == Inv /\ [Next]_vars => ExitStands
<1> SUFFICES ASSUME Inv, [Next]_vars, NEW c \in Client
             PROVE  /\ down[c] = <<"exit">> => down'[c] = <<"exit">> \/ client'[c] = "gone"
                    /\ (server = "read" /\ cur = c /\ up[c] = <<"exit">>) =>
                         \/ server' = "read" /\ cur' = c /\ up'[c] = <<"exit">>
                         \/ server' \in {"accept", "stopped"}
  BY DEF ExitStands
<1> USE Lines DEF Inv
<1>1. ASSUME down[c] = <<"exit">>
      PROVE  down'[c] = <<"exit">> \/ client'[c] = "gone"
  <2>1. CASE UNCHANGED down
    BY <1>1, <2>1
  <2>2. CASE ServerSends
    <3>1. PICK m \in Text : IF ClientOpen(cur)
                            THEN down' = [down EXCEPT ![cur] = Append(@, m)] /\ UNCHANGED reset
                            ELSE reset' = reset \cup {cur} /\ UNCHANGED down
      BY <2>2, Zenon DEF ServerSends
    <3>2. server = "prompt" /\ cur \in Client /\ ~Queued(cur)
      BY <2>2 DEF ServerSends, Queue
    <3>3. c = cur => ~ClientOpen(cur)
      BY <1>1, <3>2 DEF Turns, Turn, Up, Serving
    <3> QED BY <1>1, <3>1, <3>3 DEF TypeOK
  <2>3. ASSUME NEW d \in Client, ClientReads(d)
        PROVE  down'[c] = <<"exit">> \/ client'[c] = "gone"
    BY <1>1, <2>3 DEF ClientReads, TypeOK
  <2> QED BY <2>1, <2>2, <2>3
          DEF Next, ServerStep, vars, Listen, StopServer, ServerEnds, Accept, AcceptFails,
              ServerReads, ServerReadsEnd, ServerMeetsReset, sides, ClientStep, Connect,
              ConnectRefused, ClientSends, ClientReadsEnd, ClientMeetsReset, Interrupt
<1>2. ASSUME server = "read", cur = c, up[c] = <<"exit">>
      PROVE  \/ server' = "read" /\ cur' = c /\ up'[c] = <<"exit">>
             \/ server' \in {"accept", "stopped"}
  <2>1. CASE UNCHANGED vars
    BY <1>2, <2>1 DEF vars
  <2>2. CASE Listen \/ ServerStep \/ StopServer
    BY <1>2, <2>2 DEF Listen, ServerStep, StopServer, ServerEnds, Accept, AcceptFails,
       ServerReads, ServerReadsEnd, ServerMeetsReset, ServerSends
  <2>3. ASSUME NEW d \in Client,
               Connect(d) \/ ConnectRefused(d) \/ ClientStep(d) \/ Interrupt(d)
        PROVE  server' = "read" /\ cur' = c /\ up'[c] = <<"exit">>
    <3>1. ~ClientOpen(c)
      BY <1>2 DEF Turns, Turn, Queue, Serving, Up
    <3>2. c = d => ~ClientSends(d)
      BY <3>1 DEF ClientSends, ClientOpen
    <3> QED BY <1>2, <2>3, <3>2
            DEF Connect, ConnectRefused, ClientStep, ClientSends, ClientReads, ClientReadsEnd,
                ClientMeetsReset, Interrupt, sides, TypeOK
  <2> QED BY <2>1, <2>2, <2>3 DEF Next
<1> QED BY <1>1, <1>2

(* What ends a conversation (ExitEndsConversation) once the processes run: *)
(* for any number of clients, an "exit" once sent stands until it is read  *)
(* or its reader has gone, and a client that has it to read is reading it, *)
(* even when the server has stopped, crashed or moved on meanwhile.        *)
THEOREM ExitIsHeard == Spec => []Listening /\ [][ExitStands]_vars
<1>1. Init => Listening
  BY DEF Init, Listening, ClientOpen
<1>2. Inv /\ [Next]_vars => [ExitStands]_vars
  BY ExitStep
<1> QED BY Invariance, ListeningKept, <1>1, <1>2, PTL DEF Spec

-----------------------------------------------------------------------------
(* StreamChat implements Conversations. *)

LEMMA Speaker ==
  ASSUME NEW c \in Client, NEW f,
         \A d \in Client \ {c} : Floor'[d] = Floor[d], Floor'[c] = f
  PROVE  Floor' = [Floor EXCEPT ![c] = f] /\ (f = Floor[c] => Floor' = Floor)
BY DEF Floor

(* Nobody's turn changes while nobody speaks, comes or leaves.             *)
LEMMA FloorStays == ASSUME Up' <=> Up, UNCHANGED <<client, down>> PROVE Floor' = Floor
BY DEF Floor

LEMMA OthersStay ==
  ASSUME Up' <=> Up, NEW c \in Client,
         \A d \in Client \ {c} : client'[d] = client[d] /\ down'[d] = down[d]
  PROVE  \A d \in Client \ {c} : Floor'[d] = Floor[d]
BY DEF Floor

LEMMA TalkStart == Init => Talk!CInit
BY DEF Init, Talk!CInit, Floor, Partner, Up, Nobody

(* When the server ends.                                                   *)
LEMMA TalkCloses ==
  ASSUME Inv, Up, ~Up', UNCHANGED <<client, down>>
  PROVE  Talk!CNext
<1>1. Partner' = "nobody"
  BY DEF Partner, Up, Nobody
<1>2. Floor' = [c \in Client |-> IF Floor[c] = "away" THEN "away" ELSE "over"]
  <2>1. ASSUME NEW c \in Client
        PROVE  Floor'[c] = IF Floor[c] = "away" THEN "away" ELSE "over"
    BY DEF Floor
  <2> QED BY <2>1 DEF Floor
<1> QED BY <1>1, <1>2 DEF Talk!CNext, Talk!Close

LEMMA TalkListens == Inv /\ Listen => UNCHANGED <<Floor, Partner>>
<1> SUFFICES ASSUME Inv, Listen PROVE UNCHANGED <<Floor, Partner>>
  OBVIOUS
<1>1. /\ server = "off" /\ server' \in {"accept", "stopped"} /\ UNCHANGED <<cur, client, down>>
      /\ \A c \in Client : client[c] \in {"new", "gone"}
  BY DEF Listen, sides, Inv, TypeOK, Queue, ClientPlace, ClientOpen
<1>2. ASSUME NEW c \in Client PROVE Floor'[c] = Floor[c]
  BY <1>1 DEF Floor
<1>3. Floor' = Floor
  BY <1>2 DEF Floor
<1> QED BY <1>1, <1>3 DEF Partner

LEMMA TalkAccepts == Inv /\ Accept => Talk!CNext
<1> SUFFICES ASSUME Inv, Accept PROVE Talk!CNext
  OBVIOUS
<1> DEFINE h == Head(queue)
<1>1. /\ h \in Client /\ client[h] # "new"
  BY QueueTail DEF Accept, Inv, Queue
<1>2. /\ server = "accept" /\ server' = "read" /\ cur' = h /\ UNCHANGED <<client, down>>
  BY DEF Accept, sides
<1> HIDE DEF h
<1>3. Floor' = Floor
  BY <1>2, FloorStays DEF Up
<1>4. Partner = "nobody" /\ Partner' = h /\ Floor[h] # "away"
  BY <1>1, <1>2 DEF Partner, Nobody, Floor
<1> QED BY <1>1, <1>3, <1>4 DEF Talk!CNext, Talk!Meet

LEMMA TalkReads ==
  Inv /\ (ServerReads \/ ServerReadsEnd) => Talk!CNext \/ UNCHANGED <<Floor, Partner>>
<1> SUFFICES ASSUME Inv, ServerReads \/ ServerReadsEnd
             PROVE  Talk!CNext \/ UNCHANGED <<Floor, Partner>>
  OBVIOUS
<1>1. /\ cur \in Client /\ server = "read" /\ Serving(cur) /\ UNCHANGED <<cur, client, down>>
      /\ server' = "prompt" \/ (server' = "accept" /\ up[cur] = <<"exit">>)
  BY Lines DEF ServerReads, ServerReadsEnd, sides, Inv, Queue, Turns, Wire, Serving
<1>2. Floor' = Floor /\ Partner = cur
  BY <1>1, FloorStays DEF Up, Partner
<1>3. CASE server' = "prompt"
  BY <1>1, <1>2, <1>3 DEF Partner
<1>4. CASE server' = "accept" /\ up[cur] = <<"exit">>
  <2>1. ~ClientOpen(cur) /\ client[cur] # "new"
    BY <1>1, <1>4, Lines DEF Inv, Turns, Turn, Queue, Up
  <2>2. Floor[cur] = "over"
    BY <1>1, <2>1 DEF Floor, Inv, TypeOK, ClientPlace, ClientOpen
  <2>3. Partner' = "nobody"
    BY <1>4 DEF Partner, Nobody
  <2> QED BY <1>1, <1>2, <2>2, <2>3 DEF Talk!CNext, Talk!Part
<1> QED BY <1>1, <1>3, <1>4

LEMMA TalkSends == Inv /\ ServerSends => Talk!CNext \/ UNCHANGED <<Floor, Partner>>
<1> SUFFICES ASSUME Inv, ServerSends PROVE Talk!CNext \/ UNCHANGED <<Floor, Partner>>
  OBVIOUS
<1>1. PICK m \in Text :
        /\ IF ClientOpen(cur)
           THEN down' = [down EXCEPT ![cur] = Append(@, m)] /\ UNCHANGED reset
           ELSE reset' = reset \cup {cur} /\ UNCHANGED down
        /\ server' = IF m = "exit" THEN "accept" ELSE "read"
  BY Zenon DEF ServerSends
<1>2. /\ cur \in Client /\ server = "prompt" /\ Serving(cur) /\ client[cur] # "new"
      /\ UNCHANGED <<cur, client>> /\ Partner = cur /\ ~Queued(cur)
  BY DEF ServerSends, Inv, Queue, Serving, Partner
<1>3. /\ Up /\ (Up' <=> Up)
      /\ m = "exit" => Partner' = "nobody"
      /\ m # "exit" => Partner' = cur /\ m = "text"
  BY <1>1, <1>2 DEF Up, Partner, Nobody, Text
<1>4. CASE ClientOpen(cur)
  <2>1. /\ client[cur] = "read" /\ down[cur] = <<>> /\ down' = [down EXCEPT ![cur] = <<m>>]
    BY <1>1, <1>2, <1>3, <1>4, Lines DEF Inv, Turns, Turn
  <2>2. down'[cur] = <<m>> /\ \A d \in Client \ {cur} : down'[d] = down[d]
    BY <1>2, <2>1 DEF Inv, TypeOK
  <2>3. /\ Floor[cur] = "server"
        /\ Floor'[cur] = IF m = "exit" THEN "over" ELSE "client"
    BY <1>2, <1>3, <2>1, <2>2, Lines DEF Floor
  <2>4. Floor' = [Floor EXCEPT ![cur] = IF m = "exit" THEN "over" ELSE "client"]
    BY <1>2, <1>3, <2>2, <2>3, OthersStay, Speaker
  <2>5. CASE m = "exit"
    BY <1>2, <1>3, <2>3, <2>4, <2>5 DEF Talk!CNext, Talk!Dismiss
  <2>6. CASE m # "exit"
    BY <1>2, <1>3, <2>3, <2>4, <2>6 DEF Talk!CNext, Talk!Answer
  <2> QED BY <2>5, <2>6
<1>5. CASE ~ClientOpen(cur)
  <2>1. Floor' = Floor
    BY <1>1, <1>2, <1>3, <1>5, FloorStays
  <2>2. Floor[cur] = "over"
    BY <1>2, <1>5 DEF Floor, Inv, TypeOK, ClientPlace, ClientOpen
  <2> QED BY <1>2, <1>3, <2>1, <2>2 DEF Talk!CNext, Talk!Part
<1> QED BY <1>4, <1>5

(* A client's step that ends its part of the conversation or leaves it.    *)
LEMMA TalkQuits ==
  ASSUME NEW c \in Client, Floor' = [Floor EXCEPT ![c] = "over"], UNCHANGED Partner
  PROVE  Talk!CNext \/ UNCHANGED <<Floor, Partner>>
<1>1. CASE Floor[c] = "over"
  BY <1>1 DEF Floor
<1>2. CASE Floor[c] # "over"
  BY <1>2 DEF Talk!CNext, Talk!Quit
<1> QED BY <1>1, <1>2

LEMMA TalkClient ==
  ASSUME Inv, NEW c \in Client,
         Connect(c) \/ ConnectRefused(c) \/ ClientStep(c) \/ Interrupt(c)
  PROVE  Talk!CNext \/ UNCHANGED <<Floor, Partner>>
<1> USE Lines
<1>1. Partner' = Partner /\ (Up' <=> Up)
  BY DEF Connect, ConnectRefused, ClientStep, ClientSends, ClientReads, ClientReadsEnd,
     ClientMeetsReset, Interrupt, sides, Partner, Up
<1>2. TypeOK
  BY DEF Inv
<1>3. CASE Connect(c)
  <2>1. /\ Up /\ client[c] = "new" /\ client' = [client EXCEPT ![c] = "prompt"] /\ UNCHANGED down
    BY <1>3 DEF Connect, sides
  <2>2. client'[c] = "prompt" /\ \A d \in Client \ {c} : client'[d] = client[d]
    BY <1>2, <2>1 DEF TypeOK
  <2>3. down[c] = <<>>
    BY <2>1 DEF Inv, Turns
  <2>4. Floor[c] = "away" /\ Floor'[c] = "client"
    BY <1>1, <2>1, <2>2, <2>3 DEF Floor
  <2>5. Floor' = [Floor EXCEPT ![c] = "client"]
    BY <1>1, <2>1, <2>2, <2>4, OthersStay, Speaker
  <2> QED BY <1>1, <2>4, <2>5 DEF Talk!CNext, Talk!Join
<1>4. CASE ConnectRefused(c) \/ ClientMeetsReset(c) \/ Interrupt(c)
  <2>1. client' = [client EXCEPT ![c] = "gone"] /\ UNCHANGED down
    BY <1>4 DEF ConnectRefused, ClientMeetsReset, Interrupt, Leave, sides
  <2>2. client'[c] = "gone" /\ \A d \in Client \ {c} : client'[d] = client[d]
    BY <1>2, <2>1 DEF TypeOK
  <2>3. Floor'[c] = "over"
    BY <2>2 DEF Floor
  <2>4. Floor' = [Floor EXCEPT ![c] = "over"]
    BY <1>1, <2>1, <2>2, <2>3, OthersStay, Speaker
  <2> QED BY <1>1, <2>4, TalkQuits
<1>5. CASE ClientSends(c)
  <2>1. PICK m \in Text : IF m = "exit" THEN Leave(c)
                          ELSE client' = [client EXCEPT ![c] = "read"] /\ UNCHANGED reset
    BY <1>5, Zenon DEF ClientSends
  <2>2. client[c] = "prompt" /\ UNCHANGED down
    BY <1>5 DEF ClientSends
  <2>3. client' = [client EXCEPT ![c] = IF m = "exit" THEN "gone" ELSE "read"]
    BY <2>1 DEF Leave
  <2>4. /\ client'[c] = IF m = "exit" THEN "gone" ELSE "read"
        /\ \A d \in Client \ {c} : client'[d] = client[d]
    BY <1>2, <2>3 DEF TypeOK
  <2>5. \A d \in Client \ {c} : Floor'[d] = Floor[d]
    BY <1>1, <2>2, <2>4, OthersStay
  <2>6. CASE ~Up \/ m = "exit"
    <3>1. Floor'[c] = "over"
      BY <1>1, <2>4, <2>6 DEF Floor
    <3> QED BY <1>1, <2>5, <3>1, Speaker, TalkQuits
  <2>7. CASE Up /\ m # "exit"
    <3>1. down[c] = <<>>
      BY <2>2, <2>7 DEF Inv, Turns, Turn, ClientOpen
    <3>2. Floor[c] = "client" /\ Floor'[c] = "server"
      BY <1>1, <2>2, <2>4, <2>7, <3>1 DEF Floor
    <3>3. Floor' = [Floor EXCEPT ![c] = "server"]
      BY <2>5, <3>2, Speaker
    <3> QED BY <1>1, <3>2, <3>3 DEF Talk!CNext, Talk!Speak
  <2> QED BY <2>6, <2>7
<1>6. CASE ClientReads(c)
  <2>1. /\ client[c] = "read" /\ down' = [down EXCEPT ![c] = <<>>]
        /\ \/ down[c] = <<"exit">> /\ client' = [client EXCEPT ![c] = "gone"]
           \/ down[c] = <<"text">> /\ client' = [client EXCEPT ![c] = "prompt"]
    BY <1>6 DEF ClientReads, Inv, Turns, Wire
  <2>2. /\ down'[c] = <<>> /\ \A d \in Client \ {c} : client'[d] = client[d] /\ down'[d] = down[d]
        /\ \/ down[c] = <<"exit">> /\ client'[c] = "gone"
           \/ down[c] = <<"text">> /\ client'[c] = "prompt"
    BY <1>2, <2>1 DEF TypeOK
  <2>3. Floor'[c] = Floor[c]
    BY <1>1, <2>1, <2>2 DEF Floor
  <2>4. Floor' = Floor
    BY <1>1, <2>2, <2>3, OthersStay, Speaker
  <2> QED BY <1>1, <2>4
<1>7. CASE ClientReadsEnd(c)
  <2>1. ~Up /\ client[c] = "read" /\ client' = [client EXCEPT ![c] = "prompt"] /\ UNCHANGED down
    BY <1>7 DEF ClientReadsEnd, sides
  <2>2. client'[c] = "prompt" /\ \A d \in Client \ {c} : client'[d] = client[d]
    BY <1>2, <2>1 DEF TypeOK
  <2>3. Floor'[c] = Floor[c]
    BY <1>1, <2>1, <2>2 DEF Floor
  <2>4. Floor' = Floor
    BY <1>1, <2>1, <2>2, <2>3, OthersStay, Speaker
  <2> QED BY <1>1, <2>4
<1> QED BY <1>3, <1>4, <1>5, <1>6, <1>7 DEF ClientStep

LEMMA TalkStep == Inv /\ [Next]_vars => [Talk!CNext]_(Talk!conversation)
<1> SUFFICES ASSUME Inv, [Next]_vars PROVE Talk!CNext \/ UNCHANGED <<Floor, Partner>>
  BY DEF Talk!conversation
<1>1. CASE UNCHANGED vars
  <2>1. UNCHANGED <<server, cur, client, down>>
    BY <1>1 DEF vars
  <2>2. (Up' <=> Up) /\ Partner' = Partner
    BY <2>1 DEF Up, Partner
  <2> QED BY <2>1, <2>2, FloorStays
<1>2. CASE StopServer \/ AcceptFails \/ ServerMeetsReset
  <2>1. Up /\ ~Up' /\ UNCHANGED <<client, down>>
    BY <1>2 DEF StopServer, AcceptFails, ServerMeetsReset, ServerEnds, Up
  <2> QED BY <2>1, TalkCloses
<1> QED BY <1>1, <1>2, TalkListens, TalkAccepts, TalkReads, TalkSends, TalkClient
        DEF Next, ServerStep

(* The TCP chat implements Conversations, for any number of clients, any   *)
(* backlog and any limit of descriptors: one answer to each line, and the  *)
(* server turns to the next client only when a conversation is over.       *)
THEOREM ConversationsImplemented == Spec => SpokenInTurn
BY TalkStart, TalkStep, Invariance, PTL DEF Spec, SpokenInTurn, Talk!CSpec
=============================================================================
