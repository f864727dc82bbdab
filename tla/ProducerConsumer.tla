-------------------------- MODULE ProducerConsumer --------------------------
(***************************************************************************)
(* 8-Pipeline_FIFO/8.3-Producer_Consumer: two programs and the named FIFO  *)
(* ./fifo_file.  For every line the user types the producer opens the      *)
(* FIFO, writes the text with its NUL and closes it; the consumer opens,   *)
(* reads up to BUF_SIZE bytes, prints the buffer as a string and closes.   *)
(* Opening, writing and closing are separate calls, so one program can be  *)
(* a round ahead of the other.                                             *)
(*                                                                         *)
(* The FIFO is the kernel's (external): opening waits until the other end  *)
(* has been opened since, a write of at most BUF_SIZE bytes is atomic and  *)
(* waits for room, a write without a reader kills the writer, a read       *)
(* returns what is there or 0 without a writer, and the bytes are dropped  *)
(* when neither end is open.                                               *)
(***************************************************************************)
EXTENDS Naturals, Sequences

CONSTANTS BufSize,   \* BUF_SIZE, the same in both programs
          MaxMsgs,   \* lines are numbered up to here; later ones share it
          PipeCap    \* bytes the FIFO holds

ASSUME ProducerConsumerAssumption ==
  /\ BufSize \in Nat /\ BufSize >= 2
  /\ MaxMsgs \in Nat \ {0}
  /\ PipeCap \in Nat /\ PipeCap >= BufSize

VARIABLES
  prod,       \* where the producer is
  line,       \* its buf: the line's number and length with the NUL
  cons,       \* where the consumer is
  buf,        \* the consumer's buf
  pipe,       \* the bytes in the FIFO
  \* History.
  shown,      \* the number of the line printed last, 0 before the first
  got,        \* this consumer has read something
  killed      \* some program has been killed from outside

fifoVars == <<prod, line, cons, buf, pipe, shown, got, killed>>

Msg == 1..MaxMsgs
(* A byte: the line it belongs to and how many follow it; 0 is the NUL. *)
Byte == [msg : Msg, left : 0..(BufSize - 1)]
Garbage == [msg |-> 0, left |-> BufSize]
(* A line read by fgets has at least its newline and the NUL; 0: none yet. *)
TypedLine == [msg : 0..MaxMsgs, len : {0} \cup 2..BufSize]
NextMsg == IF line.msg < MaxMsgs THEN line.msg + 1 ELSE MaxMsgs

ProducerPlace == {"off", "ask", "open", "opening", "write", "close"}
ConsumerPlace == {"off", "open", "opening", "read", "print", "close"}

WriterOpen == prod \in {"opening", "write", "close"}
ReaderOpen == cons \in {"opening", "read", "print", "close"}

FreshBuf == [i \in 1..BufSize |-> Garbage]

(* Wrong: strlen without the NUL. *)
BytesNoNul(l) ==
  [i \in 1..(l.len - 1) |-> [msg |-> l.msg, left |-> l.len - i]]

(* write(fd, buf, strlen(buf) + 1) *)
Bytes(l) == [i \in 1..l.len |-> [msg |-> l.msg, left |-> l.len - i]]

FifoInit ==
  /\ prod = "off" /\ line = [msg |-> 0, len |-> 0]
  /\ cons = "off" /\ buf = FreshBuf
  /\ pipe = <<>>
  /\ shown = 0 /\ got = FALSE /\ killed = FALSE

-----------------------------------------------------------------------------
(* The producer. *)

(* mkfifo: an existing FIFO is left alone. *)
StartProducer ==
  /\ prod = "off" /\ prod' = "ask" /\ line' = [line EXCEPT !.len = 0]
  /\ UNCHANGED <<cons, buf, pipe, shown, got, killed>>

(* fgets: the next line, cut at BUF_SIZE - 1 characters; at end of input   *)
(* the buffer keeps the line before (each producer is given at least one). *)
AskUser ==
  /\ prod = "ask" /\ prod' = "open"
  /\ \/ \E len \in 2..BufSize : line' = [msg |-> NextMsg, len |-> len]
     \/ line.len > 0 /\ line' = line
  /\ UNCHANGED <<cons, buf, pipe, shown, got, killed>>

(* Wrong: the reader that waits is not woken. *)
OpenWriteNoWake ==
  /\ prod = "open"
  /\ prod' = IF ReaderOpen THEN "write" ELSE "opening"
  /\ UNCHANGED <<line, cons, buf, pipe, shown, got, killed>>

(* open(O_WRONLY): releases a waiting reader, or waits for one. *)
OpenWrite ==
  /\ prod = "open"
  /\ prod' = IF ReaderOpen THEN "write" ELSE "opening"
  /\ cons' = IF cons = "opening" THEN "read" ELSE cons
  /\ UNCHANGED <<line, buf, pipe, shown, got, killed>>

WriteBytes ==
  /\ prod = "write" /\ ReaderOpen
  /\ Len(pipe) + line.len <= PipeCap
  /\ pipe' = pipe \o Bytes(line)
  /\ prod' = "close"
  /\ UNCHANGED <<line, cons, buf, shown, got, killed>>

(* SIGPIPE: the reader closed between the producer's open and its write.   *)
WriteFails ==
  /\ prod = "write" /\ ~ReaderOpen
  /\ prod' = "off" /\ pipe' = <<>>
  /\ UNCHANGED <<line, cons, buf, shown, got, killed>>

CloseWrite ==
  /\ prod = "close" /\ prod' = "ask"
  /\ pipe' = IF ReaderOpen THEN pipe ELSE <<>>
  /\ UNCHANGED <<line, cons, buf, shown, got, killed>>

KillProducer ==
  /\ prod # "off" /\ prod' = "off" /\ killed' = TRUE
  /\ pipe' = IF ReaderOpen THEN pipe ELSE <<>>
  /\ UNCHANGED <<line, cons, buf, shown, got>>

-----------------------------------------------------------------------------
(* The consumer. *)

StartConsumer ==
  /\ cons = "off" /\ cons' = "open"
  /\ buf' = FreshBuf /\ got' = FALSE
  /\ UNCHANGED <<prod, line, pipe, shown, killed>>

OpenRead ==
  /\ cons = "open"
  /\ cons' = IF WriterOpen THEN "read" ELSE "opening"
  /\ prod' = IF prod = "opening" THEN "write" ELSE prod
  /\ UNCHANGED <<line, buf, pipe, shown, got, killed>>

(* read(fd, buf, BUF_SIZE): the bytes there, those of several lines too.   *)
ReadBytes ==
  /\ cons = "read" /\ pipe # <<>>
  /\ LET n == IF Len(pipe) < BufSize THEN Len(pipe) ELSE BufSize
     IN /\ buf' = [i \in 1..BufSize |-> IF i <= n THEN pipe[i] ELSE buf[i]]
        /\ pipe' = SubSeq(pipe, n + 1, Len(pipe))
  /\ cons' = "print" /\ got' = TRUE
  /\ UNCHANGED <<prod, line, shown, killed>>

(* read returns 0 and the buffer is printed as it is. *)
ReadEnd ==
  /\ cons = "read" /\ pipe = <<>> /\ ~WriterOpen
  /\ cons' = "print"
  /\ UNCHANGED <<prod, line, buf, pipe, shown, got, killed>>

(* Wrong: all of buf is printed, also what is behind the first NUL. *)
PrintAll ==
  /\ cons = "print" /\ cons' = "close"
  /\ shown' = IF got THEN buf[BufSize].msg ELSE shown
  /\ UNCHANGED <<prod, line, buf, pipe, got, killed>>

PrintText ==
  /\ cons = "print" /\ cons' = "close"
  /\ shown' = IF got THEN buf[1].msg ELSE shown
  /\ UNCHANGED <<prod, line, buf, pipe, got, killed>>

CloseRead ==
  /\ cons = "close" /\ cons' = "open"
  /\ pipe' = IF WriterOpen THEN pipe ELSE <<>>
  /\ UNCHANGED <<prod, line, buf, shown, got, killed>>

KillConsumer ==
  /\ cons # "off" /\ cons' = "off" /\ killed' = TRUE
  /\ pipe' = IF WriterOpen THEN pipe ELSE <<>>
  /\ UNCHANGED <<prod, line, buf, shown, got>>

ProducerStep == AskUser \/ OpenWrite \/ WriteBytes \/ WriteFails \/ CloseWrite
ConsumerStep == OpenRead \/ ReadBytes \/ ReadEnd \/ PrintText \/ CloseRead

FifoNext ==
  \/ StartProducer \/ ProducerStep \/ KillProducer
  \/ StartConsumer \/ ConsumerStep \/ KillConsumer

FifoSpec == FifoInit /\ [][FifoNext]_fifoVars

(* Each program runs and the user answers every prompt; nothing is assumed *)
(* of anyone starting or killing a program.                                *)
FairFifoSpec == FifoSpec /\ WF_fifoVars(ProducerStep) /\ WF_fifoVars(ConsumerStep)

-----------------------------------------------------------------------------
(* What printf("%s", buf) prints ends inside the array and comes from one   *)
(* line, though the consumer adds no NUL, ignores read's result and may     *)
(* have read a piece of a line or several lines at once: it rests on the    *)
(* producer's strlen + 1 and on both programs having the same BUF_SIZE.     *)
(* An uninitialised buffer is printed only if a program was killed: without *)
(* that the first open returns only once a writer is there, and the first   *)
(* read waits for its bytes.                                                *)
TextIsOneLine ==
  cons = "print" =>
    IF got
      THEN \E n \in 1..BufSize :
             /\ buf[n].left = 0
             /\ \A i \in 1..n : buf[i].msg = buf[n].msg /\ buf[i].left = n - i
      ELSE killed

(* Lines may be lost (two read at once, the second hidden behind the first *)
(* NUL) and printed again (a read that returned 0), but never out of order *)
(* and never before they were typed.                                       *)
PrintedInOrder == [][shown' >= shown /\ shown' <= line.msg]_fifoVars

(* The two never wait for each other in open: while both run, something is *)
(* printed again and again, whoever was a round ahead and however full the *)
(* FIFO.                                                                   *)
KeepsPrinting == <>[](prod # "off" /\ cons # "off") => []<>(cons = "print")
=============================================================================
