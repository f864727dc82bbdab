-------------------------- MODULE ParentChildRelay --------------------------
(***************************************************************************)
(* 8-Pipeline_FIFO/8.1-Pipeline and 8.2-FIFO: a parent asks for lines and  *)
(* sends each as one BUF_SIZE frame to the child it forked, over a pipe or *)
(* over the named FIFO ./fifo_file; the child prints every frame it reads. *)
(* A SIGINT handler ends either process, a SIGCHLD handler, installed by   *)
(* the parent after the fork, waits for the child and exits.               *)
(*                                                                         *)
(* Both ends read and write BUF_SIZE bytes and such writes are atomic, so  *)
(* the channel holds whole frames, numbered as they are written.  The      *)
(* kernel's side is external: FIFO opens that wait for the other end, EOF, *)
(* SIGPIPE, SIGCHLD when a child ends, stops or continues.                 *)
(***************************************************************************)
EXTENDS Naturals, Sequences

CONSTANTS MaxFrames,  \* lines the user types
          Cap         \* frames the channel holds

ASSUME RelayAssumption == MaxFrames \in Nat \ {0} /\ Cap \in Nat \ {0}

VARIABLES
  transport, \* "pipe" (8.1) or "fifo" (8.2)
  path,      \* ./fifo_file exists
  parent,    \* where the parent is
  armed,     \* the parent has installed wait_child
  wfd,       \* the parent has the write end open, or is opening it
  chld,      \* SIGCHLD is pending for the parent
  child,     \* where the child is
  stopped,   \* the child is stopped by a signal
  msg,       \* the child's buffer: a frame's number, 0 uninitialised
  pipe,      \* the frames in the channel
  sent, shown,      \* History: frames written, number printed last,
  stoppedOnce,      \*   and the child has been stopped at some time
  early             \*   it ended before the parent had installed wait_child

vars == <<transport, path, parent, armed, wfd, chld, child, stopped, msg,
          pipe, sent, shown, stoppedOnce, early>>

ParentPlace == {"make", "fork", "install", "open", "opening", "ask", "write",
                "handler", "dead"}
ChildPlace == {"none", "open", "opening", "read", "print", "zombie", "gone"}

Alive == child \notin {"none", "zombie", "gone"}
ReaderOpen == child \in {"opening", "read", "print"}

Init ==
  /\ transport \in {"pipe", "fifo"}
  /\ path \in BOOLEAN        \* left by an earlier run
  /\ parent = "make" /\ child = "none"
  /\ armed = FALSE /\ wfd = FALSE /\ chld = FALSE /\ stopped = FALSE
  /\ msg = 0 /\ pipe = <<>> /\ sent = 0 /\ shown = 0
  /\ stoppedOnce = FALSE /\ early = FALSE

-----------------------------------------------------------------------------
(* The parent. *)

(* SIGCHLD is dropped when there is no handler for it. *)
TellParent == chld' = (chld \/ (armed /\ parent # "dead"))

(* The kernel's share of an exit: init reaps the child of a dead parent,   *)
(* and an unread FIFO nobody holds is emptied.                             *)
ParentEnds ==
  /\ parent' = "dead" /\ wfd' = FALSE /\ chld' = FALSE
  /\ child' = IF child = "zombie" THEN "gone" ELSE child
  /\ pipe' = IF ReaderOpen THEN pipe ELSE <<>>
  /\ UNCHANGED <<transport, armed, stopped, msg, sent, shown, stoppedOnce, early>>

(* pipe(), or mkfifo() whose failure on an existing FIFO is only reported. *)
MakeChannel ==
  /\ parent = "make" /\ parent' = "fork"
  /\ path' = (path \/ transport = "fifo")
  /\ UNCHANGED <<transport, armed, wfd, chld, child, stopped, msg, pipe,
                 sent, shown, stoppedOnce, early>>

(* fork(); over a pipe each side then closes the end it does not use. *)
Fork ==
  /\ parent = "fork" /\ parent' = "install"
  /\ child' = IF transport = "pipe" THEN "read" ELSE "open"
  /\ wfd' = (transport = "pipe")
  /\ UNCHANGED <<transport, path, armed, chld, stopped, msg, pipe, sent,
                 shown, stoppedOnce, early>>

ForkFails == parent = "fork" /\ ParentEnds /\ UNCHANGED path

(* signal(SIGCHLD, wait_child); 8.1 repeats it every round. *)
InstallHandler ==
  /\ parent = "install" /\ armed' = TRUE
  /\ parent' = IF transport = "pipe" THEN "ask" ELSE "open"
  /\ UNCHANGED <<transport, path, wfd, chld, child, stopped, msg, pipe, sent,
                 shown, stoppedOnce, early>>

(* open(O_WRONLY) of the FIFO; a failure shows only after the next prompt. *)
ParentOpens ==
  /\ parent = "open"
  /\ wfd' = path
  /\ parent' = IF ~path \/ ReaderOpen THEN "ask" ELSE "opening"
  /\ child' = IF path /\ child = "opening" THEN "read" ELSE child
  /\ UNCHANGED <<transport, path, armed, chld, stopped, msg, pipe, sent,
                 shown, stoppedOnce, early>>

AskUser ==
  /\ parent = "ask" /\ sent < MaxFrames /\ parent' = "write"
  /\ UNCHANGED <<transport, path, armed, wfd, chld, child, stopped, msg, pipe,
                 sent, shown, stoppedOnce, early>>

(* Wrong: a full channel is not waited for and the frame is dropped. *)
WriteNoWait ==
  /\ parent = "write" /\ wfd /\ ReaderOpen
  /\ pipe' = IF Len(pipe) < Cap THEN Append(pipe, sent + 1) ELSE pipe
  /\ sent' = sent + 1 /\ parent' = "ask"
  /\ UNCHANGED <<transport, path, armed, wfd, chld, child, stopped, msg,
                 shown, stoppedOnce, early>>

(* write(fd, msg, BUF_SIZE) waits for room. *)
Write ==
  /\ parent = "write" /\ wfd /\ ReaderOpen /\ Len(pipe) < Cap
  /\ pipe' = Append(pipe, sent + 1)
  /\ sent' = sent + 1 /\ parent' = "ask"
  /\ UNCHANGED <<transport, path, armed, wfd, chld, child, stopped, msg,
                 shown, stoppedOnce, early>>

(* handle_error("open()") for fd = -1, or SIGPIPE without a reader. *)
WriteFails ==
  /\ parent = "write" /\ (~wfd \/ ~ReaderOpen)
  /\ ParentEnds /\ UNCHANGED path

(* wait_child interrupts the parent anywhere, a waiting open() too. *)
EnterHandler ==
  /\ chld /\ parent \notin {"handler", "dead"}
  /\ parent' = "handler" /\ chld' = FALSE
  /\ wfd' = (wfd /\ parent # "opening")
  /\ UNCHANGED <<transport, path, armed, child, stopped, msg, pipe, sent,
                 shown, stoppedOnce, early>>

(* Wrong: the handler reaps the child and returns to the prompt. *)
ReapAndReturn ==
  /\ parent = "handler" /\ child = "zombie"
  /\ parent' = "ask" /\ child' = "gone"
  /\ UNCHANGED <<transport, path, armed, wfd, chld, stopped, msg, pipe, sent,
                 shown, stoppedOnce, early>>

(* wait(NULL) returns once the child has ended; then exit. *)
ReapAndExit ==
  /\ parent = "handler" /\ child = "zombie"
  /\ ParentEnds /\ UNCHANGED path

(* Wrong: wait_child is the handler of SIGINT too. *)
InterruptWaits ==
  /\ parent # "dead" /\ parent' = "handler"
  /\ UNCHANGED <<transport, path, armed, wfd, chld, child, stopped, msg, pipe,
                 sent, shown, stoppedOnce, early>>

(* SIGINT: sig_handler1 unlinks the FIFO (8.2) and exits. *)
InterruptParent ==
  /\ parent # "dead" /\ ParentEnds
  /\ path' = (path /\ transport = "pipe")

KillParent == parent # "dead" /\ ParentEnds /\ UNCHANGED path

-----------------------------------------------------------------------------
(* The child. *)

ChildEnds ==
  /\ child' = IF parent = "dead" THEN "gone" ELSE "zombie"
  /\ stopped' = FALSE
  /\ pipe' = IF wfd THEN pipe ELSE <<>>
  /\ TellParent
  /\ early' = (parent = "install")
  /\ UNCHANGED <<transport, parent, armed, wfd, msg, sent, shown, stoppedOnce>>

ChildOpens ==
  /\ child = "open" /\ ~stopped /\ path
  /\ child' = IF wfd THEN "read" ELSE "opening"
  /\ parent' = IF parent = "opening" THEN "ask" ELSE parent
  /\ UNCHANGED <<transport, path, armed, wfd, chld, stopped, msg, pipe, sent,
                 shown, stoppedOnce, early>>

OpenFails ==
  /\ child = "open" /\ ~stopped /\ ~path
  /\ ChildEnds /\ UNCHANGED path

(* Wrong: with O_NONBLOCK, and a result of -1 not looked at. *)
ReadUnchecked ==
  /\ child = "read" /\ ~stopped
  /\ IF pipe = <<>> THEN UNCHANGED <<msg, pipe>>
                    ELSE msg' = Head(pipe) /\ pipe' = Tail(pipe)
  /\ child' = "print"
  /\ UNCHANGED <<transport, path, parent, armed, wfd, chld, stopped, sent,
                 shown, stoppedOnce, early>>

Read ==
  /\ child = "read" /\ ~stopped /\ pipe # <<>>
  /\ msg' = Head(pipe) /\ pipe' = Tail(pipe)
  /\ child' = "print"
  /\ UNCHANGED <<transport, path, parent, armed, wfd, chld, stopped, sent,
                 shown, stoppedOnce, early>>

(* read returns 0: not an error, the buffer is printed as it is. *)
ReadEnd ==
  /\ child = "read" /\ ~stopped /\ pipe = <<>> /\ ~wfd
  /\ child' = "print"
  /\ UNCHANGED <<transport, path, parent, armed, wfd, chld, stopped, msg, pipe,
                 sent, shown, stoppedOnce, early>>

PrintFrame ==
  /\ child = "print" /\ ~stopped
  /\ child' = "read" /\ shown' = msg
  /\ UNCHANGED <<transport, path, parent, armed, wfd, chld, stopped, msg, pipe,
                 sent, stoppedOnce, early>>

InterruptChild ==
  /\ Alive /\ ~stopped /\ ChildEnds
  /\ path' = (path /\ transport = "pipe")

KillChild == Alive /\ ChildEnds /\ UNCHANGED path

(* SIGSTOP, Ctrl-Z: the parent is told of that with SIGCHLD as well. *)
StopChild ==
  /\ Alive /\ ~stopped
  /\ stopped' = TRUE /\ stoppedOnce' = TRUE /\ TellParent
  /\ UNCHANGED <<transport, path, parent, armed, wfd, child, msg, pipe, sent,
                 shown, early>>

ContinueChild ==
  /\ Alive /\ stopped
  /\ stopped' = FALSE /\ TellParent
  /\ UNCHANGED <<transport, path, parent, armed, wfd, child, msg, pipe, sent,
                 shown, stoppedOnce, early>>

ParentStep ==
  \/ MakeChannel \/ Fork \/ ForkFails \/ InstallHandler \/ ParentOpens
  \/ AskUser \/ Write \/ WriteFails \/ EnterHandler \/ ReapAndExit
ChildStep == ChildOpens \/ OpenFails \/ Read \/ ReadEnd \/ PrintFrame
Signals ==
  \/ InterruptParent \/ KillParent
  \/ InterruptChild \/ KillChild \/ StopChild \/ ContinueChild

Next == ParentStep \/ ChildStep \/ Signals

Spec == Init /\ [][Next]_vars

(* Both processes are scheduled, a pending signal is delivered, the user   *)
(* answers; nothing is assumed of anyone sending signals.                  *)
FairSpec ==
  /\ Spec
  /\ WF_vars(ParentStep) /\ WF_vars(ChildStep)
  /\ WF_vars(EnterHandler) /\ WF_vars(ReapAndExit)

-----------------------------------------------------------------------------
(* While the parent's end is open every frame is printed once, in the      *)
(* order typed, none skipped.  When it is gone the child, which takes the  *)
(* end of the data for a frame, prints the last one again, nothing older.  *)
FramesOnceInOrder ==
  [][child = "print" /\ child' = "read" =>
       msg = shown + 1 \/ (msg = shown /\ (~wfd \/ parent = "dead"))]_vars

(* wait_child hangs in wait(NULL) only if the child was once stopped: of a *)
(* child that just runs and ends, SIGCHLD comes when wait can return.      *)
HandlerHangsOnlyAfterStop ==
  (parent = "handler" /\ child # "zombie") => stoppedOnce

(* A child that ends is reaped and takes the parent with it, wherever the  *)
(* parent is: prompting, writing, opening.  "Prevent zombie process" says  *)
(* the comment over signal(SIGCHLD); that fails in one window, a child     *)
(* that ends between fork and signal: it stays a zombie if the parent then *)
(* waits in open for a reader of the FIFO.                                 *)
ChildDeathEndsParent ==
  child = "zombie" ~>
    parent = "dead" \/ (transport = "fifo" /\ early /\ parent = "opening")

(* What is written is printed, unless the child is stopped or ends. *)
FramesArrive ==
  \A k \in 1..MaxFrames :
    sent = k ~> (shown >= k \/ stoppedOnce \/ ~Alive)
=============================================================================
