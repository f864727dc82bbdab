--------------------------- MODULE Processes_proof ---------------------------
(***************************************************************************)
(* Proofs about the programs that fork: SafeForkZombie, for every number   *)
(* of forks, ParentChildRelay, for every channel and number of lines, and  *)
(* ChildProcesses, for lines of every length.                              *)
(***************************************************************************)
EXTENDS SafeForkZombie, ParentChildRelay, ChildProcesses,
        SequenceTheorems, TLAPS

-----------------------------------------------------------------------------
(* SafeForkZombie.                                                         *)


(* Every signal pending or being handled stands for a zombie of its own:   *)
(* a death adds one to each side at most, wait takes one from each.        *)
ForksInv ==
  /\ CountersOK
  /\ alive + zombies <= i
  /\ pending => zombies >= 1
  /\ place = "handler" => zombies >= 1
  /\ (pending /\ place = "handler") => zombies >= 2

(* It holds at first and every step keeps it.                              *)
LEMMA ForksInvInductive == ForksSpec => []ForksInv
<1> USE ForksAssumption DEF ForksInv, CountersOK
<1>1. ForksInit => ForksInv
  <2> SUFFICES ASSUME ForksInit PROVE ForksInv
    OBVIOUS
  <2>1. ~pending /\ pending \in BOOLEAN
    BY Zenon DEF ForksInit
  <2>2. i = 0 /\ place = "loop" /\ alive = 0 /\ zombies = 0
    BY DEF ForksInit
  <2> QED BY <2>1, <2>2
<1>2. ForksInv /\ [ForksNext]_forkVars => ForksInv'
  <2> SUFFICES ASSUME ForksInv, [ForksNext]_forkVars PROVE ForksInv'
    OBVIOUS
  <2>1. CASE ForkOne
    BY <2>1 DEF ForkOne
  <2>2. CASE ForkOneFails
    BY <2>2 DEF ForkOneFails
  <2>3. CASE ChildExits
    <3>1. pending' \in BOOLEAN /\ (pending' <=> place # "done")
      BY <2>3, Zenon DEF ChildExits
    <3> QED BY <2>3, <3>1 DEF ChildExits
  <2>4. CASE HandlerBegins
    <3>1. pending' \in BOOLEAN /\ ~pending'
      BY <2>4, Zenon DEF HandlerBegins
    <3> QED BY <2>4, <3>1 DEF HandlerBegins
  <2>5. CASE Wait
    BY <2>5 DEF Wait
  <2>6. CASE Return
    <3>1. pending' \in BOOLEAN /\ ~pending'
      BY <2>6, Zenon DEF Return
    <3> QED BY <2>6, <3>1 DEF Return
  <2>7. CASE UNCHANGED forkVars
    BY <2>7 DEF forkVars
  <2> QED BY <2>1, <2>2, <2>3, <2>4, <2>5, <2>6, <2>7 DEF ForksNext, MainStep
<1> QED BY <1>1, <1>2, PTL DEF ForksSpec

(* The counters stay in range: no child is reaped twice or left uncounted. *)
THEOREM CountersInRange == ForksSpec => []CountersOK
<1>1. ForksInv => CountersOK
  BY DEF ForksInv
<1> QED BY ForksInvInductive, <1>1, PTL

(* One wait per SIGCHLD never blocks the parent in its handler, for any    *)
(* number of children and however their deaths and signals interleave.     *)
THEOREM HandlerNeverBlocks == ForksSpec => []WaitNeverBlocks
<1>1. ForksInv => WaitNeverBlocks
  BY DEF ForksInv, CountersOK, WaitNeverBlocks
<1> QED BY ForksInvInductive, <1>1, PTL

(* What is left to do at most: a fork brings a child, its end a signal,    *)
(* the signal a handler, and main returns once.                            *)
StepsLeft ==
  4 * (Forks - i) + 3 * alive + (IF pending THEN 2 ELSE 0)
  + (IF place = "handler" THEN 1 ELSE 0) + (IF place = "done" THEN 0 ELSE 1)

(* Every step uses up some of what is left, those of the handlers too, so  *)
(* that a run has 4 * Forks + 1 steps at most.                             *)
LEMMA ForksUseSteps ==
  ASSUME ForksInv, ForksNext
  PROVE  StepsLeft' < StepsLeft
<1> USE ForksAssumption DEF ForksInv, CountersOK
<1> DEFINE told == IF pending THEN 2 ELSE 0
           told2 == IF pending' THEN 2 ELSE 0
<1>1. told \in {0, 2} /\ told2 \in {0, 2}
  BY Zenon
<1>2. /\ UNCHANGED pending => told2 = told
      /\ pending => told = 2
      /\ ~pending' => told2 = 0
  <2>1. UNCHANGED pending => told2 = told
    BY SMT
  <2>2. pending => told = 2
    BY Zenon
  <2>3. ~pending' => told2 = 0
    BY Zenon
  <2> QED BY <2>1, <2>2, <2>3
<1> HIDE DEF told, told2
<1>3. /\ StepsLeft = 4 * (Forks - i) + 3 * alive + told
         + (IF place = "handler" THEN 1 ELSE 0) + (IF place = "done" THEN 0 ELSE 1)
      /\ StepsLeft' = 4 * (Forks - i') + 3 * alive' + told2
         + (IF place' = "handler" THEN 1 ELSE 0) + (IF place' = "done" THEN 0 ELSE 1)
  BY DEF StepsLeft, told, told2
<1>4. CASE ForkOne
  BY <1>1, <1>2, <1>3, <1>4 DEF ForkOne
<1>5. CASE ForkOneFails
  BY <1>1, <1>2, <1>3, <1>5 DEF ForkOneFails
<1>6. CASE ChildExits
  <2>1. alive > 0 /\ alive' = alive - 1 /\ UNCHANGED <<i, place>>
    BY <1>6 DEF ChildExits
  <2> QED BY <1>1, <1>3, <2>1
<1>7. CASE HandlerBegins
  <2>1. pending /\ ~pending'
    BY <1>7, Zenon DEF HandlerBegins
  <2>2. place = "loop" /\ place' = "handler" /\ UNCHANGED <<i, alive>>
    BY <1>7 DEF HandlerBegins
  <2> QED BY <1>2, <1>3, <2>1, <2>2
<1>8. CASE Wait
  BY <1>1, <1>2, <1>3, <1>8 DEF Wait
<1>9. CASE Return
  <2>1. ~pending'
    BY <1>9, Zenon DEF Return
  <2> QED BY <1>1, <1>2, <1>3, <1>9, <2>1 DEF Return
<1> QED BY <1>4, <1>5, <1>6, <1>7, <1>8, <1>9 DEF ForksNext, MainStep

(* The loop of 4.3 ends, for every number of forks and whatever fails:     *)
(* there is no endless chase of forks and handlers, since each step leaves *)
(* less to do.  Only in its handler's wait could main be held up, which    *)
(* HandlerNeverBlocks excludes.                                            *)
THEOREM EveryStepUsesUp ==
  ForksSpec => [](StepsLeft \in Nat) /\ [][StepsLeft' < StepsLeft]_forkVars
<1>1. ForksInv /\ [ForksNext]_forkVars => [StepsLeft' < StepsLeft]_forkVars
  BY ForksUseSteps
<1>2. ForksInv => StepsLeft \in Nat
  <2> SUFFICES ASSUME ForksInv PROVE StepsLeft \in Nat
    OBVIOUS
  <2>1. (IF pending THEN 2 ELSE 0) \in Nat
    BY SMT
  <2> QED BY <2>1, ForksAssumption DEF StepsLeft, ForksInv, CountersOK
<1> QED BY ForksInvInductive, <1>1, <1>2, PTL DEF ForksSpec

-----------------------------------------------------------------------------
(* ParentChildRelay.                                                       *)

(* Types of the relay.                                                     *)
RelayTypes ==
  /\ transport \in {"pipe", "fifo"}
  /\ parent \in ParentPlace /\ child \in ChildPlace
  /\ path \in BOOLEAN /\ armed \in BOOLEAN /\ wfd \in BOOLEAN
  /\ chld \in BOOLEAN /\ stopped \in BOOLEAN /\ stoppedOnce \in BOOLEAN
  /\ msg \in Nat /\ sent \in Nat /\ shown \in Nat
  /\ pipe \in Seq(Nat)

(* SIGCHLD tells of a child that has ended, which stays a zombie as long   *)
(* as the parent lives, or of one that was stopped at some time.           *)
SignalExplained ==
  /\ (chld \/ parent = "handler") => (child = "zombie" \/ stoppedOnce)
  /\ parent = "dead" => ~chld
  /\ parent \in {"make", "fork"} => child = "none"
  /\ stopped => stoppedOnce

(* Before the child reads, nothing has been sent; the frames in the        *)
(* channel are the last ones sent, and the reader has seen all the others. *)
FramesCounted ==
  /\ \A n \in 1..Len(pipe) : pipe[n] = sent - Len(pipe) + n
  /\ child \in {"none", "open", "opening"} =>
       sent = 0 /\ msg = 0 /\ shown = 0 /\ pipe = <<>>
  /\ child \in {"read", "print"} => msg + Len(pipe) = sent
  /\ child = "read" => msg = shown
  /\ child = "print" => msg = shown + 1 \/ (msg = shown /\ ~wfd)

(* The parent has its end before the child can read: it is never opened    *)
(* again.                                                                  *)
EndsInOrder ==
  /\ child \in {"none", "opening"} => ~wfd
  /\ child = "none" => parent \in {"make", "fork", "handler", "dead"}
  /\ (parent = "open" \/ (parent = "install" /\ transport = "fifo")) =>
       ~wfd /\ child \notin {"read", "print"}

(* The inductive invariant of the relay.                                   *)
RelayInv == RelayTypes /\ SignalExplained /\ FramesCounted /\ EndsInOrder

(* It holds at first.                                                      *)
LEMMA RelayInit == Init => RelayInv
<1> SUFFICES ASSUME Init PROVE RelayInv
  OBVIOUS
<1>1. /\ path \in BOOLEAN /\ armed \in BOOLEAN /\ wfd \in BOOLEAN
      /\ chld \in BOOLEAN /\ stopped \in BOOLEAN /\ stoppedOnce \in BOOLEAN
      /\ ~wfd /\ ~chld /\ ~stopped
  BY Zenon DEF Init
<1>2. pipe \in Seq(Nat) /\ Len(pipe) = 0
  BY EmptySeq DEF Init
<1> QED
  BY <1>1, <1>2 DEF Init, RelayInv, RelayTypes, SignalExplained, FramesCounted,
                    EndsInOrder, ParentPlace, ChildPlace

(* A step keeps the flags TRUE or FALSE.                                   *)
LEMMA RelayFlags ==
  ASSUME RelayInv, [Next]_vars
  PROVE  /\ path' \in BOOLEAN /\ armed' \in BOOLEAN /\ wfd' \in BOOLEAN
         /\ chld' \in BOOLEAN /\ stopped' \in BOOLEAN /\ stoppedOnce' \in BOOLEAN
<1> USE DEF RelayInv, RelayTypes
<1>1. CASE ParentStep
  BY <1>1, Zenon DEF ParentStep, MakeChannel, Fork, ForkFails, InstallHandler,
     ParentOpens, AskUser, Write, WriteFails, EnterHandler, ReapAndExit, ParentEnds
<1>2. CASE ChildStep
  BY <1>2, Zenon DEF ChildStep, ChildOpens, OpenFails, Read, ReadEnd, PrintFrame,
     ChildEnds, TellParent
<1>3. CASE Signals
  BY <1>3, Zenon DEF Signals, InterruptParent, KillParent, InterruptChild, KillChild,
     StopChild, ContinueChild, ParentEnds, ChildEnds, TellParent
<1>4. CASE UNCHANGED vars
  BY <1>4, Zenon DEF vars
<1> QED BY <1>1, <1>2, <1>3, <1>4 DEF Next

(* What a dying parent leaves.                                             *)
LEMMA ParentEndsKeeps ==
  ASSUME RelayInv, [Next]_vars, ParentEnds
  PROVE  RelayInv'
<1> USE DEF RelayInv
<1>1. ~wfd' /\ ~chld'
  BY Zenon DEF ParentEnds
<1>2. stopped' <=> stopped
  BY Zenon DEF ParentEnds
<1>3. stoppedOnce' <=> stoppedOnce
  BY Zenon DEF ParentEnds
<1>4. pipe' = IF child \in {"opening", "read", "print"} THEN pipe ELSE <<>>
  BY DEF ParentEnds, ReaderOpen
<1>5. RelayTypes'
  BY RelayFlags, <1>4, EmptySeq DEF RelayTypes, ParentEnds, ParentPlace, ChildPlace
<1>6. SignalExplained'
  BY <1>1, <1>2, <1>3 DEF SignalExplained, ParentEnds, RelayTypes
<1>7. FramesCounted'
  <2>1. UNCHANGED <<sent, msg, shown>> /\ Len(<<>>) = 0
    BY DEF ParentEnds
  <2>2. \A n \in 1..Len(pipe') : pipe'[n] = sent' - Len(pipe') + n
    BY <1>4, <2>1 DEF FramesCounted
  <2>3. child' = child \/ (child = "zombie" /\ child' = "gone")
    BY DEF ParentEnds
  <2> QED BY <1>1, <1>4, <2>1, <2>2, <2>3 DEF FramesCounted
<1>8. EndsInOrder'
  BY <1>1 DEF EndsInOrder, ParentEnds
<1> QED BY <1>5, <1>6, <1>7, <1>8

(* What a dying child leaves.                                              *)
LEMMA ChildEndsKeeps ==
  ASSUME RelayInv, [Next]_vars, ChildEnds, Alive
  PROVE  RelayInv'
<1> USE DEF RelayInv
<1>1. ~stopped'
  BY Zenon DEF ChildEnds
<1>2. chld' <=> (chld \/ (armed /\ parent # "dead"))
  BY Zenon DEF ChildEnds, TellParent
<1>3. (stoppedOnce' <=> stoppedOnce) /\ (wfd' <=> wfd)
  BY Zenon DEF ChildEnds
<1>5. RelayTypes'
  BY RelayFlags, EmptySeq DEF RelayTypes, ChildEnds, ChildPlace
<1>6. SignalExplained'
  BY <1>1, <1>2, <1>3 DEF SignalExplained, ChildEnds, Alive
<1>7. FramesCounted'
  <2>1. UNCHANGED sent /\ (pipe' = pipe \/ pipe' = <<>>) /\ Len(<<>>) = 0
    BY DEF ChildEnds
  <2>2. \A n \in 1..Len(pipe') : pipe'[n] = sent' - Len(pipe') + n
    BY <2>1 DEF FramesCounted
  <2>3. child' \in {"gone", "zombie"}
    BY DEF ChildEnds
  <2> QED BY <2>2, <2>3 DEF FramesCounted
<1>8. EndsInOrder'
  BY <1>3 DEF EndsInOrder, ChildEnds, Alive
<1> QED BY <1>5, <1>6, <1>7, <1>8

(* The steps of the parent, its handlers included.                         *)
LEMMA ParentStepKeeps ==
  ASSUME RelayInv, [Next]_vars, ParentStep
  PROVE  RelayInv'
<1> USE DEF RelayInv
<1>1. ASSUME UNCHANGED <<chld, stopped, stoppedOnce>>
      PROVE  /\ chld' <=> chld
             /\ stopped' <=> stopped
             /\ stoppedOnce' <=> stoppedOnce
  BY <1>1, Zenon
<1>2. CASE MakeChannel
  <2>1. UNCHANGED <<chld, stopped, stoppedOnce, wfd>>
    BY <1>2, Zenon DEF MakeChannel
  <2>2. wfd' <=> wfd
    BY <2>1, Zenon
  <2>3. RelayTypes'
    BY <1>2, RelayFlags DEF RelayTypes, MakeChannel, ParentPlace
  <2>4. SignalExplained' /\ EndsInOrder'
    BY <1>1, <1>2, <2>1, <2>2 DEF SignalExplained, EndsInOrder, MakeChannel
  <2>5. FramesCounted'
    BY <1>2, <2>2 DEF FramesCounted, MakeChannel
  <2> QED BY <2>3, <2>4, <2>5
<1>3. CASE Fork
  <2>1. UNCHANGED <<chld, stopped, stoppedOnce>>
    BY <1>3, Zenon DEF Fork
  <2>2. wfd' <=> transport = "pipe"
    BY <1>3, Zenon DEF Fork
  <2>3. RelayTypes'
    BY <1>3, RelayFlags DEF RelayTypes, Fork, ParentPlace, ChildPlace
  <2>4. SignalExplained' /\ EndsInOrder'
    BY <1>1, <1>3, <2>1, <2>2 DEF SignalExplained, EndsInOrder, Fork, RelayTypes
  <2>5. FramesCounted'
    BY <1>3, <2>2 DEF FramesCounted, Fork, SignalExplained
  <2> QED BY <2>3, <2>4, <2>5
<1>4. CASE InstallHandler
  <2>1. UNCHANGED <<chld, stopped, stoppedOnce, wfd>>
    BY <1>4, Zenon DEF InstallHandler
  <2>2. wfd' <=> wfd
    BY <2>1, Zenon
  <2>3. RelayTypes'
    BY <1>4, RelayFlags DEF RelayTypes, InstallHandler, ParentPlace
  <2>4. SignalExplained' /\ EndsInOrder'
    BY <1>1, <1>4, <2>1, <2>2 DEF SignalExplained, EndsInOrder, InstallHandler, RelayTypes
  <2>5. FramesCounted'
    BY <1>4, <2>2 DEF FramesCounted, InstallHandler
  <2> QED BY <2>3, <2>4, <2>5
<1>5. CASE ParentOpens
  <2>1. UNCHANGED <<chld, stopped, stoppedOnce>>
    BY <1>5, Zenon DEF ParentOpens
  <2>2. wfd' <=> path
    BY <1>5, Zenon DEF ParentOpens
  <2>3. RelayTypes'
    BY <1>5, RelayFlags DEF RelayTypes, ParentOpens, ParentPlace, ChildPlace
  <2>4. SignalExplained' /\ EndsInOrder'
    BY <1>1, <1>5, <2>1, <2>2 DEF SignalExplained, EndsInOrder, ParentOpens, ReaderOpen
  <2>5. FramesCounted'
    BY <1>5, <2>2 DEF FramesCounted, ParentOpens, EndsInOrder, RelayTypes, ReaderOpen
  <2> QED BY <2>3, <2>4, <2>5
<1>6. CASE AskUser
  <2>1. UNCHANGED <<chld, stopped, stoppedOnce, wfd>>
    BY <1>6, Zenon DEF AskUser
  <2>2. wfd' <=> wfd
    BY <2>1, Zenon
  <2>3. RelayTypes'
    BY <1>6, RelayFlags DEF RelayTypes, AskUser, ParentPlace
  <2>4. SignalExplained' /\ EndsInOrder'
    BY <1>1, <1>6, <2>1, <2>2 DEF SignalExplained, EndsInOrder, AskUser
  <2>5. FramesCounted'
    BY <1>6, <2>2 DEF FramesCounted, AskUser
  <2> QED BY <2>3, <2>4, <2>5
<1>7. CASE Write
  <2>1. UNCHANGED <<chld, stopped, stoppedOnce, wfd>>
    BY <1>7, Zenon DEF Write
  <2>2. wfd' <=> wfd
    BY <2>1, Zenon
  <2>3. pipe' \in Seq(Nat) /\ Len(pipe') = Len(pipe) + 1
        /\ \A n \in 1..Len(pipe') : pipe'[n] = IF n <= Len(pipe) THEN pipe[n] ELSE sent + 1
    BY <1>7, AppendProperties DEF RelayTypes, Write
  <2>4. RelayTypes'
    BY <1>7, <2>3, RelayFlags DEF RelayTypes, Write, ParentPlace
  <2>5. SignalExplained' /\ EndsInOrder'
    BY <1>1, <1>7, <2>1, <2>2 DEF SignalExplained, EndsInOrder, Write
  <2>6. FramesCounted'
    <3>1. Len(pipe) \in Nat /\ sent \in Nat /\ msg \in Nat /\ shown \in Nat
      BY LenProperties DEF RelayTypes
    <3>2. sent' = sent + 1 /\ UNCHANGED <<msg, shown, child>>
      BY <1>7 DEF Write
    <3>3. child \in {"read", "print"}
      BY <1>7 DEF Write, EndsInOrder, ReaderOpen
    <3>4. \A n \in 1..Len(pipe') : pipe'[n] = sent' - Len(pipe') + n
      <4> SUFFICES ASSUME NEW n \in 1..Len(pipe')
                   PROVE  pipe'[n] = sent' - Len(pipe') + n
        OBVIOUS
      <4>1. n \in 1..Len(pipe) \/ n = Len(pipe) + 1
        BY <2>3, <3>1
      <4>2. pipe'[n] = IF n <= Len(pipe) THEN pipe[n] ELSE sent + 1
        BY <2>3
      <4> QED BY <2>3, <3>1, <3>2, <4>1, <4>2 DEF FramesCounted
    <3> QED BY <2>2, <2>3, <3>1, <3>2, <3>3, <3>4 DEF FramesCounted
  <2> QED BY <2>4, <2>5, <2>6
<1>8. CASE EnterHandler
  <2>1. ~chld' /\ chld /\ (stopped' <=> stopped) /\ (stoppedOnce' <=> stoppedOnce)
    BY <1>8, Zenon DEF EnterHandler
  <2>2. wfd' => wfd
    BY <1>8, Zenon DEF EnterHandler
  <2>3. RelayTypes'
    BY <1>8, RelayFlags DEF RelayTypes, EnterHandler, ParentPlace
  <2>4. SignalExplained' /\ EndsInOrder'
    BY <1>8, <2>1, <2>2 DEF SignalExplained, EndsInOrder, EnterHandler
  <2>5. FramesCounted'
    BY <1>8, <2>2 DEF FramesCounted, EnterHandler
  <2> QED BY <2>3, <2>4, <2>5
<1>9. CASE ForkFails \/ WriteFails \/ ReapAndExit
  BY <1>9, ParentEndsKeeps DEF ForkFails, WriteFails, ReapAndExit
<1> QED BY <1>2, <1>3, <1>4, <1>5, <1>6, <1>7, <1>8, <1>9 DEF ParentStep

(* The steps of the child.                                                 *)
LEMMA ChildStepKeeps ==
  ASSUME RelayInv, [Next]_vars, ChildStep
  PROVE  RelayInv'
<1> USE DEF RelayInv
<1>1. CASE ChildOpens
  <2>1. /\ chld' <=> chld
        /\ stopped' <=> stopped
        /\ stoppedOnce' <=> stoppedOnce
        /\ wfd' <=> wfd
    BY <1>1, Zenon DEF ChildOpens
  <2>2. RelayTypes'
    BY <1>1, RelayFlags DEF RelayTypes, ChildOpens, ParentPlace, ChildPlace
  <2>3. SignalExplained' /\ EndsInOrder'
    BY <1>1, <2>1 DEF SignalExplained, EndsInOrder, ChildOpens
  <2>4. FramesCounted'
    BY <1>1, <2>1 DEF FramesCounted, ChildOpens, RelayTypes
  <2> QED BY <2>2, <2>3, <2>4
<1>2. CASE OpenFails
  BY <1>2, ChildEndsKeeps DEF OpenFails, Alive
<1>3. CASE Read
  <2>1. /\ chld' <=> chld
        /\ stopped' <=> stopped
        /\ stoppedOnce' <=> stoppedOnce
        /\ wfd' <=> wfd
    BY <1>3, Zenon DEF Read
  <2>2. /\ pipe' \in Seq(Nat) /\ Len(pipe') = Len(pipe) - 1 /\ Len(pipe) \in Nat \ {0}
        /\ msg' = pipe[1] /\ msg' \in Nat
        /\ \A n \in 1..Len(pipe') : pipe'[n] = pipe[n + 1]
    BY <1>3, HeadTailProperties, LenProperties, EmptySeq, ElementOfSeq DEF RelayTypes, Read
  <2>3. RelayTypes'
    BY <1>3, <2>2, RelayFlags DEF RelayTypes, Read, ChildPlace
  <2>4. SignalExplained' /\ EndsInOrder'
    BY <1>3, <2>1 DEF SignalExplained, EndsInOrder, Read
  <2>5. FramesCounted'
    <3>1. UNCHANGED <<sent, shown>> /\ child' = "print" /\ child = "read"
      BY <1>3 DEF Read
    <3>2. \A n \in 1..Len(pipe') : pipe'[n] = sent' - Len(pipe') + n
      BY <2>2, <3>1 DEF FramesCounted, RelayTypes
    <3>3. msg' = sent - Len(pipe) + 1
      BY <2>2 DEF FramesCounted
    <3> QED BY <2>2, <3>1, <3>2, <3>3 DEF FramesCounted, RelayTypes
  <2> QED BY <2>3, <2>4, <2>5
<1>4. CASE ReadEnd
  <2>1. /\ chld' <=> chld
        /\ stopped' <=> stopped
        /\ stoppedOnce' <=> stoppedOnce
        /\ wfd' <=> wfd
        /\ ~wfd
    BY <1>4, Zenon DEF ReadEnd
  <2>2. RelayTypes'
    BY <1>4, RelayFlags DEF RelayTypes, ReadEnd, ChildPlace
  <2>3. SignalExplained' /\ EndsInOrder'
    BY <1>4, <2>1 DEF SignalExplained, EndsInOrder, ReadEnd
  <2>4. FramesCounted'
    BY <1>4, <2>1 DEF FramesCounted, ReadEnd
  <2> QED BY <2>2, <2>3, <2>4
<1>5. CASE PrintFrame
  <2>1. /\ chld' <=> chld
        /\ stopped' <=> stopped
        /\ stoppedOnce' <=> stoppedOnce
        /\ wfd' <=> wfd
    BY <1>5, Zenon DEF PrintFrame
  <2>2. RelayTypes'
    BY <1>5, RelayFlags DEF RelayTypes, PrintFrame, ChildPlace
  <2>3. SignalExplained' /\ EndsInOrder'
    BY <1>5, <2>1 DEF SignalExplained, EndsInOrder, PrintFrame
  <2>4. FramesCounted'
    BY <1>5, <2>1 DEF FramesCounted, PrintFrame
  <2> QED BY <2>2, <2>3, <2>4
<1> QED BY <1>1, <1>2, <1>3, <1>4, <1>5 DEF ChildStep

(* Signals from outside.                                                   *)
LEMMA SignalsKeep ==
  ASSUME RelayInv, [Next]_vars, Signals
  PROVE  RelayInv'
<1> USE DEF RelayInv
<1>1. CASE InterruptParent \/ KillParent
  BY <1>1, ParentEndsKeeps DEF InterruptParent, KillParent
<1>2. CASE InterruptChild \/ KillChild
  BY <1>2, ChildEndsKeeps DEF InterruptChild, KillChild
<1>3. CASE StopChild
  <2>1. /\ chld' <=> (chld \/ (armed /\ parent # "dead"))
        /\ wfd' <=> wfd
        /\ stoppedOnce'
    BY <1>3, Zenon DEF StopChild, TellParent
  <2>2. RelayTypes'
    BY <1>3, RelayFlags DEF RelayTypes, StopChild
  <2>3. UNCHANGED <<parent, child, transport, msg, pipe, sent, shown>>
    BY <1>3 DEF StopChild
  <2>4. SignalExplained' /\ EndsInOrder'
    BY <1>3, <2>1, <2>3 DEF SignalExplained, EndsInOrder, StopChild, Alive
  <2>5. FramesCounted'
    BY <2>1, <2>3 DEF FramesCounted
  <2> QED BY <2>2, <2>4, <2>5
<1>4. CASE ContinueChild
  <2>1. /\ chld' <=> (chld \/ (armed /\ parent # "dead"))
        /\ wfd' <=> wfd
        /\ stopped /\ ~stopped' /\ (stoppedOnce' <=> stoppedOnce)
    BY <1>4, Zenon DEF ContinueChild, TellParent
  <2>2. RelayTypes'
    BY <1>4, RelayFlags DEF RelayTypes, ContinueChild
  <2>3. UNCHANGED <<parent, child, transport, msg, pipe, sent, shown>>
    BY <1>4 DEF ContinueChild
  <2>4. SignalExplained' /\ EndsInOrder'
    BY <1>4, <2>1, <2>3 DEF SignalExplained, EndsInOrder, ContinueChild, Alive
  <2>5. FramesCounted'
    BY <2>1, <2>3 DEF FramesCounted
  <2> QED BY <2>2, <2>4, <2>5
<1> QED BY <1>1, <1>2, <1>3, <1>4 DEF Signals

(* The invariant of the relay holds for ever.                              *)
LEMMA RelayInvariant == Spec => []RelayInv
<1>1. RelayInv /\ [Next]_vars => RelayInv'
  <2> SUFFICES ASSUME RelayInv, [Next]_vars PROVE RelayInv'
    OBVIOUS
  <2>1. CASE UNCHANGED vars
    <3>1. /\ chld' <=> chld
          /\ stopped' <=> stopped
          /\ stoppedOnce' <=> stoppedOnce
          /\ wfd' <=> wfd
      BY <2>1, Zenon DEF vars
    <3> QED
      BY <2>1, <3>1, RelayFlags DEF vars, RelayInv, RelayTypes, SignalExplained,
         FramesCounted, EndsInOrder
  <2> QED BY <2>1, ParentStepKeeps, ChildStepKeeps, SignalsKeep DEF Next
<1> QED BY RelayInit, <1>1, PTL DEF Spec

(* wait(NULL) in the SIGCHLD handler of 8.1 and 8.2 hangs only for a child *)
(* that was stopped once, whatever signals come when and whatever the      *)
(* transport.                                                              *)
THEOREM HandlerHangExplained == Spec => []HandlerHangsOnlyAfterStop
<1>1. RelayInv => HandlerHangsOnlyAfterStop
  BY DEF RelayInv, SignalExplained, HandlerHangsOnlyAfterStop
<1> QED BY RelayInvariant, <1>1, PTL

(* The child prints frame after frame, skips none, and repeats only the    *)
(* last one, after the parent's end is gone, for every size of the channel *)
(* and any number of lines.                                                *)
THEOREM FramesInOrder == Spec => FramesOnceInOrder
<1>1. RelayInv /\ [Next]_vars =>
        [child = "print" /\ child' = "read" =>
           msg = shown + 1 \/ (msg = shown /\ (~wfd \/ parent = "dead"))]_vars
  BY DEF RelayInv, FramesCounted
<1> QED BY RelayInvariant, <1>1, PTL DEF Spec, FramesOnceInOrder

(* Where one process waits for the other: in open for the FIFO's other     *)
(* end, at a full or an empty channel, in wait for a child that has not    *)
(* ended.                                                                  *)
ParentWaits ==
  \/ parent = "opening"
  \/ parent = "write" /\ wfd /\ ReaderOpen /\ Len(pipe) >= Cap
  \/ parent = "handler" /\ child # "zombie"
ChildWaits ==
  \/ child = "opening"
  \/ child = "read" /\ pipe = <<>> /\ wfd

(* A parent that opens holds the write end, so that the child's open goes  *)
(* through; and only before the handler is installed can a child end       *)
(* without a signal to the parent.                                         *)
HoldUps ==
  /\ parent \in {"open", "opening"} => transport = "fifo"
  /\ parent = "opening" => wfd /\ ~ReaderOpen
  /\ ~armed => ~chld /\ parent \in {"make", "fork", "install", "dead"}
  /\ child = "zombie" => chld \/ parent = "handler" \/ early

(* It holds at first, and every step keeps it.                             *)
LEMMA HoldUpsInvariant == Spec => []HoldUps
<1>1. Init => HoldUps
  BY DEF Init, HoldUps
<1>2. RelayInv /\ HoldUps /\ [Next]_vars => HoldUps'
  <2> SUFFICES ASSUME RelayInv, HoldUps, [Next]_vars PROVE HoldUps'
    OBVIOUS
  <2> USE DEF HoldUps, RelayInv, SignalExplained, ReaderOpen
  <2>1. CASE ParentStep
    <3>1. CASE MakeChannel \/ Fork \/ AskUser \/ Write
      BY <3>1 DEF MakeChannel, Fork, AskUser, Write
    <3>2. CASE ForkFails \/ WriteFails \/ ReapAndExit
      BY <3>2 DEF ForkFails, WriteFails, ReapAndExit, ParentEnds
    <3>3. CASE InstallHandler
      BY <3>3 DEF InstallHandler, RelayTypes
    <3>4. CASE ParentOpens
      BY <3>4 DEF ParentOpens
    <3>5. CASE EnterHandler
      BY <3>5 DEF EnterHandler
    <3> QED BY <2>1, <3>1, <3>2, <3>3, <3>4, <3>5 DEF ParentStep
  <2>2. ASSUME ChildEnds, Alive PROVE HoldUps'
    BY <2>2 DEF ChildEnds, TellParent, Alive
  <2>3. CASE ChildStep
    BY <2>2, <2>3 DEF ChildStep, ChildOpens, OpenFails, Read, ReadEnd, PrintFrame, Alive
  <2>4. CASE Signals
    <3>1. CASE InterruptParent \/ KillParent
      BY <3>1 DEF InterruptParent, KillParent, ParentEnds
    <3>2. CASE InterruptChild \/ KillChild
      BY <2>2, <3>2 DEF InterruptChild, KillChild
    <3>3. CASE StopChild \/ ContinueChild
      <4>1. /\ UNCHANGED <<parent, armed, wfd, child, early, transport>>
            /\ chld' <=> (chld \/ (armed /\ parent # "dead"))
            /\ Alive
        BY <3>3, Zenon DEF StopChild, ContinueChild, TellParent
      <4> QED BY <4>1 DEF Alive
    <3> QED BY <2>4, <3>1, <3>2, <3>3 DEF Signals
  <2>5. CASE UNCHANGED vars
    BY <2>5 DEF vars
  <2> QED BY <2>1, <2>3, <2>4, <2>5 DEF Next
<1> QED BY RelayInvariant, <1>1, <1>2, PTL DEF Spec

(* Parent and child never wait for each other, over the pipe and over the  *)
(* FIFO and for every size of the channel, except after SIGSTOP: the       *)
(* handler then waits for a child that has been continued and reads on,    *)
(* from a channel whose other end the parent holds.                        *)
THEOREM NeverBothWait ==
  Spec => [](ParentWaits /\ ChildWaits => parent = "handler" /\ stoppedOnce)
<1>1. RelayInv /\ HoldUps =>
        (ParentWaits /\ ChildWaits => parent = "handler" /\ stoppedOnce)
  <2> SUFFICES ASSUME RelayInv, HoldUps, ParentWaits, ChildWaits
               PROVE  parent = "handler" /\ stoppedOnce
    OBVIOUS
  <2>1. parent # "opening"
    BY DEF HoldUps, ChildWaits, ReaderOpen
  <2>2. ~(parent = "write" /\ wfd /\ Len(pipe) >= Cap)
    BY RelayAssumption DEF RelayInv, EndsInOrder, ChildWaits
  <2> QED BY <2>1, <2>2 DEF ParentWaits, RelayInv, SignalExplained
<1> QED BY RelayInvariant, HoldUpsInvariant, <1>1, PTL

(* The death of the child is told to the parent, unless it came before the *)
(* parent had installed its handler; then a parent that waits does so in   *)
(* open, for a reader of the FIFO.  This is the window that the comment    *)
(* "Prevent zombie process" in 8.2 overlooks, and there is no other.       *)
THEOREM DeathIsTold ==
  Spec => [](child = "zombie" =>
               \/ chld \/ parent = "handler"
               \/ early /\ (ParentWaits => parent = "opening" /\ transport = "fifo"))
<1>1. HoldUps =>
        (child = "zombie" =>
           \/ chld \/ parent = "handler"
           \/ early /\ (ParentWaits => parent = "opening" /\ transport = "fifo"))
  BY DEF HoldUps, ParentWaits, ReaderOpen
<1> QED BY HoldUpsInvariant, <1>1, PTL

-----------------------------------------------------------------------------
(* ChildProcesses.                                                         *)

(* The processes that have ended when y looks for the end of the file.     *)
Waited(y) ==
  IF y = "A" THEN {"B", "B'"}
  ELSE IF y = "B" THEN {"B'"} ELSE IF y = "C" THEN {"C'"} ELSE {}

(* Both forks of A have succeeded.                                         *)
BothBorn == pc["B"] # "none" /\ pc["C"] # "none"

(* x has its line's offset; x has written its line there.  A is done       *)
(* without a line when a fork failed.                                      *)
Wrote == {x \in Proc : pc[x] = "waitC" \/ (pc[x] = "done" /\ (x = "A" => BothBorn))}

(* Processes that have sought, or sought and written.                      *)
Placed == {x \in Proc : pc[x] = "write"} \cup Wrote

(* Types of the chains.                                                    *)
ChainTypes ==
  /\ pc \in [Proc -> Places]
  /\ pos \in [Proc -> Nat]
  /\ file \in Seq(Proc \cup {"old"})

(* Which places each process has, and who is where when it gets there.     *)
ChainOrder ==
  /\ pc["A"] \notin {"none", "fork"}
  /\ \A x \in Child : pc[x] \notin {"forkB", "forkC", "waitC"}
  /\ \A x \in Child : pc[GrandOf[x]] \in {"none", "seek", "write", "done"}
  /\ \A x \in Child : pc[x] \in {"none", "fork"} => pc[GrandOf[x]] = "none"
  /\ \A x \in Child : pc[x] \in {"seek", "write", "done"} => Exited(GrandOf[x])
  /\ pc["A"] = "forkB" => pc["B"] = "none"
  /\ pc["A"] \in {"forkB", "forkC"} => pc["C"] = "none"
  /\ pc["A"] \in {"wait", "seek", "write", "waitC"} => BothBorn
  /\ pc["A"] \in {"seek", "write", "waitC"} => pc["B"] = "done"
  /\ (pc["A"] = "done" /\ BothBorn) => pc["B"] = "done" /\ pc["C"] = "done"

(* What was there is there; a line lies inside the file, behind the lines  *)
(* of those its writer has waited for, and only rivals have written on it. *)
LinesKept ==
  /\ Len(file) >= OldSize /\ \A n \in 1..OldSize : file[n] = "old"
  /\ \A x \in Placed : pos[x] >= OldSize /\ pos[x] <= Len(file)
  /\ \A x \in Wrote : pos[x] + LineLen(x) <= Len(file)
  /\ \A y \in Placed : \A x \in Waited(y) \cap Wrote : pos[y] >= pos[x] + LineLen(x)
  /\ \A x \in Wrote \ {"A"} :
       \A n \in (pos[x] + 1)..(pos[x] + LineLen(x)) : file[n] \in {x} \cup Rivals(x)

(* The file grows by a line at most with each process that writes.         *)
Share == [x \in Proc |-> IF pc[x] \in {"waitC", "done"} THEN LineLen(x) ELSE 0]
LengthBound ==
  Len(file) <= OldSize + Share["A"] + Share["B"] + Share["B'"] + Share["C"] + Share["C'"]

(* The inductive invariant of the chains.                                  *)
ChainInv == ChainTypes /\ ChainOrder /\ LinesKept /\ LengthBound

(* It holds at first.                                                      *)
LEMMA ChainsStart == ChainsInit => ChainInv
<1> SUFFICES ASSUME ChainsInit PROVE ChainInv
  OBVIOUS
<1> USE ChildAssumption DEF ChainsInit, Proc
<1>1. file \in Seq(Proc \cup {"old"}) /\ Len(file) = OldSize
  <2>1. file \in [1..OldSize -> {"B", "old"}]
    OBVIOUS
  <2> QED BY <2>1, LenProperties
<1>2. ChainTypes
  BY <1>1 DEF ChainTypes, Places
<1>3. ChainOrder
  BY DEF ChainOrder, Child, GrandOf, Exited, BothBorn
<1>4. \A x \in Proc : pc[x] \notin {"write", "waitC", "done"}
  OBVIOUS
<1>5. LinesKept
  BY <1>1, <1>4 DEF LinesKept, Placed, Wrote, Waited
<1>6. LengthBound
  BY <1>1, <1>4 DEF LengthBound, Share
<1> QED BY <1>2, <1>3, <1>5, <1>6 DEF ChainInv

(* The steps that open no file: forks and waits.                           *)
QuietStep ==
  \/ \E x \in Child : ForkChild(x) \/ ForkGrand(x) \/ WaitGrand(x)
  \/ WaitB \/ WaitC

(* No line is begun or ended, and the order of the processes stands.       *)
LinesUntouched ==
  /\ pc' \in [Proc -> Places] /\ ChainOrder'
  /\ UNCHANGED <<file, pos>>
  /\ Placed' = Placed /\ Wrote' = Wrote
  /\ \A x \in Proc : pc[x] \in {"waitC", "done"} => pc'[x] \in {"waitC", "done"}

(* A step that neither seeks nor writes leaves the lines as they are.      *)
LEMMA QuietPlaces ==
  ASSUME ChainInv, QuietStep
  PROVE  LinesUntouched
<1> USE DEF ChainInv, ChainTypes, ChainOrder, Child, Proc, GrandOf, BothBorn, Placed,
            Wrote, Exited, Places, Goto, LinesUntouched
<1>1. ASSUME NEW x \in Child, ForkChild(x) PROVE LinesUntouched
  BY <1>1 DEF ForkChild
<1>2. ASSUME NEW x \in Child, ForkGrand(x) PROVE LinesUntouched
  BY <1>2 DEF ForkGrand
<1>3. ASSUME NEW x \in Child, WaitGrand(x) PROVE LinesUntouched
  BY <1>3 DEF WaitGrand
<1>4. CASE WaitB
  BY <1>4 DEF WaitB
<1>5. CASE WaitC
  BY <1>5 DEF WaitC
<1> QED BY <1>1, <1>2, <1>3, <1>4, <1>5 DEF QuietStep

(* A step that neither seeks nor writes keeps the invariant.               *)
LEMMA QuietKeeps ==
  ASSUME ChainInv, QuietStep
  PROVE  ChainInv'
<1> USE DEF ChainInv
<1>1. LinesUntouched
  BY QuietPlaces
<1>2. ChainTypes' /\ ChainOrder'
  BY <1>1 DEF ChainTypes, LinesUntouched
<1>3. LinesKept'
  BY <1>1 DEF LinesKept, LinesUntouched, Proc, Waited
<1>4. LengthBound'
  <2>1. \A x \in Proc : Share'[x] >= Share[x] /\ Share'[x] \in Nat /\ Share[x] \in Nat
    BY <1>1, ChildAssumption DEF LinesUntouched, Share, LineLen
  <2>2. Len(file) \in Nat
    BY LenProperties DEF ChainTypes
  <2>3. UNCHANGED file
    BY <1>1 DEF LinesUntouched
  <2> HIDE DEF Share
  <2> DEFINE a1 == Share["A"]   b1 == Share["B"]   b2 == Share["B'"]
             c1 == Share["C"]   c2 == Share["C'"]
             a3 == Share'["A"]  b3 == Share'["B"]  b4 == Share'["B'"]
             c3 == Share'["C"]  c4 == Share'["C'"]
  <2>4. /\ a3 >= a1 /\ b3 >= b1 /\ b4 >= b2 /\ c3 >= c1 /\ c4 >= c2
        /\ a1 \in Nat /\ b1 \in Nat /\ b2 \in Nat /\ c1 \in Nat /\ c2 \in Nat
        /\ a3 \in Nat /\ b3 \in Nat /\ b4 \in Nat /\ c3 \in Nat /\ c4 \in Nat
    BY <2>1 DEF Proc
  <2>5. Len(file) <= OldSize + a1 + b1 + b2 + c1 + c2
    BY DEF LengthBound
  <2> HIDE DEF a1, b1, b2, c1, c2, a3, b3, b4, c3, c4
  <2>6. Len(file') <= OldSize + a3 + b3 + b4 + c3 + c4
    BY <2>2, <2>3, <2>4, <2>5, ChildAssumption
  <2> QED BY <2>6 DEF LengthBound, a3, b3, b4, c3, c4
<1> QED BY <1>2, <1>3, <1>4

(* lseek puts a process behind all lines written so far.                   *)
LEMMA SeekKeeps ==
  ASSUME ChainInv, NEW x \in Proc, Seek(x)
  PROVE  ChainInv'
<1> USE DEF ChainInv
<1>1. Len(file) \in Nat
  BY LenProperties DEF ChainTypes
<1>2. pc' = [pc EXCEPT ![x] = "write"] /\ pos' = [pos EXCEPT ![x] = Len(file)]
      /\ UNCHANGED file /\ pc[x] = "seek"
  BY DEF Seek, Goto
<1>3. ChainTypes' /\ ChainOrder'
  BY <1>1, <1>2 DEF ChainTypes, ChainOrder, Proc, Child, GrandOf, BothBorn, Exited, Places
<1>4. /\ Placed' = Placed \cup {x} /\ Wrote' = Wrote /\ x \notin Wrote
      /\ \A y \in Proc \ {x} : pos'[y] = pos[y]
      /\ pos'[x] = Len(file) /\ Wrote \subseteq Proc /\ Placed \subseteq Proc
  BY <1>2 DEF Placed, Wrote, BothBorn, ChainTypes, Proc
<1>5. LinesKept'
  <2>1. ASSUME NEW y \in Placed'
        PROVE  pos'[y] >= OldSize /\ pos'[y] <= Len(file')
    <3>1. CASE y = x
      BY <1>1, <1>2, <1>4, <3>1, ChildAssumption DEF LinesKept
    <3>2. CASE y # x
      BY <1>2, <1>4, <2>1, <3>2 DEF LinesKept
    <3> QED BY <3>1, <3>2
  <2>2. ASSUME NEW y \in Wrote'
        PROVE  y \in Wrote /\ pos'[y] = pos[y] /\ pos'[y] + LineLen(y) <= Len(file')
    <3>1. y # x
      BY <1>4, <2>2
    <3> QED BY <1>2, <1>4, <2>2, <3>1 DEF LinesKept
  <2>3. ASSUME NEW y \in Placed', NEW z \in Waited(y) \cap Wrote'
        PROVE  pos'[y] >= pos'[z] + LineLen(z)
    <3>1. z \in Proc /\ z # y
      BY DEF Waited, Proc
    <3>2. CASE y = x
      BY <1>2, <1>4, <2>2, <2>3, <3>1, <3>2
    <3>3. CASE y # x
      BY <1>4, <2>2, <2>3, <3>1, <3>3 DEF LinesKept
    <3> QED BY <3>2, <3>3
  <2>4. \A y \in Wrote' \ {"A"} :
          \A n \in (pos'[y] + 1)..(pos'[y] + LineLen(y)) : file'[n] \in {y} \cup Rivals(y)
    BY <1>2, <2>2 DEF LinesKept
  <2> QED BY <1>2, <2>1, <2>2, <2>3, <2>4 DEF LinesKept, Rivals, LineLen, Waited
<1>6. LengthBound'
  <2>1. \A y \in Proc : Share'[y] = Share[y]
    BY <1>2 DEF Share, LineLen, ChainTypes
  <2> QED BY <1>2, <2>1 DEF LengthBound, Proc
<1> QED BY <1>3, <1>5, <1>6

(* A write covers exactly the line's place and keeps the rest of the file. *)
LEMMA OverlaidFile ==
  ASSUME ChainTypes, NEW x \in Proc, pos[x] <= Len(file)
  PROVE  /\ Overlay(x) \in Seq(Proc \cup {"old"})
         /\ Len(Overlay(x)) >= Len(file) /\ Len(Overlay(x)) >= pos[x] + LineLen(x)
         /\ Len(Overlay(x)) <= Len(file) + LineLen(x)
         /\ \A n \in 1..Len(Overlay(x)) :
              Overlay(x)[n] = IF n > pos[x] /\ n <= pos[x] + LineLen(x) THEN x ELSE file[n]
<1> DEFINE end == pos[x] + LineLen(x)
           size == IF end > Len(file) THEN end ELSE Len(file)
<1>1. Len(file) \in Nat /\ pos[x] \in Nat /\ LineLen(x) \in Nat
  BY LenProperties, ChildAssumption DEF ChainTypes, LineLen
<1>2. size \in Nat /\ end \in Nat
  BY <1>1
<1>3. \A n \in 1..Len(file) : file[n] \in Proc \cup {"old"}
  BY ElementOfSeq DEF ChainTypes
<1>4. Overlay(x) = [n \in 1..size |-> IF n > pos[x] /\ n <= end THEN x ELSE file[n]]
  BY DEF Overlay
<1>5. \A n \in 1..size : (n > pos[x] /\ n <= end) \/ n \in 1..Len(file)
  BY <1>1
<1>6. Overlay(x) \in [1..size -> Proc \cup {"old"}]
  BY <1>3, <1>4, <1>5
<1> HIDE DEF size
<1>7. Overlay(x) \in Seq(Proc \cup {"old"})
  BY <1>2, <1>6
<1>8. Len(Overlay(x)) = size
  BY <1>2, <1>6, <1>7, LenProperties
<1> QED BY <1>1, <1>4, <1>7, <1>8 DEF size

(* A write damages only lines of the other chain.                          *)
LEMMA WriteKeeps ==
  ASSUME ChainInv, NEW x \in Proc, WriteLine(x)
  PROVE  ChainInv'
<1> USE DEF ChainInv
<1>1. pc' = [pc EXCEPT ![x] = IF x = "A" THEN "waitC" ELSE "done"]
      /\ UNCHANGED pos /\ pc[x] = "write" /\ file' = Overlay(x)
  BY DEF WriteLine, Goto
<1>2. /\ x \in Placed /\ Wrote' = Wrote \cup {x} /\ Placed' = Placed /\ x \notin Wrote
      /\ Wrote \subseteq Proc /\ Placed \subseteq Proc
  BY <1>1 DEF Placed, Wrote, BothBorn, ChainTypes, Proc
<1>3. /\ file' \in Seq(Proc \cup {"old"})
      /\ Len(file') >= Len(file) /\ Len(file') >= pos[x] + LineLen(x)
      /\ Len(file') <= Len(file) + LineLen(x)
      /\ \A n \in 1..Len(file') :
           file'[n] = IF n > pos[x] /\ n <= pos[x] + LineLen(x) THEN x ELSE file[n]
  BY <1>1, <1>2, OverlaidFile DEF LinesKept
<1>4. Len(file) \in Nat /\ Len(file') \in Nat /\ pos \in [Proc -> Nat]
      /\ \A y \in Proc : LineLen(y) \in Nat
  BY <1>3, LenProperties, ChildAssumption DEF ChainTypes, LineLen
<1>5. ChainTypes'
  BY <1>1, <1>3 DEF ChainTypes, Places
<1>6. ChainOrder'
  BY <1>1 DEF ChainTypes, ChainOrder, Proc, Child, GrandOf, BothBorn, Exited, Places
<1>7. LinesKept'
  <2>1. Len(file') >= OldSize
    BY <1>3, <1>4, ChildAssumption DEF LinesKept
  <2>2. ASSUME NEW n \in 1..OldSize PROVE file'[n] = "old"
    <3>1. pos[x] >= OldSize /\ file[n] = "old" /\ OldSize \in Nat
      BY <1>2, ChildAssumption DEF LinesKept
    <3>2. n \in 1..Len(file') /\ ~(n > pos[x])
      BY <1>2, <1>4, <2>1, <3>1
    <3> QED BY <1>3, <3>1, <3>2
  <2>3. \A y \in Placed' : pos'[y] >= OldSize /\ pos'[y] <= Len(file')
    BY <1>1, <1>2, <1>3, <1>4, ChildAssumption DEF LinesKept
  <2>4. \A y \in Wrote' : pos'[y] + LineLen(y) <= Len(file')
    BY <1>1, <1>2, <1>3, <1>4 DEF LinesKept
  (* Nobody who has waited for x is writing or has written. *)
  <2>5. \A y \in Placed : x \notin Waited(y)
    BY <1>1 DEF Placed, Wrote, Waited, ChainOrder, Exited, Child, GrandOf, BothBorn
  <2>6. ASSUME NEW y \in Placed', NEW z \in Waited(y) \cap Wrote'
        PROVE  pos'[y] >= pos'[z] + LineLen(z)
    BY <1>1, <1>2, <2>5 DEF LinesKept
  <2>7. ASSUME NEW y \in Wrote' \ {"A"},
               NEW n \in (pos'[y] + 1)..(pos'[y] + LineLen(y))
        PROVE  file'[n] \in {y} \cup Rivals(y)
    <3>1. n \in 1..Len(file')
      BY <1>1, <1>2, <1>4, <2>4
    <3>2. CASE y = x
      BY <1>1, <1>2, <1>3, <1>4, <3>1, <3>2
    <3>3. CASE y # x
      <4>1. file[n] \in {y} \cup Rivals(y) /\ y \in Proc \ {"A"} /\ y \in Wrote
        BY <1>1, <1>2, <3>3 DEF LinesKept
      <4>2. CASE y \in Waited(x)
        <5>1. pos[x] >= pos[y] + LineLen(y)
          BY <1>2, <4>1, <4>2 DEF LinesKept
        <5>2. ~(n > pos[x])
          BY <1>1, <1>4, <4>1, <5>1
        <5> QED BY <1>3, <3>1, <4>1, <5>2
      <4>3. CASE y \notin Waited(x)
        <5>1. x \notin Waited(y)
          BY <1>2, <2>5, <4>1 DEF Placed
        <5>2. x \in Rivals(y)
          BY <3>3, <4>1, <4>3, <5>1 DEF Rivals, Waited, Proc
        <5> QED BY <1>3, <3>1, <4>1, <5>2
      <4> QED BY <4>2, <4>3
    <3> QED BY <3>2, <3>3
  <2> QED BY <2>1, <2>2, <2>3, <2>4, <2>6, <2>7 DEF LinesKept, Rivals, LineLen, Waited
<1>8. LengthBound'
  <2>1. Share[x] = 0 /\ Share' = [Share EXCEPT ![x] = LineLen(x)]
    BY <1>1 DEF Share, ChainTypes, LineLen
  <2>2. Share \in [Proc -> Nat]
    BY <1>4 DEF Share
  <2> HIDE DEF Share
  <2> DEFINE a1 == Share["A"]   b1 == Share["B"]   b2 == Share["B'"]
             c1 == Share["C"]   c2 == Share["C'"]
             a3 == Share'["A"]  b3 == Share'["B"]  b4 == Share'["B'"]
             c3 == Share'["C"]  c4 == Share'["C'"]
             L == LineLen(x)
  <2>3. /\ a1 \in Nat /\ b1 \in Nat /\ b2 \in Nat /\ c1 \in Nat /\ c2 \in Nat /\ L \in Nat
        /\ \/ a3 = a1 + L /\ b3 = b1 /\ b4 = b2 /\ c3 = c1 /\ c4 = c2
           \/ a3 = a1 /\ b3 = b1 + L /\ b4 = b2 /\ c3 = c1 /\ c4 = c2
           \/ a3 = a1 /\ b3 = b1 /\ b4 = b2 + L /\ c3 = c1 /\ c4 = c2
           \/ a3 = a1 /\ b3 = b1 /\ b4 = b2 /\ c3 = c1 + L /\ c4 = c2
           \/ a3 = a1 /\ b3 = b1 /\ b4 = b2 /\ c3 = c1 /\ c4 = c2 + L
    BY <1>4, <2>1, <2>2 DEF Proc
  <2>4. Len(file) <= OldSize + a1 + b1 + b2 + c1 + c2
    BY DEF LengthBound
  <2>5. Len(file') <= Len(file) + L
    BY <1>3
  <2> HIDE DEF a1, b1, b2, c1, c2, a3, b3, b4, c3, c4, L
  <2>6. Len(file') <= OldSize + a3 + b3 + b4 + c3 + c4
    <3>1. Len(file') <= OldSize + a1 + b1 + b2 + c1 + c2 + L
      BY <1>4, <2>3, <2>4, <2>5, ChildAssumption
    <3>2. OldSize + a3 + b3 + b4 + c3 + c4 = OldSize + a1 + b1 + b2 + c1 + c2 + L
      BY <2>3, ChildAssumption
    <3> QED BY <3>1, <3>2
  <2> QED BY <2>6 DEF LengthBound, a3, b3, b4, c3, c4
<1> QED BY <1>5, <1>6, <1>7, <1>8

(* The invariant of the chains holds for ever.                             *)
LEMMA ChainInvariant == ChainsSpec => []ChainInv
<1>1. ChainInv /\ [ChainsNext]_chainVars => ChainInv'
  <2> SUFFICES ASSUME ChainInv, [ChainsNext]_chainVars PROVE ChainInv'
    OBVIOUS
  <2>1. CASE UNCHANGED chainVars
    BY <2>1 DEF chainVars, ChainInv, ChainTypes, ChainOrder, LinesKept, LengthBound,
       Share, Placed, Wrote, BothBorn, Exited
  <2> QED BY <2>1, QuietKeeps, SeekKeeps, WriteKeeps DEF ChainsNext, QuietStep
<1> QED BY ChainsStart, <1>1, PTL DEF ChainsSpec

(* In 4.2 a line is damaged by the other chain only, and what earlier runs *)
(* wrote is not touched, for lines of every length and however the two     *)
(* chains interleave their lseeks and writes.                              *)
THEOREM LinesSafeFromOwnChain == ChainsSpec => []OnlyRivalsOverwrite
<1>1. ChainInv => OnlyRivalsOverwrite
  BY DEF ChainInv, LinesKept, OnlyRivalsOverwrite, Wrote
<1> QED BY ChainInvariant, <1>1, PTL

(* When A is done after both forks everybody else has ended, and the file  *)
(* has grown by the longer chain at least and by all the lines at most.    *)
THEOREM EverybodyWrote == ChainsSpec => []AEndsLast
<1>1. ChainInv => AEndsLast
  <2> SUFFICES ASSUME ChainInv, pc["A"] = "done", BothBorn
               PROVE  /\ \A x \in Proc : Exited(x)
                      /\ Len(file) >= OldSize + 2 * Short
                                      + (IF pc["B'"] = "done" THEN Short + 1 ELSE 0)
                      /\ Len(file) <= OldSize + 5 * Short + 2
    BY DEF AEndsLast, BothBorn
  <2> USE DEF ChainInv
  <2>1. \A x \in Proc : Exited(x)
    BY DEF ChainOrder, Exited, Proc, Child, GrandOf
  <2>2. {"A", "B"} \subseteq Wrote /\ Wrote \subseteq Placed
        /\ (pc["B'"] = "done" => "B'" \in Wrote)
    BY DEF ChainOrder, Wrote, Placed, Proc
  <2>3. pos["A"] + Short <= Len(file) /\ pos["A"] >= pos["B"] + Short
        /\ pos["B"] >= OldSize
        /\ (pc["B'"] = "done" => /\ pos["B"] >= pos["B'"] + Short + 1
                                 /\ pos["B'"] >= OldSize)
    BY <2>2, ChildAssumption DEF LinesKept, Waited, LineLen, ChainTypes, Proc
  <2>4. pos \in [Proc -> Nat] /\ Len(file) \in Nat
    BY LenProperties DEF ChainTypes
  <2>5. Len(file) >= OldSize + 2 * Short + (IF pc["B'"] = "done" THEN Short + 1 ELSE 0)
    BY <2>3, <2>4, ChildAssumption DEF Proc
  <2>6. /\ Share["A"] \in {0, Short} /\ Share["B"] \in {0, Short}
        /\ Share["C"] \in {0, Short} /\ Share["B'"] \in {0, Short + 1}
        /\ Share["C'"] \in {0, Short + 1}
    BY DEF Share, LineLen, Proc
  <2>7. Len(file) <= OldSize + 5 * Short + 2
    <3> DEFINE a1 == Share["A"]   b1 == Share["B"]   b2 == Share["B'"]
               c1 == Share["C"]   c2 == Share["C'"]
    <3>1. Len(file) <= OldSize + a1 + b1 + b2 + c1 + c2
      BY DEF LengthBound
    <3>2. Short \in Nat /\ OldSize \in Nat /\ Len(file) \in Nat
      BY <2>4, ChildAssumption
    <3>3. /\ a1 \in {0, Short} /\ b1 \in {0, Short} /\ c1 \in {0, Short}
          /\ b2 \in {0, Short + 1} /\ c2 \in {0, Short + 1}
      BY <2>6
    <3> HIDE DEF a1, b1, b2, c1, c2
    <3> QED BY <3>1, <3>2, <3>3
  <2> QED BY <2>1, <2>5, <2>7
<1> QED BY ChainInvariant, <1>1, PTL

(* The steps that process x has before it at place p, its child's included *)
(* as long as it has not been forked; and those that are left to all five. *)
StepsIn(x, p) ==
  IF p = "forkB" THEN 18
  ELSE IF p = "forkC" THEN 11
  ELSE IF p = "fork" THEN 6
  ELSE IF p = "waitC" THEN 1
  ELSE IF p \in {"none", "done"} THEN 0
  ELSE (IF x = "A" THEN 1 ELSE 0) + (IF p = "wait" THEN 3 ELSE IF p = "seek" THEN 2 ELSE 1)
StepsOf(x) == StepsIn(x, pc[x])
ChainStepsLeft == StepsOf("A") + StepsOf("B") + StepsOf("B'") + StepsOf("C") + StepsOf("C'")

LEMMA StepsTypes == \A x, p : StepsIn(x, p) \in Nat
  BY DEF StepsIn

(* Nothing is done twice: every step uses one up.                          *)
LEMMA ChainsUseSteps ==
  ASSUME ChainInv, ChainsNext
  PROVE  ChainStepsLeft' < ChainStepsLeft
<1> USE DEF ChainInv, ChainTypes, ChainOrder, Child, Proc, GrandOf, Places
<1>1. ASSUME NEW x \in Proc, NEW p \in Places, Goto(x, p), StepsIn(x, p) < StepsIn(x, pc[x])
      PROVE  ChainStepsLeft' < ChainStepsLeft
  <2>1. \A y \in Proc : StepsOf(y) \in Nat
    BY StepsTypes DEF StepsOf
  <2>2. \A y \in Proc : StepsOf(y)' = IF y = x THEN StepsIn(x, p) ELSE StepsOf(y)
    BY <1>1 DEF StepsOf, Goto
  <2>3. StepsIn(x, p) \in Nat /\ StepsIn(x, p) < StepsOf(x)
    BY <1>1, StepsTypes DEF StepsOf
  <2> DEFINE a1 == StepsOf("A")   b1 == StepsOf("B")   b2 == StepsOf("B'")
             c1 == StepsOf("C")   c2 == StepsOf("C'")
             a3 == StepsOf("A")'  b3 == StepsOf("B")'  b4 == StepsOf("B'")'
             c3 == StepsOf("C")'  c4 == StepsOf("C'")'
  <2>4. /\ a1 \in Nat /\ b1 \in Nat /\ b2 \in Nat /\ c1 \in Nat /\ c2 \in Nat
        /\ a3 \in Nat /\ b3 \in Nat /\ b4 \in Nat /\ c3 \in Nat /\ c4 \in Nat
        /\ \/ a3 < a1 /\ b3 = b1 /\ b4 = b2 /\ c3 = c1 /\ c4 = c2
           \/ a3 = a1 /\ b3 < b1 /\ b4 = b2 /\ c3 = c1 /\ c4 = c2
           \/ a3 = a1 /\ b3 = b1 /\ b4 < b2 /\ c3 = c1 /\ c4 = c2
           \/ a3 = a1 /\ b3 = b1 /\ b4 = b2 /\ c3 < c1 /\ c4 = c2
           \/ a3 = a1 /\ b3 = b1 /\ b4 = b2 /\ c3 = c1 /\ c4 < c2
    BY <2>1, <2>2, <2>3
  <2>5. /\ ChainStepsLeft = a1 + b1 + b2 + c1 + c2
        /\ ChainStepsLeft' = a3 + b3 + b4 + c3 + c4
    BY DEF ChainStepsLeft
  <2> HIDE DEF a1, b1, b2, c1, c2, a3, b3, b4, c3, c4
  <2> QED BY <2>4, <2>5
<1>2. ASSUME NEW x \in Child, ForkChild(x) PROVE ChainStepsLeft' < ChainStepsLeft
  <2>1. CASE x = "B"
    <3>1. pc["A"] = "forkB" /\ pc["B"] = "none"
      BY <1>2, <2>1 DEF ForkChild
    <3>2. /\ pc'["A"] = "forkC" /\ pc'["B"] \in {"fork", "none"}
          /\ \A y \in {"B'", "C", "C'"} : pc'[y] = pc[y]
      BY <1>2, <2>1 DEF ForkChild
    <3> QED BY <3>1, <3>2, StepsTypes DEF ChainStepsLeft, StepsOf, StepsIn
  <2>2. CASE x = "C"
    <3>1. pc["A"] = "forkC" /\ pc["C"] = "none"
      BY <1>2, <2>2 DEF ForkChild
    <3>2. /\ pc'["A"] \in {"wait", "done"} /\ pc'["C"] \in {"fork", "none"}
          /\ \A y \in {"B", "B'", "C'"} : pc'[y] = pc[y]
      BY <1>2, <2>2 DEF ForkChild
    <3> QED BY <3>1, <3>2, StepsTypes DEF ChainStepsLeft, StepsOf, StepsIn
  <2> QED BY <2>1, <2>2
<1>3. ASSUME NEW x \in Child, ForkGrand(x) PROVE ChainStepsLeft' < ChainStepsLeft
  <2>1. pc[x] = "fork" /\ pc[GrandOf[x]] = "none"
    BY <1>3 DEF ForkGrand
  <2>2. /\ pc'[x] = "wait" /\ pc'[GrandOf[x]] \in {"seek", "none"}
        /\ \A y \in Proc \ {x, GrandOf[x]} : pc'[y] = pc[y]
    BY <1>3 DEF ForkGrand
  <2> QED BY <2>1, <2>2, StepsTypes DEF ChainStepsLeft, StepsOf, StepsIn
<1>4. ASSUME NEW x \in Child, WaitGrand(x) PROVE ChainStepsLeft' < ChainStepsLeft
  BY <1>1, <1>4 DEF WaitGrand, StepsIn
<1>5. CASE WaitB \/ WaitC
  BY <1>1, <1>5 DEF WaitB, WaitC, StepsIn
<1>6. ASSUME NEW x \in Proc, Seek(x) \/ WriteLine(x) PROVE ChainStepsLeft' < ChainStepsLeft
  BY <1>1, <1>6 DEF Seek, WriteLine, StepsIn
<1> QED BY <1>2, <1>3, <1>4, <1>5, <1>6 DEF ChainsNext

(* The five processes of 4.2 take 18 steps at most, however they are       *)
(* scheduled and whichever forks fail.                                     *)
THEOREM ChainsTerminate ==
  ChainsSpec => /\ [](ChainStepsLeft \in 0..18)
                /\ [][ChainStepsLeft' < ChainStepsLeft]_chainVars
<1>1. ChainInv => ChainStepsLeft \in Nat
  BY StepsTypes DEF ChainStepsLeft, StepsOf
<1>2. ChainsInit => ChainStepsLeft <= 18
  BY DEF ChainsInit, Proc, ChainStepsLeft, StepsOf, StepsIn
<1>3. ChainInv /\ ChainInv' /\ ChainStepsLeft <= 18 /\ [ChainsNext]_chainVars
        => (ChainStepsLeft <= 18)'
  <2> SUFFICES ASSUME ChainInv, ChainInv', ChainStepsLeft <= 18, [ChainsNext]_chainVars
               PROVE  ChainStepsLeft' <= 18
    OBVIOUS
  <2>1. CASE ChainsNext
    BY <1>1, <2>1, ChainsUseSteps, StepsTypes DEF ChainStepsLeft, StepsOf
  <2>2. CASE UNCHANGED chainVars
    BY <2>2 DEF chainVars, ChainStepsLeft, StepsOf
  <2> QED BY <2>1, <2>2
<1>4. ChainInv /\ ChainStepsLeft <= 18 => ChainStepsLeft \in 0..18
  BY <1>1
<1>5. ChainInv /\ [ChainsNext]_chainVars => [ChainStepsLeft' < ChainStepsLeft]_chainVars
  BY ChainsUseSteps
<1> QED BY ChainInvariant, <1>2, <1>3, <1>4, <1>5, PTL DEF ChainsSpec

(* x is blocked in wait() or waitpid(), for a child that has not ended.    *)
InWait(x) ==
  \/ x \in Child /\ pc[x] = "wait" /\ ~Exited(GrandOf[x])
  \/ x = "A" /\ pc[x] = "wait" /\ pc["B"] # "done"
  \/ x = "A" /\ pc[x] = "waitC" /\ pc["C"] # "done"

(* No wait of 4.2 is for ever: whenever a process is blocked in one, some  *)
(* process that has not ended is not blocked.                              *)
THEOREM SomeChildRuns ==
  ChainsSpec => []((\E x \in Proc : InWait(x)) => \E x \in Proc : ~Exited(x) /\ ~InWait(x))
<1>1. ChainInv =>
        ((\E x \in Proc : InWait(x)) => \E x \in Proc : ~Exited(x) /\ ~InWait(x))
  <2> SUFFICES ASSUME ChainInv, NEW x \in Proc, InWait(x)
               PROVE  \E y \in Proc : ~Exited(y) /\ ~InWait(y)
    OBVIOUS
  <2> USE DEF ChainInv, ChainTypes, ChainOrder, Proc, Child, GrandOf, BothBorn, Exited,
              InWait, Places
  (* A grandchild waits for nobody. *)
  <2>1. ASSUME NEW y \in Child, InWait(y) PROVE \E z \in Proc : ~Exited(z) /\ ~InWait(z)
    BY <2>1
  <2>2. ASSUME x = "A" PROVE \E y \in Child : ~Exited(y)
    BY <2>2
  <2>3. CASE x = "A"
    BY <2>1, <2>2
  <2>4. CASE x # "A"
    BY <2>1, <2>4
  <2> QED BY <2>3, <2>4
<1> QED BY ChainInvariant, <1>1, PTL
=============================================================================
