-------------------------- MODULE ThreadManagement --------------------------
(***************************************************************************)
(* 5-Thread/5.2-Thread-management/main.c: three threads share the global   *)
(* record `human` and the file thongtinsinhvien.txt.  Thread 1 asks the    *)
(* user for a record, thread 2 saves it, thread 3 loads it back and prints *)
(* it.  A mutex covers each of the three jobs; the order between them is   *)
(* a global int, running_thread, that each thread writes after it unlocks  *)
(* and then spins on.  running_thread starts at 0 and nobody waits before  *)
(* the first round, so the three start together.                           *)
(*                                                                         *)
(* One step is one access to shared state: taking or releasing the mutex,  *)
(* one field, one access to running_thread.  Opening, seeking and closing  *)
(* the file touch nothing shared and go with the neighbouring step.  Texts *)
(* fit their 31-byte arrays.                                               *)
(***************************************************************************)
EXTENDS StudentRecord, FiniteSets

VARIABLES
  main,      \* where main() is
  made,      \* threads pthread_create has started
  published, \* threads whose id main() has stored in threadID1..3
  pc,        \* where each thread is in thread_handle
  mtx,       \* the mutex's owner, 0 when free
  running,   \* running_thread
  human,     \* the global record
  file,      \* the three slots of thongtinsinhvien.txt; survives the process
  typed,     \* what the user is typing (thread 1's prompts)
  \* History: not in the program, never read by its steps.
  entered,   \* the last record thread 1 completed, Blank if none
  steady,    \* a thread-1 round began with one thread able to run
  kept       \* the value, at Lock, of what the section overwrites

progVars == <<main, made, published, pc, mtx, running, human, file, typed>>
histVars == <<entered, steady, kept>>
vars == <<main, made, published, pc, mtx, running, human, file, typed,
          entered, steady, kept>>

Thread == 1..3
(* Wrong orders: counting from 0; 3 after 1. *)
SuccModulo(t) == (t + 1) % 3
SuccSkipsSave(t) == IF t = 3 THEN 1 ELSE 3

(* The thread that t's last assignment hands over to. *)
Succ(t) == IF t = 3 THEN 1 ELSE t + 1

(* The places between lock and unlock: the field about to be handled. *)
InSection == Field \cup {"unlock"}
Place == InSection \cup {"unborn", "identify", "lock", "signal", "spin"}

After(f) == CASE f = "name"      -> "birthyear"
              [] f = "birthyear" -> "country"
              [] f = "country"   -> "unlock"

Goto(t, p) == pc' = [pc EXCEPT ![t] = p]

Init ==
  /\ main = "boot" /\ made = 0 /\ published = 0
  /\ pc = [t \in Thread |-> "unborn"]
  /\ mtx = 0 /\ running = 0
  /\ human = BlankRecord /\ file = BlankRecord
  /\ typed = Blank /\ entered = Blank
  /\ steady = FALSE /\ kept = BlankRecord

-----------------------------------------------------------------------------
(* main() *)

(* open(O_CREAT) and close: the file exists from here on. *)
OpenFile ==
  /\ main = "boot" /\ main' = "create"
  /\ UNCHANGED <<made, published, pc, mtx, running, human, file, typed,
                 histVars>>

(* pthread_create: the thread may run before its id is stored. *)
CreateThread ==
  /\ main = "create" /\ main' = "publish"
  /\ made' = made + 1
  /\ Goto(made + 1, "identify")
  /\ UNCHANGED <<published, mtx, running, human, file, typed, histVars>>

PublishId ==
  /\ main = "publish"
  /\ main' = IF made = 3 THEN "serve" ELSE "create"
  /\ published' = made
  /\ UNCHANGED <<made, pc, mtx, running, human, file, typed, histVars>>

(* The process ends and takes the memory and the mutex with it. *)
EndProcess ==
  /\ main' = "dead" /\ made' = 0 /\ published' = 0
  /\ pc' = [t \in Thread |-> "unborn"]
  /\ mtx' = 0 /\ running' = 0
  /\ human' = BlankRecord
  /\ typed' = Blank /\ entered' = Blank
  /\ steady' = FALSE /\ kept' = BlankRecord
  /\ UNCHANGED file

(* exit(-1): the threads already started stop wherever they are. *)
CreateFails == main = "create" /\ EndProcess

Kill == main # "dead" /\ EndProcess

Restart ==
  /\ main = "dead" /\ main' = "boot"
  /\ UNCHANGED <<made, published, pc, mtx, running, human, file, typed,
                 histVars>>

-----------------------------------------------------------------------------
(* thread_handle *)

(* The if-chain matches no branch until the thread's id is stored. *)
Identify(t) ==
  /\ pc[t] = "identify" /\ t <= published
  /\ Goto(t, "lock")
  /\ UNCHANGED <<main, made, published, mtx, running, human, file, typed,
                 histVars>>

(* A thread can run when it is not waiting for its turn. *)
CanRun(t) == pc[t] # "spin" \/ running = t
SingleRunner == \E t \in Thread : \A u \in Thread : CanRun(u) <=> u = t

Lock(t) ==
  /\ pc[t] = "lock" /\ mtx = 0
  /\ mtx' = t
  /\ Goto(t, "name")
  /\ kept' = IF t = 2 THEN file ELSE human
  /\ steady' = (steady \/ (t = 1 /\ SingleRunner))
  /\ UNCHANGED <<main, made, published, running, human, file, typed, entered>>

(* Thread 1: scanf one field. *)
TypeField(f) ==
  /\ pc[1] = f
  /\ \E p \in Person :
       /\ f = "name" \/ p = typed
       /\ typed' = p
       /\ human' = [human EXCEPT ![f] = Typed(p)]
  /\ Goto(1, After(f))
  /\ UNCHANGED <<main, made, published, mtx, running, file, histVars>>

(* Wrong: seeking to the start before every field. *)
SaveFieldRewinds(f) ==
  /\ pc[2] = f
  /\ file' = [file EXCEPT !["name"] = Line(human[f])]
  /\ Goto(2, After(f))
  /\ UNCHANGED <<main, made, published, mtx, running, human, typed, histVars>>

(* Thread 2: sprintf and write one 30-byte slot. *)
SaveField(f) ==
  /\ pc[2] = f
  /\ file' = [file EXCEPT ![f] = Line(human[f])]
  /\ Goto(2, After(f))
  /\ UNCHANGED <<main, made, published, mtx, running, human, typed, histVars>>

(* Thread 3: read one slot into the record and print it. *)
LoadField(f) ==
  /\ pc[3] = f
  /\ human' = [human EXCEPT ![f] = file[f]]
  /\ Goto(3, After(f))
  /\ UNCHANGED <<main, made, published, mtx, running, file, typed, histVars>>

Unlock(t) ==
  /\ pc[t] = "unlock"
  /\ mtx' = 0
  /\ Goto(t, "signal")
  /\ entered' = IF t = 1 THEN typed ELSE entered
  /\ kept' = BlankRecord
  /\ UNCHANGED <<main, made, published, running, human, file, typed, steady>>

(* running_thread = ..., outside the mutex. *)
Signal(t) ==
  /\ pc[t] = "signal"
  /\ running' = Succ(t)
  /\ Goto(t, "spin")
  /\ UNCHANGED <<main, made, published, mtx, human, file, typed, histVars>>

(* Wrong: the spin ends whatever running_thread says. *)
LeaveSpinEarly(t) ==
  /\ pc[t] = "spin"
  /\ Goto(t, "lock")
  /\ UNCHANGED <<main, made, published, mtx, running, human, file, typed,
                 histVars>>

(* while(running_thread != t); and round the loop again. *)
LeaveSpin(t) ==
  /\ pc[t] = "spin" /\ running = t
  /\ Goto(t, "lock")
  /\ UNCHANGED <<main, made, published, mtx, running, human, file, typed,
                 histVars>>

HandleField(f) == TypeField(f) \/ SaveField(f) \/ LoadField(f)

ThreadStep(t) ==
  Identify(t) \/ Lock(t) \/ Unlock(t) \/ Signal(t) \/ LeaveSpin(t)

MainStep == OpenFile \/ CreateThread \/ PublishId

Next ==
  \/ MainStep
  \/ CreateFails \/ Kill \/ Restart
  \/ \E t \in Thread : ThreadStep(t)
  \/ \E f \in Field : HandleField(f)

Spec == Init /\ [][Next]_vars

(* The scheduler runs every thread, the user answers every prompt.  Nothing *)
(* is assumed of Kill and CreateFails, nor that the mutex is fair.          *)
Fairness ==
  /\ WF_vars(MainStep)
  /\ \A t \in Thread : WF_vars(ThreadStep(t))
  /\ \A f \in Field : WF_vars(TypeField(f)) /\ WF_vars(SaveField(f))
                      /\ WF_vars(LoadField(f))

FairSpec == Spec /\ Fairness

-----------------------------------------------------------------------------
TypeOK ==
  /\ main \in {"boot", "create", "publish", "serve", "dead"}
  /\ made \in 0..3 /\ published \in 0..3
  /\ pc \in [Thread -> Place]
  /\ mtx \in 0..3 /\ running \in 0..3
  /\ human \in Record /\ file \in Record /\ kept \in Record
  /\ typed \in Person \cup {Blank} /\ entered \in Person \cup {Blank}
  /\ steady \in BOOLEAN

(* Between lock and unlock there is one thread, and it owns the mutex: the *)
(* record and the file are never handled by two threads at once, wherever  *)
(* the three started and whoever wrote running_thread last.                *)
MutualExclusion == \A t \in Thread : pc[t] \in InSection <=> mtx = t

(* The three never wait for each other all at once: whatever order the     *)
(* late, unprotected writes of running_thread land in, the value left      *)
(* names a thread that is waiting or some thread is not waiting at all.    *)
SomebodyCanRun == \E t \in Thread : CanRun(t)

Runners == {t \in Thread : CanRun(t)}

(* Handing over never wakes more threads than were running: the start-up   *)
(* crowd of three can only shrink, one runner stays one runner.            *)
RunnersNeverMultiply ==
  [][main' # "dead" => Cardinality(Runners') <= Cardinality(Runners)]_vars

(* Once thread 1 begins a round as the only runner, every record thread 3  *)
(* has printed is the record entered last, each field with one newline:    *)
(* nothing typed is lost, mixed or shown twice, even when a crash had left *)
(* a torn file behind.  Before that point (three runners at start-up) the  *)
(* code does lose input: thread 3 may load the old file over it.           *)
SteadyRelay ==
  (steady /\ pc[3] = "unlock") =>
    human = [f \in Field |-> Line(Typed(entered))]

(* The half-done section is hidden: the section has not happened yet. *)
Inside(t) == pc[t] \in InSection
Sections == INSTANCE AtomicSections WITH
  record <- IF Inside(1) \/ Inside(3) THEN kept ELSE human,
  stored <- IF Inside(2) THEN kept ELSE file

(* Every lock..unlock section takes effect as one whole entry, save or     *)
(* load, and a process that dies leaves a prefix of a save, no more.       *)
SectionsAreAtomic == Sections!ASpec

(* While the process lives, every thread enters its section again and      *)
(* again, without a fair mutex: a thread that waits for the mutex blocks   *)
(* the hand-over its rivals need, so they end up spinning.                 *)
EveryThreadKeepsWorking ==
  \A t \in Thread : <>[](main = "serve") => []<>(mtx = t)

(* Two runners may chase each other for ever, and then input is lost; but  *)
(* what is entered while one thread runs at a time is printed in the end,  *)
(* unless the process dies first.                                          *)
EnteredIsShown ==
  \A p \in Person :
    (steady /\ pc[1] = "signal" /\ entered = p) ~>
      (main = "dead" \/ (pc[3] = "unlock" /\ human["country"].text = p))
=============================================================================
