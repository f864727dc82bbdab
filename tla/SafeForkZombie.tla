--------------------------- MODULE SafeForkZombie ---------------------------
(****************************************************************************)
(* 4-Process-Management/4.3-safe-fork-zombie/main.c: a parent forks 5000    *)
(* children that exit at once and reaps them, one wait(NULL) per SIGCHLD,   *)
(* in a handler that may interrupt it anywhere.  Signals do not queue: of   *)
(* several deaths before the handler runs only one is told, so zombies      *)
(* stay behind and are left to init when main returns.                      *)
(*                                                                          *)
(* Children are counted, not named: nothing here depends on which is which. *)
(****************************************************************************)
EXTENDS Integers

CONSTANT Forks   \* 5000 in the source

ASSUME ForksAssumption == Forks \in Nat

VARIABLES
  i,        \* main's loop counter
  place,    \* "loop", "handler" or "done": where the parent is
  alive,    \* children that have not exited
  zombies,  \* children that have exited and are not reaped
  pending   \* SIGCHLD is pending for the parent

forkVars == <<i, place, alive, zombies, pending>>

ForksInit ==
  /\ i = 0 /\ place = "loop"
  /\ alive = 0 /\ zombies = 0 /\ pending = FALSE

ForkOne ==
  /\ place = "loop" /\ i < Forks
  /\ i' = i + 1 /\ alive' = alive + 1
  /\ UNCHANGED <<place, zombies, pending>>

(* childPid[i] = -1 is not looked at. *)
ForkOneFails ==
  /\ place = "loop" /\ i < Forks
  /\ i' = i + 1
  /\ UNCHANGED <<place, alive, zombies, pending>>

(* exit(): the signal is pending once, however many children have ended.   *)
ChildExits ==
  /\ alive > 0
  /\ alive' = alive - 1
  /\ zombies' = IF place = "done" THEN zombies ELSE zombies + 1
  /\ pending' = (place # "done")
  /\ UNCHANGED <<i, place>>

(* Wrong: the signal stays pending while it is handled. *)
HandlerBeginsAgain ==
  /\ place = "loop" /\ pending
  /\ place' = "handler"
  /\ UNCHANGED <<i, alive, zombies, pending>>

(* The handler runs with SIGCHLD blocked. *)
HandlerBegins ==
  /\ place = "loop" /\ pending
  /\ place' = "handler" /\ pending' = FALSE
  /\ UNCHANGED <<i, alive, zombies>>

(* wait(NULL): one zombie, or an error without children; otherwise it      *)
(* blocks until a child exits.                                             *)
Wait ==
  /\ place = "handler"
  /\ zombies > 0 \/ alive = 0
  /\ zombies' = IF zombies > 0 THEN zombies - 1 ELSE 0
  /\ place' = "loop"
  /\ UNCHANGED <<i, alive, pending>>

(* main returns; init reaps what is left. *)
Return ==
  /\ place = "loop" /\ i = Forks
  /\ place' = "done" /\ zombies' = 0 /\ pending' = FALSE
  /\ UNCHANGED <<i, alive>>

MainStep == ForkOne \/ ForkOneFails \/ HandlerBegins \/ Wait \/ Return

ForksNext == MainStep \/ ChildExits

ForksSpec == ForksInit /\ [][ForksNext]_forkVars

-----------------------------------------------------------------------------
CountersOK ==
  /\ i \in 0..Forks
  /\ place \in {"loop", "handler", "done"}
  /\ alive \in 0..Forks /\ zombies \in 0..Forks
  /\ pending \in BOOLEAN

(* The handler's wait(NULL) finds a zombie at once: it never blocks the    *)
(* forking loop and never fails, though deaths may come while the handler  *)
(* runs and several deaths may raise one signal.                           *)
WaitNeverBlocks == place = "handler" => zombies > 0
=============================================================================
