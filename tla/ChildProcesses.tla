--------------------------- MODULE ChildProcesses ---------------------------
(***************************************************************************)
(* 4-Process-Management/4.2-child-process-management/main.c: A forks B and *)
(* C, B forks B', C forks C'; every process appends its line to file.txt,  *)
(* a child before its parent: B' then B then A, C' then C.  Appending is   *)
(* an lseek to the end and a write, two calls, and the two chains run side *)
(* by side without a lock: one can write over the other's line.            *)
(*                                                                         *)
(* The file is a sequence of bytes, each marked with who wrote it.  B' and *)
(* C' have the longer line (18 bytes against 17).                          *)
(***************************************************************************)
EXTENDS Integers, Sequences

CONSTANTS Short, OldSize  \* a short line's bytes, what earlier runs left

ASSUME ChildAssumption == Short \in Nat \ {0} /\ OldSize \in Nat

VARIABLES
  pc,    \* where each process is
  file,  \* file.txt
  pos    \* the offset of each process's own descriptor

chainVars == <<pc, file, pos>>

Child == {"B", "C"}
Proc == {"A", "B", "B'", "C", "C'"}
GrandOf == [B |-> "B'", C |-> "C'"]
LineLen(x) == IF x \in {"B'", "C'"} THEN Short + 1 ELSE Short

(* A has forked x, or tried to: "none" afterwards means fork failed. *)
Exited(x) == pc[x] \in {"none", "done"}
Goto(x, p) == pc' = [pc EXCEPT ![x] = p]

Places == {"none", "forkB", "forkC", "fork", "wait", "seek", "write",
           "waitC", "done"}

ChainsInit ==
  /\ pc = [x \in Proc |-> IF x = "A" THEN "forkB" ELSE "none"]
  /\ file = [n \in 1..OldSize |-> "old"]
  /\ pos = [x \in Proc |-> 0]

(* A: fork() in the loop; a failure is looked at only after the loop. *)
ForkChild(x) ==
  /\ pc["A"] = IF x = "B" THEN "forkB" ELSE "forkC"
  /\ \E born \in BOOLEAN :
       LET both == born /\ pc["B"] # "none"
           next == IF x = "B" THEN "forkC" ELSE IF both THEN "wait" ELSE "done"
       IN pc' = [pc EXCEPT !["A"] = next, ![x] = IF born THEN "fork" ELSE "none"]
  /\ UNCHANGED <<file, pos>>

(* B and C: fork(); after a failure wait() returns at once. *)
ForkGrand(x) ==
  /\ pc[x] = "fork"
  /\ \E born \in BOOLEAN :
       pc' = [pc EXCEPT ![x] = "wait",
                        ![GrandOf[x]] = IF born THEN "seek" ELSE "none"]
  /\ UNCHANGED <<file, pos>>

(* Wrong: no wait at all. *)
NoWaitGrand(x) ==
  /\ pc[x] = "wait"
  /\ Goto(x, "seek")
  /\ UNCHANGED <<file, pos>>

(* wait(&status) in B and C. *)
WaitGrand(x) ==
  /\ pc[x] = "wait" /\ Exited(GrandOf[x])
  /\ Goto(x, "seek")
  /\ UNCHANGED <<file, pos>>

(* waitpid(child[0]) before A writes. *)
WaitB ==
  /\ pc["A"] = "wait" /\ pc["B"] = "done"
  /\ Goto("A", "seek")
  /\ UNCHANGED <<file, pos>>

(* open and lseek(fd, 0, SEEK_END) *)
Seek(x) ==
  /\ pc[x] = "seek"
  /\ pos' = [pos EXCEPT ![x] = Len(file)]
  /\ Goto(x, "write")
  /\ UNCHANGED file

Overlay(x) ==
  LET end == pos[x] + LineLen(x)
  IN [n \in 1..(IF end > Len(file) THEN end ELSE Len(file)) |->
        IF n > pos[x] /\ n <= end THEN x ELSE file[n]]

(* Wrong: A leaves without waiting for C. *)
WriteAndLeave(x) ==
  /\ pc[x] = "write"
  /\ file' = Overlay(x)
  /\ Goto(x, "done")
  /\ UNCHANGED pos

(* write and close; a child exits, A still waits for C. *)
WriteLine(x) ==
  /\ pc[x] = "write"
  /\ file' = Overlay(x)
  /\ Goto(x, IF x = "A" THEN "waitC" ELSE "done")
  /\ UNCHANGED pos

(* waitpid(child[1]) *)
WaitC ==
  /\ pc["A"] = "waitC" /\ pc["C"] = "done"
  /\ Goto("A", "done")
  /\ UNCHANGED <<file, pos>>

ChainsNext ==
  \/ \E x \in Child : ForkChild(x) \/ ForkGrand(x) \/ WaitGrand(x)
  \/ WaitB \/ WaitC
  \/ \E x \in Proc : Seek(x) \/ WriteLine(x)

ChainsSpec == ChainsInit /\ [][ChainsNext]_chainVars

-----------------------------------------------------------------------------
Rivals(x) == IF x \in {"C", "C'"} THEN {"A", "B", "B'"} ELSE {"C", "C'"}

(* A line is damaged by the other chain only, never by the process that    *)
(* waited for its writer (wait() makes B' < B < A and C' < C), and what    *)
(* earlier runs of the program wrote is not touched at all.                *)
OnlyRivalsOverwrite ==
  /\ Len(file) >= OldSize /\ \A n \in 1..OldSize : file[n] = "old"
  /\ \A x \in Proc \ {"A"} :
       pc[x] = "done" =>
         \A n \in (pos[x] + 1)..(pos[x] + LineLen(x)) :
           file[n] \in {x} \cup Rivals(x)

(* When A ends after both forks, both chains have written and the file has *)
(* grown by the longer of them at least, by all the lines at most.         *)
AEndsLast ==
  (pc["A"] = "done" /\ pc["B"] # "none" /\ pc["C"] # "none") =>
    /\ \A x \in Proc : Exited(x)
    /\ Len(file) >= OldSize + 2 * Short
                    + (IF pc["B'"] = "done" THEN Short + 1 ELSE 0)
    /\ Len(file) <= OldSize + 5 * Short + 2
=============================================================================
