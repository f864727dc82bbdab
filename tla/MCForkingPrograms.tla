------------------------- MODULE MCForkingPrograms -------------------------
(***************************************************************************)
(* The two programs of 4-Process-Management that fork, side by side.  They *)
(* share nothing: each property is about one of them, whatever the other   *)
(* does in between.                                                        *)
(***************************************************************************)
EXTENDS SafeForkZombie, ChildProcesses

MCVars == <<forkVars, chainVars>>

MCInit == ForksInit /\ ChainsInit

MCNext ==
  \/ ForksNext /\ UNCHANGED chainVars
  \/ ChainsNext /\ UNCHANGED forkVars

MCSpec == MCInit /\ [][MCNext]_MCVars
=============================================================================
