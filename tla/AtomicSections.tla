--------------------------- MODULE AtomicSections ---------------------------
(***************************************************************************)
(* What 5-Thread/5.2-Thread-management promises about its data, with the   *)
(* threads, the mutex and the turn-taking left out: the record in memory   *)
(* and the record in thongtinsinhvien.txt change only by a whole entry, a  *)
(* whole save or a whole load.  The one exception is a process that dies   *)
(* in the middle of a save: the file then keeps the fields already written *)
(* and loses nothing else.                                                 *)
(***************************************************************************)
EXTENDS StudentRecord

VARIABLES record,  \* the global `human`
          stored   \* the three 30-byte slots of the file

avars == <<record, stored>>


AInit ==
  /\ record = BlankRecord
  /\ stored = BlankRecord

Enter ==
  /\ \E p \in Person : record' = [f \in Field |-> Typed(p)]
  /\ UNCHANGED stored

Save ==
  /\ stored' = [f \in Field |-> Line(record[f])]
  /\ UNCHANGED record

Load ==
  /\ record' = stored
  /\ UNCHANGED stored

(* Fields are written in this order, so a dying save leaves a prefix. *)
Prefixes == {{}, {"name"}, {"name", "birthyear"}, Field}

Die ==
  /\ \E written \in Prefixes :
       stored' = [f \in Field |-> IF f \in written THEN Line(record[f])
                                                   ELSE stored[f]]
  /\ record' = BlankRecord

ANext == Enter \/ Save \/ Load \/ Die

ASpec == AInit /\ [][ANext]_avars
=============================================================================
