--------------------------- MODULE StudentRecord ---------------------------
(***************************************************************************)
(* The record of 5-Thread/5.2-Thread-management: human_t in memory and its *)
(* three 30-byte slots in thongtinsinhvien.txt.  A field is the text typed *)
(* for some person and the number of newlines that follow it; which text   *)
(* is all a property can tell apart.                                       *)
(***************************************************************************)
EXTENDS Naturals

CONSTANTS Person,       \* whose data the user types
          Blank,        \* the empty string
          MaxNewlines   \* newlines after a text are counted up to here

ASSUME RecordAssumption ==
  /\ Blank \notin Person
  /\ MaxNewlines \in Nat \ {0}

Field == {"name", "birthyear", "country"}
Cell == [text : Person \cup {Blank}, nl : 0..MaxNewlines]
Record == [Field -> Cell]
BlankRecord == [f \in Field |-> [text |-> Blank, nl |-> 0]]

(* scanf("%s"): the text alone. *)
Typed(p) == [text |-> p, nl |-> 0]

(* sprintf(buf, "%s\n", text): one newline more than the text had. *)
Line(c) == [c EXCEPT !.nl = IF @ < MaxNewlines THEN @ + 1 ELSE @]
=============================================================================
