------------------------------ MODULE GpioPins ------------------------------
(***************************************************************************)
(* The kernel's GPIO library as the programs in 04 and 05 use it: who has  *)
(* requested a pin, its direction and, of an output, its level.  External. *)
(* Nothing checks that the one who drives a pin has requested it; only the *)
(* direction of a pin with an interrupt is locked.                         *)
(***************************************************************************)
EXTENDS Integers

CONSTANTS Led, Btn, \* pins 30 and 31
          Pin       \* these and others that are exported

ASSUME PinAssumption ==
  {Led, Btn} \subseteq Pin /\ Led # Btn /\ "none" \notin Pin

VARIABLES
  req,   \* who has requested each pin: nobody, "diy", "class" or "button"
  out,   \* the pins that are outputs
  high,  \* the outputs that are high
  classes, \* the pins exported in /sys/class/gpio
  irq    \* Btn is the source of a requested interrupt

pins == <<req, out, high, classes, irq>>

None == "none"

PinsInit ==
  /\ req = [p \in Pin |-> None] /\ out = {} /\ high = {}
  /\ classes = {} /\ irq = FALSE

(* gpio_request; all callers ignore its result. *)
Requested(r, p, who) == IF r[p] = None THEN [r EXCEPT ![p] = who] ELSE r

(* gpio_direction_input. *)
Input(p) == out' = out \ {p} /\ high' = high \ {p}

Locked(p) == p = Btn /\ irq

(* gpio_direction_output(p, 0) of a pin that is not locked. *)
Output(p) == out' = out \cup {p} /\ high' = high \ {p}

(* gpio_set_value: an input does not show it. *)
SetValue(p, v) == high' = IF v = 1 /\ p \in out THEN high \cup {p} ELSE high \ {p}

(* gpio_get_value: an input has the level somebody gives it. *)
Levels(p) == IF p \notin out THEN {0, 1} ELSE IF p \in high THEN {1} ELSE {0}
=============================================================================
