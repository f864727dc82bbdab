----------------------------- MODULE PinTouches -----------------------------
(***************************************************************************)
(* What the other programs on the board see of gpio-sysfs.c, whoever uses  *)
(* it in whatever way: at any time it may request a pin, and may set the   *)
(* direction or the value of a pin, whether or not it has requested it.    *)
(* It never frees one.                                                     *)
(***************************************************************************)
EXTENDS GpioPins

TakesPin(p) ==
  req' = Requested(req, p, "diy") /\ UNCHANGED <<out, high, classes, irq>>

TurnsPin(p) ==
  /\ Input(p) \/ (~Locked(p) /\ Output(p))
  /\ UNCHANGED <<req, classes, irq>>

SetsPin(p) ==
  (\E v \in {0, 1} : SetValue(p, v)) /\ UNCHANGED <<req, out, classes, irq>>

Touch == \E p \in Pin : TakesPin(p) \/ TurnsPin(p) \/ SetsPin(p)

TouchSpec == PinsInit /\ [][Touch]_pins
=============================================================================
