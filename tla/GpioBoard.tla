----------------------------- MODULE GpioBoard ------------------------------
(***************************************************************************)
(* Everything in 04 and 05 on one board: the interrupt driver and the      *)
(* polling application, which share pins 30 and 31 with each other and     *)
(* with the sysfs driver.  Of that one there are its touches of the pins,  *)
(* as GpioSysfs implements them.                                           *)
(***************************************************************************)
EXTENDS PinTouches, GpioPolling

VARIABLES \* History, of this run of the application.
  turned, \* the sysfs driver has made an input of the LED
  yanks,  \* how often a pin was freed whose file the application had open
  away,   \* the button's pin was another's at the start, or freed since
  odd,    \* the handler ran an odd number of times since the LED was read
  alone   \* and nobody else has changed the LED since

story == <<turned, yanks, away, odd, alone>>
vars == <<pins, polling, story>>

Init ==
  /\ PinsInit /\ PollingInit
  /\ turned = FALSE /\ yanks = 0 /\ away = FALSE /\ odd = FALSE /\ alone = FALSE

LedKept == (Led \in out' <=> Led \in out) /\ (Led \in high' <=> Led \in high)

(* The places of main behind GPIODirection(30, OUT). *)
SetUp == {"low", "poll", "read", "write"}

(* What the history keeps of a step of the sysfs driver. *)
SysfsNoted ==
  /\ turned' = IF app \in SetUp /\ Led \in out \ out' THEN TRUE ELSE turned
  /\ alone' = IF LedKept THEN alone ELSE FALSE
  /\ UNCHANGED <<polling, yanks, away, odd>>

SysfsTouches == Touch /\ SysfsNoted

ButtonActs ==
  /\ ButtonNext
  /\ yanks' = IF file \in classes \ classes' THEN yanks + 1 ELSE yanks
  /\ away' = (away \/ (app \notin {"off", "export31"} /\ ButtonFreesBtn))
  /\ odd' = IF app = "write" /\ Pushed THEN ~odd ELSE odd
  /\ alone' = (alone /\ (Pushed \/ LedKept))
  /\ UNCHANGED turned

AppActs ==
  /\ AppNext
  /\ turned' = (turned /\ app' # "off")
  /\ yanks' = IF app' = "off" THEN 0 ELSE yanks
  /\ away' = IF app = "export31" THEN req[Btn] \notin {None, "class"}
                                 ELSE away /\ app' # "off"
  /\ odd' = (odd /\ app = "write" /\ app' = "write")
  /\ alone' = (app' = "write" /\ (alone \/ app = "read"))

Next == SysfsTouches \/ ButtonActs \/ AppActs

Spec == Init /\ [][Next]_vars

-----------------------------------------------------------------------------
TypeOK ==
  /\ req \in [Pin -> {None, "diy", "class", "button"}]
  /\ out \subseteq Pin /\ high \subseteq out /\ classes \subseteq Pin
  /\ irq \in BOOLEAN
  /\ button \in {"out", "led", "btn", "in", "dark", "deaf", "half"}
  /\ file \in {None, Led, Btn} /\ seen \in {-1, 0, 1} /\ fds \in 0..MaxFds
  /\ app \in SetUp \cup {"off", "export31", "in31", "export30", "out30"}
  /\ turned \in BOOLEAN /\ yanks \in Nat /\ away \in BOOLEAN
  /\ odd \in BOOLEAN /\ alone \in BOOLEAN

(* The application loses a descriptor exactly as often as the interrupt    *)
(* driver takes away a pin between its open and its read or write, unless  *)
(* the sysfs driver has made an input of the pin it writes to; at MaxFds   *)
(* it has lost sight of both pins for ever.                                *)
LeaksCounted ==
  ~turned => fds = IF file \in classes \cup {None} THEN yanks ELSE yanks - 1

(* The application polls a button that is not there exactly when another   *)
(* driver had its pin at the start or btn_exit has freed it since, whoever *)
(* had requested it: nothing else takes the pin away, and nothing brings   *)
(* it back as long as the application runs.                                *)
DeafWhenRobbed ==
  app \in {"poll", "read", "write"} => (Btn \notin classes <=> away)

(* Read, decide, write, with the interrupt handler in between: if nobody   *)
(* else changed the LED, it is as before the application's write if the    *)
(* handler ran an odd number of times (one of two toggles is lost), and    *)
(* turned over if an even number.                                          *)
TogglesAdd ==
  [][(app = "write" /\ app' = "poll" /\ file = Led /\ Led \in classes \cap out
        /\ alone /\ seen # -1)
       => ((Led \in high' <=> Led \in high) <=> odd)]_vars
=============================================================================
