------------------------------ MODULE ButtonLed ------------------------------
(***************************************************************************)
(* 03-button-led: a push button toggles an LED from its interrupt handler, *)
(* and the device file sets the same LED by hand.  The handler follows its *)
(* own variable `state`, which a write to the device file does not update. *)
(* Both work on the whole output register of GPIO bank 0 with |=, a load   *)
(* and a store.                                                            *)
(*                                                                         *)
(* External: the AM335x has one core, so the handler preempts a write      *)
(* between its load and its store but is itself never interrupted; reading *)
(* SETDATAOUT or CLEARDATAOUT gives the register DATAOUT, writing ones to  *)
(* them raises or lowers those pins; the gpio driver raises and lowers the *)
(* other pins of the bank one at a time.  Direction and debouncing, the    *)
(* logged counter of opens and the buffers are left out.                   *)
(***************************************************************************)
EXTENDS Naturals

CONSTANTS File,   \* open files of /dev/iomodule, of one or more processes
          Led,    \* LED_POS
          Other   \* other output pins of bank 0

ASSUME BoardAssumption == Led \notin Other

VARIABLES
  mod,    \* out, init, unwind, live, exit, dark, freed; oops: exit on base_addr 0
  stage,  \* how many of init's steps are done and not undone
  ret0,   \* init's ret is 0 while it unwinds
  irqOn,  \* the handler is registered
  state,  \* what the handler takes the LED to be
  out,    \* the pins that are high
  asked,  \* the other pins their drivers want high
  pc, loaded,  \* each file's operation and the pins it has loaded
  bank,   \* the pins init or cleanup has loaded
  \* History.
  early,      \* files opened before init had returned
  wrote,      \* a write has reached the LED since the last press
  overtaken   \* a pin was lowered between a write's load and its store

drv == <<mod, stage, ret0>>
hist == <<early, wrote, overtaken>>
vars == <<mod, stage, ret0, irqOn, state, out, asked, pc, loaded, bank, early,
          wrote, overtaken>>

(* Device number, class, device, cdev, mapping, pins loaded, LED turned off. *)
CdevAdded == 4
Mapped == 5
Loaded == 6
Done == 7

(* Wrong: the store goes to DATAOUT, where a zero lowers a pin. *)
SetPinsAll(p) == out' = p \cup {Led}

(* The store of |= LED_POS after the load of pins p. *)
SetPins(p) == out' = out \cup p \cup {Led}
ClearPins(p) == out' = out \ (p \cup {Led})

Init ==
  /\ mod = "out" /\ stage = 0 /\ ret0 = FALSE /\ irqOn = FALSE /\ state = 0
  /\ out \in SUBSET Other /\ asked = out
  /\ pc = [f \in File |-> "closed"] /\ loaded = [f \in File |-> {}] /\ bank = {}
  /\ early = {} /\ wrote = FALSE /\ overtaken = FALSE

-----------------------------------------------------------------------------
(* read_write_IOmodule_init and _cleanup *)

Insmod ==
  /\ mod = "out" /\ \A f \in File : pc[f] = "closed"
  /\ mod' = "init" /\ state' = 0
  /\ UNCHANGED <<stage, ret0, irqOn, out, asked, pc, loaded, bank, hist>>

Acquire ==
  /\ mod = "init" /\ stage < Mapped /\ stage' = stage + 1
  /\ UNCHANGED <<mod, ret0, irqOn, state, out, asked, pc, loaded, bank, hist>>

(* ret is still 0 when the class (seen at device_create) or the device fails. *)
AcquireFails ==
  /\ mod = "init" /\ stage < Mapped
  /\ mod' = "unwind" /\ ret0' = (stage \in {1, 2})
  /\ UNCHANGED <<stage, irqOn, state, out, asked, pc, loaded, bank, hist>>

(* The LED is turned off, with a |= as in a write. *)
SetUpLoads ==
  /\ mod = "init" /\ stage = Mapped
  /\ stage' = Loaded /\ bank' = out
  /\ UNCHANGED <<mod, ret0, irqOn, state, out, asked, pc, loaded, hist>>

SetUpPins ==
  /\ mod = "init" /\ stage = Loaded
  /\ stage' = Done /\ ClearPins(bank) /\ bank' = {}
  /\ wrote' = FALSE
  /\ UNCHANGED <<mod, ret0, irqOn, state, asked, pc, loaded, early, overtaken>>

(* request_irq: its result goes into a uint8_t and never counts as failure. *)
RequestIrq ==
  /\ mod = "init" /\ stage = Done
  /\ mod' = "live" /\ irqOn' \in BOOLEAN
  /\ UNCHANGED <<stage, ret0, state, out, asked, pc, loaded, bank, hist>>

Unwind ==
  /\ mod = "unwind"
  /\ IF stage > 0 THEN stage' = stage - 1 /\ UNCHANGED mod
     ELSE mod' = (IF ret0 THEN "live" ELSE "out") /\ UNCHANGED stage
  /\ UNCHANGED <<ret0, irqOn, state, out, asked, pc, loaded, bank, hist>>

(* rmmod of a module nobody has open; cleanup first turns the LED off. *)
Rmmod ==
  /\ mod = "live" /\ \A f \in File : pc[f] = "closed"
  /\ IF stage = Done THEN mod' = "exit" /\ bank' = out
                     ELSE mod' = "oops" /\ UNCHANGED bank
  /\ UNCHANGED <<stage, ret0, irqOn, state, out, asked, pc, loaded, hist>>

Darken ==
  /\ mod = "exit" /\ mod' = "dark"
  /\ ClearPins(bank) /\ bank' = {}
  /\ UNCHANGED <<stage, ret0, irqOn, state, asked, pc, loaded, hist>>

(* Wrong: free_irq is missing. *)
FreeIrqForgotten ==
  /\ mod = "dark" /\ mod' = "freed" /\ UNCHANGED irqOn
  /\ UNCHANGED <<stage, ret0, state, out, asked, pc, loaded, bank, hist>>

FreeIrq ==
  /\ mod = "dark" /\ mod' = "freed" /\ irqOn' = FALSE
  /\ UNCHANGED <<stage, ret0, state, out, asked, pc, loaded, bank, hist>>

(* iounmap and the rest. *)
Release ==
  /\ mod = "freed" /\ mod' = "out" /\ stage' = 0
  /\ UNCHANGED <<ret0, irqOn, state, out, asked, pc, loaded, bank, hist>>

-----------------------------------------------------------------------------
(* btn_pushed_irq_handler *)

(* Wrong: the state stays 1 when the LED goes off. *)
PressForgets ==
  /\ irqOn
  /\ IF state = 0 THEN SetPins(out) /\ state' = 1
                  ELSE ClearPins(out) /\ UNCHANGED state
  /\ wrote' = FALSE
  /\ UNCHANGED <<drv, irqOn, asked, pc, loaded, bank, early, overtaken>>

Press ==
  /\ irqOn
  /\ IF state = 0 THEN SetPins(out) /\ state' = 1
                  ELSE ClearPins(out) /\ state' = 0
  /\ wrote' = FALSE
  /\ UNCHANGED <<drv, irqOn, asked, pc, loaded, bank, early, overtaken>>

(* The other pins: raised and lowered by the drivers that own them. *)
OtherPin(p) ==
  /\ \/ out' = out \cup {p} /\ asked' = asked \cup {p} /\ UNCHANGED overtaken
     \/ /\ out' = out \ {p} /\ asked' = asked \ {p}
        /\ overtaken' = (overtaken \/ \E f \in File : pc[f] = "on")
  /\ UNCHANGED <<drv, irqOn, state, pc, loaded, bank, early, wrote>>

-----------------------------------------------------------------------------
(* The file operations. *)

Open(f) ==
  /\ pc[f] = "closed" /\ stage >= CdevAdded
  /\ mod \in {"init", "unwind", "live"}
  /\ pc' = [pc EXCEPT ![f] = "idle"]
  /\ early' = IF mod = "live" THEN early \ {f} ELSE early \cup {f}
  /\ UNCHANGED <<drv, irqOn, state, out, asked, loaded, bank, wrote, overtaken>>

Close(f) ==
  /\ pc[f] = "idle" /\ pc' = [pc EXCEPT ![f] = "closed"]
  /\ UNCHANGED <<drv, irqOn, state, out, asked, loaded, bank, hist>>

(* Wrong: the pins are the ones the file saw before. *)
WriteCached(f) ==
  /\ pc[f] = "idle" /\ stage >= Mapped
  /\ pc' \in {[pc EXCEPT ![f] = "on"], [pc EXCEPT ![f] = "off"]}
  /\ loaded' = IF loaded[f] = {} THEN [loaded EXCEPT ![f] = out] ELSE loaded
  /\ UNCHANGED <<drv, irqOn, state, out, asked, bank, hist>>

(* The number has been parsed, 0 is off; the load of |=. *)
WriteLoads(f) ==
  /\ pc[f] = "idle" /\ stage >= Mapped
  /\ pc' \in {[pc EXCEPT ![f] = "on"], [pc EXCEPT ![f] = "off"]}
  /\ loaded' = [loaded EXCEPT ![f] = out]
  /\ UNCHANGED <<drv, irqOn, state, out, asked, bank, hist>>

WriteStores(f) ==
  /\ stage >= Mapped
  /\ \/ pc[f] = "on" /\ SetPins(loaded[f])
     \/ pc[f] = "off" /\ ClearPins(loaded[f])
  /\ pc' = [pc EXCEPT ![f] = "idle"]
  /\ wrote' = TRUE
  /\ UNCHANGED <<drv, irqOn, state, asked, loaded, bank, early, overtaken>>

(* A read or a write before base_addr is mapped. *)
Faults(f) ==
  /\ pc[f] \in {"idle", "on", "off"} /\ stage < Mapped
  /\ pc' = [pc EXCEPT ![f] = "fault"]
  /\ UNCHANGED <<drv, irqOn, state, out, asked, loaded, bank, hist>>

FileOp(f) ==
  Open(f) \/ Close(f) \/ WriteLoads(f) \/ WriteStores(f) \/ Faults(f)

Next ==
  \/ Insmod \/ Acquire \/ AcquireFails \/ SetUpLoads \/ SetUpPins \/ RequestIrq \/ Unwind
  \/ Rmmod \/ Darken \/ FreeIrq \/ Release \/ Press
  \/ \E p \in Other : OtherPin(p)
  \/ \E f \in File : FileOp(f)

Spec == Init /\ [][Next]_vars

-----------------------------------------------------------------------------
(* Types; `state` stays a truth value, however often the button is pushed. *)
TypeOK ==
  /\ mod \in {"out", "init", "unwind", "live", "exit", "dark", "freed", "oops"}
  /\ stage \in 0..Done /\ ret0 \in BOOLEAN
  /\ irqOn \in BOOLEAN /\ state \in 0..1
  /\ out \subseteq Other \cup {Led} /\ asked \subseteq Other
  /\ pc \in [File -> {"closed", "idle", "on", "off", "fault"}]
  /\ loaded \in [File -> SUBSET (Other \cup {Led})] /\ bank \subseteq Other \cup {Led}
  /\ early \subseteq File /\ wrote \in BOOLEAN /\ overtaken \in BOOLEAN

(* The handler's idea of the LED is right unless the device file has been  *)
(* written since the last push, wherever the pushes fall in those writes   *)
(* and even when the module is loaded again: one push repairs it.          *)
LedTellsState ==
  mod = "live" /\ stage = Done => ((Led \in out) = (state = 1)) \/ wrote

(* No output of another driver is high without that driver having raised   *)
(* it: the handler and the writes work on the whole register, but revive a *)
(* pin only when its driver lowers one between a write's load and store.   *)
NoGhostOutputs == out \cap Other \subseteq asked \/ overtaken

(* A foreign output that its driver wants high is lowered only together     *)
(* with the LED: |= on CLEARDATAOUT writes ones for every pin that is high. *)
(* Turning the LED on takes no pin down, also not one that its driver has   *)
(* raised between the load and the store.                                   *)
FallsOnlyWithLed ==
  [][\A p \in Other \cap asked' : (p \in out /\ p \notin out') => Led \notin out']_vars

(* Neither side uses registers that are not mapped: the handler is never   *)
(* registered without them, across loading, failing and unloading, and a   *)
(* file faults only if it was opened while init was still running.         *)
FaultsExplained ==
  /\ irqOn => stage >= Mapped
  /\ \A f \in File : pc[f] = "fault" => f \in early
=============================================================================
