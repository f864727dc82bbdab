-------------------------- MODULE ButtonLed_proof --------------------------
(***************************************************************************)
(* Proofs about ButtonLed, for any set of open files and of foreign pins.  *)
(***************************************************************************)
EXTENDS ButtonLed, TLAPS

(* How far init has come in each condition of the module. *)
Loading ==
  /\ irqOn => stage = Done
  /\ mod = "init" => state = 0 /\ ~irqOn
  /\ mod = "live" => stage \in {0, Done}
  /\ mod \in {"exit", "dark", "freed"} => stage = Done
  /\ mod \in {"out", "unwind", "oops"} => ~irqOn
  /\ mod \in {"out", "oops"} => stage = 0
  /\ mod = "freed" => ~irqOn

(* A file opened after init pins a module that is completely set up. *)
LateFiles ==
  \A f \in File : (pc[f] # "closed" /\ f \notin early) =>
                    mod = "live" /\ stage = Done /\ pc[f] # "fault"

(* Already before init returns, once the pins are set up. *)
LedFollows ==
  (stage = Done /\ mod \in {"init", "live"}) =>
    ((Led \in out) <=> (state = 1)) \/ wrote

(* What a write is about to raise its driver wants high. *)
Revivable ==
  ~overtaken =>
    /\ out \cap Other \subseteq asked
    /\ \A f \in File : pc[f] = "on" => loaded[f] \cap Other \subseteq asked

Inv == TypeOK /\ Loading /\ LateFiles /\ LedFollows /\ Revivable

LEMMA InitInv == Init => Inv
<1> SUFFICES ASSUME Init PROVE Inv
  OBVIOUS
<1>1. ret0 \in BOOLEAN /\ irqOn \in BOOLEAN /\ wrote \in BOOLEAN /\ overtaken \in BOOLEAN
  BY Zenon DEF Init
<1>2. ~irqOn
  BY Zenon DEF Init
<1>3. TypeOK
  BY <1>1 DEF Init, TypeOK, Done
<1>4. Loading /\ LateFiles
  BY <1>2 DEF Init, Loading, LateFiles, Done
<1>5. LedFollows /\ Revivable
  BY DEF Init, LedFollows, Revivable, Done
<1> QED BY <1>3, <1>4, <1>5 DEF Inv

LEMMA TypeStep == Inv /\ [Next]_vars => TypeOK'
<1> SUFFICES ASSUME Inv, [Next]_vars PROVE TypeOK'
  OBVIOUS
<1> USE DEF Inv, TypeOK, Done, Loaded, Mapped, CdevAdded, SetPins, ClearPins
<1>1. CASE Insmod
  BY <1>1 DEF Insmod, hist
<1>2. CASE Acquire
  BY <1>2 DEF Acquire, hist
<1>3. CASE AcquireFails
  <2>1. ret0' \in BOOLEAN
    <3>1. ret0' = (stage \in {1, 2})
      BY <1>3, Zenon DEF AcquireFails
    <3>2. (stage \in {1, 2}) \in BOOLEAN
      OBVIOUS
    <3> QED BY <3>1, <3>2, Zenon
  <2> QED BY <1>3, <2>1 DEF AcquireFails, hist
<1>0. CASE SetUpLoads
  BY <1>0 DEF SetUpLoads, hist
<1>4. CASE SetUpPins
  <2>1. wrote' \in BOOLEAN
    BY <1>4, Zenon DEF SetUpPins
  <2> QED BY <1>4, <2>1 DEF SetUpPins
<1>5. CASE RequestIrq
  BY <1>5 DEF RequestIrq, hist
<1>6. CASE Unwind
  BY <1>6 DEF Unwind, hist
<1>7. CASE Rmmod \/ Darken
  BY <1>7 DEF Rmmod, Darken, hist
<1>8. CASE FreeIrq
  <2>1. irqOn' \in BOOLEAN
    BY <1>8, Zenon DEF FreeIrq
  <2> QED BY <1>8, <2>1 DEF FreeIrq, hist
<1>9. CASE Release
  BY <1>9 DEF Release, hist
<1>10. CASE Press
  <2>1. wrote' \in BOOLEAN
    BY <1>10, Zenon DEF Press
  <2> QED BY <1>10, <2>1 DEF Press, drv
<1>11. ASSUME NEW p \in Other, OtherPin(p) PROVE TypeOK'
  <2>1. overtaken' \in BOOLEAN
    BY <1>11, Zenon DEF OtherPin
  <2> QED BY <1>11, <2>1 DEF OtherPin, drv
<1>12. ASSUME NEW f \in File, FileOp(f) PROVE TypeOK'
  <2>1. CASE Open(f) \/ Close(f) \/ Faults(f) \/ WriteLoads(f)
    BY <2>1 DEF Open, Close, Faults, WriteLoads, drv, hist
  <2>2. CASE WriteStores(f)
    <3>1. wrote' \in BOOLEAN
      BY <2>2, Zenon DEF WriteStores
    <3> QED BY <2>2, <3>1 DEF WriteStores, drv
  <2> QED BY <1>12, <2>1, <2>2 DEF FileOp
<1>13. CASE UNCHANGED vars
  BY <1>13 DEF vars
<1> QED BY <1>0, <1>1, <1>2, <1>3, <1>4, <1>5, <1>6, <1>7, <1>8, <1>9, <1>10,
           <1>11, <1>12, <1>13 DEF Next

LEMMA LoadStep == Inv /\ [Next]_vars => (Loading /\ LateFiles)'
<1> SUFFICES ASSUME Inv, [Next]_vars PROVE Loading' /\ LateFiles'
  OBVIOUS
<1> USE DEF Inv, TypeOK, Loading, LateFiles, Done, Loaded, Mapped, CdevAdded
<1>1. CASE Insmod \/ Acquire \/ SetUpLoads \/ SetUpPins
  BY <1>1 DEF Insmod, Acquire, SetUpLoads, SetUpPins, hist
<1>2. CASE AcquireFails
  BY <1>2 DEF AcquireFails, hist
<1>3. CASE RequestIrq \/ Unwind
  BY <1>3 DEF RequestIrq, Unwind, hist
<1>4. CASE Rmmod \/ Darken \/ Release
  BY <1>4 DEF Rmmod, Darken, Release, hist
<1>5. CASE FreeIrq
  <2>1. ~irqOn'
    BY <1>5, Zenon DEF FreeIrq
  <2> QED BY <1>5, <2>1 DEF FreeIrq, hist
<1>6. CASE Press
  BY <1>6 DEF Press, drv
<1>7. CASE \E p \in Other : OtherPin(p)
  BY <1>7 DEF OtherPin, drv
<1>8. ASSUME NEW f \in File, FileOp(f) PROVE Loading' /\ LateFiles'
  <2>1. CASE Open(f)
    BY <2>1 DEF Open, drv
  <2>2. CASE Close(f) \/ Faults(f) \/ WriteLoads(f) \/ WriteStores(f)
    BY <2>2 DEF Close, Faults, WriteLoads, WriteStores, drv, hist
  <2> QED BY <1>8, <2>1, <2>2 DEF FileOp
<1>9. CASE UNCHANGED vars
  BY <1>9 DEF vars
<1> QED BY <1>1, <1>2, <1>3, <1>4, <1>5, <1>6, <1>7, <1>8, <1>9 DEF Next

LEMMA LedStep == Inv /\ [Next]_vars => LedFollows'
<1> SUFFICES ASSUME Inv, [Next]_vars PROVE LedFollows'
  OBVIOUS
<1> USE BoardAssumption DEF Inv, TypeOK, Loading, LedFollows, Done, Loaded, Mapped, CdevAdded,
                            SetPins, ClearPins
<1>1. CASE Insmod \/ Acquire \/ AcquireFails \/ SetUpLoads \/ RequestIrq \/ Unwind
  BY <1>1 DEF Insmod, Acquire, AcquireFails, SetUpLoads, RequestIrq, Unwind, hist
<1>2. CASE SetUpPins
  BY <1>2 DEF SetUpPins
<1>3. CASE Rmmod \/ Darken \/ FreeIrq \/ Release
  BY <1>3 DEF Rmmod, Darken, FreeIrq, Release, hist
<1>4. CASE Press
  BY <1>4 DEF Press, drv
<1>5. CASE \E p \in Other : OtherPin(p)
  BY <1>5 DEF OtherPin, drv
<1>6. ASSUME NEW f \in File, FileOp(f) PROVE LedFollows'
  <2>1. CASE WriteStores(f)
    <3>1. wrote'
      BY <2>1, Zenon DEF WriteStores
    <3> QED BY <3>1
  <2>2. CASE Open(f) \/ Close(f) \/ Faults(f) \/ WriteLoads(f)
    BY <2>2 DEF Open, Close, Faults, WriteLoads, drv, hist
  <2> QED BY <1>6, <2>1, <2>2 DEF FileOp
<1>7. CASE UNCHANGED vars
  BY <1>7 DEF vars
<1> QED BY <1>1, <1>2, <1>3, <1>4, <1>5, <1>6, <1>7 DEF Next

LEMMA PinStep == Inv /\ [Next]_vars => Revivable'
<1> SUFFICES ASSUME Inv, [Next]_vars PROVE Revivable'
  OBVIOUS
<1> USE BoardAssumption DEF Inv, TypeOK, Revivable, SetPins, ClearPins
<1>1. CASE Insmod \/ Acquire \/ AcquireFails \/ RequestIrq \/ Unwind \/ FreeIrq \/ Release
  BY <1>1 DEF Insmod, Acquire, AcquireFails, RequestIrq, Unwind, FreeIrq, Release, hist
<1>2. CASE SetUpLoads \/ SetUpPins \/ Rmmod \/ Darken
  BY <1>2 DEF SetUpLoads, SetUpPins, Rmmod, Darken, hist
<1>3. CASE Press
  BY <1>3 DEF Press
<1>4. ASSUME NEW p \in Other, OtherPin(p) PROVE Revivable'
  <2>1. CASE \E f \in File : pc[f] = "on"
    <3>1. CASE out' = out \cup {p} /\ asked' = asked \cup {p} /\ UNCHANGED overtaken
      BY <1>4, <3>1 DEF OtherPin
    <3>2. CASE overtaken'
      BY <3>2
    <3> QED BY <1>4, <2>1, <3>1, <3>2, Zenon DEF OtherPin
  <2>2. CASE \A f \in File : pc[f] # "on"
    <3>1. overtaken' = overtaken
      BY <1>4, <2>2, Zenon DEF OtherPin, TypeOK
    <3> QED BY <1>4, <2>2, <3>1 DEF OtherPin
  <2> QED BY <2>1, <2>2
<1>5. ASSUME NEW f \in File, FileOp(f) PROVE Revivable'
  BY <1>5 DEF FileOp, Open, Close, Faults, WriteLoads, WriteStores, hist
<1>6. CASE UNCHANGED vars
  BY <1>6 DEF vars
<1> QED BY <1>1, <1>2, <1>3, <1>4, <1>5, <1>6 DEF Next

LEMMA Invariance == Spec => []Inv
<1>1. Inv /\ [Next]_vars => Inv'
  BY TypeStep, LoadStep, LedStep, PinStep DEF Inv
<1> QED BY InitInv, <1>1, PTL DEF Spec

(* Every variable keeps its type; `state` is 0 or 1 however often pushed.  *)
THEOREM TypeCorrect == Spec => []TypeOK
<1>1. Inv => TypeOK
  BY DEF Inv
<1> QED BY Invariance, <1>1, PTL

(* The handler's state and the LED disagree only after a write to the      *)
(* device file, however the handler's interrupts fall into the writes.     *)
THEOREM LedIsKnown == Spec => []LedTellsState
<1>1. Inv => LedTellsState
  BY DEF Inv, LedFollows, LedTellsState
<1> QED BY Invariance, <1>1, PTL

(* A foreign pin is revived only by a write its driver has overtaken.      *)
THEOREM GhostsExplained == Spec => []NoGhostOutputs
<1>1. Inv => NoGhostOutputs
  BY DEF Inv, Revivable, NoGhostOutputs
<1> QED BY Invariance, <1>1, PTL

(* Unmapped registers are used neither by the handler nor by a file opened *)
(* after init has returned.                                                *)
THEOREM RegistersMapped == Spec => []FaultsExplained
<1>1. Inv => FaultsExplained
  BY DEF Inv, Loading, LateFiles, FaultsExplained, Mapped, Done
<1> QED BY Invariance, <1>1, PTL

(* A foreign output that its driver wants high goes down only in a step    *)
(* that leaves the LED off.                                                *)
THEOREM FallsTogether == Spec => FallsOnlyWithLed
<1> DEFINE A == \A p \in Other \cap asked' : (p \in out /\ p \notin out') => Led \notin out'
<1>1. Next => A
  <2> SUFFICES ASSUME Next PROVE A
    OBVIOUS
  <2> USE BoardAssumption DEF SetPins, ClearPins
  <2>1. CASE UNCHANGED out
    BY <2>1
  <2>2. CASE SetUpPins \/ Darken \/ Press
    BY <2>2 DEF SetUpPins, Darken, Press
  <2>3. CASE \E p \in Other : OtherPin(p)
    BY <2>3 DEF OtherPin
  <2>4. CASE \E f \in File : WriteStores(f)
    BY <2>4 DEF WriteStores
  <2> QED BY <2>1, <2>2, <2>3, <2>4 DEF Next, Insmod, Acquire, AcquireFails, SetUpLoads,
             RequestIrq, Rmmod, Unwind, FreeIrq, Release, FileOp, Open, Close, WriteLoads, Faults
<1> QED BY <1>1, PTL DEF Spec, FallsOnlyWithLed
=============================================================================
