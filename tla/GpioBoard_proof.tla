--------------------------- MODULE GpioBoard_proof ---------------------------
(***************************************************************************)
(* Proofs about GpioSysfs, GpioBoard and the two together, for any set of  *)
(* pins that includes the two, any limit of descriptors and any number of  *)
(* concurrent unexports.                                                   *)
(***************************************************************************)
EXTENDS GpioBoard, GpioSysfs, TLAPS

LEMMA Names ==
  /\ Led \in Pin /\ Btn \in Pin /\ Led # Btn /\ None \notin Pin
  /\ MaxFds \in Nat /\ MaxFds > 0
  /\ MaxUnexports \in Nat /\ MaxUnexports > 0
BY PinAssumption, FdsAssumption, UnexportAssumption DEF None

-----------------------------------------------------------------------------
(* The sysfs driver.                                                       *)

(* Who keeps the protocol has at most one pin, has been told it was        *)
(* exported, and has its directory or nothing; his one unexport may be     *)
(* half done.                                                              *)
OneDirectory ==
  ~misused =>
    /\ puts \in {0, 1}
    /\ mod = "fault" => hollow # {}
    /\ mod = "out" => dirs = {} /\ claim = {} /\ puts = 0
    /\ mod = "live" =>
         \/ claim = {} /\ dirs = {} /\ puts = 0
         \/ claim = {led} /\ hollow = {led} /\ dirs = {} /\ puts = 0
         \/ /\ claim = {led} /\ hollow = {} /\ dirs = {led} /\ control = led
            /\ puts = 0 => files = dirs

SysfsInv == SysfsTypeOK /\ OneDirectory

LEMMA SysfsInitInv == SysfsInit => SysfsInv
<1> SUFFICES ASSUME SysfsInit PROVE SysfsInv
  OBVIOUS
<1>1. misused \in BOOLEAN
  BY Zenon DEF SysfsInit
<1> QED BY <1>1, Names DEF SysfsInit, SysfsInv, SysfsTypeOK, OneDirectory

(* Types of all variables but the truth value. *)
DeviceTypes ==
  /\ mod \in {"out", "live", "fault", "bug"} /\ led \in Pin
  /\ control \in Pin \cup {None} /\ dirs \subseteq Pin /\ files \subseteq dirs
  /\ puts \in 0..MaxUnexports
  /\ claim \subseteq Pin /\ hollow \subseteq claim

LEMMA MisusedType ==
  ASSUME SysfsInv, [SysfsNext]_<<pins, sysfs>>
  PROVE  misused' \in BOOLEAN
<1>1. /\ misused \in BOOLEAN
      /\ (misused \/ claim # {}) \in BOOLEAN
      /\ (misused \/ claim # {} \/ puts > 0) \in BOOLEAN
      /\ (misused \/ claim = {} \/ puts > 0) \in BOOLEAN
  BY DEF SysfsInv, SysfsTypeOK
<1>2. \/ misused' = misused
      \/ misused' = (misused \/ claim # {})
      \/ misused' = (misused \/ claim # {} \/ puts > 0)
      \/ misused' = (misused \/ claim = {} \/ puts > 0)
  BY Zenon DEF SysfsNext, SysfsLoads, SysfsLoadFails, SysfsUnloads, StaleFileUsed, Told,
     ExportSame, Export, ExportNoKobject, ExportNoGroup, UnexportRemoves, UnexportPuts,
     SysfsDirection, SysfsValue, sysfs
<1> QED BY <1>1, <1>2, Zenon

LEMMA DeviceStep ==
  ASSUME SysfsInv, [SysfsNext]_<<pins, sysfs>>
  PROVE  DeviceTypes'
<1> USE Names DEF SysfsInv, SysfsTypeOK, DeviceTypes, device, sysfs
<1>1. CASE SysfsLoads \/ SysfsLoadFails \/ SysfsUnloads \/ StaleFileUsed
  BY <1>1 DEF SysfsLoads, SysfsLoadFails, SysfsUnloads, StaleFileUsed
<1>2. CASE ExportSame
  BY <1>2 DEF ExportSame, Told
<1>3. ASSUME NEW n \in Pin, Export(n) \/ ExportNoKobject(n) \/ ExportNoGroup(n)
      PROVE  DeviceTypes'
  BY <1>3 DEF Export, ExportNoKobject, ExportNoGroup, Told
<1>4. CASE UnexportRemoves
  BY <1>4 DEF UnexportRemoves
<1>5. CASE UnexportPuts
  BY <1>5 DEF UnexportPuts
<1>6. CASE \/ \E d \in {"in", "out"} : SysfsDirection(d)
           \/ \E v \in {0, 1} : SysfsValue(v)
  BY <1>6 DEF SysfsDirection, SysfsValue
<1>7. CASE UNCHANGED <<pins, sysfs>>
  BY <1>7
<1> QED BY <1>1, <1>2, <1>3, <1>4, <1>5, <1>6, <1>7 DEF SysfsNext

LEMMA DirectoryStep ==
  ASSUME SysfsInv, [SysfsNext]_<<pins, sysfs>>
  PROVE  OneDirectory'
<1> SUFFICES ASSUME ~misused' PROVE OneDirectory'
  BY DEF OneDirectory
<1> USE Names DEF SysfsInv, SysfsTypeOK, OneDirectory, device, sysfs
<1>1. CASE SysfsLoads \/ SysfsLoadFails \/ SysfsUnloads \/ StaleFileUsed
  BY <1>1 DEF SysfsLoads, SysfsLoadFails, SysfsUnloads, StaleFileUsed
<1>2. CASE ExportSame
  BY <1>2 DEF ExportSame, Told
<1>3. ASSUME NEW n \in Pin, Export(n) \/ ExportNoKobject(n) \/ ExportNoGroup(n)
      PROVE  OneDirectory'
  <2>1. /\ mod = "live" /\ led' = n /\ puts' = puts
        /\ claim' = claim \cup {n} /\ misused' = (misused \/ claim # {} \/ puts > 0)
    BY <1>3, Zenon DEF Export, ExportNoKobject, ExportNoGroup, Told
  <2>2. ~misused /\ claim = {} /\ ~(puts > 0)
    BY <2>1, Zenon
  <2>3. dirs = {} /\ files = {} /\ hollow = {} /\ puts = 0
    BY <2>1, <2>2
  <2>4. CASE Export(n)
    BY <2>1, <2>2, <2>3, <2>4 DEF Export, Told
  <2>5. CASE ExportNoKobject(n) \/ ExportNoGroup(n)
    BY <2>1, <2>2, <2>3, <2>5 DEF ExportNoKobject, ExportNoGroup, Told
  <2> QED BY <1>3, <2>4, <2>5
<1>4. CASE UnexportRemoves
  <2>1. mod = "live" /\ misused' = (misused \/ claim = {} \/ puts > 0)
    BY <1>4, Zenon DEF UnexportRemoves
  <2>2. ~misused /\ claim # {} /\ ~(puts > 0)
    BY <2>1, Zenon
  <2>3. puts = 0 /\ claim = {led}
    BY <2>1, <2>2
  <2>4. CASE control \in dirs
    BY <1>4, <2>1, <2>2, <2>3, <2>4 DEF UnexportRemoves
  <2>5. CASE control \notin dirs
    BY <1>4, <2>1, <2>2, <2>3, <2>5 DEF UnexportRemoves
  <2> QED BY <2>4, <2>5
<1>5. CASE UnexportPuts
  BY <1>5 DEF UnexportPuts
<1>6. CASE \/ \E d \in {"in", "out"} : SysfsDirection(d)
           \/ \E v \in {0, 1} : SysfsValue(v)
  BY <1>6 DEF SysfsDirection, SysfsValue
<1>7. CASE UNCHANGED <<pins, sysfs>>
  BY <1>7
<1> QED BY <1>1, <1>2, <1>3, <1>4, <1>5, <1>6, <1>7 DEF SysfsNext

LEMMA SysfsStep == SysfsInv /\ [SysfsNext]_<<pins, sysfs>> => SysfsInv'
BY MisusedType, DeviceStep, DirectoryStep DEF SysfsInv, SysfsTypeOK, DeviceTypes

LEMMA SysfsInvariance == SysfsSpec => []SysfsInv
BY SysfsInitInv, SysfsStep, PTL DEF SysfsSpec, AloneInit

(* For any set of pins, one that exports a pin at a time and unexports it  *)
(* before the next makes the driver use memory that is not there only if   *)
(* an export that was answered with success had made nothing.              *)
THEOREM ProtocolIsSafe == SysfsSpec => []SysfsProtocolIsSafe
<1>1. SysfsInv => SysfsProtocolIsSafe
  BY DEF SysfsInv, SysfsTypeOK, OneDirectory, SysfsProtocolIsSafe
<1> QED BY SysfsInvariance, <1>1, PTL

(* A step of the driver, as the other programs see it.                     *)
LEMMA SysfsIsTouch ==
  ASSUME led \in Pin, SysfsNext
  PROVE  Touch \/ UNCHANGED pins
<1>1. CASE \/ SysfsLoads \/ SysfsLoadFails \/ SysfsUnloads \/ StaleFileUsed
           \/ ExportSame \/ UnexportRemoves \/ UnexportPuts
  BY <1>1, Zenon DEF SysfsLoads, SysfsLoadFails, SysfsUnloads, StaleFileUsed, ExportSame,
     UnexportRemoves, UnexportPuts
<1>2. ASSUME NEW n \in Pin, ExportNoKobject(n) \/ ExportNoGroup(n)
      PROVE  UNCHANGED pins
  BY <1>2, Zenon DEF ExportNoKobject, ExportNoGroup
<1>3. ASSUME NEW n \in Pin, Export(n)
      PROVE  Touch
  BY <1>3 DEF Export, Touch, TakesPin
<1>4. ASSUME NEW d \in {"in", "out"}, SysfsDirection(d)
      PROVE  Touch
  BY <1>4 DEF SysfsDirection, Touch, TurnsPin
<1>5. ASSUME NEW v \in {0, 1}, SysfsValue(v)
      PROVE  Touch
  BY <1>5 DEF SysfsValue, Touch, SetsPin
<1> QED BY <1>1, <1>2, <1>3, <1>4, <1>5 DEF SysfsNext

(* Whoever uses the driver in whatever way, it never frees a pin.          *)
THEOREM SysfsTouchesPins == SysfsSpec => PinsOnlyTouched
<1>1. SysfsInv /\ [SysfsNext]_<<pins, sysfs>> => [Touch]_pins
  BY SysfsIsTouch DEF SysfsInv, SysfsTypeOK
<1> QED BY <1>1, SysfsInvariance, PTL DEF SysfsSpec, AloneInit, PinsOnlyTouched, TouchSpec

-----------------------------------------------------------------------------
(* All three programs in full detail.                                      *)

WholeInit == Init /\ SysfsInit
WholeNext == \/ SysfsNext /\ SysfsNoted
             \/ (ButtonActs \/ AppActs) /\ UNCHANGED sysfs
WholeSpec == WholeInit /\ [][WholeNext]_<<vars, sysfs>>

LEMMA WholeSysfs ==
  ASSUME SysfsInv, [WholeNext]_<<vars, sysfs>>
  PROVE  SysfsInv'
<1>1. CASE SysfsNext
  BY <1>1, SysfsStep
<1>2. CASE UNCHANGED sysfs
  BY <1>2 DEF sysfs, device, SysfsInv, SysfsTypeOK, OneDirectory
<1> QED BY <1>1, <1>2, Zenon DEF WholeNext

LEMMA WholeStep ==
  ASSUME led \in Pin, [WholeNext]_<<vars, sysfs>>
  PROVE  [Next]_vars
<1>1. CASE SysfsNext /\ SysfsNoted
  <2>1. CASE Touch
    BY <1>1, <2>1, Zenon DEF Next, SysfsTouches
  <2>2. CASE UNCHANGED pins
    <3>1. UNCHANGED <<out, high>>
      BY <2>2, Zenon DEF pins
    <3>2. LedKept /\ Led \notin out \ out'
      BY <3>1 DEF LedKept
    <3>3. UNCHANGED <<turned, alone, polling, yanks, away, odd>>
      BY <1>1, <3>2, Zenon DEF SysfsNoted
    <3> QED BY <2>2, <3>3, Zenon DEF vars, story
  <2> QED BY <1>1, <2>1, <2>2, SysfsIsTouch
<1>2. CASE ButtonActs \/ AppActs \/ UNCHANGED <<vars, sysfs>>
  BY <1>2, Zenon DEF Next
<1> QED BY <1>1, <1>2, Zenon DEF WholeNext

(* GpioBoard, in which the sysfs driver may touch any pin at any time, is  *)
(* what the interrupt driver and the application see of the detailed one:  *)
(* the theorems below hold with it in its place.                           *)
THEOREM WholeBoard == WholeSpec => Spec
<1>1. WholeInit => Init /\ SysfsInv
  BY SysfsInitInv DEF WholeInit
<1>2. SysfsInv => led \in Pin
  BY DEF SysfsInv, SysfsTypeOK
<1> QED BY <1>1, <1>2, WholeSysfs, WholeStep, PTL DEF WholeSpec, Spec

-----------------------------------------------------------------------------
(* The board.                                                              *)

(* What is open, where; and with a file open there is a descriptor left.   *)
Places ==
  /\ file = Btn => app \in {"in31", "poll"}
  /\ file = Led => app \in {"out30", "low", "read", "write"}
  /\ file # None => fds < MaxFds
  /\ app \in {"off", "export31"} => fds = 0 /\ file = None

(* Once set up, an LED that can still be reached is an output, unless it   *)
(* has been turned.                                                        *)
LedDriven ==
  (~turned /\ app \in SetUp /\ Led \in classes /\ fds < MaxFds) => Led \in out

(* A pin in /sys/class/gpio is requested by it; and the button's pin is    *)
(* there unless it was another's, or has been taken away.                  *)
ButtonIsMine ==
  /\ req[Btn] = "class" <=> Btn \in classes
  /\ app \notin {"off", "export31"} => (Btn \notin classes <=> away)

(* What the application has read still holds, but for the toggles of the   *)
(* handler.                                                                *)
SeenHolds ==
  (app = "write" /\ alone /\ seen # -1 /\ Led \in out) =>
    ((seen = 1 <=> Led \in high) <=> ~odd)

Inv == TypeOK /\ Places /\ LeaksCounted /\ LedDriven /\ ButtonIsMine /\ SeenHolds

LEMMA InitInv == Init => Inv
<1> SUFFICES ASSUME Init PROVE Inv
  OBVIOUS
<1> USE Names DEF Init, PinsInit, PollingInit
<1>1. /\ irq \in BOOLEAN /\ turned \in BOOLEAN /\ away \in BOOLEAN
      /\ odd \in BOOLEAN /\ alone \in BOOLEAN /\ ~alone
  BY Zenon
<1>2. TypeOK
  BY <1>1 DEF TypeOK
<1>3. Places /\ LeaksCounted /\ LedDriven
  BY DEF Places, LeaksCounted, LedDriven, SetUp
<1>4. ButtonIsMine
  BY DEF ButtonIsMine, None
<1>5. SeenHolds
  BY <1>1 DEF SeenHolds
<1> QED BY <1>2, <1>3, <1>4, <1>5 DEF Inv

(* The types of the pins, and of the rest that is not history.             *)
PinTypes ==
  /\ req \in [Pin -> {None, "diy", "class", "button"}]
  /\ out \subseteq Pin /\ high \subseteq out /\ classes \subseteq Pin
  /\ irq \in BOOLEAN
AppTypes ==
  /\ button \in {"out", "led", "btn", "in", "dark", "deaf", "half"}
  /\ file \in {None, Led, Btn} /\ seen \in {-1, 0, 1} /\ fds \in 0..MaxFds
  /\ app \in SetUp \cup {"off", "export31", "in31", "export30", "out30"}

LEMMA TouchTypes ==
  ASSUME PinTypes, Touch
  PROVE  PinTypes' /\ UNCHANGED <<classes, irq>>
<1> USE DEF PinTypes
<1>1. ASSUME NEW p \in Pin, TakesPin(p) PROVE PinTypes' /\ UNCHANGED <<classes, irq>>
  BY <1>1 DEF TakesPin, Requested
<1>2. ASSUME NEW p \in Pin, TurnsPin(p) PROVE PinTypes' /\ UNCHANGED <<classes, irq>>
  BY <1>2 DEF TurnsPin, Input, Output
<1>3. ASSUME NEW p \in Pin, SetsPin(p) PROVE PinTypes' /\ UNCHANGED <<classes, irq>>
  BY <1>3 DEF SetsPin, SetValue
<1> QED BY <1>1, <1>2, <1>3 DEF Touch

(* A touch takes only a pin that nobody has.                               *)
LEMMA TouchRequests ==
  ASSUME PinTypes, Touch
  PROVE  req'[Btn] = req[Btn] \/ (req[Btn] = None /\ req'[Btn] = "diy")
BY Names DEF PinTypes, Touch, TakesPin, TurnsPin, SetsPin, Requested

LEMMA ButtonTypes ==
  ASSUME PinTypes, AppTypes, ButtonNext
  PROVE  PinTypes' /\ AppTypes' /\ UNCHANGED <<app, file, seen, fds>>
<1> USE Names DEF PinTypes, AppTypes
<1>1. CASE ButtonTakesLed
  BY <1>1 DEF ButtonTakesLed, Requested, Output
<1>2. CASE ButtonTakesBtn
  BY <1>2 DEF ButtonTakesBtn, Requested, Input
<1>3. CASE ButtonTakesIrq \/ ButtonDarkens
  BY <1>3 DEF ButtonTakesIrq, ButtonDarkens, SetValue
<1>4. CASE Pushed
  BY <1>4 DEF Pushed, SetValue, polling
<1>5. CASE ButtonFreesIrq
  <2>1. irq' \in BOOLEAN
    BY <1>5, Zenon DEF ButtonFreesIrq
  <2> QED BY <1>5, <2>1 DEF ButtonFreesIrq
<1>6. CASE ButtonFreesLed \/ ButtonFreesBtn
  BY <1>6 DEF ButtonFreesLed, ButtonFreesBtn, Frees
<1> QED BY <1>1, <1>2, <1>3, <1>4, <1>5, <1>6 DEF ButtonNext

LEMMA AppTypesStep ==
  ASSUME PinTypes, AppTypes, Places, AppNext
  PROVE  PinTypes' /\ AppTypes' /\ UNCHANGED <<irq, button>>
<1> USE Names DEF PinTypes, AppTypes, Places, pins, AppTo, Closes, Forgets, SetUp
<1>1. CASE Run \/ Stop
  BY <1>1 DEF Run, Stop
<1>2. CASE GPIOExport(Btn, "export31", "in31") \/ GPIOExport(Led, "export30", "out30")
  BY <1>2 DEF GPIOExport, Requested
<1>3. CASE \/ Opens(Btn, "in31") \/ Opens(Led, "out30") \/ Opens(Led, "low")
           \/ Opens(Btn, "poll") \/ Opens(Led, "read") \/ Opens(Led, "write")
  BY <1>3 DEF Opens
<1>4. CASE \/ CannotOpen(Btn, "in31", "export30") \/ CannotOpen(Led, "out30", "low")
           \/ CannotOpen(Led, "low", "poll") \/ CannotOpen(Led, "read", "write")
           \/ CannotOpen(Led, "write", "poll")
  BY <1>4 DEF CannotOpen
<1>5. CASE \/ GPIODirection(Btn, "in", "in31", "export30")
           \/ GPIODirection(Led, "out", "out30", "low")
  BY <1>5 DEF GPIODirection, Input, Output
<1>6. CASE GPIOWrite(Led, 0, "low") \/ WriteLed
  BY <1>6 DEF GPIOWrite, WriteLed, SetValue
<1>7. CASE PollButton \/ ReadLed
  BY <1>7 DEF PollButton, ReadLed, GPIORead, Levels
<1> QED BY <1>1, <1>2, <1>3, <1>4, <1>5, <1>6, <1>7 DEF AppNext

LEMMA HistoryTypes ==
  ASSUME Inv, [Next]_vars
  PROVE  /\ turned' \in BOOLEAN /\ yanks' \in Nat /\ away' \in BOOLEAN
         /\ odd' \in BOOLEAN /\ alone' \in BOOLEAN
<1>1. /\ turned \in BOOLEAN /\ yanks \in Nat /\ away \in BOOLEAN
      /\ odd \in BOOLEAN /\ alone \in BOOLEAN
  BY DEF Inv, TypeOK
<1>2. CASE SysfsTouches
  BY <1>1, <1>2, Zenon DEF SysfsTouches, SysfsNoted
<1>3. CASE ButtonActs
  <2>1. /\ (away \/ (app \notin {"off", "export31"} /\ ButtonFreesBtn)) \in BOOLEAN
        /\ (~odd) \in BOOLEAN
        /\ (alone /\ (Pushed \/ LedKept)) \in BOOLEAN
    BY Zenon
  <2>2. (IF app = "write" /\ Pushed THEN ~odd ELSE odd) \in BOOLEAN
    BY <1>1, <2>1, Zenon
  <2>3. (IF file \in classes \ classes' THEN yanks + 1 ELSE yanks) \in Nat
    BY <1>1
  <2> QED BY <1>1, <1>3, <2>1, <2>2, <2>3, Zenon DEF ButtonActs
<1>4. CASE AppActs
  <2>1. /\ (turned /\ app' # "off") \in BOOLEAN
        /\ (IF app' = "off" THEN 0 ELSE yanks) \in Nat
        /\ (IF app = "export31" THEN req[Btn] \notin {None, "class"}
                                ELSE away /\ app' # "off") \in BOOLEAN
        /\ (odd /\ app = "write" /\ app' = "write") \in BOOLEAN
        /\ (app' = "write" /\ (alone \/ app = "read")) \in BOOLEAN
    BY <1>1
  <2> QED BY <1>4, <2>1, Zenon DEF AppActs
<1>5. CASE UNCHANGED vars
  BY <1>1, <1>5, Zenon DEF vars, story
<1> QED BY <1>2, <1>3, <1>4, <1>5 DEF Next

LEMMA TypeStep ==
  ASSUME Inv, [Next]_vars
  PROVE  TypeOK'
<1>1. PinTypes /\ AppTypes /\ Places
  BY DEF Inv, TypeOK, PinTypes, AppTypes
<1>2. PinTypes' /\ AppTypes'
  <2>1. CASE SysfsTouches
    BY <1>1, <2>1, TouchTypes DEF SysfsTouches, SysfsNoted, polling, AppTypes
  <2>2. CASE ButtonActs
    BY <1>1, <2>2, ButtonTypes DEF ButtonActs
  <2>3. CASE AppActs
    BY <1>1, <2>3, AppTypesStep DEF AppActs
  <2>4. CASE UNCHANGED vars
    BY <1>1, <2>4 DEF vars, pins, polling, PinTypes, AppTypes
  <2> QED BY <2>1, <2>2, <2>3, <2>4 DEF Next
<1> QED BY <1>2, HistoryTypes DEF TypeOK, PinTypes, AppTypes

LEMMA PlacesStep ==
  ASSUME Inv, [Next]_vars
  PROVE  Places'
<1>0. PinTypes /\ AppTypes /\ Places
  BY DEF Inv, TypeOK, PinTypes, AppTypes
<1> USE Names DEF Places, AppTo, Closes, Forgets, None
<1>1. CASE SysfsTouches
  BY <1>0, <1>1, Zenon DEF SysfsTouches, SysfsNoted, polling
<1>2. CASE ButtonActs
  BY <1>0, <1>2, ButtonTypes DEF ButtonActs
<1>3. CASE Run \/ Stop
  BY <1>0, <1>3 DEF Run, Stop
<1>4. CASE GPIOExport(Btn, "export31", "in31") \/ GPIOExport(Led, "export30", "out30")
  BY <1>0, <1>4 DEF GPIOExport
<1>5. CASE \/ Opens(Btn, "in31") \/ Opens(Led, "out30") \/ Opens(Led, "low")
           \/ Opens(Btn, "poll") \/ Opens(Led, "read") \/ Opens(Led, "write")
  BY <1>0, <1>5 DEF Opens, CanOpen, AppTypes
<1>6. CASE \/ CannotOpen(Btn, "in31", "export30") \/ CannotOpen(Led, "out30", "low")
           \/ CannotOpen(Led, "low", "poll") \/ CannotOpen(Led, "read", "write")
           \/ CannotOpen(Led, "write", "poll")
  BY <1>0, <1>6 DEF CannotOpen
<1>7. CASE \/ GPIODirection(Btn, "in", "in31", "export30")
           \/ GPIODirection(Led, "out", "out30", "low")
  BY <1>0, <1>7 DEF GPIODirection
<1>8. CASE GPIOWrite(Led, 0, "low") \/ WriteLed
  BY <1>0, <1>8 DEF GPIOWrite, WriteLed
<1>9. CASE PollButton \/ ReadLed
  BY <1>0, <1>9 DEF PollButton, ReadLed
<1>10. CASE UNCHANGED vars
  BY <1>0, <1>10, Zenon DEF vars, polling
<1> QED BY <1>1, <1>2, <1>3, <1>4, <1>5, <1>6, <1>7, <1>8, <1>9, <1>10 DEF Next, AppActs, AppNext

LEMMA LeaksStep ==
  ASSUME Inv, [Next]_vars
  PROVE  LeaksCounted'
<1>0. PinTypes /\ AppTypes /\ Places /\ LeaksCounted /\ LedDriven /\ yanks \in Nat
  BY DEF Inv, TypeOK, PinTypes, AppTypes
<1> SUFFICES ASSUME ~turned' PROVE LeaksCounted'
  BY DEF LeaksCounted
<1> USE Names DEF LeaksCounted, PinTypes, AppTypes
<1>1. CASE SysfsTouches
  <2>1. ~turned /\ UNCHANGED <<file, fds, yanks>>
    BY <1>1, Zenon DEF SysfsTouches, SysfsNoted, polling
  <2> QED BY <1>0, <1>1, <2>1, TouchTypes DEF SysfsTouches
<1>2. CASE ButtonActs
  <2>1. ~turned /\ UNCHANGED <<app, file, fds>> /\ classes' \subseteq classes
    <3>1. UNCHANGED <<app, file, fds>>
      BY <1>0, <1>2, ButtonTypes DEF ButtonActs
    <3>2. ~turned
      BY <1>2, Zenon DEF ButtonActs
    <3>3. classes' \subseteq classes
      BY <1>2 DEF ButtonActs, ButtonNext, ButtonTakesLed, ButtonTakesBtn, ButtonTakesIrq, Pushed,
         ButtonDarkens, ButtonFreesIrq, ButtonFreesLed, ButtonFreesBtn, Frees
    <3> QED BY <3>1, <3>2, <3>3
  <2>2. yanks' = IF file \in classes \ classes' THEN yanks + 1 ELSE yanks
    BY <1>2, Zenon DEF ButtonActs
  <2> QED BY <1>0, <2>1, <2>2
<1>3. CASE AppActs /\ app' = "off"
  <2>1. Stop
    BY <1>0, <1>3 DEF AppActs, AppNext, Run, GPIOExport, Opens, CannotOpen, GPIODirection,
       GPIOWrite, PollButton, ReadLed, WriteLed, AppTo, Places
  <2>2. yanks' = 0
    BY <1>3, Zenon DEF AppActs
  <2> QED BY <2>1, <2>2 DEF Stop
<1>4. CASE AppActs /\ app' # "off"
  <2>0. ~turned /\ yanks' = yanks
    BY <1>4, Zenon DEF AppActs
  <2> USE DEF AppTo, Closes, Forgets, pins
  <2>1. CASE Run \/ Stop
    BY <1>0, <1>4, <2>0, <2>1 DEF Run, Stop
  <2>2. CASE GPIOExport(Btn, "export31", "in31") \/ GPIOExport(Led, "export30", "out30")
    BY <1>0, <2>0, <2>2 DEF GPIOExport, Places
  <2>3. CASE \/ Opens(Btn, "in31") \/ Opens(Led, "out30") \/ Opens(Led, "low")
             \/ Opens(Btn, "poll") \/ Opens(Led, "read") \/ Opens(Led, "write")
    BY <1>0, <2>0, <2>3 DEF Opens, CanOpen
  <2>4. CASE \/ CannotOpen(Btn, "in31", "export30") \/ CannotOpen(Led, "out30", "low")
             \/ CannotOpen(Led, "low", "poll") \/ CannotOpen(Led, "read", "write")
             \/ CannotOpen(Led, "write", "poll")
    BY <1>0, <2>0, <2>4 DEF CannotOpen
  <2>5. CASE \/ GPIODirection(Btn, "in", "in31", "export30")
             \/ GPIODirection(Led, "out", "out30", "low")
    BY <1>0, <2>0, <2>5 DEF GPIODirection
  <2>6. CASE GPIOWrite(Led, 0, "low") \/ WriteLed
    <3>1. file = Led /\ app \in SetUp /\ fds < MaxFds
      BY <1>0, <2>6 DEF GPIOWrite, WriteLed, Places, SetUp
    <3>2. Led \in classes => Led \in out
      BY <1>0, <2>0, <3>1 DEF LedDriven
    <3>3. /\ UNCHANGED classes /\ file' = None
          /\ fds' = IF Led \in classes \cap out THEN fds ELSE fds + 1
      BY <2>6 DEF GPIOWrite, WriteLed
    <3> QED BY <1>0, <2>0, <3>1, <3>2, <3>3
  <2>7. CASE PollButton \/ ReadLed
    BY <1>0, <2>0, <2>7 DEF PollButton, ReadLed, GPIORead, Levels
  <2> QED BY <1>4, <2>1, <2>2, <2>3, <2>4, <2>5, <2>6, <2>7 DEF AppActs, AppNext
<1>5. CASE UNCHANGED vars
  BY <1>0, <1>5 DEF vars, pins, polling, story
<1> QED BY <1>1, <1>2, <1>3, <1>4, <1>5 DEF Next

LEMMA LedStep ==
  ASSUME Inv, [Next]_vars
  PROVE  LedDriven'
<1>0. PinTypes /\ AppTypes /\ Places /\ LedDriven
  BY DEF Inv, TypeOK, PinTypes, AppTypes
<1> SUFFICES ASSUME ~turned', app' \in SetUp, Led \in classes', fds' < MaxFds
             PROVE  Led \in out'
  BY DEF LedDriven
<1> USE Names DEF LedDriven, PinTypes, AppTypes
<1>1. CASE SysfsTouches
  <2>1. UNCHANGED <<app, fds, classes>> /\ ~turned
    BY <1>0, <1>1, TouchTypes, Zenon DEF SysfsTouches, SysfsNoted, polling
  <2>2. ~(app \in SetUp /\ Led \in out \ out')
    BY <1>1, Zenon DEF SysfsTouches, SysfsNoted
  <2> QED BY <1>0, <2>1, <2>2
<1>2. CASE ButtonActs
  <2>1. ~turned /\ UNCHANGED <<app, fds>>
    <3>1. UNCHANGED <<app, fds>>
      BY <1>0, <1>2, ButtonTypes DEF ButtonActs
    <3> QED BY <1>2, <3>1, Zenon DEF ButtonActs
  <2>2. classes' \subseteq classes /\ out \ {Btn} \subseteq out'
    BY <1>2 DEF ButtonActs, ButtonNext, ButtonTakesLed, ButtonTakesBtn, ButtonTakesIrq, Pushed,
       ButtonDarkens, ButtonFreesIrq, ButtonFreesLed, ButtonFreesBtn, Frees, Input, Output
  <2> QED BY <1>0, <2>1, <2>2
<1>3. CASE AppActs
  <2>0. ~turned
    BY <1>3, Zenon DEF AppActs, SetUp
  <2> USE DEF AppTo, Closes, Forgets, pins, SetUp
  <2>1. CASE Run \/ Stop
    BY <2>1 DEF Run, Stop
  <2>2. CASE GPIOExport(Btn, "export31", "in31") \/ GPIOExport(Led, "export30", "out30")
    BY <2>2 DEF GPIOExport
  <2>3. CASE \/ Opens(Btn, "in31") \/ Opens(Led, "out30") \/ Opens(Led, "low")
             \/ Opens(Btn, "poll") \/ Opens(Led, "read") \/ Opens(Led, "write")
    BY <1>0, <2>0, <2>3 DEF Opens
  <2>4. CASE \/ CannotOpen(Btn, "in31", "export30") \/ CannotOpen(Led, "out30", "low")
             \/ CannotOpen(Led, "low", "poll") \/ CannotOpen(Led, "read", "write")
             \/ CannotOpen(Led, "write", "poll")
    BY <1>0, <2>0, <2>4 DEF CannotOpen, CanOpen
  <2>5. CASE \/ GPIODirection(Btn, "in", "in31", "export30")
             \/ GPIODirection(Led, "out", "out30", "low")
    BY <1>0, <2>0, <2>5 DEF GPIODirection, Output
  <2>6. CASE GPIOWrite(Led, 0, "low") \/ WriteLed
    BY <1>0, <2>0, <2>6 DEF GPIOWrite, WriteLed
  <2>7. CASE PollButton \/ ReadLed
    BY <1>0, <2>0, <2>7 DEF PollButton, ReadLed
  <2> QED BY <1>3, <2>1, <2>2, <2>3, <2>4, <2>5, <2>6, <2>7 DEF AppActs, AppNext
<1>4. CASE UNCHANGED vars
  BY <1>0, <1>4 DEF vars, pins, polling, story
<1> QED BY <1>1, <1>2, <1>3, <1>4 DEF Next

LEMMA ButtonStep ==
  ASSUME Inv, [Next]_vars
  PROVE  ButtonIsMine'
<1>0. PinTypes /\ AppTypes /\ Places /\ ButtonIsMine
  BY DEF Inv, TypeOK, PinTypes, AppTypes
<1> USE Names DEF PinTypes, AppTypes, ButtonIsMine
<1>1. CASE SysfsTouches
  <2>1. UNCHANGED <<app, classes, away>>
    BY <1>0, <1>1, TouchTypes, Zenon DEF SysfsTouches, SysfsNoted, polling
  <2>2. req'[Btn] = req[Btn] \/ (req[Btn] = None /\ req'[Btn] = "diy")
    BY <1>0, <1>1, TouchRequests DEF SysfsTouches
  <2> QED BY <1>0, <2>1, <2>2 DEF None
<1>2. CASE ButtonActs
  <2>0. UNCHANGED app
    BY <1>0, <1>2, ButtonTypes DEF ButtonActs
  <2>1. CASE ButtonFreesBtn
    <3>1. req'[Btn] = None /\ Btn \notin classes'
      BY <1>0, <2>1 DEF ButtonFreesBtn, Frees
    <3>2. app \notin {"off", "export31"} => away'
      BY <1>2, <2>1, Zenon DEF ButtonActs
    <3> QED BY <2>0, <3>1, <3>2 DEF None
  <2>2. CASE ~ButtonFreesBtn
    <3>1. Btn \in classes' <=> Btn \in classes
      BY <1>2, <2>2 DEF ButtonActs, ButtonNext, ButtonTakesLed, ButtonTakesBtn, ButtonTakesIrq,
         Pushed, ButtonDarkens, ButtonFreesIrq, ButtonFreesLed, Frees
    <3>2. req'[Btn] = req[Btn] \/ (req[Btn] = None /\ req'[Btn] = "button")
      BY <1>0, <1>2, <2>2 DEF ButtonActs, ButtonNext, ButtonTakesLed, ButtonTakesBtn,
         ButtonTakesIrq, Pushed, ButtonDarkens, ButtonFreesIrq, ButtonFreesLed, Frees,
         Requested
    <3>3. away' <=> away
      BY <1>2, <2>2, Zenon DEF ButtonActs
    <3> QED BY <1>0, <2>0, <3>1, <3>2, <3>3 DEF None
  <2> QED BY <2>1, <2>2
<1>3. CASE AppActs
  <2> USE DEF AppTo, pins
  <2>1. CASE GPIOExport(Btn, "export31", "in31")
    <3>1. away' <=> req[Btn] \notin {None, "class"}
      BY <1>3, <2>1, Zenon DEF AppActs, GPIOExport
    <3>2. fds < MaxFds
      BY <2>1, <1>0 DEF GPIOExport, Places
    <3>3. CASE req[Btn] = None
      BY <1>0, <2>1, <3>1, <3>2, <3>3 DEF GPIOExport, Requested
    <3>4. CASE req[Btn] # None
      BY <1>0, <2>1, <3>1, <3>4 DEF GPIOExport
    <3> QED BY <3>3, <3>4
  <2>2. CASE Run \/ Stop
    BY <1>0, <2>2 DEF Run, Stop
  <2>3. ASSUME app \notin {"off", "export31"}, app' \notin {"off", "export31"},
               Btn \in classes' <=> Btn \in classes, req'[Btn] = req[Btn]
        PROVE  ButtonIsMine'
    <3>1. away' <=> away
      BY <1>3, <2>3, Zenon DEF AppActs
    <3> QED BY <1>0, <2>3, <3>1
  <2>4. CASE GPIOExport(Led, "export30", "out30")
    BY <1>0, <2>3, <2>4 DEF GPIOExport, Requested
  <2>5. CASE \/ Opens(Btn, "in31") \/ Opens(Led, "out30") \/ Opens(Led, "low")
             \/ Opens(Btn, "poll") \/ Opens(Led, "read") \/ Opens(Led, "write")
    BY <2>3, <2>5 DEF Opens
  <2>6. CASE \/ CannotOpen(Btn, "in31", "export30") \/ CannotOpen(Led, "out30", "low")
             \/ CannotOpen(Led, "low", "poll") \/ CannotOpen(Led, "read", "write")
             \/ CannotOpen(Led, "write", "poll")
    BY <2>3, <2>6 DEF CannotOpen
  <2>7. CASE \/ GPIODirection(Btn, "in", "in31", "export30")
             \/ GPIODirection(Led, "out", "out30", "low")
    BY <2>3, <2>7 DEF GPIODirection
  <2>8. CASE GPIOWrite(Led, 0, "low") \/ WriteLed
    BY <2>3, <2>8 DEF GPIOWrite, WriteLed
  <2>9. CASE PollButton \/ ReadLed
    BY <2>3, <2>9 DEF PollButton, ReadLed
  <2> QED BY <1>3, <2>1, <2>2, <2>4, <2>5, <2>6, <2>7, <2>8, <2>9 DEF AppActs, AppNext
<1>4. CASE UNCHANGED vars
  <2>1. UNCHANGED <<app, classes, req, away>>
    BY <1>4, Zenon DEF vars, pins, polling, story
  <2> QED BY <1>0, <2>1
<1> QED BY <1>1, <1>2, <1>3, <1>4 DEF Next

(* What the handler does to an LED that is an output. *)
LEMMA PushedTurns ==
  ASSUME PinTypes, Pushed, Led \in out
  PROVE  Led \in out' /\ (Led \in high' <=> Led \notin high)
BY DEF PinTypes, Pushed, SetValue, Levels

LEMMA SeenStep ==
  ASSUME Inv, [Next]_vars
  PROVE  SeenHolds'
<1>0. PinTypes /\ AppTypes /\ Places /\ SeenHolds /\ odd \in BOOLEAN
  BY DEF Inv, TypeOK, PinTypes, AppTypes
<1> SUFFICES ASSUME app' = "write", alone', seen' # -1, Led \in out'
             PROVE  (seen' = 1 <=> Led \in high') <=> ~odd'
  BY DEF SeenHolds
<1> USE Names
<1>1. ASSUME app = "write", alone, UNCHANGED seen, LedKept, odd' <=> odd
      PROVE  (seen' = 1 <=> Led \in high') <=> ~odd'
  <2>1. (seen = 1 <=> Led \in high) <=> ~odd
    BY <1>0, <1>1 DEF SeenHolds, LedKept
  <2>2. Led \in high' <=> Led \in high
    BY <1>1, Zenon DEF LedKept
  <2> QED BY <1>1, <2>1, <2>2, Zenon
<1>2. CASE SysfsTouches
  <2>1. UNCHANGED <<app, seen>> /\ LedKept /\ alone /\ (odd' <=> odd)
    BY <1>2, Zenon DEF SysfsTouches, SysfsNoted, polling
  <2> QED BY <1>1, <2>1
<1>3. CASE ButtonActs
  <2>1. UNCHANGED <<app, seen>>
    BY <1>0, <1>3, ButtonTypes DEF ButtonActs
  <2>2. alone
    BY <1>3, Zenon DEF ButtonActs
  <2>3. CASE Pushed
    <3>1. odd' <=> ~odd
      BY <1>3, <2>1, <2>3, Zenon DEF ButtonActs
    <3>2. Led \in out
      BY <2>3 DEF Pushed
    <3>3. Led \in high' <=> Led \notin high
      BY <1>0, <2>3, <3>2, PushedTurns
    <3>4. (seen = 1 <=> Led \in high) <=> ~odd
      BY <1>0, <2>1, <2>2, <3>2 DEF SeenHolds
    <3> QED BY <2>1, <3>1, <3>3, <3>4, Zenon
  <2>4. CASE ~Pushed
    <3>1. (odd' <=> odd) /\ LedKept
      BY <1>3, <2>4, Zenon DEF ButtonActs
    <3> QED BY <1>1, <2>1, <2>2, <3>1
  <2> QED BY <2>3, <2>4
<1>4. CASE AppActs
  <2> USE DEF AppTo
  <2>1. CASE ReadLed
    <3>1. ~odd'
      BY <1>4, <2>1, Zenon DEF AppActs, ReadLed
    <3>2. Led \in classes /\ seen' \in Levels(Led) /\ UNCHANGED <<out, high>>
      BY <2>1 DEF ReadLed, GPIORead, pins
    <3>3. seen' = 1 <=> Led \in high'
      BY <3>2 DEF Levels
    <3> QED BY <3>1, <3>3, Zenon
  <2>2. CASE Opens(Led, "write")
    <3>1. app = "write" /\ UNCHANGED <<seen, out, high>>
      BY <2>2, Zenon DEF Opens, pins
    <3>2. alone /\ (odd' <=> odd)
      BY <1>4, <3>1, Zenon DEF AppActs
    <3>3. LedKept
      BY <3>1 DEF LedKept
    <3> QED BY <1>1, <3>1, <3>2, <3>3
  <2>3. CASE CannotOpen(Led, "read", "write")
    BY <2>3 DEF CannotOpen
  <2> QED BY <1>4, <2>1, <2>2, <2>3 DEF AppActs, AppNext, Run, Stop, GPIOExport, Opens,
      CannotOpen, GPIODirection, GPIOWrite, WriteLed, PollButton
<1>5. CASE UNCHANGED vars
  <2>1. UNCHANGED <<app, seen, out, high, odd, alone>>
    BY <1>5, Zenon DEF vars, pins, polling, story
  <2> QED BY <1>1, <2>1, Zenon DEF LedKept
<1> QED BY <1>2, <1>3, <1>4, <1>5 DEF Next

LEMMA Invariance == Spec => []Inv
<1>1. Inv /\ [Next]_vars => Inv'
  BY TypeStep, PlacesStep, LeaksStep, LedStep, ButtonStep, SeenStep DEF Inv
<1> QED BY InitInv, <1>1, PTL DEF Spec

(* Every variable keeps its type; an output only is ever high.             *)
THEOREM TypeCorrect == Spec => []TypeOK
<1>1. Inv => TypeOK
  BY DEF Inv
<1> QED BY Invariance, <1>1, PTL

(* For any limit of descriptors, the application loses one each time the   *)
(* interrupt driver takes away the pin whose file it has open, and no      *)
(* other, as long as its LED is not turned into an input.                  *)
THEOREM LeaksExplained == Spec => []LeaksCounted
<1>1. Inv => LeaksCounted
  BY DEF Inv
<1> QED BY Invariance, <1>1, PTL

(* The application polls a button that is not there exactly when its pin   *)
(* was another's at the start or has been freed by btn_exit.               *)
THEOREM DeafnessExplained == Spec => []DeafWhenRobbed
<1>1. Inv => DeafWhenRobbed
  BY DEF Inv, ButtonIsMine, DeafWhenRobbed
<1> QED BY Invariance, <1>1, PTL

(* Read, decide and write undo exactly an odd number of runs of the        *)
(* handler in between.                                                     *)
THEOREM ToggleIsExact == Spec => TogglesAdd
<1> DEFINE A == (app = "write" /\ app' = "poll" /\ file = Led /\ Led \in classes \cap out
                   /\ alone /\ seen # -1)
                  => ((Led \in high' <=> Led \in high) <=> odd)
<1>1. Inv /\ [Next]_vars => [A]_vars
  <2> SUFFICES ASSUME Inv, Next, app = "write", app' = "poll", file = Led,
                      Led \in classes \cap out, alone, seen # -1
               PROVE  (Led \in high' <=> Led \in high) <=> odd
    OBVIOUS
  <2>1. file # None
    BY Names
  <2>2. PinTypes /\ AppTypes
    BY DEF Inv, TypeOK, PinTypes, AppTypes
  <2>3. WriteLed
    <3>1. ~SysfsTouches
      BY DEF SysfsTouches, SysfsNoted, polling
    <3>2. ~ButtonActs
      BY <2>2, ButtonTypes DEF ButtonActs
    <3> QED BY <2>1, <3>1, <3>2 DEF Next, AppActs, AppNext, Run, Stop, GPIOExport, Opens,
               CannotOpen, GPIODirection, GPIOWrite, PollButton, ReadLed, AppTo
  <2>4. Led \in high' <=> seen # 1
    BY <2>3 DEF WriteLed, GPIOWrite, SetValue
  <2>5. (seen = 1 <=> Led \in high) <=> ~odd
    BY DEF Inv, SeenHolds
  <2> QED BY <2>4, <2>5, Zenon
<1> QED BY Invariance, <1>1, PTL DEF Spec, TogglesAdd
=============================================================================
