----------------------------- MODULE GpioSysfs ------------------------------
(***************************************************************************)
(* 05-button-led-integer-DIY/gpio-sysfs.c: a driver with files of its own, *)
(* /sys/bbb_gpios/export, unexport and gpioN/direction, value.  It keeps   *)
(* one pin number (GPIO_LED) and one pointer to the directory it made last *)
(* (kobj_control) for all directories.                                     *)
(*                                                                         *)
(* The kernel is external: kobject_create_and_add returns NULL when memory *)
(* runs out or the directory exists; sysfs_create_group refuses NULL or,   *)
(* in the kernels of the board, stops with BUG_ON; sysfs_remove_group uses *)
(* its kobject unseen.  A directory keeps its parent.  The attributes of a *)
(* directory that outlives the module are code that is no longer there.    *)
(* Two writers of unexport run at once, without a lock; export_store is    *)
(* one step.  _value and _direct, which the files show, are left out: they *)
(* are what was stored last for whatever pin, and read by nothing else.    *)
(***************************************************************************)
EXTENDS PinTouches

CONSTANT MaxUnexports \* writes to unexport that may be going on at once

ASSUME UnexportAssumption == MaxUnexports \in Nat \ {0}

VARIABLES
  mod,     \* the module: out, live; fault when memory not its own was
           \* used, bug when the kernel stopped it with BUG_ON
  led,     \* GPIO_LED
  control, \* the pin whose directory kobj_control was made for, or None
  dirs,    \* the directories gpioN
  files,   \* those of them with their files direction and value
  puts,    \* unexports between their two calls
  \* History.
  claim,   \* pins whose export the user has been told of, until unexported
  hollow,  \* those of them for which no directory was made
  misused  \* the user did not export and unexport one pin after the other

device == <<mod, led, control, dirs, files, puts>>
sysfs == <<device, claim, hollow, misused>>

SysfsInit ==
  /\ mod = "out" /\ led = Btn /\ control = None
  /\ dirs = {} /\ files = {} /\ puts = 0
  /\ claim = {} /\ hollow = {} /\ misused = FALSE

(* gpio_sysfs_init; a directory left over from the last time keeps         *)
(* /sys/bbb_gpios, so that the kobject cannot be created.                  *)
SysfsLoads ==
  /\ mod = "out" /\ dirs = {}
  /\ mod' = "live" /\ led' = Btn /\ control' = None
  /\ UNCHANGED <<pins, dirs, files, puts, claim, hollow, misused>>

(* For that reason, or for want of memory. *)
SysfsLoadFails ==
  /\ mod = "out" /\ mod' \in {"out", "bug"}
  /\ UNCHANGED <<pins, led, control, dirs, files, puts, claim, hollow, misused>>

(* gpio_sysfs_exit leaves the directories of the pins alone. *)
SysfsUnloads ==
  /\ mod = "live" /\ puts = 0 /\ mod' = "out"
  /\ misused' = (misused \/ claim # {})
  /\ claim' = {} /\ hollow' = {}
  /\ UNCHANGED <<pins, led, control, dirs, files, puts>>

(* A file of a directory that has outlived the module is used. *)
StaleFileUsed ==
  /\ mod = "out" /\ files # {} /\ mod' = "fault"
  /\ UNCHANGED <<pins, led, control, dirs, files, puts, claim, hollow, misused>>

-----------------------------------------------------------------------------
(* export_store returns count whatever happened: the user has the pin.  He *)
(* keeps the protocol if he had no other and is not unexporting one.       *)
Told(n, made) ==
  /\ claim' = claim \cup {n}
  /\ hollow' = IF made THEN hollow \ {n} ELSE hollow \cup {n}
  /\ misused' = (misused \/ claim # {} \/ puts > 0)

(* The number exported last, or at first the default: "Done!". *)
ExportSame ==
  /\ mod = "live" /\ Told(led, led \in dirs)
  /\ UNCHANGED <<pins, device>>

(* Wrong: kobj_control keeps the directory made first. *)
ExportKeepsControl(n) ==
  /\ mod = "live" /\ n # led /\ n \notin dirs
  /\ led' = n /\ dirs' = dirs \cup {n} /\ files' = files \cup {n}
  /\ control' = IF control = None THEN n ELSE control
  /\ req' = Requested(req, n, "diy")
  /\ Told(n, TRUE)
  /\ UNCHANGED <<out, high, classes, irq, mod, puts>>

Export(n) ==
  /\ mod = "live" /\ n # led /\ n \notin dirs
  /\ led' = n /\ control' = n
  /\ dirs' = dirs \cup {n} /\ files' = files \cup {n}
  /\ req' = Requested(req, n, "diy")
  /\ Told(n, TRUE)
  /\ UNCHANGED <<out, high, classes, irq, mod, puts>>

(* The kobject cannot be created: kobj_control is NULL. *)
ExportNoKobject(n) ==
  /\ mod = "live" /\ n # led
  /\ led' = n /\ control' = None
  /\ mod' \in {"live", "bug"}
  /\ Told(n, n \in dirs)
  /\ UNCHANGED <<pins, dirs, files, puts>>

(* The group cannot be created: the directory is put and the pointer kept. *)
ExportNoGroup(n) ==
  /\ mod = "live" /\ n # led /\ n \notin dirs
  /\ led' = n /\ control' = n
  /\ Told(n, FALSE)
  /\ UNCHANGED <<pins, mod, dirs, files, puts>>

-----------------------------------------------------------------------------
(* unexport_store: the number is not read, the pin is not freed, GPIO_LED  *)
(* and the pointer stay.  First the files go, of the kobject the pointer   *)
(* names.                                                                  *)
UnexportRemoves ==
  /\ mod = "live" /\ puts < MaxUnexports
  /\ misused' = (misused \/ claim = {} \/ puts > 0)
  /\ IF control \in dirs
       THEN files' = files \ {control} /\ puts' = puts + 1 /\ UNCHANGED mod
       ELSE mod' = "fault" /\ UNCHANGED <<files, puts>>
  /\ UNCHANGED <<pins, led, control, dirs, claim, hollow>>

(* Wrong: the pin is freed, whoever has requested it. *)
UnexportFrees ==
  /\ mod = "live" /\ puts > 0
  /\ puts' = puts - 1 /\ dirs' = dirs \ {control} /\ files' = files \ {control}
  /\ req' = [req EXCEPT ![led] = None] /\ claim' = {} /\ hollow' = {}
  /\ UNCHANGED <<out, high, classes, irq, mod, led, control, misused>>

(* Then the directory, of the kobject it names by now. *)
UnexportPuts ==
  /\ mod = "live" /\ puts > 0
  /\ puts' = puts - 1
  /\ IF control \in dirs
       THEN /\ dirs' = dirs \ {control} /\ files' = files \ {control}
            /\ UNCHANGED mod
       ELSE mod' = "fault" /\ UNCHANGED <<dirs, files>>
  /\ claim' = {} /\ hollow' = {}
  /\ UNCHANGED <<pins, led, control, misused>>

(* direction_store through the file of any directory acts on GPIO_LED. *)
SysfsDirection(d) ==
  /\ mod = "live" /\ files # {}
  /\ IF d = "in" THEN Input(led)
     ELSE ~Locked(led) /\ Output(led)
  /\ UNCHANGED <<req, classes, irq, sysfs>>

(* value_store, likewise. *)
SysfsValue(v) ==
  /\ mod = "live" /\ files # {}
  /\ SetValue(led, v)
  /\ UNCHANGED <<req, out, classes, irq, sysfs>>

SysfsNext ==
  \/ SysfsLoads \/ SysfsLoadFails \/ SysfsUnloads \/ StaleFileUsed
  \/ ExportSame \/ UnexportRemoves \/ UnexportPuts
  \/ \E n \in Pin : Export(n) \/ ExportNoKobject(n) \/ ExportNoGroup(n)
  \/ \E d \in {"in", "out"} : SysfsDirection(d)
  \/ \E v \in {0, 1} : SysfsValue(v)

(* The driver alone with the pins. *)
AloneInit == PinsInit /\ SysfsInit

SysfsSpec == AloneInit /\ [][SysfsNext]_<<pins, sysfs>>

-----------------------------------------------------------------------------
SysfsTypeOK ==
  /\ mod \in {"out", "live", "fault", "bug"} /\ led \in Pin
  /\ control \in Pin \cup {None} /\ dirs \subseteq Pin /\ files \subseteq dirs
  /\ puts \in 0..MaxUnexports
  /\ claim \subseteq Pin /\ hollow \subseteq claim /\ misused \in BOOLEAN

(* Who exports one pin at a time, unexports it before the next and before  *)
(* rmmod, makes the driver use memory that is not there only if an export  *)
(* that was answered with success had made nothing (which is not noticed   *)
(* either way); otherwise, though unexport looks at nothing and forgets    *)
(* nothing, there is the directory of the exported pin and no other, and a *)
(* store into gpioN/direction or gpioN/value reaches pin N.                *)
SysfsProtocolIsSafe ==
  ~misused =>
    /\ mod = "fault" => hollow # {}
    /\ mod = "out" => dirs = {}
    /\ (mod = "live" /\ puts = 0) =>
         dirs = claim \ hollow /\ files = dirs /\ dirs \subseteq {led}

(* Whatever the user does, the other programs on the pins see no more of   *)
(* the driver than that pins are requested and set, and none ever freed:   *)
(* what is checked and proved of them with any such steps holds with it.   *)
PinsOnlyTouched == TouchSpec
=============================================================================
