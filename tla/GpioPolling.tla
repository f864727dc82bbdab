---------------------------- MODULE GpioPolling -----------------------------
(***************************************************************************)
(* 04-button-led-integer: the button toggles the LED, once by an interrupt *)
(* handler in the kernel (button-led.c), once by an application that polls *)
(* the button through /sys/class/gpio (app-button-led.c with gpio.c).  All *)
(* results of the calls are ignored.                                       *)
(*                                                                         *)
(* A file of /sys is opened in one step and read or written in another:    *)
(* by then the pin may have been freed, and the file answers with an       *)
(* error.  The handler is one step, because the board has one core.        *)
(***************************************************************************)
EXTENDS GpioPins

CONSTANT MaxFds \* descriptors the application may have open

ASSUME FdsAssumption == MaxFds \in Nat \ {0}

VARIABLES
  button, \* button-led: out, in, or how far btn_init or btn_exit has come
  app,    \* the application's place in main
  file,   \* the pin whose file it has open, or None
  seen,   \* what it has read from the LED's pin, -1 for an error
  fds     \* descriptors it has not closed and forgotten

polling == <<button, app, file, seen, fds>>

PollingInit ==
  button = "out" /\ app = "off" /\ file = None /\ seen = 0 /\ fds = 0

-----------------------------------------------------------------------------
(* button-led.c *)

(* btn_init: the LED, ... *)
ButtonTakesLed ==
  /\ button = "out" /\ button' = "led"
  /\ req' = Requested(req, Led, "button")
  /\ Output(Led)
  /\ UNCHANGED <<classes, irq, app, file, seen, fds>>

(* ... the button ... *)
ButtonTakesBtn ==
  /\ button = "led" /\ button' = "btn"
  /\ req' = Requested(req, Btn, "button")
  /\ Input(Btn)
  /\ UNCHANGED <<classes, irq, app, file, seen, fds>>

(* ... and its interrupt; that request_irq fails, as it does if the pin    *)
(* has become an output, is not noticed.                                   *)
ButtonTakesIrq ==
  /\ button = "btn" /\ button' = "in"
  /\ irq' \in BOOLEAN /\ (irq' => Btn \notin out)
  /\ UNCHANGED <<req, out, high, classes, app, file, seen, fds>>

(* btn_pushed_irq_handler. *)
Pushed ==
  /\ irq
  /\ \E state \in Levels(Led) : SetValue(Led, IF state = 0 THEN 1 ELSE 0)
  /\ UNCHANGED <<req, out, classes, irq, polling>>

(* btn_exit: the LED goes dark while the button still works, ... *)
ButtonDarkens ==
  /\ button = "in" /\ button' = "dark"
  /\ SetValue(Led, 0)
  /\ UNCHANGED <<req, out, classes, irq, app, file, seen, fds>>

ButtonFreesIrq ==
  /\ button = "dark" /\ button' = "deaf" /\ irq' = FALSE
  /\ UNCHANGED <<req, out, high, classes, app, file, seen, fds>>

(* ... and gpio_free frees a pin whoever requested it, which also takes it *)
(* out of /sys/class/gpio.                                                 *)
Frees(p) == req' = [req EXCEPT ![p] = None] /\ classes' = classes \ {p}

ButtonFreesLed ==
  /\ button = "deaf" /\ button' = "half" /\ Frees(Led)
  /\ UNCHANGED <<out, high, irq, app, file, seen, fds>>

ButtonFreesBtn ==
  /\ button = "half" /\ button' = "out" /\ Frees(Btn)
  /\ UNCHANGED <<out, high, irq, app, file, seen, fds>>

-----------------------------------------------------------------------------
(* gpio.c and app-button-led.c *)

AppTo(l) == app' = l
CanOpen(p) == p \in classes /\ fds < MaxFds

Run ==
  /\ app = "off" /\ AppTo("export31")
  /\ UNCHANGED <<pins, button, file, seen, fds>>

(* Wrong: whatever the pin, the LED's is exported. *)
ExportsLed(p, from, to) ==
  /\ app = from /\ AppTo(to)
  /\ IF req[Led] = None /\ fds < MaxFds
       THEN req' = Requested(req, Led, "class") /\ classes' = classes \cup {Led}
       ELSE UNCHANGED <<req, classes>>
  /\ UNCHANGED <<out, high, irq, button, file, seen, fds>>

(* GPIOExport(pin_): the write fails if somebody has requested the pin. *)
GPIOExport(p, from, to) ==
  /\ app = from /\ AppTo(to)
  /\ IF req[p] = None /\ fds < MaxFds
       THEN req' = Requested(req, p, "class") /\ classes' = classes \cup {p}
       ELSE UNCHANGED <<req, classes>>
  /\ UNCHANGED <<out, high, irq, button, file, seen, fds>>

(* open in GPIODirection, GPIOWrite and GPIORead. *)
Opens(p, at) ==
  /\ app = at /\ file = None /\ CanOpen(p)
  /\ file' = p
  /\ UNCHANGED <<pins, button, app, seen, fds>>

(* open fails: -1, and main goes on. *)
CannotOpen(p, at, to) ==
  /\ app = at /\ file = None /\ ~CanOpen(p)
  /\ AppTo(to) /\ seen' = IF at = "read" THEN -1 ELSE seen
  /\ UNCHANGED <<pins, button, file, fds>>

(* The call on the open file succeeds, or it fails and the early return    *)
(* forgets close.                                                          *)
Closes == file' = None /\ UNCHANGED fds
Forgets == file' = None /\ fds' = fds + 1

(* Wrong: the LED's direction is not written. *)
DirectionForgotten(p, d, at, to) ==
  /\ app = at /\ file = p /\ AppTo(to) /\ Closes
  /\ UNCHANGED <<pins, button, seen>>

(* GPIODirection(pin_, dir_) once open; the LED's pin, the only output,    *)
(* has no interrupt that could forbid it.                                  *)
GPIODirection(p, d, at, to) ==
  /\ app = at /\ file = p /\ AppTo(to)
  /\ \/ p \notin classes /\ Forgets /\ UNCHANGED <<out, high>>
     \/ p \in classes /\ d = "in" /\ Input(p) /\ Closes
     \/ p \in classes /\ d = "out" /\ Output(p) /\ Closes
  /\ UNCHANGED <<req, classes, irq, button, seen>>

(* GPIOWrite(pin_, value_) once open: the write to an input fails too. *)
GPIOWrite(p, v, at) ==
  /\ app = at /\ file = p /\ AppTo("poll")
  /\ seen' = 0
  /\ IF p \in classes \cap out THEN SetValue(p, v) /\ Closes
                               ELSE Forgets /\ UNCHANGED high
  /\ UNCHANGED <<req, out, classes, irq, button>>

(* GPIORead(pin_) once open: what it returns, -1 for an error. *)
GPIORead(p) == IF p \in classes THEN Levels(p) ELSE {-1}

(* GPIORead(31) == HIGH? *)
PollButton ==
  /\ app = "poll" /\ file = Btn
  /\ \E v \in GPIORead(Btn) :
       /\ IF v = -1 THEN Forgets ELSE Closes
       /\ AppTo(IF v = 1 THEN "read" ELSE "poll")
  /\ UNCHANGED <<pins, button, seen>>

ReadLed ==
  /\ app = "read" /\ file = Led
  /\ seen' \in GPIORead(Led)
  /\ IF seen' = -1 THEN Forgets ELSE Closes
  /\ AppTo("write")
  /\ UNCHANGED <<pins, button>>

(* Wrong: what was read is written back. *)
WriteSame == GPIOWrite(Led, IF seen = 1 THEN 1 ELSE 0, "write")

(* The LED is written as the opposite of what was read; an error counts as *)
(* low.                                                                    *)
WriteLed == GPIOWrite(Led, IF seen = 1 THEN 0 ELSE 1, "write")

(* Ctrl-C: what is exported stays exported. *)
Stop ==
  /\ app # "off" /\ AppTo("off")
  /\ file' = None /\ fds' = 0 /\ seen' = 0
  /\ UNCHANGED <<pins, button>>

ButtonNext ==
  \/ ButtonTakesLed \/ ButtonTakesBtn \/ ButtonTakesIrq \/ Pushed
  \/ ButtonDarkens \/ ButtonFreesIrq \/ ButtonFreesLed \/ ButtonFreesBtn

AppNext ==
  \/ Run \/ GPIOExport(Btn, "export31", "in31")
  \/ Opens(Btn, "in31") \/ CannotOpen(Btn, "in31", "export30")
  \/ GPIODirection(Btn, "in", "in31", "export30")
  \/ GPIOExport(Led, "export30", "out30")
  \/ Opens(Led, "out30") \/ CannotOpen(Led, "out30", "low")
  \/ GPIODirection(Led, "out", "out30", "low")
  \/ Opens(Led, "low") \/ CannotOpen(Led, "low", "poll") \/ GPIOWrite(Led, 0, "low")
  \/ Opens(Btn, "poll") \/ PollButton
  \/ Opens(Led, "read") \/ CannotOpen(Led, "read", "write") \/ ReadLed
  \/ Opens(Led, "write") \/ CannotOpen(Led, "write", "poll") \/ WriteLed
  \/ Stop
=============================================================================
