----------------------------- MODULE CharDriver -----------------------------
(***************************************************************************)
(* 02-device-file/hello.c: a character driver that reads a hardware        *)
(* register whose address user space has written before.  init registers   *)
(* six things one after the other and undoes them by gotos when one fails; *)
(* /dev/iomodule can be opened as soon as the cdev is added.  All files    *)
(* share one address cell (input_addr), one mapping pointer (dev_ioaddr)   *)
(* and one value cell (output_val), without a lock: an operation is one    *)
(* step per access to them.                                                *)
(*                                                                         *)
(* A register's value is represented by its address.  The kernel is        *)
(* external: an open file pins the module (.owner); ioremap returns NULL   *)
(* for an address that cannot be mapped and, since every read and write    *)
(* makes a mapping that is not undone, once there is no room for another.  *)
(* The position is the file's, or the one pread and pwrite bring.  The     *)
(* count of opens, only logged, and the memory of buffers are left out;    *)
(* who dereferences NULL or runs over a buffer stops there.                *)
(***************************************************************************)
EXTENDS Integers, Sequences

CONSTANTS User,       \* processes that use the device file
          Addr,       \* addresses user space writes
          Prr,        \* PRR_PORT_BASE
          Unmappable, \* the addresses ioremap refuses
          Zero,       \* 0, in input_addr before the first write
          Transmit,   \* DATA_TRANSMIT
          SizeT,      \* size_t counts modulo this
          Offsets,    \* positions that pread and pwrite bring
          Space       \* the mappings there is room for

ASSUME DriverAssumption ==
  /\ Prr \in Addr \ Unmappable /\ Unmappable \subseteq Addr
  /\ Zero \in Addr \ {Prr} /\ "null" \notin Addr
  /\ Transmit \in Nat \ {0} /\ SizeT \in Nat /\ Transmit + 1 < SizeT
  /\ Offsets \subseteq Nat /\ Space \in Nat

VARIABLES
  mod,    \* the module: out, init, unwind, live; oops, died: a NULL
          \* dereference in cleanup, in init
  held,   \* what it has registered or allocated
  ret0,   \* init's ret is 0 while it unwinds
  maps,   \* mappings in use, of this and earlier loads
  input, dev, output,  \* *input_addr, what dev_ioaddr maps, output_val
  pc, fpos,            \* each user's place and its file's position
  args,                \* what its operation was called with
  local,               \* ioremap's argument, then what ioread32 returned
  \* History.
  early,  \* the file was opened before init had returned
  lone,   \* no other operation has overlapped this one
  badMap, \* an address that cannot be mapped has been written
  last,   \* the address written last, Zero before the first
  raced   \* it was written during a read, over 0 or over such an address

drv == <<mod, held, ret0>>
regs == <<input, dev, output>>
wrote == <<badMap, last, raced>>
hist == <<early, lone, wrote>>
vars == <<mod, held, ret0, maps, input, dev, output, pc, fpos, args, local,
          early, lone, badMap, last, raced>>

(* In the order init acquires them. *)
Stages == <<"devnum", "class", "device", "cdev", "mem", "addr">>
Res == {Stages[n] : n \in 1..6}
Null == "null"

InRead == {"default", "fetch", "remap", "load", "store", "copy"}
InWrite == {"parsed", "wremap", "wload", "wstore"}
InOp == InRead \cup InWrite
Place == InOp \cup {"closed", "idle", "fault", "wfault", "overrun"}

Goto(u, p) == pc' = [pc EXCEPT ![u] = p]
Mapping(a) == IF a \in Unmappable \/ maps = Space THEN Null ELSE a

(* ioremap: the mapping replaced in dev_ioaddr stays. *)
Remap(a) ==
  /\ dev' = Mapping(a)
  /\ maps' = IF dev' = Null THEN maps ELSE maps + 1

NoArgs == [own |-> TRUE, off |-> 0, count |-> 0, over |-> FALSE]

Init ==
  /\ mod = "out" /\ held = {} /\ ret0 = FALSE /\ maps = 0
  /\ input = Zero /\ dev = Null /\ output = Zero
  /\ pc = [u \in User |-> "closed"] /\ fpos = [u \in User |-> 0]
  /\ args = [u \in User |-> NoArgs] /\ local = [u \in User |-> Prr]
  /\ early = [u \in User |-> FALSE] /\ lone = [u \in User |-> FALSE]
  /\ badMap = FALSE /\ last = Zero /\ raced = FALSE

-----------------------------------------------------------------------------
(* read_write_IOmodule_init and _cleanup *)

Insmod ==
  /\ mod = "out" /\ \A u \in User : pc[u] = "closed"
  /\ mod' = "init" /\ input' = Zero /\ dev' = Null /\ output' = Zero
  /\ badMap' = FALSE /\ last' = Zero /\ raced' = FALSE
  /\ UNCHANGED <<held, ret0, maps, pc, fpos, args, local, early, lone>>

StageIs(n) == \A m \in 1..6 : Stages[m] \in held <=> m < n

Acquire(n) ==
  /\ mod = "init" /\ StageIs(n)
  /\ held' = held \cup {Stages[n]}
  /\ UNCHANGED <<mod, ret0, maps, regs, pc, fpos, args, local, hist>>

(* goto failed_...: a class or device that failed leaves ret at 0.  A class *)
(* that failed is an ERR_PTR, not NULL: device_create then fails with it.   *)
AcquireFails(n) ==
  /\ mod = "init" /\ StageIs(n)
  /\ mod' = "unwind"
  /\ ret0' = (Stages[n] \in {"class", "device"})
  /\ UNCHANGED <<held, maps, regs, pc, fpos, args, local, hist>>

(* cdev_alloc's NULL goes into cdev_init. *)
CdevAllocFails ==
  /\ mod = "init" /\ StageIs(4) /\ mod' = "died"
  /\ UNCHANGED <<held, ret0, maps, regs, pc, fpos, args, local, hist>>

(* The first ioremap, of the PRR, an ioread32 of it unseen, and return 0. *)
InitReturns ==
  /\ mod = "init" /\ held = Res
  /\ Remap(Prr)
  /\ mod' = IF dev' = Null THEN "died" ELSE "live"
  /\ UNCHANGED <<held, ret0, input, output, pc, fpos, args, local, hist>>

(* Wrong: the label of the device is missing. *)
UnwindNoDevice(n) ==
  /\ mod = "unwind" /\ StageIs(n + 1)
  /\ IF Stages[n] = "cdev" THEN held' = {"device"} /\ mod' = "out"
     ELSE held' = held \ {Stages[n]} /\ UNCHANGED mod
  /\ UNCHANGED <<ret0, maps, regs, pc, fpos, args, local, hist>>

(* Labels fall through: the newest resource goes first. *)
Unwind(n) ==
  /\ mod = "unwind" /\ StageIs(n + 1)
  /\ held' = held \ {Stages[n]}
  /\ UNCHANGED <<mod, ret0, maps, regs, pc, fpos, args, local, hist>>

(* return ret: 0 makes the module live with nothing registered. *)
UnwindReturns ==
  /\ mod = "unwind" /\ held = {}
  /\ mod' = IF ret0 THEN "live" ELSE "out"
  /\ UNCHANGED <<held, ret0, maps, regs, pc, fpos, args, local, hist>>

(* cleanup undoes the last mapping only, and reads mem_addr->input_addr,   *)
(* whatever init left of it.                                               *)
Rmmod ==
  /\ mod = "live" /\ \A u \in User : pc[u] = "closed"
  /\ maps' = IF dev = Null THEN maps ELSE maps - 1
  /\ IF "mem" \in held THEN held' = {} /\ mod' = "out"
                       ELSE UNCHANGED held /\ mod' = "oops"
  /\ UNCHANGED <<ret0, regs, pc, fpos, args, local, hist>>

-----------------------------------------------------------------------------
(* The file operations. *)

Open(u) ==
  /\ pc[u] = "closed" /\ {"device", "cdev"} \subseteq held
  /\ Goto(u, "idle")
  /\ early' = [early EXCEPT ![u] = (mod # "live")]
  /\ UNCHANGED <<drv, maps, regs, fpos, args, local, lone, wrote>>

Close(u) ==
  /\ pc[u] = "idle" /\ Goto(u, "closed")
  /\ fpos' = [fpos EXCEPT ![u] = 0] /\ early' = [early EXCEPT ![u] = FALSE]
  /\ UNCHANGED <<drv, maps, regs, args, local, lone, wrote>>

(* Wrong: the count is not adjusted. *)
ClipNothing(n, f) == n

(* "adjust the count": at most up to DATA_TRANSMIT, in a size_t. *)
Clip(n, f) == IF f + n > Transmit THEN (Transmit - f) % SizeT ELSE n

Lengths == {1, Transmit + 1}

(* A call of read or write at position f: the count transmitted, and       *)
(* whether it is more than the buffer of n bytes holds.                    *)
Call(own, f, n) ==
  [own |-> own, off |-> f, count |-> Clip(n, f), over |-> Clip(n, f) > n]

Requests(u) ==
  {r \in UNION {{Call(TRUE, fpos[u], n)} \cup {Call(FALSE, f, n) : f \in Offsets} :
               n \in Lengths} : r.count # 0}

(* u begins an operation beside those already running. *)
MarkOverlap(u) ==
  lone' = [v \in User |-> IF v = u THEN \A w \in User \ {u} : pc[w] \notin InOp
                                   ELSE FALSE]

(* Back in user space: *f_pos is set at the end of what succeeds. *)
Finishes(u, ok) ==
  /\ Goto(u, "idle")
  /\ fpos' = IF ok /\ args[u].own THEN [fpos EXCEPT ![u] = args[u].count] ELSE fpos
  /\ args' = [args EXCEPT ![u] = NoArgs] /\ local' = [local EXCEPT ![u] = Prr]
  /\ lone' = [lone EXCEPT ![u] = FALSE]

(* The driver's memory is not there: a NULL dereference. *)
Faults(u) ==
  /\ pc[u] \in {"idle"} \cup InOp /\ "addr" \notin held
  /\ Goto(u, "fault")
  /\ UNCHANGED <<drv, maps, regs, fpos, args, local, hist>>

(* pcd_read as far as its first look at the shared address (with nothing   *)
(* left to transmit it returns -ENOMEM and changes nothing).               *)
ReadBegins(u) ==
  /\ pc[u] = "idle" /\ "addr" \in held
  /\ \E r \in Requests(u) : args' = [args EXCEPT ![u] = r]
  /\ Goto(u, IF input = Zero THEN "default" ELSE "fetch")
  /\ MarkOverlap(u)
  /\ UNCHANGED <<drv, maps, regs, fpos, local, early, wrote>>

(* The default address is the PRR. *)
ReadDefaults(u) ==
  /\ pc[u] = "default" /\ "addr" \in held
  /\ input' = Prr
  /\ Goto(u, "fetch")
  /\ UNCHANGED <<drv, maps, dev, output, fpos, args, local, hist>>

ReadFetches(u) ==
  /\ pc[u] = "fetch" /\ "addr" \in held
  /\ local' = [local EXCEPT ![u] = input]
  /\ Goto(u, "remap")
  /\ UNCHANGED <<drv, maps, regs, fpos, args, hist>>

(* Wrong: the mapping of the last write is used. *)
ReadNoRemap(u) ==
  /\ pc[u] = "remap" /\ "addr" \in held
  /\ Goto(u, "load")
  /\ UNCHANGED <<drv, maps, regs, fpos, args, local, hist>>

ReadRemaps(u) ==
  /\ pc[u] = "remap" /\ "addr" \in held
  /\ Remap(local[u])
  /\ Goto(u, "load")
  /\ UNCHANGED <<drv, input, output, fpos, args, local, hist>>

(* ioread32 through whatever dev_ioaddr is now; NULL is not checked. *)
ReadLoads(u) ==
  /\ pc[u] = "load" /\ "addr" \in held
  /\ IF dev = Null THEN UNCHANGED local /\ Goto(u, "fault")
                   ELSE local' = [local EXCEPT ![u] = dev] /\ Goto(u, "store")
  /\ UNCHANGED <<drv, maps, regs, fpos, args, hist>>

ReadStores(u) ==
  /\ pc[u] = "store" /\ "addr" \in held
  /\ output' = local[u] /\ Goto(u, "copy")
  /\ UNCHANGED <<drv, maps, input, dev, fpos, args, local, hist>>

(* sprintf of output_val and copy_to_user, which may refuse the user's     *)
(* buffer.                                                                 *)
ReadReturns(u) ==
  /\ pc[u] = "copy" /\ "addr" \in held
  /\ \/ Finishes(u, FALSE)
     \/ ~args[u].over /\ Finishes(u, TRUE)
     \/ args[u].over /\ Goto(u, "overrun") /\ UNCHANGED <<fpos, args, local, lone>>
  /\ UNCHANGED <<drv, maps, regs, early, wrote>>

(* copy_from_user refuses (nothing changes) or fills more than the buffer. *)
WriteOverruns(u) ==
  /\ pc[u] = "idle"
  /\ \E r \in Requests(u) : r.over /\ args' = [args EXCEPT ![u] = r]
  /\ Goto(u, "overrun")
  /\ UNCHANGED <<drv, maps, regs, fpos, local, hist>>

(* pcd_write up to kstrtoul; a text that is no number changes nothing. *)
WriteParses(u) ==
  /\ pc[u] = "idle" /\ "addr" \in held
  /\ \E r \in Requests(u) : ~r.over /\ args' = [args EXCEPT ![u] = r]
  /\ input' \in Addr
  /\ badMap' = (badMap \/ input' \in Unmappable)
  /\ last' = input'
  /\ raced' = ((last = Zero \/ raced) /\ \E v \in User : pc[v] \in InRead)
  /\ Goto(u, "parsed")
  /\ MarkOverlap(u)
  /\ UNCHANGED <<drv, maps, dev, output, fpos, local, early>>

(* The argument of ioremap is read again from the shared cell. *)
WriteReadsBack(u) ==
  /\ pc[u] = "parsed" /\ "addr" \in held
  /\ local' = [local EXCEPT ![u] = input]
  /\ Goto(u, "wremap")
  /\ UNCHANGED <<drv, maps, regs, fpos, args, hist>>

(* Wrong: NULL is not looked for. *)
WriteUnchecked(u) ==
  /\ pc[u] = "wremap" /\ "addr" \in held
  /\ Remap(local[u])
  /\ Goto(u, "wload") /\ UNCHANGED <<fpos, args>>
  /\ UNCHANGED <<drv, input, output, local, hist>>

(* A NULL is noticed, but stays in dev_ioaddr and input keeps the address. *)
WriteRemaps(u) ==
  /\ pc[u] = "wremap" /\ "addr" \in held
  /\ Remap(local[u])
  /\ IF dev' = Null THEN Finishes(u, FALSE)
     ELSE Goto(u, "wload") /\ UNCHANGED <<fpos, args, local, lone>>
  /\ UNCHANGED <<drv, input, output, early, wrote>>

WriteLoads(u) ==
  /\ pc[u] = "wload" /\ "addr" \in held
  /\ IF dev = Null THEN UNCHANGED local /\ Goto(u, "wfault")
                   ELSE local' = [local EXCEPT ![u] = dev] /\ Goto(u, "wstore")
  /\ UNCHANGED <<drv, maps, regs, fpos, args, hist>>

WriteStores(u) ==
  /\ pc[u] = "wstore" /\ "addr" \in held
  /\ output' = local[u] /\ Finishes(u, TRUE)
  /\ UNCHANGED <<drv, maps, input, dev, early, wrote>>

ReadStep(u) ==
  \/ ReadBegins(u) \/ ReadDefaults(u) \/ ReadFetches(u) \/ ReadRemaps(u)
  \/ ReadLoads(u) \/ ReadStores(u) \/ ReadReturns(u)
WriteStep(u) ==
  \/ WriteOverruns(u) \/ WriteParses(u) \/ WriteReadsBack(u) \/ WriteRemaps(u)
  \/ WriteLoads(u) \/ WriteStores(u)
FileOp(u) ==
  Open(u) \/ Close(u) \/ Faults(u) \/ ReadStep(u) \/ WriteStep(u)

Next ==
  \/ Insmod \/ CdevAllocFails \/ InitReturns \/ UnwindReturns \/ Rmmod
  \/ \E n \in 1..6 : Acquire(n) \/ AcquireFails(n) \/ Unwind(n)
  \/ \E u \in User : FileOp(u)

Spec == Init /\ [][Next]_vars

-----------------------------------------------------------------------------
TypeOK ==
  /\ mod \in {"out", "init", "unwind", "live", "oops", "died"}
  /\ held \subseteq Res /\ ret0 \in BOOLEAN /\ maps \in 0..Space
  /\ input \in Addr /\ dev \in Addr \cup {Null} /\ output \in Addr
  /\ pc \in [User -> Place] /\ fpos \in [User -> Nat]
  /\ args \in [User -> [own : BOOLEAN, off : Nat, count : Nat, over : BOOLEAN]]
  /\ local \in [User -> Addr]
  /\ early \in [User -> BOOLEAN] /\ lone \in [User -> BOOLEAN]
  /\ badMap \in BOOLEAN /\ last \in Addr /\ raced \in BOOLEAN

(* However reads and writes of any length follow each other on a file, and *)
(* whichever of them fail half-way, its position stays within              *)
(* DATA_TRANSMIT, so that DATA_TRANSMIT - *f_pos does not wrap around in a *)
(* size_t and no call copies more than its buffer holds: only the offset   *)
(* of a pread or pwrite, which the driver does not look at, makes it.      *)
CopiesFit ==
  \A u \in User :
    /\ fpos[u] <= Transmit
    /\ pc[u] = "overrun" => ~args[u].own /\ args[u].off > Transmit

(* When the kernel takes the module for gone nothing of it is registered,  *)
(* whichever call of init failed.  When it takes it for loaded everything  *)
(* is there for rmmod to free; only if the class or the device could not   *)
(* be created, when init reports success with ret = 0, is there nothing.   *)
InitIsUndone ==
  /\ mod = "out" => held = {}
  /\ mod \in {"live", "oops"} => held = Res \/ (held = {} /\ ret0)

(* A file opened after init returned never finds the driver without its    *)
(* memory, and finds a NULL mapping only once an address that cannot be    *)
(* mapped has been written or the mappings nobody undoes have used up the  *)
(* room; a write, which looks for NULL, besides only if another operation  *)
(* overlaps it.                                                            *)
FaultsExplained ==
  \A u \in User : ~early[u] =>
    /\ pc[u] \in {"fault", "wfault"} => badMap \/ maps = Space
    /\ pc[u] = "wfault" => ~lone[u]

(* A read that overlaps no other operation, of a file opened after init,   *)
(* returns the register of the address written last, the PRR if there is   *)
(* none, though earlier overlapping operations may have left any mapping   *)
(* and any value behind.  The address may be lost only if it was written   *)
(* during a read, and only while the driver still had none: it is then     *)
(* overwritten by the default.                                             *)
LoneReadIsExact ==
  \A u \in User : (pc[u] = "copy" /\ lone[u] /\ ~early[u] /\ ~raced) =>
    output = IF last = Zero THEN Prr ELSE last
=============================================================================
