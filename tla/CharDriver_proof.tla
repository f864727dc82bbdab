-------------------------- MODULE CharDriver_proof --------------------------
(***************************************************************************)
(* Proofs about CharDriver, for any set of users and of addresses, any     *)
(* DATA_TRANSMIT, any offsets and any room for mappings.                   *)
(***************************************************************************)
EXTENDS CharDriver, TLAPS

(* A file opened after init keeps a driver loaded that is all there.       *)
LateFiles ==
  \A u \in User : (pc[u] # "closed" /\ ~early[u]) => mod = "live" /\ held = Res

(* What a call is made with: from a position within DATA_TRANSMIT no more  *)
(* is transmitted than the buffer holds or than is left.                   *)
ArgsFit ==
  \A u \in User :
    /\ args[u].own => args[u].count <= Transmit /\ ~args[u].over
    /\ args[u].over => args[u].off > Transmit

(* Cleanup finds a mapping to undo if dev_ioaddr says so.                  *)
MapsCounted == (mod \notin {"out", "oops"} /\ dev # Null) => maps > 0

(* Until an unmappable address is written nobody is about to map one, and  *)
(* while there is room dev_ioaddr maps something once init has returned.   *)
GoodMaps ==
  ~badMap =>
    /\ input \in Unmappable => input = Zero
    /\ \A u \in User : /\ pc[u] \in {"fetch", "parsed"} => input \notin Unmappable
                       /\ pc[u] \in {"remap", "wremap"} => local[u] \notin Unmappable
    /\ (mod = "live" /\ held = Res /\ maps # Space) => dev # Null

(* Where the address written last is, unless the default overwrote it: who *)
(* is about to do that has found none.                                     *)
AddressKept ==
  /\ input = Zero => last = Zero
  /\ ~raced => input = last \/ (last = Zero /\ input = Prr)
  /\ \A u \in User : pc[u] = "default" => last = Zero \/ raced

Asked == IF last = Zero THEN Prr ELSE last

(* An operation that is alone, and what it has done so far.                *)
Alone ==
  \A u \in User : lone[u] =>
    /\ pc[u] \in InOp => \A w \in User \ {u} : pc[w] \notin InOp
    /\ ~raced => /\ pc[u] = "fetch" => input = Asked
                 /\ pc[u] \in {"remap", "store"} => early[u] \/ local[u] = Asked
                 /\ ~early[u] => /\ pc[u] = "load" => dev \in {Asked, Null}
                                 /\ pc[u] = "copy" => output = Asked
    /\ (pc[u] = "wload" /\ ~early[u]) => dev # Null
    /\ (pc[u] = "wfault") => early[u]

Inv ==
  /\ TypeOK /\ CopiesFit /\ InitIsUndone /\ FaultsExplained
  /\ LateFiles /\ ArgsFit /\ MapsCounted /\ GoodMaps /\ AddressKept /\ Alone

LEMMA Names ==
  /\ Prr \in Addr /\ Prr \notin Unmappable /\ Unmappable \subseteq Addr
  /\ Zero \in Addr /\ Zero # Prr /\ Null \notin Addr
  /\ Transmit \in Nat /\ Transmit > 0 /\ Offsets \subseteq Nat /\ Space \in Nat
  /\ SizeT \in Nat /\ Transmit + 1 < SizeT
BY DriverAssumption DEF Null

(* From a position within DATA_TRANSMIT the subtraction does not wrap.     *)
LEMMA ClipFits ==
  ASSUME NEW f \in Nat, NEW n \in Lengths
  PROVE  /\ Clip(n, f) \in Nat
         /\ f <= Transmit => Clip(n, f) <= Transmit /\ Clip(n, f) <= n
<1>1. n \in Nat
  BY Names DEF Lengths
<1>2. CASE f + n <= Transmit
  BY <1>1, <1>2, Names DEF Clip
<1>3. CASE f + n > Transmit
  <2>1. Clip(n, f) = (Transmit - f) % SizeT
    BY <1>3 DEF Clip
  <2>2. Clip(n, f) \in Nat
    BY <2>1, Names
  <2>3. f <= Transmit => Clip(n, f) = Transmit - f
    BY <2>1, Names
  <2> QED BY <1>1, <1>3, <2>2, <2>3, Names
<1> QED BY <1>1, <1>2, <1>3, Names

LEMMA CallFits ==
  ASSUME CopiesFit, TypeOK, NEW u \in User, NEW r \in Requests(u)
  PROVE  /\ r \in [own : BOOLEAN, off : Nat, count : Nat, over : BOOLEAN]
         /\ r.own => r.count <= Transmit /\ ~r.over
         /\ r.over => r.off > Transmit
<1>1. PICK own \in BOOLEAN, f \in Nat, n \in Lengths :
        r = Call(own, f, n) /\ (own => f = fpos[u])
  <2>1. PICK n \in Lengths :
          r \in {Call(TRUE, fpos[u], n)} \cup {Call(FALSE, f, n) : f \in Offsets}
    BY Zenon DEF Requests
  <2>2. CASE r = Call(TRUE, fpos[u], n)
    BY <2>2, Zenon DEF TypeOK
  <2>3. CASE r \in {Call(FALSE, f, n) : f \in Offsets}
    <3>1. PICK f \in Offsets : r = Call(FALSE, f, n)
      BY <2>3, Zenon
    <3>2. f \in Nat
      BY Names
    <3> QED BY <3>1, <3>2, Zenon
  <2> QED BY <2>1, <2>2, <2>3, Zenon
<1>2. /\ Clip(n, f) \in Nat /\ n \in Nat
      /\ f <= Transmit => Clip(n, f) <= Transmit /\ Clip(n, f) <= n
  BY ClipFits, Names DEF Lengths
<1>3. own => f <= Transmit
  BY <1>1 DEF CopiesFit
<1>4. (Clip(n, f) > n) \in BOOLEAN
  OBVIOUS
<1>5. r \in [own : BOOLEAN, off : Nat, count : Nat, over : BOOLEAN]
  BY <1>1, <1>2, <1>4 DEF Call
<1>6. r.own = own /\ r.off = f /\ r.count = Clip(n, f) /\ r.over = (Clip(n, f) > n)
  BY <1>1 DEF Call
<1>7. own => Clip(n, f) <= Transmit /\ ~(Clip(n, f) > n)
  BY <1>2, <1>3
<1>8. Clip(n, f) > n => f > Transmit
  BY <1>2, Names
<1> QED BY <1>5, <1>6, <1>7, <1>8, Zenon

LEMMA Resources ==
  /\ \A n \in 1..6 : Stages[n] \in Res
  /\ {"device", "cdev", "mem", "addr"} \subseteq Res
  /\ Res # {}
<1>1. Stages[3] = "device" /\ Stages[4] = "cdev" /\ Stages[5] = "mem" /\ Stages[6] = "addr"
  BY DEF Stages
<1>2. \A n \in 1..6 : Stages[n] \in Res
  BY DEF Res
<1> QED BY <1>1, <1>2

LEMMA InitInv == Init => Inv
<1> SUFFICES ASSUME Init PROVE Inv
  OBVIOUS
<1> USE Names DEF Init
<1>1. /\ ret0 \in BOOLEAN /\ badMap \in BOOLEAN /\ raced \in BOOLEAN
      /\ early \in [User -> BOOLEAN] /\ lone \in [User -> BOOLEAN]
      /\ \A u \in User : ~lone[u]
  BY Zenon
<1>2. args \in [User -> [own : BOOLEAN, off : Nat, count : Nat, over : BOOLEAN]]
  BY DEF NoArgs
<1>3. TypeOK
  BY <1>1, <1>2 DEF TypeOK, Place
<1>4. CopiesFit /\ InitIsUndone /\ FaultsExplained /\ LateFiles
  BY DEF CopiesFit, InitIsUndone, FaultsExplained, LateFiles
<1>5. ArgsFit
  <2>1. \A u \in User : args[u] = NoArgs
    OBVIOUS
  <2>2. NoArgs.count = 0 /\ ~NoArgs.over
    BY Zenon DEF NoArgs
  <2>3. 0 <= Transmit
    OBVIOUS
  <2> QED BY <2>1, <2>2, <2>3, Zenon DEF ArgsFit
<1>6. MapsCounted /\ GoodMaps /\ AddressKept
  BY DEF MapsCounted, GoodMaps, AddressKept
<1>7. Alone
  BY <1>1 DEF Alone
<1> QED BY <1>3, <1>4, <1>5, <1>6, <1>7 DEF Inv

LEMMA HistoryTypes ==
  Inv /\ [Next]_vars =>
    /\ ret0' \in BOOLEAN /\ badMap' \in BOOLEAN /\ raced' \in BOOLEAN
    /\ early' \in [User -> BOOLEAN] /\ lone' \in [User -> BOOLEAN]
<1> SUFFICES ASSUME Inv, [Next]_vars
             PROVE  /\ ret0' \in BOOLEAN /\ badMap' \in BOOLEAN /\ raced' \in BOOLEAN
                    /\ early' \in [User -> BOOLEAN] /\ lone' \in [User -> BOOLEAN]
  OBVIOUS
<1>1. /\ ret0 \in BOOLEAN /\ badMap \in BOOLEAN /\ raced \in BOOLEAN
      /\ early \in [User -> BOOLEAN] /\ lone \in [User -> BOOLEAN]
  BY DEF Inv, TypeOK
<1>2. ret0' \in BOOLEAN
  <2>1. \A n \in 1..6 : (Stages[n] \in {"class", "device"}) \in BOOLEAN
    OBVIOUS
  <2>2. ret0' = ret0 \/ \E n \in 1..6 : ret0' = (Stages[n] \in {"class", "device"})
    BY Zenon DEF Next, Insmod, InitReturns, UnwindReturns, Rmmod, CdevAllocFails, Acquire,
       AcquireFails, Unwind, FileOp, Open, Close, Faults, ReadStep, ReadBegins,
       ReadDefaults, ReadFetches, ReadRemaps, ReadLoads, ReadStores, ReadReturns,
       WriteStep, WriteOverruns, WriteParses, WriteReadsBack, WriteRemaps, WriteLoads,
       WriteStores, Finishes, drv, vars
  <2> QED BY <1>1, <2>1, <2>2, Zenon
<1>3. badMap' \in BOOLEAN
  <2>1. (badMap \/ input' \in Unmappable) \in BOOLEAN
    BY <1>1
  <2>2. badMap' = badMap \/ badMap' = FALSE \/ badMap' = (badMap \/ input' \in Unmappable)
    BY Zenon DEF Next, Insmod, InitReturns, UnwindReturns, Rmmod, CdevAllocFails, Acquire,
       AcquireFails, Unwind, FileOp, Open, Close, Faults, ReadStep, ReadBegins,
       ReadDefaults, ReadFetches, ReadRemaps, ReadLoads, ReadStores, ReadReturns,
       WriteStep, WriteOverruns, WriteParses, WriteReadsBack, WriteRemaps, WriteLoads,
       WriteStores, Finishes, wrote, hist, vars
  <2> QED BY <1>1, <2>1, <2>2, Zenon
<1>4. raced' \in BOOLEAN
  <2>1. ((last = Zero \/ raced) /\ \E v \in User : pc[v] \in InRead) \in BOOLEAN
    BY <1>1
  <2>2. \/ raced' = raced \/ raced' = FALSE
        \/ raced' = ((last = Zero \/ raced) /\ \E v \in User : pc[v] \in InRead)
    BY Zenon DEF Next, Insmod, InitReturns, UnwindReturns, Rmmod, CdevAllocFails, Acquire,
       AcquireFails, Unwind, FileOp, Open, Close, Faults, ReadStep, ReadBegins,
       ReadDefaults, ReadFetches, ReadRemaps, ReadLoads, ReadStores, ReadReturns,
       WriteStep, WriteOverruns, WriteParses, WriteReadsBack, WriteRemaps, WriteLoads,
       WriteStores, Finishes, wrote, hist, vars
  <2> QED BY <1>1, <2>1, <2>2, Zenon
<1>5. early' \in [User -> BOOLEAN]
  <2>1. (mod # "live") \in BOOLEAN /\ FALSE \in BOOLEAN
    OBVIOUS
  <2>2. \/ early' = early
        \/ \E u \in User : \/ early' = [early EXCEPT ![u] = (mod # "live")]
                           \/ early' = [early EXCEPT ![u] = FALSE]
    BY Zenon DEF Next, Insmod, InitReturns, UnwindReturns, Rmmod, CdevAllocFails, Acquire,
       AcquireFails, Unwind, FileOp, Open, Close, Faults, ReadStep, ReadBegins,
       ReadDefaults, ReadFetches, ReadRemaps, ReadLoads, ReadStores, ReadReturns,
       WriteStep, WriteOverruns, WriteParses, WriteReadsBack, WriteRemaps, WriteLoads,
       WriteStores, Finishes, hist, vars
  <2> QED BY <1>1, <2>1, <2>2, Zenon
<1>6. lone' \in [User -> BOOLEAN]
  <2>1. /\ FALSE \in BOOLEAN
        /\ \A u \in User : (\A w \in User \ {u} : pc[w] \notin InOp) \in BOOLEAN
    OBVIOUS
  <2>2. \/ lone' = lone
        \/ \E u \in User : MarkOverlap(u) \/ lone' = [lone EXCEPT ![u] = FALSE]
    BY Zenon DEF Next, Insmod, InitReturns, UnwindReturns, Rmmod, CdevAllocFails, Acquire,
       AcquireFails, Unwind, FileOp, Open, Close, Faults, ReadStep, ReadBegins,
       ReadDefaults, ReadFetches, ReadRemaps, ReadLoads, ReadStores, ReadReturns,
       WriteStep, WriteOverruns, WriteParses, WriteReadsBack, WriteRemaps, WriteLoads,
       WriteStores, Finishes, hist, vars
  <2> QED BY <1>1, <2>1, <2>2, Zenon DEF MarkOverlap
<1> QED BY <1>2, <1>3, <1>4, <1>5, <1>6

LEMMA TypeStep == Inv /\ [Next]_vars => TypeOK'
<1> SUFFICES ASSUME Inv, [Next]_vars PROVE TypeOK'
  OBVIOUS
<1> USE Names, Resources, HistoryTypes DEF Inv, TypeOK, Goto, drv, regs, wrote, hist, Place,
                             InOp, InRead, InWrite
<1>1. CASE Insmod \/ UnwindReturns \/ CdevAllocFails
  BY <1>1 DEF Insmod, UnwindReturns, CdevAllocFails
<1>2. ASSUME NEW n \in 1..6, Acquire(n) \/ AcquireFails(n) \/ Unwind(n) PROVE TypeOK'
  BY <1>2 DEF Acquire, AcquireFails, Unwind
<1>3. CASE InitReturns
  BY <1>3 DEF InitReturns, Remap, Mapping
<1>4. CASE Rmmod
  BY <1>4 DEF Rmmod, MapsCounted
<1>5. ASSUME NEW u \in User, FileOp(u) PROVE TypeOK'
  <2>1. CASE Open(u) \/ Close(u) \/ Faults(u)
    BY <2>1 DEF Open, Close, Faults
  <2>2. CASE ReadBegins(u) \/ WriteOverruns(u) \/ WriteParses(u)
    <3>1. PICK r \in Requests(u) : args' = [args EXCEPT ![u] = r]
      BY <2>2, Zenon DEF ReadBegins, WriteOverruns, WriteParses
    <3>2. r \in [own : BOOLEAN, off : Nat, count : Nat, over : BOOLEAN]
      BY CallFits
    <3>3. args' \in [User -> [own : BOOLEAN, off : Nat, count : Nat, over : BOOLEAN]]
      BY <3>1, <3>2, Zenon
    <3>4. pc' \in [User -> Place]
      BY <2>2 DEF ReadBegins, WriteOverruns, WriteParses
    <3>5. /\ UNCHANGED <<mod, held, maps, dev, output, fpos, local>>
          /\ input' \in Addr /\ last' \in Addr
      BY <2>2 DEF ReadBegins, WriteOverruns, WriteParses
    <3> QED BY <3>3, <3>4, <3>5
  <2>3. CASE ReadDefaults(u) \/ ReadFetches(u) \/ ReadStores(u) \/ WriteReadsBack(u)
    <3>1. \E p \in Place : pc' = [pc EXCEPT ![u] = p]
      BY <2>3 DEF ReadDefaults, ReadFetches, ReadStores, WriteReadsBack
    <3>3. pc' \in [User -> Place]
      BY <3>1, Zenon
    <3>4. local' = local \/ local' = [local EXCEPT ![u] = input]
      BY <2>3, Zenon DEF ReadDefaults, ReadFetches, ReadStores, WriteReadsBack
    <3>5. input' = input \/ input' = Prr
      BY <2>3, Zenon DEF ReadDefaults, ReadFetches, ReadStores, WriteReadsBack
    <3>6. output' = output \/ output' = local[u]
      BY <2>3, Zenon DEF ReadDefaults, ReadFetches, ReadStores, WriteReadsBack
    <3>2. UNCHANGED <<mod, held, maps, dev, fpos, args, last>>
      BY <2>3, Zenon DEF ReadDefaults, ReadFetches, ReadStores, WriteReadsBack
    <3> QED BY <3>2, <3>3, <3>4, <3>5, <3>6
  <2>4. CASE ReadRemaps(u)
    BY <2>4 DEF ReadRemaps, Remap, Mapping
  <2>5. CASE ReadLoads(u) \/ WriteLoads(u)
    <3>1. UNCHANGED <<mod, held, maps, input, dev, output, fpos, args, last>>
      BY <2>5, Zenon DEF ReadLoads, WriteLoads
    <3>2. \E p \in Place : pc' = [pc EXCEPT ![u] = p]
      BY <2>5 DEF ReadLoads, WriteLoads
    <3>3. pc' \in [User -> Place]
      BY <3>2, Zenon
    <3>4. local' = local \/ (dev # Null /\ local' = [local EXCEPT ![u] = dev])
      BY <2>5, Zenon DEF ReadLoads, WriteLoads
    <3> QED BY <3>1, <3>3, <3>4
  <2>6. ASSUME NEW ok \in BOOLEAN, Finishes(u, ok)
        PROVE  /\ pc' \in [User -> Place] /\ fpos' \in [User -> Nat] /\ local' \in [User -> Addr]
               /\ args' \in [User -> [own : BOOLEAN, off : Nat, count : Nat, over : BOOLEAN]]
    <3>1. NoArgs \in [own : BOOLEAN, off : Nat, count : Nat, over : BOOLEAN]
      BY DEF NoArgs
    <3>2. args' \in [User -> [own : BOOLEAN, off : Nat, count : Nat, over : BOOLEAN]]
      BY <2>6, <3>1, Zenon DEF Finishes
    <3>3. args[u].count \in Nat
      OBVIOUS
    <3>4. fpos' = fpos \/ fpos' = [fpos EXCEPT ![u] = args[u].count]
      BY <2>6, Zenon DEF Finishes
    <3>5. fpos' \in [User -> Nat]
      BY <3>3, <3>4
    <3>6. pc' \in [User -> Place] /\ local' \in [User -> Addr]
      BY <2>6 DEF Finishes
    <3> QED BY <3>2, <3>5, <3>6
  <2>7. CASE ReadReturns(u)
    <3>1. CASE Finishes(u, FALSE) \/ Finishes(u, TRUE)
      <4>1. UNCHANGED <<mod, held, maps, input, dev, output, last>>
        BY <2>7 DEF ReadReturns
      <4> QED BY <3>1, <4>1, <2>6
    <3>2. CASE Goto(u, "overrun") /\ UNCHANGED <<fpos, args, local, lone>>
      BY <2>7, <3>2 DEF ReadReturns
    <3> QED BY <2>7, <3>1, <3>2, Zenon DEF ReadReturns
  <2>8. CASE WriteRemaps(u)
    <3>1. /\ maps' \in 0..Space /\ dev' \in Addr \cup {Null}
          /\ UNCHANGED <<mod, held, input, output, last>>
      BY <2>8 DEF WriteRemaps, Remap, Mapping
    <3>2. CASE Finishes(u, FALSE)
      BY <3>1, <3>2, <2>6
    <3>3. CASE Goto(u, "wload") /\ UNCHANGED <<fpos, args, local, lone>>
      BY <3>1, <3>3
    <3> QED BY <2>8, <3>2, <3>3, Zenon DEF WriteRemaps
  <2>9. CASE WriteStores(u)
    <3>1. Finishes(u, TRUE)
      BY <2>9, Zenon DEF WriteStores
    <3>2. output' \in Addr /\ UNCHANGED <<mod, held, maps, input, dev, last>>
      BY <2>9 DEF WriteStores
    <3> QED BY <3>1, <3>2, <2>6
  <2> QED BY <1>5, <2>1, <2>2, <2>3, <2>4, <2>5, <2>7, <2>8, <2>9, Zenon
          DEF FileOp, ReadStep, WriteStep
<1>6. CASE UNCHANGED vars
  BY <1>6 DEF vars
<1> QED BY <1>1, <1>2, <1>3, <1>4, <1>5, <1>6 DEF Next

(* The module and the files that keep it loaded.                           *)
LEMMA ModuleStep == Inv /\ [Next]_vars => InitIsUndone' /\ LateFiles'
<1> DEFINE Goal == InitIsUndone' /\ LateFiles'
<1> SUFFICES ASSUME Inv, [Next]_vars PROVE Goal
  OBVIOUS
<1> USE Names, Resources DEF Inv, TypeOK, InitIsUndone, LateFiles, Goto, drv, regs, wrote, hist
<1>1. CASE Insmod \/ InitReturns \/ UnwindReturns \/ Rmmod \/ CdevAllocFails
  BY <1>1 DEF Insmod, InitReturns, UnwindReturns, Rmmod, CdevAllocFails
<1>2. ASSUME NEW n \in 1..6, Acquire(n) \/ AcquireFails(n) PROVE Goal
  BY <1>2 DEF Acquire, AcquireFails
<1>3. ASSUME NEW n \in 1..6, Unwind(n) PROVE Goal
  BY <1>3 DEF Unwind
<1>4. ASSUME NEW u \in User, FileOp(u) PROVE Goal
  <2>1. CASE Open(u)
    <3>1. early'[u] = (mod # "live")
      BY <2>1, Zenon DEF Open
    <3> QED BY <2>1, <3>1 DEF Open
  <2>2. CASE Close(u)
    <3>1. /\ UNCHANGED <<mod, held, ret0>>
          /\ \A v \in User \ {u} : early'[v] = early[v]
      BY <2>2, Zenon DEF Close
    <3>2. pc' = [pc EXCEPT ![u] = "closed"]
      BY <2>2, Zenon DEF Close
    <3> QED BY <3>1, <3>2
  <2>3. ASSUME ~Open(u), ~Close(u) PROVE Goal
    <3>1. UNCHANGED <<mod, held, ret0, early>>
      BY <1>4, <2>3, Zenon DEF FileOp, Close, Faults, ReadStep, ReadBegins, ReadDefaults,
         ReadFetches, ReadRemaps, ReadLoads, ReadStores, ReadReturns, WriteStep,
         WriteOverruns, WriteParses, WriteReadsBack, WriteRemaps, WriteLoads,
         WriteStores, Finishes
    <3>2. pc[u] # "closed"
      BY <1>4, <2>3, Zenon DEF FileOp, Close, Faults, ReadStep, ReadBegins, ReadDefaults,
         ReadFetches, ReadRemaps, ReadLoads, ReadStores, ReadReturns, WriteStep,
         WriteOverruns, WriteParses, WriteReadsBack, WriteRemaps, WriteLoads,
         WriteStores, Finishes, InOp, InRead, InWrite
    <3>3. \E p : pc' = [pc EXCEPT ![u] = p]
      BY <1>4, <2>3, Zenon DEF FileOp, Close, Faults, ReadStep, ReadBegins, ReadDefaults,
         ReadFetches, ReadRemaps, ReadLoads, ReadStores, ReadReturns, WriteStep,
         WriteOverruns, WriteParses, WriteReadsBack, WriteRemaps, WriteLoads,
         WriteStores, Finishes
    <3>4. \A v \in User \ {u} : pc'[v] = pc[v]
      BY <3>3, Zenon
    <3> QED BY <3>1, <3>2, <3>4
  <2> QED BY <2>1, <2>2, <2>3
<1>5. CASE UNCHANGED vars
  BY <1>5 DEF vars
<1> QED BY <1>1, <1>2, <1>3, <1>4, <1>5 DEF Next

(* What an operation leaves of the arguments and the position.              *)
LEMMA FinishFits ==
  ASSUME Inv, NEW u \in User, NEW ok \in BOOLEAN, Finishes(u, ok)
  PROVE  ArgsFit' /\ CopiesFit'
<1> USE Names DEF Inv, TypeOK
<1>1. /\ pc' = [pc EXCEPT ![u] = "idle"] /\ args' = [args EXCEPT ![u] = NoArgs]
      /\ fpos' = fpos \/ (args[u].own /\ fpos' = [fpos EXCEPT ![u] = args[u].count])
  BY Zenon DEF Finishes, Goto
<1>2. NoArgs.count <= Transmit /\ ~NoArgs.over
  <2>1. NoArgs.count = 0 /\ ~NoArgs.over
    BY Zenon DEF NoArgs
  <2> QED BY <2>1
<1>3. ASSUME NEW v \in User
      PROVE  /\ args'[v] = IF v = u THEN NoArgs ELSE args[v]
             /\ pc'[v] = IF v = u THEN "idle" ELSE pc[v]
             /\ fpos'[v] = fpos[v] \/ (args[v].own /\ fpos'[v] = args[v].count)
  BY <1>1
<1>4. ArgsFit'
  BY <1>2, <1>3, Zenon DEF ArgsFit
<1>5. ASSUME NEW v \in User PROVE fpos'[v] <= Transmit
  BY <1>3 DEF CopiesFit, ArgsFit
<1>6. ASSUME NEW v \in User, pc'[v] = "overrun" PROVE ~args'[v].own /\ args'[v].off > Transmit
  <2>1. v # u
    BY <1>3, <1>6
  <2>2. args'[v] = args[v] /\ pc[v] = "overrun"
    BY <1>3, <1>6, <2>1
  <2> QED BY <2>2, Zenon DEF CopiesFit
<1> QED BY <1>4, <1>5, <1>6 DEF CopiesFit

LEMMA ArgsStep == Inv /\ [Next]_vars => ArgsFit' /\ CopiesFit'
<1> DEFINE Goal == ArgsFit' /\ CopiesFit'
<1> SUFFICES ASSUME Inv, [Next]_vars PROVE Goal
  OBVIOUS
<1> USE Names DEF Inv, TypeOK, Goto
<1>1. CASE UNCHANGED <<pc, fpos, args>>
  BY <1>1, Zenon DEF ArgsFit, CopiesFit
<1>2. ASSUME NEW u \in User, FileOp(u) PROVE Goal
  <2>1. ASSUME NEW p, p # "overrun", pc' = [pc EXCEPT ![u] = p], UNCHANGED <<fpos, args>>
        PROVE  Goal
    <3>1. \A v \in User : pc'[v] = "overrun" => pc[v] = "overrun"
      BY <2>1
    <3> QED BY <2>1, <3>1, Zenon DEF ArgsFit, CopiesFit
  <2>2. CASE Open(u) \/ Faults(u) \/ ReadDefaults(u) \/ ReadFetches(u) \/ ReadRemaps(u)
             \/ ReadStores(u) \/ WriteReadsBack(u)
    <3>1. \E p : p # "overrun" /\ pc' = [pc EXCEPT ![u] = p]
      BY <2>2 DEF Open, Faults, ReadDefaults, ReadFetches, ReadRemaps, ReadStores,
                  WriteReadsBack
    <3>2. UNCHANGED <<fpos, args>>
      BY <2>2, Zenon DEF Open, Faults, ReadDefaults, ReadFetches, ReadRemaps, ReadStores,
                  WriteReadsBack
    <3> QED BY <2>1, <3>1, <3>2, Zenon
  <2>3. CASE ReadLoads(u) \/ WriteLoads(u)
    BY <2>1, <2>3 DEF ReadLoads, WriteLoads
  <2>4. CASE Close(u)
    <3>1. \A v \in User : fpos'[v] <= Transmit
      BY <2>4 DEF Close, CopiesFit
    <3>2. /\ \A v \in User : pc'[v] = "overrun" => pc[v] = "overrun"
          /\ UNCHANGED args
      BY <2>4 DEF Close
    <3> QED BY <3>1, <3>2, Zenon DEF ArgsFit, CopiesFit
  <2>5. CASE ReadBegins(u) \/ WriteOverruns(u) \/ WriteParses(u)
    <3>1. PICK r \in Requests(u) :
            args' = [args EXCEPT ![u] = r] /\ (WriteOverruns(u) => r.over)
      BY <2>5, Zenon DEF ReadBegins, WriteOverruns, WriteParses
    <3>2. UNCHANGED fpos /\ \A v \in User \ {u} : pc'[v] = pc[v] /\ args'[v] = args[v]
      BY <2>5, <3>1 DEF ReadBegins, WriteOverruns, WriteParses
    <3>3. (pc'[u] = "overrun" => r.over) /\ args'[u] = r
      <4>1. args'[u] = r
        BY <3>1, Zenon
      <4>2. CASE ReadBegins(u) \/ WriteParses(u)
        <5>1. \E p \in {"default", "fetch", "parsed"} : pc' = [pc EXCEPT ![u] = p]
          BY <4>2, Zenon DEF ReadBegins, WriteParses
        <5>2. pc'[u] # "overrun"
          BY <5>1
        <5> QED BY <4>1, <5>2, Zenon
      <4>3. CASE WriteOverruns(u)
        BY <3>1, <4>1, <4>3, Zenon
      <4> QED BY <2>5, <4>2, <4>3
    <3>4. /\ r.own => r.count <= Transmit /\ ~r.over
          /\ r.over => r.off > Transmit
      BY CallFits
    <3> QED BY <3>2, <3>3, <3>4, Zenon DEF ArgsFit, CopiesFit
  <2>6. CASE ReadReturns(u)
    <3>1. CASE args[u].over /\ Goto(u, "overrun") /\ UNCHANGED <<fpos, args>>
      <4>1. \A v \in User : pc'[v] = "overrun" => v = u \/ pc[v] = "overrun"
        BY <3>1
      <4> QED BY <3>1, <4>1, Zenon DEF ArgsFit, CopiesFit
    <3> QED BY <2>6, <3>1, FinishFits, Zenon DEF ReadReturns
  <2>7. CASE WriteRemaps(u)
    <3>1. CASE Goto(u, "wload") /\ UNCHANGED <<fpos, args>>
      BY <2>1, <3>1
    <3> QED BY <2>7, <3>1, FinishFits, Zenon DEF WriteRemaps
  <2>8. CASE WriteStores(u)
    BY <2>8, FinishFits, Zenon DEF WriteStores
  <2> QED BY <1>2, <2>2, <2>3, <2>4, <2>5, <2>6, <2>7, <2>8, Zenon
          DEF FileOp, ReadStep, WriteStep
<1> QED BY <1>1, <1>2, Zenon DEF Next, Insmod, CdevAllocFails, InitReturns, UnwindReturns,
           Rmmod, Acquire, AcquireFails, Unwind, vars

(* What a file operation leaves alone of the other users' state.           *)
LEMMA OthersStay ==
  ASSUME Inv, NEW u \in User, FileOp(u)
  PROVE  /\ UNCHANGED <<mod, held, ret0>>
         /\ \A v \in User \ {u} :
              /\ pc'[v] = pc[v] /\ local'[v] = local[v] /\ early'[v] = early[v]
              /\ lone'[v] => lone[v]
<1> USE DEF Inv, TypeOK
<1>1. UNCHANGED <<mod, held, ret0>>
  BY Zenon DEF FileOp, Open, Close, Faults, ReadStep, ReadBegins,
     ReadDefaults, ReadFetches, ReadRemaps, ReadLoads, ReadStores, ReadReturns,
     WriteStep, WriteOverruns, WriteParses, WriteReadsBack, WriteRemaps, WriteLoads,
     WriteStores, Finishes, drv
<1>2. \E p : pc' = [pc EXCEPT ![u] = p]
  BY Zenon DEF FileOp, Open, Close, Faults, ReadStep, ReadBegins,
     ReadDefaults, ReadFetches, ReadRemaps, ReadLoads, ReadStores, ReadReturns,
     WriteStep, WriteOverruns, WriteParses, WriteReadsBack, WriteRemaps, WriteLoads,
     WriteStores, Finishes, Goto
<1>3. local' = local \/ \E a : local' = [local EXCEPT ![u] = a]
  BY Zenon DEF FileOp, Open, Close, Faults, ReadStep, ReadBegins,
     ReadDefaults, ReadFetches, ReadRemaps, ReadLoads, ReadStores, ReadReturns,
     WriteStep, WriteOverruns, WriteParses, WriteReadsBack, WriteRemaps, WriteLoads,
     WriteStores, Finishes
<1>4. early' = early \/ \E b : early' = [early EXCEPT ![u] = b]
  BY Zenon DEF FileOp, Open, Close, Faults, ReadStep, ReadBegins,
     ReadDefaults, ReadFetches, ReadRemaps, ReadLoads, ReadStores, ReadReturns,
     WriteStep, WriteOverruns, WriteParses, WriteReadsBack, WriteRemaps, WriteLoads,
     WriteStores, Finishes, hist
<1>5. lone' = lone \/ MarkOverlap(u) \/ lone' = [lone EXCEPT ![u] = FALSE]
  BY Zenon DEF FileOp, Open, Close, Faults, ReadStep, ReadBegins,
     ReadDefaults, ReadFetches, ReadRemaps, ReadLoads, ReadStores, ReadReturns,
     WriteStep, WriteOverruns, WriteParses, WriteReadsBack, WriteRemaps, WriteLoads,
     WriteStores, Finishes, hist
<1>6. \A v \in User \ {u} : pc'[v] = pc[v] /\ local'[v] = local[v]
  BY <1>2, <1>3
<1>7. \A v \in User \ {u} : early'[v] = early[v]
  BY <1>4, Zenon
<1>8. \A v \in User \ {u} : lone'[v] => lone[v]
  BY <1>5, Zenon DEF MarkOverlap
<1> QED BY <1>1, <1>6, <1>7, <1>8

(* Mappings, and who meets a missing one.                                  *)
LEMMA MapStep == Inv /\ [Next]_vars => MapsCounted' /\ GoodMaps' /\ FaultsExplained'
<1> DEFINE Goal == MapsCounted' /\ GoodMaps' /\ FaultsExplained'
<1> SUFFICES ASSUME Inv, [Next]_vars PROVE Goal
  OBVIOUS
<1> USE Names, Resources DEF Inv, TypeOK, LateFiles, MapsCounted, GoodMaps, FaultsExplained,
                             InitIsUndone, Goto, drv, regs, wrote, hist, InOp, InRead, InWrite
<1>1. CASE Insmod \/ UnwindReturns \/ CdevAllocFails
  BY <1>1 DEF Insmod, UnwindReturns, CdevAllocFails
<1>2. CASE InitReturns
  BY <1>2 DEF InitReturns, Remap, Mapping
<1>3. CASE Rmmod
  BY <1>3 DEF Rmmod
<1>4. ASSUME NEW n \in 1..6, Acquire(n) \/ AcquireFails(n) \/ Unwind(n) PROVE Goal
  <2>1. /\ UNCHANGED <<maps, input, dev, output, pc, local, lone, early, badMap>>
        /\ mod' \in {"init", "unwind"} /\ mod \in {"init", "unwind"}
    BY <1>4 DEF Acquire, AcquireFails, Unwind
  <2> QED BY <2>1
<1>5. ASSUME NEW u \in User, FileOp(u) PROVE Goal
  <2> USE <1>5, OthersStay
  <2>1. CASE Open(u) \/ Close(u)
    <3>1. /\ UNCHANGED <<maps, input, dev, output, local, lone, badMap, last, raced>>
          /\ pc' = [pc EXCEPT ![u] = "idle"] \/ pc' = [pc EXCEPT ![u] = "closed"]
      BY <2>1, Zenon DEF Open, Close
    <3>2. pc'[u] \in {"idle", "closed"}
      BY <3>1
    <3> QED BY <3>1, <3>2
  <2>10. CASE Faults(u)
    <3>1. /\ UNCHANGED <<maps, input, dev, output, local, lone, early, badMap, last, raced>>
          /\ pc' = [pc EXCEPT ![u] = "fault"]
      BY <2>10, Zenon DEF Faults
    <3>2. pc[u] # "closed" /\ "addr" \notin held
      BY <2>10 DEF Faults
    <3>3. early[u]
      BY <3>2
    <3> QED BY <3>1, <3>3
  <2>2. CASE ReadBegins(u) \/ WriteOverruns(u) \/ ReadReturns(u)
    BY <2>2 DEF ReadBegins, WriteOverruns, ReadReturns, Finishes
  <2>3. CASE WriteParses(u)
    <3>1. ~badMap' => ~badMap /\ input' \notin Unmappable
      BY <2>3, Zenon DEF WriteParses
    <3>2. badMap => badMap'
      BY <2>3, Zenon DEF WriteParses
    <3> QED BY <2>3, <3>1, <3>2 DEF WriteParses
  <2>4. CASE ReadDefaults(u) \/ ReadFetches(u) \/ ReadStores(u) \/ WriteReadsBack(u)
    BY <2>4 DEF ReadDefaults, ReadFetches, ReadStores, WriteReadsBack
  <2>5. CASE ReadRemaps(u)
    BY <2>5 DEF ReadRemaps, Remap, Mapping
  <2>6. CASE WriteRemaps(u)
    BY <2>6 DEF WriteRemaps, Remap, Mapping, Finishes
  <2>7. CASE ReadLoads(u)
    BY <2>7 DEF ReadLoads
  <2>8. CASE WriteLoads(u)
    BY <2>8 DEF WriteLoads, Alone
  <2>9. CASE WriteStores(u)
    BY <2>9 DEF WriteStores, Finishes
  <2> QED BY <2>1, <2>2, <2>3, <2>4, <2>5, <2>6, <2>7, <2>8, <2>9, <2>10, Zenon
          DEF FileOp, ReadStep, WriteStep
<1>6. CASE UNCHANGED vars
  BY <1>6 DEF vars
<1> QED BY <1>1, <1>2, <1>3, <1>4, <1>5, <1>6 DEF Next

(* The address written last and where it still is.                         *)
LEMMA AddressStep == Inv /\ [Next]_vars => AddressKept'
<1> SUFFICES ASSUME Inv, [Next]_vars PROVE AddressKept'
  OBVIOUS
<1> USE Names DEF Inv, TypeOK, AddressKept, Goto, drv, regs, wrote, hist, InOp, InRead, InWrite
<1>1. CASE Insmod \/ UnwindReturns \/ CdevAllocFails \/ InitReturns \/ Rmmod
  BY <1>1 DEF Insmod, UnwindReturns, CdevAllocFails, InitReturns, Rmmod
<1>2. ASSUME NEW n \in 1..6, Acquire(n) \/ AcquireFails(n) \/ Unwind(n) PROVE AddressKept'
  BY <1>2 DEF Acquire, AcquireFails, Unwind
<1>3. ASSUME NEW u \in User, FileOp(u) PROVE AddressKept'
  <2> USE <1>3, OthersStay
  <2>1. CASE WriteParses(u)
    <3>1. input' = last' /\ pc' = [pc EXCEPT ![u] = "parsed"]
      BY <2>1, Zenon DEF WriteParses
    <3>2. ASSUME NEW v \in User, pc'[v] = "default" PROVE last' = Zero \/ raced'
      <4>1. pc[v] = "default"
        BY <3>1, <3>2
      <4>2. \E w \in User : pc[w] \in InRead
        BY <4>1
      <4>3. raced'
        BY <2>1, <4>1, <4>2, Zenon DEF WriteParses
      <4> QED BY <4>3
    <3> QED BY <3>1, <3>2
  <2>2. CASE ReadBegins(u)
    BY <2>2 DEF ReadBegins
  <2>3. CASE ReadDefaults(u)
    BY <2>3 DEF ReadDefaults
  <2>4. CASE Open(u) \/ Close(u) \/ Faults(u) \/ WriteOverruns(u) \/ ReadFetches(u)
             \/ ReadRemaps(u) \/ ReadStores(u) \/ WriteReadsBack(u)
    <3>1. UNCHANGED <<input, last, raced>>
      BY <2>4, Zenon DEF Open, Close, Faults, WriteOverruns, ReadFetches, ReadRemaps,
                         ReadStores, WriteReadsBack
    <3>2. \A v \in User : pc'[v] = "default" => pc[v] = "default"
      BY <2>4 DEF Open, Close, Faults, WriteOverruns, ReadFetches, ReadRemaps,
                         ReadStores, WriteReadsBack
    <3> QED BY <3>1, <3>2
  <2>5. CASE ReadLoads(u) \/ WriteLoads(u)
    BY <2>5 DEF ReadLoads, WriteLoads
  <2>6. CASE ReadReturns(u) \/ WriteRemaps(u) \/ WriteStores(u)
    <3>1. UNCHANGED <<input, last, raced>>
      BY <2>6, Zenon DEF ReadReturns, WriteRemaps, WriteStores
    <3>2. \A v \in User : pc'[v] = "default" => pc[v] = "default"
      BY <2>6 DEF ReadReturns, WriteRemaps, WriteStores, Finishes
    <3> QED BY <3>1, <3>2
  <2> QED BY <2>1, <2>2, <2>3, <2>4, <2>5, <2>6, Zenon DEF FileOp, ReadStep, WriteStep
<1>4. CASE UNCHANGED vars
  BY <1>4 DEF vars
<1> QED BY <1>1, <1>2, <1>3, <1>4 DEF Next

(* An operation of u, if it goes on or another user's does, ends alone      *)
(* only if it was alone, so that nobody else has moved.                    *)
LEMMA AloneStep == Inv /\ [Next]_vars => Alone'
<1> SUFFICES ASSUME Inv, [Next]_vars PROVE Alone'
  OBVIOUS
<1> USE Names, Resources DEF Inv, TypeOK, LateFiles, Alone, Asked, Goto, drv, regs, wrote, hist,
                             InOp, InRead, InWrite
<1>1. CASE Insmod \/ UnwindReturns \/ CdevAllocFails \/ InitReturns \/ Rmmod
  BY <1>1 DEF Insmod, UnwindReturns, CdevAllocFails, InitReturns, Rmmod
<1>2. ASSUME NEW n \in 1..6, Acquire(n) \/ AcquireFails(n) \/ Unwind(n) PROVE Alone'
  <2>1. UNCHANGED <<input, dev, output, pc, local, hist>>
    BY <1>2, Zenon DEF Acquire, AcquireFails, Unwind
  <2> QED BY <2>1
<1>3. ASSUME NEW u \in User, FileOp(u) PROVE Alone'
  <2> USE <1>3, OthersStay
  <2>1. CASE Open(u)
    <3>1. UNCHANGED <<input, dev, output, local, lone, wrote>> /\ pc' = [pc EXCEPT ![u] = "idle"]
      BY <2>1, Zenon DEF Open
    <3> QED BY <3>1
  <2>2. CASE Close(u)
    <3>1. UNCHANGED <<input, dev, output, local, lone, wrote>> /\ pc' = [pc EXCEPT ![u] = "closed"]
      BY <2>2, Zenon DEF Close
    <3> QED BY <3>1
  <2>3. CASE Faults(u)
    BY <2>3 DEF Faults
  <2>4. CASE WriteOverruns(u)
    BY <2>4 DEF WriteOverruns
  <2>5. CASE ReadBegins(u) \/ WriteParses(u)
    <3>1. \A v \in User \ {u} : ~lone'[v]
      BY <2>5, Zenon DEF ReadBegins, WriteParses, MarkOverlap
    <3>2. lone'[u] => \A w \in User \ {u} : pc[w] \notin InOp
      BY <2>5, Zenon DEF ReadBegins, WriteParses, MarkOverlap
    <3>3. CASE WriteParses(u)
      <4>1. pc'[u] = "parsed"
        BY <3>3 DEF WriteParses
      <4> QED BY <3>1, <3>2, <4>1
    <3>4. CASE ReadBegins(u)
      BY <3>1, <3>2, <3>4 DEF ReadBegins, AddressKept
    <3> QED BY <2>5, <3>3, <3>4
  <2>6. CASE ReadDefaults(u)
    BY <2>6 DEF ReadDefaults, AddressKept
  <2>7. CASE ReadFetches(u)
    BY <2>7 DEF ReadFetches
  <2>8. CASE ReadRemaps(u)
    BY <2>8 DEF ReadRemaps, Remap, Mapping
  <2>9. CASE ReadLoads(u)
    BY <2>9 DEF ReadLoads
  <2>10. CASE ReadStores(u)
    BY <2>10 DEF ReadStores
  <2>11. CASE ReadReturns(u)
    BY <2>11 DEF ReadReturns, Finishes
  <2>12. CASE WriteReadsBack(u)
    BY <2>12 DEF WriteReadsBack
  <2>13. CASE WriteRemaps(u)
    BY <2>13 DEF WriteRemaps, Remap, Finishes
  <2>14. CASE WriteLoads(u)
    BY <2>14 DEF WriteLoads
  <2>15. CASE WriteStores(u)
    BY <2>15 DEF WriteStores, Finishes
  <2> QED BY <2>1, <2>2, <2>3, <2>4, <2>5, <2>6, <2>7, <2>8, <2>9, <2>10, <2>11, <2>12,
             <2>13, <2>14, <2>15, Zenon DEF FileOp, ReadStep, WriteStep
<1>4. CASE UNCHANGED vars
  BY <1>4 DEF vars
<1> QED BY <1>1, <1>2, <1>3, <1>4 DEF Next

LEMMA Invariance == Spec => []Inv
<1>1. Inv /\ [Next]_vars => Inv'
  BY TypeStep, ModuleStep, ArgsStep, MapStep, AddressStep, AloneStep DEF Inv
<1> QED BY InitInv, <1>1, PTL DEF Spec

(* Every variable keeps its type, for any users, addresses and offsets.    *)
THEOREM TypeCorrect == Spec => []TypeOK
<1>1. Inv => TypeOK
  BY DEF Inv
<1> QED BY Invariance, <1>1, PTL

(* For any DATA_TRANSMIT and any number of files, the position of a file   *)
(* stays within it through reads and writes that succeed or fail, and only *)
(* the offset of a pread or pwrite makes a call run over its buffer.       *)
THEOREM CopiesStayInside == Spec => []CopiesFit
<1>1. Inv => CopiesFit
  BY DEF Inv
<1> QED BY Invariance, <1>1, PTL

(* A module that is out has nothing registered, one that is live has       *)
(* everything, except after a class or device that could not be created.   *)
THEOREM UnwindingComplete == Spec => []InitIsUndone
<1>1. Inv => InitIsUndone
  BY DEF Inv
<1> QED BY Invariance, <1>1, PTL

(* For any number of users, a file opened after init faults only once an   *)
(* address that cannot be mapped has been written or reads and writes have *)
(* used up the room for mappings, however much there is.                   *)
THEOREM FaultsAccounted == Spec => []FaultsExplained
<1>1. Inv => FaultsExplained
  BY DEF Inv
<1> QED BY Invariance, <1>1, PTL

(* For any number of users, a read that overlaps no other operation        *)
(* returns the register of the address written last, or of the PRR, unless *)
(* that address came during a read while the driver had none.              *)
THEOREM LoneReadReturnsIt == Spec => []LoneReadIsExact
<1>1. Inv => LoneReadIsExact
  BY DEF Inv, Alone, Asked, InOp, LoneReadIsExact
<1> QED BY Invariance, <1>1, PTL
=============================================================================
