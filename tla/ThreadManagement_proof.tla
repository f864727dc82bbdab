----------------------- MODULE ThreadManagement_proof -----------------------
(***************************************************************************)
(* Proofs about ThreadManagement, for every set of people and every bound  *)
(* on newlines.                                                            *)
(***************************************************************************)
EXTENDS ThreadManagement, FiniteSetTheorems, TLAPS

(* The fields a thread has handled when it stands at place p. *)
Done(p) == CASE p = "birthyear" -> {"name"}
             [] p = "country"   -> {"name", "birthyear"}
             [] p = "unlock"    -> Field
             [] OTHER           -> {}

(* What a half-done section has left in the record and in the file. *)
Progress ==
  /\ \A f \in Done(pc[1]) : typed \in Person /\ human[f] = Typed(typed)
  /\ Inside(2) => \A f \in Field :
       file[f] = IF f \in Done(pc[2]) THEN Line(human[f]) ELSE kept[f]
  /\ \A f \in Done(pc[3]) : human[f] = file[f]

(* Threads are created in order. *)
Births ==
  /\ main \in {"boot", "dead"} => made = 0
  /\ main = "create" => made < 3
  /\ \A t \in Thread : t > made => pc[t] = "unborn"

Inv == TypeOK /\ MutualExclusion /\ Births /\ Progress

(* Where the last entry is while the only runner carries it round. *)
HumanFresh == \A f \in Field : human[f] = Typed(entered)
FileFresh == \A f \in Field : file[f] = Line(Typed(entered))
Carried ==
  steady =>
    /\ SingleRunner
    /\ pc[1] = "signal" => HumanFresh
    /\ CanRun(2) => IF pc[2] = "signal" THEN FileFresh ELSE HumanFresh
    /\ CanRun(3) => FileFresh

-----------------------------------------------------------------------------
(* The record's helpers stay within their types. *)
LEMMA CellTypes ==
  /\ BlankRecord \in Record
  /\ \A p \in Person : Typed(p) \in Cell
  /\ \A c \in Cell : Line(c) \in Cell
<1>1. BlankRecord \in Record
  BY RecordAssumption DEF BlankRecord, Record, Cell
<1>2. \A p \in Person : Typed(p) \in Cell
  BY RecordAssumption DEF Typed, Cell
<1>3. ASSUME NEW c \in Cell PROVE Line(c) \in Cell
  BY RecordAssumption DEF Line, Cell
<1> QED BY <1>1, <1>2, <1>3

LEMMA InitInv == Init => Inv
<1> SUFFICES ASSUME Init PROVE Inv
  OBVIOUS
<1>1. TypeOK
  <2>1. pc \in [Thread -> Place]
    BY DEF Init, Place
  <2>2. steady \in BOOLEAN
    BY Zenon DEF Init
  <2> QED BY <2>1, <2>2, CellTypes DEF Init, TypeOK
<1>2. MutualExclusion /\ Births
  BY DEF Init, MutualExclusion, Births, Thread, InSection, Field
<1>3. Progress
  BY DEF Init, Progress, Done, Inside, Thread, InSection, Field
<1> QED BY <1>1, <1>2, <1>3 DEF Inv

LEMMA TypeStep == Inv /\ [Next]_vars => TypeOK'
<1> SUFFICES ASSUME Inv, [Next]_vars PROVE TypeOK'
  OBVIOUS
<1> USE DEF Inv, TypeOK
<1>1. CASE MainStep
  BY <1>1 DEF MainStep, OpenFile, CreateThread, PublishId, Births, Goto,
              histVars, Place, Thread
<1>2. CASE CreateFails \/ Kill \/ Restart
  <2>1. steady' \in BOOLEAN
    BY <1>2, Zenon DEF CreateFails, Kill, Restart, EndProcess, histVars
  <2>2. pc' \in [Thread -> Place]
    BY <1>2 DEF CreateFails, Kill, Restart, EndProcess, Place
  <2> QED BY <1>2, <2>1, <2>2, CellTypes
          DEF CreateFails, Kill, Restart, EndProcess, histVars
<1>3. ASSUME NEW t \in Thread, ThreadStep(t) PROVE TypeOK'
  <2>1. CASE Identify(t) \/ Signal(t) \/ LeaveSpin(t)
    BY <2>1 DEF Identify, Signal, LeaveSpin, Goto, histVars, Place, Thread, Succ
  <2>2. CASE Lock(t)
    BY <2>2 DEF Lock, Goto, Place, InSection, Field, Thread
  <2>3. CASE Unlock(t)
    BY <2>3, CellTypes DEF Unlock, Goto, Place, Thread
  <2> QED BY <1>3, <2>1, <2>2, <2>3 DEF ThreadStep
<1>4. ASSUME NEW f \in Field, HandleField(f) PROVE TypeOK'
  <2>0. After(f) \in Place
    BY DEF After, Field, Place, InSection
  <2>1. CASE TypeField(f)
    BY <2>0, <2>1, CellTypes DEF TypeField, Goto, histVars, Record
  <2>2. CASE SaveField(f)
    BY <2>0, <2>2, CellTypes DEF SaveField, Goto, histVars, Record
  <2>3. CASE LoadField(f)
    BY <2>0, <2>3 DEF LoadField, Goto, histVars, Record
  <2> QED BY <1>4, <2>1, <2>2, <2>3 DEF HandleField
<1>5. CASE UNCHANGED vars
  BY <1>5 DEF vars
<1> QED BY <1>1, <1>2, <1>3, <1>4, <1>5 DEF Next

LEMMA BirthStep == Inv /\ [Next]_vars => Births'
<1> SUFFICES ASSUME Inv, [Next]_vars PROVE Births'
  OBVIOUS
<1> USE DEF Inv, TypeOK, Births
<1>1. CASE MainStep
  BY <1>1 DEF MainStep, OpenFile, CreateThread, PublishId, Goto, histVars, Thread
<1>2. CASE CreateFails \/ Kill \/ Restart
  BY <1>2 DEF CreateFails, Kill, Restart, EndProcess, histVars
<1>3. ASSUME NEW t \in Thread, ThreadStep(t) PROVE Births'
  BY <1>3 DEF ThreadStep, Identify, Lock, Unlock, Signal, LeaveSpin, Goto, histVars
<1>4. ASSUME NEW f \in Field, HandleField(f) PROVE Births'
  BY <1>4 DEF HandleField, TypeField, SaveField, LoadField, Goto, histVars, Field, Thread
<1>5. CASE UNCHANGED vars
  BY <1>5 DEF vars
<1> QED BY <1>1, <1>2, <1>3, <1>4, <1>5 DEF Next

LEMMA MutexStep == Inv /\ [Next]_vars => MutualExclusion'
<1> SUFFICES ASSUME Inv, [Next]_vars PROVE MutualExclusion'
  OBVIOUS
<1> USE DEF Inv, TypeOK, MutualExclusion, InSection, Field
<1>1. CASE MainStep
  BY <1>1 DEF MainStep, OpenFile, CreateThread, PublishId, Births, Goto, histVars, Thread
<1>2. CASE CreateFails \/ Kill \/ Restart
  BY <1>2 DEF CreateFails, Kill, Restart, EndProcess, histVars, Thread
<1>3. ASSUME NEW t \in Thread, ThreadStep(t) PROVE MutualExclusion'
  BY <1>3 DEF ThreadStep, Identify, Lock, Unlock, Signal, LeaveSpin, Goto, histVars, Thread
<1>4. ASSUME NEW f \in Field, HandleField(f) PROVE MutualExclusion'
  BY <1>4 DEF HandleField, TypeField, SaveField, LoadField, Goto, After, histVars, Thread
<1>5. CASE UNCHANGED vars
  BY <1>5 DEF vars
<1> QED BY <1>1, <1>2, <1>3, <1>4, <1>5 DEF Next

LEMMA ProgressStep == Inv /\ [Next]_vars => Progress'
<1> SUFFICES ASSUME Inv, [Next]_vars PROVE Progress'
  OBVIOUS
<1> USE DEF Inv, TypeOK, MutualExclusion, Progress, Done, Inside, InSection, Field, Thread
<1>1. CASE MainStep
  BY <1>1 DEF MainStep, OpenFile, CreateThread, PublishId, Births, Goto, histVars
<1>2. CASE CreateFails \/ Kill \/ Restart
  BY <1>2 DEF CreateFails, Kill, Restart, EndProcess, histVars
<1>3. ASSUME NEW t \in Thread, ThreadStep(t) PROVE Progress'
  <2>1. CASE Identify(t) \/ Signal(t) \/ LeaveSpin(t)
    BY <2>1 DEF Identify, Signal, LeaveSpin, Goto, histVars
  <2>2. CASE Lock(t)
    BY <2>2 DEF Lock, Goto
  <2>3. CASE Unlock(t)
    BY <2>3 DEF Unlock, Goto
  <2> QED BY <1>3, <2>1, <2>2, <2>3 DEF ThreadStep
<1>4. ASSUME NEW f \in Field, HandleField(f) PROVE Progress'
  <2>1. CASE TypeField(f)
    BY <2>1 DEF TypeField, Goto, After, histVars, Record
  <2>2. CASE SaveField(f)
    BY <2>2 DEF SaveField, Goto, After, histVars, Record
  <2>3. CASE LoadField(f)
    BY <2>3 DEF LoadField, Goto, After, histVars, Record
  <2> QED BY <1>4, <2>1, <2>2, <2>3 DEF HandleField
<1>5. CASE UNCHANGED vars
  BY <1>5 DEF vars
<1> QED BY <1>1, <1>2, <1>3, <1>4, <1>5 DEF Next

(* The inductive invariant: what the theorems below rest on. *)
THEOREM Invariance == Spec => []Inv
<1>1. Inv /\ [Next]_vars => Inv'
  BY TypeStep, MutexStep, BirthStep, ProgressStep DEF Inv
<1> QED BY InitInv, <1>1, PTL DEF Spec

(* Every variable keeps its type, the record and the file hold cells only. *)
THEOREM TypeCorrect == Spec => []TypeOK
<1>1. Inv => TypeOK
  BY DEF Inv
<1> QED BY Invariance, <1>1, PTL

(* One thread at a time between pthread_mutex_lock and _unlock, through    *)
(* every start-up order, late write of running_thread, crash and restart.  *)
THEOREM MutexHolds == Spec => []MutualExclusion
<1>1. Inv => MutualExclusion
  BY DEF Inv
<1> QED BY Invariance, <1>1, PTL

-----------------------------------------------------------------------------
(* The three threads never all wait: running_thread always names a thread  *)
(* when all of them spin on it.                                            *)
RunningNamesAThread == (\E t \in Thread : pc[t] = "spin") => running \in Thread

THEOREM NeverAllWaiting == Spec => []SomebodyCanRun
<1> DEFINE J == RunningNamesAThread
<1>1. Init => J
  BY DEF Init, RunningNamesAThread, Thread
<1>2. Inv /\ J /\ [Next]_vars => J'
  <2> SUFFICES ASSUME Inv, J, [Next]_vars PROVE J'
    OBVIOUS
  <2> USE DEF Inv, TypeOK, RunningNamesAThread, Thread
  <2>1. CASE MainStep
    BY <2>1 DEF MainStep, OpenFile, CreateThread, PublishId, Births, Goto, histVars
  <2>2. CASE CreateFails \/ Kill \/ Restart
    BY <2>2 DEF CreateFails, Kill, Restart, EndProcess, histVars
  <2>3. ASSUME NEW t \in Thread, ThreadStep(t) PROVE J'
    BY <2>3 DEF ThreadStep, Identify, Lock, Unlock, Signal, LeaveSpin, Goto,
                histVars, Succ
  <2>4. ASSUME NEW f \in Field, HandleField(f) PROVE J'
    BY <2>4 DEF HandleField, TypeField, SaveField, LoadField, Goto, After,
                histVars, Field
  <2>5. CASE UNCHANGED vars
    BY <2>5 DEF vars
  <2> QED BY <2>1, <2>2, <2>3, <2>4, <2>5 DEF Next
<1>3. Inv /\ J => SomebodyCanRun
  BY DEF Inv, TypeOK, RunningNamesAThread, SomebodyCanRun, CanRun, Thread
<1> QED BY <1>1, <1>2, <1>3, Invariance, PTL DEF Spec

-----------------------------------------------------------------------------
LEMMA CarriedStep == Inv /\ Carried /\ [Next]_vars => Carried'
<1> SUFFICES ASSUME Inv, Carried, [Next]_vars PROVE Carried'
  OBVIOUS
<1> USE DEF Inv, TypeOK, Carried, SingleRunner, CanRun, HumanFresh, FileFresh, Thread
<1>1. CASE MainStep
  <2>1. CASE OpenFile \/ PublishId
    BY <2>1 DEF OpenFile, PublishId, histVars
  <2>2. CASE CreateThread
    <3>1. made + 1 \in Thread /\ pc[made + 1] = "unborn"
      BY <2>2 DEF CreateThread, Births
    <3>2. \A t \in Thread : CanRun(t)' <=> CanRun(t)
      BY <2>2, <3>1 DEF CreateThread, Goto
    <3>3. \A t \in Thread : pc'[t] = "signal" <=> pc[t] = "signal"
      BY <2>2, <3>1 DEF CreateThread, Goto
    <3>4. UNCHANGED <<human, file, histVars>>
      BY <2>2 DEF CreateThread
    <3> QED BY <3>2, <3>3, <3>4 DEF histVars
  <2> QED BY <1>1, <2>1, <2>2 DEF MainStep
<1>2. CASE CreateFails \/ Kill
  <2>1. ~steady'
    BY <1>2, Zenon DEF CreateFails, Kill, EndProcess
  <2> QED BY <2>1
<1>3. CASE Restart
  BY <1>3 DEF Restart, Births, histVars
<1>4. ASSUME NEW t \in Thread, ThreadStep(t) PROVE Carried'
  <2>1. CASE Identify(t)
    BY <2>1 DEF Identify, Goto, histVars
  <2>2. CASE Lock(t)
    BY <2>2 DEF Lock, Goto
  <2>3. CASE Unlock(t)
    BY <2>3 DEF Unlock, Goto, Progress, Done, Inside, InSection, Field
  <2>4. CASE Signal(t)
    BY <2>4 DEF Signal, Goto, Succ, histVars
  <2>5. CASE LeaveSpin(t)
    BY <2>5 DEF LeaveSpin, Goto, histVars
  <2> QED BY <1>4, <2>1, <2>2, <2>3, <2>4, <2>5 DEF ThreadStep
<1>5. ASSUME NEW f \in Field, HandleField(f) PROVE Carried'
  <2> USE DEF Field, Goto, After, histVars, Record
  <2>1. CASE TypeField(f)
    BY <2>1 DEF TypeField
  <2>2. CASE SaveField(f)
    BY <2>2 DEF SaveField
  <2>3. CASE LoadField(f)
    BY <2>3 DEF LoadField
  <2> QED BY <1>5, <2>1, <2>2, <2>3 DEF HandleField
<1>6. CASE UNCHANGED vars
  BY <1>6 DEF vars
<1> QED BY <1>1, <1>2, <1>3, <1>4, <1>5, <1>6 DEF Next

(* From the first round thread 1 begins as the only runner, what thread 3  *)
(* prints is what was entered last, with one newline a field: the relay    *)
(* loses, mixes and repeats nothing, whatever a crash left in the file.    *)
THEOREM RelayDelivers == Spec => []SteadyRelay
<1>1. Init => Carried
  BY DEF Init, Carried
<1>2. Inv /\ Carried => SteadyRelay
  <2> SUFFICES ASSUME Inv, Carried, steady, pc[3] = "unlock"
               PROVE human = [f \in Field |-> Line(Typed(entered))]
    BY DEF SteadyRelay
  <2>1. \A f \in Field : file[f] = Line(Typed(entered))
    BY DEF Carried, CanRun, FileFresh
  <2>2. \A f \in Field : human[f] = file[f]
    BY DEF Inv, Progress, Done, Field
  <2> QED BY <2>1, <2>2 DEF Inv, TypeOK, Record
<1> QED BY <1>1, <1>2, CarriedStep, Invariance, PTL DEF Spec
-----------------------------------------------------------------------------
(* Every step of the three threads is, seen from outside the sections, one *)
(* whole entry, save or load, a death that keeps a prefix of a save, or    *)
(* nothing at all.                                                         *)
LEMMA SectionStep == Inv /\ Inv' /\ [Next]_vars => [Sections!ANext]_(Sections!avars)
<1> DEFINE rec == IF Inside(1) \/ Inside(3) THEN kept ELSE human
           sto == IF Inside(2) THEN kept ELSE file
<1> SUFFICES ASSUME Inv, Inv', [Next]_vars
             PROVE Sections!ANext \/ (rec' = rec /\ sto' = sto)
  BY DEF Sections!avars
<1> USE DEF Inv, TypeOK, MutualExclusion, Inside, InSection, Field, Thread
<1>1. CASE MainStep
  BY <1>1 DEF MainStep, OpenFile, CreateThread, PublishId, Births, Goto, histVars
<1>2. CASE CreateFails \/ Kill
  <2>1. rec' = BlankRecord
    BY <1>2 DEF CreateFails, Kill, EndProcess
  <2>2. sto' = file
    BY <1>2 DEF CreateFails, Kill, EndProcess
  <2> DEFINE written == IF Inside(2) THEN Done(pc[2]) ELSE {}
  <2>3. written \in Sections!Prefixes
    BY DEF Sections!Prefixes, Done, Sections!Field
  <2>4. \A f \in Field : file[f] = IF f \in written THEN Line(rec[f]) ELSE sto[f]
    <3>1. CASE Inside(2)
      BY <3>1 DEF Progress, Done
    <3>2. CASE ~Inside(2)
      BY <3>2
    <3> QED BY <3>1, <3>2
  <2>5. file = [f \in Field |-> IF f \in written THEN Line(rec[f]) ELSE sto[f]]
    BY <2>4 DEF Record
  <2>6. Sections!Die
    BY <2>1, <2>2, <2>3, <2>5
       DEF Sections!Die, Sections!BlankRecord, Sections!Line, BlankRecord, Line,
           Sections!Field
  <2> QED BY <2>6 DEF Sections!ANext
<1>3. CASE Restart
  BY <1>3 DEF Restart, histVars
<1>4. ASSUME NEW t \in Thread, ThreadStep(t)
      PROVE Sections!ANext \/ (rec' = rec /\ sto' = sto)
  <2>1. CASE Identify(t) \/ Signal(t) \/ LeaveSpin(t)
    BY <2>1 DEF Identify, Signal, LeaveSpin, Goto, histVars
  <2>2. CASE Lock(t)
    BY <2>2 DEF Lock, Goto
  <2>3. CASE Unlock(t) /\ t = 1
    <3>1. \A f \in Field : human[f] = Typed(typed) /\ typed \in Person
      BY <2>3 DEF Unlock, Progress, Done
    <3>2. human = [f \in Field |-> Typed(typed)]
      BY <3>1 DEF Record
    <3>3. rec' = human /\ sto' = sto
      BY <2>3 DEF Unlock, Goto
    <3> QED BY <3>1, <3>2, <3>3
            DEF Sections!ANext, Sections!Enter, Sections!Typed, Typed, Sections!Field
  <2>4. CASE Unlock(t) /\ t = 2
    <3>1. \A f \in Field : file[f] = Line(human[f])
      BY <2>4 DEF Unlock, Progress, Done
    <3>2. file = [f \in Field |-> Line(human[f])]
      BY <3>1 DEF Record
    <3>3. rec = human /\ rec' = human /\ sto' = file
      BY <2>4 DEF Unlock, Goto
    <3> QED BY <3>2, <3>3
            DEF Sections!ANext, Sections!Save, Sections!Line, Line, Sections!Field
  <2>5. CASE Unlock(t) /\ t = 3
    <3>1. \A f \in Field : human[f] = file[f]
      BY <2>5 DEF Unlock, Progress, Done
    <3>2. human = file
      BY <3>1 DEF Record
    <3>3. rec' = human /\ sto = file /\ sto' = file
      BY <2>5 DEF Unlock, Goto
    <3> QED BY <3>2, <3>3 DEF Sections!ANext, Sections!Load
  <2> QED BY <1>4, <2>1, <2>2, <2>3, <2>4, <2>5 DEF ThreadStep
<1>5. ASSUME NEW f \in Field, HandleField(f)
      PROVE rec' = rec /\ sto' = sto
  BY <1>5 DEF HandleField, TypeField, SaveField, LoadField, Goto, After, histVars
<1>6. CASE UNCHANGED vars
  BY <1>6 DEF vars
<1> QED BY <1>1, <1>2, <1>3, <1>4, <1>5, <1>6 DEF Next

(* The threaded program implements the abstract one: its sections are      *)
(* atomic for anyone who looks at the record and the file.                 *)
THEOREM SectionsImplemented == Spec => SectionsAreAtomic
<1>1. Init => Sections!AInit
  BY DEF Init, Sections!AInit, Sections!BlankRecord, BlankRecord, Inside,
         InSection, Field, Sections!Field, Thread
<1> QED BY <1>1, SectionStep, Invariance, PTL DEF Spec, SectionsAreAtomic, Sections!ASpec
-----------------------------------------------------------------------------
LEMMA ThreadsFinite == IsFiniteSet(Thread)
<1>1. 1 \in Int /\ 3 \in Int
  OBVIOUS
<1>2. IsFiniteSet(1..3)
  BY <1>1, FS_Interval, Zenon
<1> QED BY <1>2 DEF Thread

(* Handing over trades one runner for another. *)
LEMMA TradeOne ==
  ASSUME NEW S \in SUBSET Thread, NEW R \in SUBSET Thread,
         NEW out \in S, NEW in \in Thread, R \subseteq (S \ {out}) \cup {in}
  PROVE  Cardinality(R) <= Cardinality(S)
<1>1. IsFiniteSet(S) /\ IsFiniteSet(S \ {out}) /\ IsFiniteSet((S \ {out}) \cup {in})
  <2>1. IsFiniteSet(S)
    BY ThreadsFinite, FS_Subset
  <2> QED BY <2>1, FS_RemoveElement, FS_AddElement
<1>2. Cardinality(S \ {out}) = Cardinality(S) - 1
  BY <1>1, FS_RemoveElement
<1>3. Cardinality((S \ {out}) \cup {in}) <= Cardinality(S \ {out}) + 1
  BY <1>1, FS_AddElement, FS_CardinalityType
<1>4. Cardinality(R) <= Cardinality((S \ {out}) \cup {in})
  BY <1>1, FS_Subset
<1>5. /\ Cardinality(S) \in Nat /\ Cardinality(R) \in Nat
      /\ Cardinality((S \ {out}) \cup {in}) \in Nat
  <2>1. IsFiniteSet(R)
    BY <1>1, FS_Subset
  <2> QED BY <1>1, <2>1, FS_CardinalityType
<1> QED BY <1>2, <1>3, <1>4, <1>5

LEMMA NoNewRunner ==
  ASSUME Runners' \subseteq Runners
  PROVE  Cardinality(Runners') <= Cardinality(Runners)
<1>1. IsFiniteSet(Runners)
  BY ThreadsFinite, FS_Subset DEF Runners
<1> QED BY <1>1, FS_Subset

(* The number of threads able to run never grows while the process lives,  *)
(* so the start-up crowd thins out and a single runner stays single.       *)
THEOREM CrowdNeverGrows == Spec => RunnersNeverMultiply
<1> DEFINE A == main' # "dead" => Cardinality(Runners') <= Cardinality(Runners)
<1>1. Inv /\ [Next]_vars => A
  <2> SUFFICES ASSUME Inv, [Next]_vars, main' # "dead"
               PROVE  Cardinality(Runners') <= Cardinality(Runners)
    OBVIOUS
  <2> USE DEF Inv, TypeOK, Runners, CanRun, Thread
  <2>1. CASE MainStep
    <3>1. Runners' \subseteq Runners
      BY <2>1 DEF MainStep, OpenFile, CreateThread, PublishId, Births, Goto, histVars
    <3> QED BY <3>1, NoNewRunner
  <2>2. CASE CreateFails \/ Kill
    BY <2>2 DEF CreateFails, Kill, EndProcess
  <2>3. CASE Restart \/ UNCHANGED vars
    <3>1. Runners' \subseteq Runners
      BY <2>3 DEF Restart, vars
    <3> QED BY <3>1, NoNewRunner
  <2>4. ASSUME NEW t \in Thread, ThreadStep(t)
        PROVE  Cardinality(Runners') <= Cardinality(Runners)
    <3>1. CASE Signal(t)
      <4>1. Runners' \subseteq (Runners \ {t}) \cup {Succ(t)}
        BY <3>1 DEF Signal, Goto, Succ
      <4>2. t \in Runners /\ Succ(t) \in Thread
        BY <3>1 DEF Signal, Succ
      <4>3. Runners \in SUBSET Thread /\ Runners' \in SUBSET Thread
        OBVIOUS
      <4> HIDE DEF Runners, Thread
      <4> QED BY <4>1, <4>2, <4>3, TradeOne
    <3>2. CASE ~Signal(t)
      <4>1. Runners' \subseteq Runners
        BY <2>4, <3>2 DEF ThreadStep, Identify, Lock, Unlock, LeaveSpin, Goto, histVars
      <4> QED BY <4>1, NoNewRunner
    <3> QED BY <3>1, <3>2
  <2>5. ASSUME NEW f \in Field, HandleField(f)
        PROVE  Cardinality(Runners') <= Cardinality(Runners)
    <3>1. Runners' \subseteq Runners
      BY <2>5 DEF HandleField, TypeField, SaveField, LoadField, Goto, Field, histVars
    <3> QED BY <3>1, NoNewRunner
  <2> QED BY <2>1, <2>2, <2>3, <2>4, <2>5 DEF Next
<1> QED BY <1>1, Invariance, PTL DEF Spec, RunnersNeverMultiply
=============================================================================
