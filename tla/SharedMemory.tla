---------------------------- MODULE SharedMemory ----------------------------
(****************************************************************************)
(* 9-shared-memory: a writer leaves a line in a named segment, a reader     *)
(* prints it and removes the segment; either can be run at any time, any    *)
(* number of times.  The System V pair (variable api = "sysv") finds the    *)
(* segment with ftok and shmget; an identifier alone does not keep it.  The *)
(* POSIX pair ("posix", file-mapping) opens an object by name; a            *)
(* descriptor does keep it, and the name is removed without regard to what  *)
(* it names by then.                                                        *)
(*                                                                          *)
(* The kernel is external: a segment without a name goes when nobody holds  *)
(* it.  fgets and printf access the two halves of the text one after the    *)
(* other; a half is represented by the line it comes from.  Of a POSIX      *)
(* object it matters whether ftruncate has given it a size.                 *)
(****************************************************************************)
EXTENDS Integers, FiniteSets

CONSTANTS Writer, Reader,
          Line,   \* what users type
          Segment \* identifiers; each run in progress may pin one of them

Proc == Writer \cup Reader

ASSUME SegmentAssumption ==
  /\ Writer \cap Reader = {} /\ IsFiniteSet(Proc) /\ IsFiniteSet(Segment)
  /\ Cardinality(Segment) > Cardinality(Proc)
  /\ {"none", "empty", "unknown"} \cap (Proc \cup Line \cup Segment) = {}

VARIABLES
  api,    \* "sysv" or "posix"
  file,   \* ./shmfile exists; without it ftok returns -1, a key like another
  name,   \* the segment each key (name) stands for
  half,   \* the two halves of each segment's text
  sized,  \* POSIX objects that have their size
  pc, id, \* each program's place, and the segment it found
  text,   \* the halves a reader has printed, a writer's user has typed
  \* History.
  lone,   \* the program that has run with no other one beside it, or Nothing
  gone,   \* the segment was destroyed after the program had found it
  box     \* the line a lone reader has to find, or Unknown

segmentVars == <<api, file, name, half, sized, pc, id, text, lone, gone, box>>

Nothing == "none"
Empty == "empty"
Unknown == "unknown"

Place == {"off", "got", "open", "map", "mid", "done", "detached", "fault"}
Key == {"fallback", "ftok"}

Blank == <<Empty, Empty>>

(* Who keeps a segment that has no name: an attached process, and with     *)
(* POSIX one that has the object open.                                     *)
Holds(p) == pc[p] \in {"open", "map", "mid", "done"} \/ (api = "posix" /\ pc[p] = "got")

SegmentsInit ==
  /\ api \in {"sysv", "posix"} /\ file = FALSE
  /\ name = [k \in Key |-> Nothing]
  /\ half = [g \in Segment |-> Blank] /\ sized = {}
  /\ pc = [p \in Proc |-> "off"] /\ id = [p \in Proc |-> Nothing]
  /\ text = [p \in Proc |-> Blank]
  /\ lone = Nothing /\ gone = {} /\ box = Empty

Goto(p, l) == pc' = [pc EXCEPT ![p] = l]

(* ftok("./shmfile", 65), or the object's fixed name. *)
MyKey == IF api = "sysv" /\ file THEN "ftok" ELSE "fallback"

(* p finds g. *)
Found(p, g) ==
  /\ Goto(p, "got") /\ id' = [id EXCEPT ![p] = g]
  /\ lone' = IF \A q \in Proc : pc[q] = "off" THEN p ELSE Nothing
  /\ UNCHANGED <<api, file, gone, box>>

Unused == {g \in Segment : /\ \A k \in Key : name[k] # g
                           /\ \A p \in Proc : id[p] # g}

(* shmget(IPC_CREAT), shm_open(O_CREAT): the segment, a blank one if there *)
(* is none.                                                                *)
Get(p) ==
  /\ pc[p] = "off" /\ (api = "posix" => p \in Writer)
  /\ IF name[MyKey] # Nothing
       THEN Found(p, name[MyKey]) /\ UNCHANGED name
       ELSE \E g \in Unused : Found(p, g) /\ name' = [name EXCEPT ![MyKey] = g]
  /\ UNCHANGED <<half, sized, text>>

(* shm_open without O_CREAT; where it fails the reader returns -1. *)
OpenExisting(r) ==
  /\ api = "posix" /\ pc[r] = "off" /\ name[MyKey] # Nothing
  /\ Found(r, name[MyKey])
  /\ UNCHANGED <<name, half, sized, text>>

(* shmat's -1 is taken for an address and used.  With a segment that still *)
(* exists, named or not, it succeeds.                                      *)
Attach(p) ==
  /\ api = "sysv" /\ pc[p] = "got"
  /\ Goto(p, IF p \in gone THEN "fault" ELSE "map")
  /\ UNCHANGED <<api, file, name, half, sized, id, text, lone, gone, box>>

(* Wrong: ftruncate is left to the other program. *)
TruncateNot(p) ==
  /\ api = "posix" /\ pc[p] = "got"
  /\ sized' = IF p \in Writer THEN sized \cup {id[p]} ELSE sized
  /\ Goto(p, "open")
  /\ UNCHANGED <<api, file, name, half, id, text, lone, gone, box>>

(* ftruncate, by both programs, always to the same size. *)
Truncate(p) ==
  /\ api = "posix" /\ pc[p] = "got"
  /\ sized' = sized \cup {id[p]}
  /\ Goto(p, "open")
  /\ UNCHANGED <<api, file, name, half, id, text, lone, gone, box>>

(* mmap and the first access; the writer's strcpy goes to a private copy,  *)
(* and what it prints from the shared mapping changes nothing.             *)
Map(p) ==
  /\ api = "posix" /\ pc[p] = "open"
  /\ Goto(p, IF id[p] \notin sized THEN "fault"
             ELSE IF p \in Writer THEN "done" ELSE "map")
  /\ UNCHANGED <<api, file, name, half, sized, id, text, lone, gone, box>>

(* fgets, which copies the line into the segment. *)
FillFirst(w) ==
  /\ api = "sysv" /\ w \in Writer /\ pc[w] = "map"
  /\ \E l \in Line : /\ text' = [text EXCEPT ![w] = <<l, l>>]
                   /\ half' = [half EXCEPT ![id[w]][1] = l]
  /\ Goto(w, "mid")
  /\ UNCHANGED <<api, file, name, sized, id, lone, gone, box>>

FillSecond(w) ==
  /\ w \in Writer /\ pc[w] = "mid"
  /\ half' = [half EXCEPT ![id[w]][2] = text[w][2]]
  /\ Goto(w, "done")
  /\ UNCHANGED <<api, file, name, sized, id, text, lone, gone, box>>

(* printf("%s"). *)
PrintFirst(r) ==
  /\ r \in Reader /\ pc[r] = "map"
  /\ text' = [text EXCEPT ![r] = <<half[id[r]][1], Empty>>]
  /\ Goto(r, "mid")
  /\ UNCHANGED <<api, file, name, half, sized, id, lone, gone, box>>

PrintSecond(r) ==
  /\ r \in Reader /\ pc[r] = "mid"
  /\ text' = [text EXCEPT ![r] = IF @[1] = Empty THEN Blank
                                 ELSE <<@[1], half[id[r]][2]>>]
  /\ Goto(r, "done")
  /\ UNCHANGED <<api, file, name, half, sized, id, lone, gone, box>>

(* p lets its segment go.  Segments that nothing keeps any more are        *)
(* destroyed (and blank when their identifiers are used again); others may *)
(* still have such an identifier.                                          *)
Release(p, l, names) ==
  LET destroyed == {g \in Segment : /\ \A k \in Key : names[k] # g
                                    /\ \A q \in Proc \ {p} : ~(id[q] = g /\ Holds(q))}
  IN /\ name' = names
     /\ Goto(p, l)
     /\ gone' = (gone \cup {q \in Proc : pc[q] = "got" /\ id[q] \in destroyed}) \ {p}
     /\ half' = [g \in Segment |-> IF g \in destroyed THEN Blank ELSE half[g]]
     /\ sized' = sized \ destroyed
     /\ id' = IF l = "off" THEN [id EXCEPT ![p] = Nothing] ELSE id
     /\ text' = IF l = "off" THEN [text EXCEPT ![p] = Blank] ELSE text
     /\ lone' = IF l = "off" /\ lone = p THEN Nothing ELSE lone

(* shmdt, or munmap and close: the writer's last step. *)
WriterLeaves(w) ==
  /\ w \in Writer /\ pc[w] = "done"
  /\ Release(w, "off", name)
  /\ box' = IF lone # w THEN Unknown ELSE IF api = "sysv" THEN text[w][1] ELSE Empty
  /\ UNCHANGED <<api, file>>

ReaderDetaches(r) ==
  /\ r \in Reader /\ pc[r] = "done"
  /\ Release(r, "detached", name)
  /\ UNCHANGED <<api, file, box>>

(* Wrong: the reader leaves the segment for the next one. *)
RemoveNot(r) ==
  /\ r \in Reader /\ pc[r] = "detached"
  /\ Release(r, "off", name)
  /\ box' = IF lone = r THEN Empty ELSE Unknown
  /\ UNCHANGED <<api, file>>

(* shmctl(IPC_RMID) takes the name from the segment that was read;         *)
(* shm_unlink takes it from whatever has the name now.                     *)
Remove(r) ==
  /\ r \in Reader /\ pc[r] = "detached"
  /\ Release(r, "off", [k \in Key |->
       IF IF api = "sysv" THEN name[k] = id[r] ELSE k = MyKey THEN Nothing
       ELSE name[k]])
  /\ box' = IF lone = r THEN Empty ELSE Unknown
  /\ UNCHANGED <<api, file>>

(* SIGKILL, Ctrl-C, or the end of a program that faulted; what it wrote and *)
(* the names stay.                                                          *)
ProgramDies(p) ==
  /\ pc[p] # "off"
  /\ Release(p, "off", name)
  /\ box' = Unknown
  /\ UNCHANGED <<api, file>>

(* Somebody creates ./shmfile: from now on the programs use another key.   *)
CreateFile ==
  /\ api = "sysv" /\ ~file /\ file' = TRUE
  /\ box' = Unknown /\ lone' = Nothing
  /\ UNCHANGED <<api, name, half, sized, pc, id, text, gone>>

Step(p) ==
  \/ Get(p) \/ Attach(p) \/ Truncate(p) \/ Map(p) \/ ProgramDies(p)
  \/ FillFirst(p) \/ FillSecond(p) \/ WriterLeaves(p)
  \/ PrintFirst(p) \/ PrintSecond(p) \/ ReaderDetaches(p) \/ Remove(p)

SegmentsNext ==
  \/ \E p \in Proc : Step(p)
  \/ \E r \in Reader : OpenExisting(r)
  \/ CreateFile

SegmentsSpec == SegmentsInit /\ [][SegmentsNext]_segmentVars

-----------------------------------------------------------------------------
(* Types; an object that has a size is one that was opened. *)
SegmentsOK ==
  /\ api \in {"sysv", "posix"} /\ file \in BOOLEAN
  /\ name \in [Key -> Segment \cup {Nothing}]
  /\ half \in [Segment -> (Line \cup {Empty}) \X (Line \cup {Empty})]
  /\ sized \subseteq Segment
  /\ pc \in [Proc -> Place] /\ id \in [Proc -> Segment \cup {Nothing}]
  /\ text \in [Proc -> (Line \cup {Empty}) \X (Line \cup {Empty})]
  /\ lone \in Proc \cup {Nothing} /\ gone \subseteq Proc
  /\ box \in Line \cup {Empty, Unknown}

(* A program touches memory it does not have only where a System V segment *)
(* was removed by a reader between the program's shmget and its shmat; a   *)
(* program that runs alone never does, and no POSIX program ever finds its *)
(* object shorter than what it has mapped.                                 *)
FaultsOnlyByRivals ==
  \A p \in Proc : pc[p] = "fault" => api = "sysv" /\ p \in gone /\ lone # p

(* Programs that run one after another use the segment as a letter box: a  *)
(* System V reader prints the line of the last writer, and nothing if it   *)
(* has been read since, whoever created the segment and whatever happened  *)
(* before under overlap, kills or a change of ./shmfile.  A POSIX reader   *)
(* always prints nothing, because the writer writes to a private mapping.  *)
LetterBoxWhenAlone ==
  \A r \in Reader :
    (pc[r] = "done" /\ lone = r /\ box # Unknown) => text[r] = <<box, box>>
=============================================================================
