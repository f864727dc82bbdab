# Linux-Programing-N-System: specifications

TLA+ models of the repository's programs and drivers, TLC configurations that
check them on small instances, and proofs checked by TLAPS. Paths are relative
to `src/`; `N/` stands for `Linux-Programing-N-System/`, `P/` for
`Linux-Programing-Porting/`.

The repository is a course: two dozen small C programs about processes,
threads, FIFOs, sockets and shared memory, and a handful of kernel modules for
the BeagleBone Black. Few of them are long. What is hard in them is concurrency
with something outside: another thread, another process, a signal, an
interrupt, a peer that leaves, a network that loses. That is what is modelled.

## 1. Inventory

| Component | State it keeps | Operations | What is hard | What makes it correct |
|---|---|---|---|---|
| Student records, `N/5-Thread/5.2-Thread-management` | the record `human`, `running_thread`, the mutex, the file `thongtinsinhvien.txt` | three threads: enter, save, load and print; main creates them | `running_thread` is written after the unlock and spun on without it; all three start unblocked; ids are published after the threads run; a save is three writes | sections do not overlap; somebody can always run; one runner stays one; what is entered is printed; the file never mixes more than a torn save |
| Producer and consumer, `N/8-.../8.3` | the FIFO, two 30-byte buffers | open, write or read, close, for each line | either program may be a round ahead; read's result is ignored; kills | text printed comes from one line and ends in the array; order; no mutual wait |
| Pipe relay 8.1, FIFO relay 8.2 | the channel, the FIFO's path, the child, the SIGCHLD handler | fork, install handler, open, write, read, print | signals before and after each step; SIGCHLD before the handler exists; `wait` in a handler | frames once and in order; a dead child ends the parent; no zombie |
| Five thousand forks, `N/4-.../4.3` | zombies, one pending SIGCHLD | fork, exit, handler with one `wait` | signals do not queue | the handler never blocks |
| Five appending processes, `N/4-.../4.2` | one file, five offsets | fork, wait, seek to end, write | seek and write are two steps; failed forks | lines are damaged only by the other chain; A is last; everybody ends |
| TCP chat, `N/7-Socket/7.2-Internet-Stream` | sockets, backlog, descriptors, whose turn it is | accept, read, answer; connect, send, read; Ctrl-C | either end leaves at any time; sockets are never closed; SIGPIPE | turns alternate; polite clients do no harm; exit ends both ends |
| UDP chat, `N/7-Socket/7.2-Internet-Datagram` | one socket, the last sender's address | receive, answer; send, wait | loss, duplicates, several clients at one socket, uninitialised `len` | nobody is forgotten; answers match lines |
| Character driver, `P/02-device-file/hello.c` | six registrations, one address cell, one mapping pointer, one value cell, mappings that are never undone | init and its unwinding, cleanup, open, read, write, pread, pwrite | failures half way; use during init; no lock; every read and write uses up a mapping | nothing left registered; which faults a properly opened file can meet; copies fit their buffers; a read alone returns the register of the address written last |
| Button and LED, `P/03-button-led` | `state`, the output register of GPIO bank 0 | interrupt handler, write, load, unload | the interrupt falls into a read-modify-write; `state` is not told of writes | what the handler believes; foreign pins; registers are mapped when used |
| Unix sockets, `N/7-Socket/7.1-*` | a path in the file system, the queue, descriptors | bind, listen, accept, read, answer; connect, send, read; Ctrl-C | the path outlives its server; the handler removes a path it may not own; `datafd` is never closed; a client that never writes | one server; a path blocks a restart only after a crash; what is sent is answered |
| Shared memory, `N/9-shared-memory` | segments, their names, who holds them | find or create, attach, fill, print, detach, remove | an identifier does not keep a segment; removal races attaching; a private mapping | nobody touches memory that is gone; the letter box works for programs run in turn |
| GPIO driver, polling application, sysfs driver, `P/04-*`, `P/05-*` | pins, exported files, one pin number and one kobject pointer for all directories, descriptors | load, interrupt, unload; export, direction, read, write; export, unexport and attribute stores | three programs on two pins that check nothing of one another; a pin may be freed between `open` and `write`; `unexport` looks at nothing; an export may do nothing and say it is done; a `return` without `close` | what keeps the sysfs driver safe; which steps cost a descriptor or the button; what becomes of toggles that meet |
| waitpid 4.1, threads 5.1, anonymous mapping 9, drafts and `P/old-project` | | | | not modelled, see section 6 |
| `N/1-*`, `N/2-*`, `P/00-*`, `P/01-*`, `bbb-kernel-image` | none | | | not modelled: straight-line input and output, build demonstrations, a kernel image |

The components do not call one another: each directory is a program, or two
programs that meet in a FIFO, a socket, a segment or a file; 04 and 05 meet on
the board's pins: `GpioBoard` composes 04 with all that 05 can do to a pin. They interact through the
kernel, which is not in the repository and is written in the models from how
the code uses it; each module says in its head what it takes from the kernel.

Smaller dangers met while reading and left out of the hazards of
`PROJECT.json`: the open counters of the drivers are not atomic (they are only
logged); `pcd_read` and `pcd_write` leave their buffers behind (their mappings are
modelled);
`iomodule_write` answers a text that is no number with a positive count, and
the menus print "Successful" for every result up to 30, errors too;
`SO_REUSEADDR | SO_REUSEPORT` in both 7.2 servers is an or of option numbers
and names SO_REUSEPORT alone, with a value that is not initialised; after
`read` returns 0 a 7.2 client prints a buffer of `'0'` as if it were a line.

## 2. Modules

| Module | Models | Checked by |
|---|---|---|
| `StudentRecord` | the record, its three fields, and what `scanf`, `sprintf("%s\n")` and `read` do to a field | (extended) |
| `AtomicSections` | abstract: the record and the file change by a whole entry, save or load, or a torn save | refinement `SectionsAreAtomic` |
| `ThreadManagement` | 5.2, extends `StudentRecord`, instantiates `AtomicSections` | `ThreadManagement.cfg`, `ThreadManagement_proof` |
| `ProducerConsumer` | 8.3, both programs | `ProducerConsumer.cfg`, `NamedObjects_proof` |
| `ParentChildRelay` | 8.1 and 8.2, which differ by the variable `transport` | `ParentChildRelay.cfg`, `Processes_proof` |
| `SafeForkZombie` | 4.3 | `ForkingPrograms.cfg`, `Processes_proof` |
| `ChildProcesses` | 4.2 | `ForkingPrograms.cfg`, `Processes_proof` |
| `Conversations` | abstract: on each connection the ends speak in turn, each line has one answer, one partner at a time until a conversation is over | refinement `SpokenInTurn` |
| `StreamChat` | TCP chat of 7.2, instantiates `Conversations` | `StreamChat.cfg`, `StreamChat_proof` |
| `DatagramChat` | UDP chat of 7.2 | `DatagramChat.cfg`, `DatagramChat_proof` |
| `UnixSocket` | 7.1, stream and datagram, which differ by the variable `kind` | `UnixSocket.cfg`, `NamedObjects_proof` |
| `SharedMemory` | 9, System V and POSIX, which differ by the variable `api` | `SharedMemory.cfg`, `NamedObjects_proof` |
| `CharDriver` | `P/02-device-file/hello.c` | `CharDriver.cfg`, `CharDriver_proof` |
| `ButtonLed` | `P/03-button-led/button-led.c` | `ButtonLed.cfg`, `ButtonLed_proof` |
| `GpioPins` | the kernel's GPIO library, as 04 and 05 use it | (extended) |
| `PinTouches` | abstract: whatever is done with `gpio-sysfs.c`, it requests pins and sets their direction and value, and frees none; extends `GpioPins` | refinement `PinsOnlyTouched` |
| `GpioSysfs` | `P/05-.../gpio-sysfs.c`, implements `PinTouches` | `GpioSysfs.cfg`, `GpioBoard_proof` |
| `GpioPolling` | `P/04-...`: the interrupt driver, `gpio.c`, the application; extends `GpioPins` | (composed) |
| `GpioBoard` | composes `GpioPolling` and `PinTouches` on one set of pins | `GpioBoard.cfg`, `GpioBoard_proof` |

`Processes_proof` and `NamedObjects_proof` each hold the proofs of three modules
that are extended together: the programs that fork, and those that
meet at a name. The definitions of `SafeForkZombie`, `ChildProcesses`,
`ProducerConsumer` and `SharedMemory` carry prefixes (`ForksSpec`, `ChainsSpec`,
`FifoSpec`, `SegmentsSpec`) so that they can be extended side by side.

Each `MC...` module extends the module it checks and adds symmetry where it is
used. `MCForkingPrograms` runs 4.2 and 4.3, which share nothing, side by side. Operators with a comment that begins "Wrong:" are never part of a
next-state relation. They are variants of the definition that follows them with
a plausible defect (a missing wait, a dropped bound, a forgotten release); each
property of a passing run fails when its variant takes the definition's place.

How state and steps correspond to the code:

- **ThreadManagement.** `pc[t]` is the place in `thread_handle`; a thread in its
  section is at the field it is about to handle. `mtx` is the owner of `mtx1`.
  `made` and `published` separate `pthread_create` starting a thread from
  `main` storing its id, since the handler compares ids. `Lock`, `Unlock`,
  `Signal`, `LeaveSpin` are the accesses to shared state; `TypeField`,
  `SaveField` and `LoadField` are one `scanf`, `write` or `read`. `Kill` and
  `CreateFails` end the process anywhere and keep the file; `Restart` runs it
  again. `entered`, `steady` and `kept` are history.
- **ProducerConsumer.** `open` has two steps when it has to wait (`open`,
  `opening`); bytes carry their line and their distance to the NUL, so that
  truncation and concatenation are what they are in the code.
- **ParentChildRelay.** `armed` says whether `signal(SIGCHLD, ...)` has run;
  `chld` is the pending signal. SIGINT, SIGKILL, SIGSTOP and SIGCONT come at any
  point from outside. The parent's closing of its read end (8.1) and the child's
  of its write end go with the fork.
- **SafeForkZombie.** Children are counted. `pending` is one bit, as the kernel
  keeps it, and the handler runs with the signal blocked.
- **ChildProcesses.** `pc` of the five processes named as in the program's
  messages; `file` is the file's contents by the writer of each byte.
- **StreamChat.** `up` and `down` are the lines in flight, `reset` and `cut` the
  connections whose ends meet an error next, `fds` the sockets the server has
  accepted and never closed. `AcceptFails` also covers the first `accept`, whose
  length argument is uninitialised. Linux queues one connection more than
  `BACKLOG`. `Floor` and `Partner` are what `Conversations` sees of it: a line
  or an answer passes the floor when it is sent, and the server has a partner
  from `accept` until it goes back there.
- **DatagramChat.** A datagram may be lost, be received and stay (duplicate), or
  be overtaken. `fresh` says that `len` is not initialised yet: `recvfrom` may
  fail, succeed, or give part of the address (`astray`). Lines are numbered in
  the model only, to say which line an answer belongs to.
- **CharDriver.** `held` is the set of what `init` has registered; a failing
  step jumps to the labels, which `Unwind` takes one by one. A failed
  `class_create` is an error pointer, not NULL, so it is noticed only by
  `device_create`; a failed `cdev_alloc` is not noticed at all
  (`CdevAllocFails`). Reads and writes are cut at every access to the three
  shared cells: a read looks at `*input_addr`, may set it (`ReadDefaults`), reads
  it again, maps, loads through `dev_ioaddr` and stores `output_val`. What is
  between two accesses is `local`. `maps` counts mappings, over all loads of the
  module. `args` is what the call brought: the file's position or an offset of
  `pread` and `pwrite`; `*f_pos` is set at the end of an operation that succeeds
  (`Finishes`), and kept by each of the returns that fail. `last` and `raced`
  are history: the address written last, and whether it was written during a
  read, when there was none before that the default could not overwrite.
- **ButtonLed.** `out` is the register DATAOUT as a set of pins. Reading the set
  and clear registers returns it, so `|= LED_POS` writes back every pin that was
  high; `WriteLoads` and `WriteStores` are the two halves of one statement, as are
  `SetUpLoads` and `SetUpPins` of init's and `Rmmod` and `Darken` of cleanup's. The
  handler is one step because the board has one core. This makes visible that
  turning the LED off, also at load, at unload and by the button, lowers every
  output of the bank.
- **UnixSocket.** `path` is what `./sock_stream` names: nothing, a server's
  socket, or a socket that is closed. The handler is two steps, closing and
  removing, and comes at any point of `main`. A client that leaves stays in the
  server's queue as `Gone` (its line can still be read) or `Mute`. `robbed` and
  `crashed` are history.
- **SharedMemory.** `name` maps a key to a segment, `id` a program to the
  identifier it found; `Holds` says what keeps a segment alive in each of the two
  interfaces. A text is two halves, since filling and printing it are not atomic.
  Whatever a step leaves without a name and a holder is destroyed with that step.
  `lone` is the program that has had the machine to itself since it started;
  `box` is what such a reader has to find.
- **GpioPins, PinTouches, GpioSysfs.** `req`, `out`, `high`, `classes` and `irq`
  are the pins' state in the kernel; `led` and `control` are the sysfs driver's
  only two variables, `dirs` the directories that exist and `files` those of them
  with their files. `unexport` makes two calls, `UnexportRemoves` and
  `UnexportPuts`, and `puts` counts those in between. `claim` and `hollow` are
  what a user knows and does not know: the pins he was told he has, and those of
  them for which nothing was made. `misused` is about the user's order of calls
  only.
- **GpioPolling, GpioBoard.** `GPIODirection`, `GPIOWrite` and `GPIORead` begin
  with `Opens` (or `CannotOpen`) and act on the open `file` in a step of their
  own; a failure there is `Forgets`, the return without `close`. They take the
  pin and the places in `main`, whose list of calls is `AppNext`. `btn_init` and
  `btn_exit` are cut where the handler or another program can come between.
  `turned`, `yanks`, `away`, `odd` and `alone` are history, which `GpioBoard`
  keeps beside each action of its parts.

## 3. Runs

Distinct states as found by TLC.

| Run | Instance | States | What it shows |
|---|---|---|---|
| `thread_management` | 2 persons, up to 2 newlines, kill and restart any time | 217,283 | some thread can always run although `running_thread` is written outside the mutex; runners never multiply; with one runner thread 3 prints what was entered last; sections are atomic up to a torn save; every thread works again and again though the mutex is unfair; a steady entry is printed |
| `producer_consumer` | buffers of 3 bytes, FIFO of 5, 3 line numbers | 46,550 | text is one line and ends in the buffer unless a kill cut it; order; no mutual wait |
| `parent_child_relay` | 3 frames, channel of 2, both transports | 1,356 | frames once and in order; a noticed death ends the parent; the handler hangs only for a stopped child; frames arrive |
| `forking_programs` | 6 forks; lines of 2 and 3 characters, one old line | 179,893 | 4.3: `wait` in the handler never blocks; 4.2: who may overwrite whom, A ends last |
| `stream_chat` | 3 clients, backlog 1, 2 descriptors | 18,824 | turns; polite clients are harmless; `Conversations` is implemented; exit ends both ends |
| `datagram_chat` | 2 clients, 2 lines each | 1,231,114 | a wait in vain only after a loss; a shifted answer only after a duplicate |
| `unix_socket` | 2 servers, 2 clients, backlog 0, 2 descriptors, both kinds | 295,784 | two servers at once only after one was robbed of its path; a path blocks a restart only after a crash; a line sent is answered |
| `shared_memory` | 1 writer, 2 readers, 2 lines, 4 segments, both interfaces | 400,974 | faults only where System V's removal came between shmget and shmat; the letter box |
| `char_driver` | 2 users, 4 addresses (0, the PRR, another, one that cannot be mapped), `DATA_TRANSMIT` 1, `pread` and `pwrite` at 2, room for 4 mappings | 1,147,454 | copies fit unless `pread` or `pwrite` brings an offset; init unwinds completely; faults are explained; a read alone is exact |
| `button_led` | 2 files, 2 foreign pins | 647,810 | `state` and the LED disagree only after a write; foreign pins are revived only by a write that was overtaken, and fall only together with the LED; registers are mapped when used |
| `gpio_sysfs` | 3 pins, 2 unexports at once | 156,146 | a user of one pin at a time meets a fault only after an export that had made nothing; `PinTouches` is implemented |
| `gpio_board` | 2 pins, 3 descriptors | 60,108 | descriptors are lost exactly with pins that are freed while open; the button is lost exactly if it was another's or freed; what toggles that meet add up to |

**Bounds.** Data carries no behaviour of its own: persons, frames, lines and
addresses are compared for equality only, so two values tell an old one from a
new one, and a third shows a skipped one. `MaxMsgs`, `MaxFrames` and `MaxLines`
bound what users type; a shifted answer needs two lines, a skipped frame three.
Two servers are enough to rob one another of a path, with a third run of either
after that, and with `Backlog` 0 the second client meets a full queue. Two
readers and a writer are the fewest with a removal, an attach and a new segment
at once; one identifier more than programs leaves one free for a new segment,
and `SegmentsSuffice` proves that more would add nothing. Which of the free ones
a new segment gets is left open, so that identifiers are interchangeable.
The sysfs driver has the two pins it knows and one other to export, and two
unexports are one more than the protocol has. The board needs its two pins only,
since nothing in 04 uses another; three descriptors are lost at start, while
polling and at the LED before the fourth `open` fails.
`BufSize` 3 has a shortest line (2), a full line (3), and, with `PipeCap` 5, a
full FIFO that holds pieces of two lines. `MaxFds` 2 makes descriptors run out
after two of three clients; with `Backlog` 1 the third finds the queue as full
as it gets. `Transmit` 1 stands for `DATA_TRANSMIT`, with positions 0 and 1
of files and the offset 2 beyond it; `SizeT` 8 is larger than all of them, so that
a wrap is seen. `Space` 4 has room for the mapping of a load and for those of
operations that overlap, and is used up by a few more or by the next load.
`Forks` 6 stands for 5000, and the proof covers every number. `MaxNewlines` bounds how often a text that was stored with a
newline gains another one when it is saved again.

**Symmetry** is used only in runs of invariants and of action properties
without fairness, over sets no definition chooses from (in `SharedMemory` the
readers, the lines and the identifiers).

**Deadlock** is not checked where programs end on their own (relay, forks,
children, chats, a driver after an oops, the sysfs driver's among them). It is checked
for the threads, for producer and consumer, for the button driver, the board, the Unix sockets and
the shared memory, whose programs can always be started again.

**Fairness.** Weak fairness of each process's or thread's own steps: the
scheduler runs them, and a user answers a prompt. Nothing is assumed of kills,
signals, Ctrl-C, new connections, failing calls, lost datagrams, and not that
the mutex serves its waiters in turn. In `ThreadManagement` each field has a
fairness condition of its own, since a prompt, a write and a read each make
progress alone. `ParentChildRelay` adds delivery of a pending signal. In
`UnixSocket` a program that runs goes on, and a handler that has begun ends;
nobody has to start, stop or kill one, or to remove a stale path. The UDP chat
states no liveness: without a timeout there is none to state. Nor do shared
memory and the drivers, which wait for nothing.

## 4. What the code does and says otherwise

Three places where the code does not do what it says, or its reader expects. All
are in the models as they are, and in a property as an exception:

- `N/8-Pipeline_FIFO/8.2-FIFO/main.c:53` says `// Prevent zombie process`. The
  handler is installed after `fork`, so a child that dies first stays a zombie;
  the parent then waits in `open` for a reader that will not come. The exception
  in `ChildDeathEndsParent`.
- `P/02-device-file/hello.c:232`: when `class_create` or `device_create` fails
  `ret` is still 0. `init` undoes everything and reports success; `rmmod` then
  runs the cleanup (`hello.c:298` ff.) of things that were never allocated. The
  exception `ret0` in `InitIsUndone`.
- `P/05-.../gpio-sysfs.c:72`: an export of the number in `GPIO_LED` skips
  everything, yet logs "Done! Export gpio!" (line 93) and returns success, where
  the comment at line 81 says that it creates a directory. This is so of pin 31
  before any other export (line 14), and of a pin that is exported again after
  it was unexported, since `unexport_store` leaves `GPIO_LED` alone. The unexport
  that follows uses a NULL or released kobject (lines 110 and 111), though the
  user has done nothing out of order. The exception `hollow` in
  `SysfsProtocolIsSafe`; an export for which memory ran out is answered the same
  way.

The other exceptions in the properties are what the code does too:

- input lost while several threads run (`SteadyRelay`);
- a hang after SIGSTOP (`HandlerHangsOnlyAfterStop`);
- overwritten lines (`OnlyRivalsOverwrite`);
- the TCP server killed by a rude client (`PoliteClientsAreHarmless`);
- faults of files opened during init, of an address that cannot be mapped, which
  the write that is refused leaves behind, and of any address once the mappings
  of earlier reads and writes, which nobody undoes, have used up the room
  (`FaultsExplained` of `CharDriver`);
- copies past the end of a buffer with an offset of `pread` or `pwrite`
  (`CopiesFit`);
- an address written while a read is about to set the default, and lost
  (`LoneReadIsExact`);
- a Unix server robbed of its path by another run's Ctrl-C (`OneServerAtATime`),
  and one held up by a client that says nothing (`SentIsAnswered`);
- memory used that a reader has removed (`FaultsOnlyByRivals`), and a POSIX
  writer nobody ever reads (`LetterBoxWhenAlone`);
- the outputs of a whole bank falling with the LED (`FallsOnlyWithLed`);
- a descriptor lost for each pin that `btn_exit` frees while it is open, and with
  every write to an LED that was made an input (`LeaksCounted`); a button that
  is gone for good once another driver has had it or freed it (`DeafWhenRobbed`);
- an odd number of toggles undone by a write that overtakes them (`TogglesAdd`).

## 5. Proofs

All for every value of the constants, from the named assumptions of the
modules (`RecordAssumption`, `ForksAssumption`, `BoardAssumption`,
`DriverAssumption`, `ChatAssumption`, `LinesAssumption`, `SocketAssumption`,
`PinAssumption`, `UnexportAssumption`, `FdsAssumption`, `ProducerConsumerAssumption`,
`RelayAssumption`, `ChildAssumption`, `SegmentAssumption`): numbers are natural,
a buffer has room for a line, the two pins differ, there are more identifiers of
segments than programs, and a constant that means "nobody" is not the name of
somebody. For each program an invariant (`Inv`, `ForksInv`, `RelayInv`,
`ChainInv`, `FifoInv`, `SegmentsInv`) holds at first and is kept by every step,
in one lemma for each of its parts or for each action, and the theorems are
taken from it.

- `ThreadManagement_proof`. The inductive invariant is the type invariant, mutual
  exclusion, which threads exist at each place of `main` (`Births`), and how far
  the section in progress has come compared with `kept` (`Progress`). Mutual
  exclusion alone is not inductive: it needs to know that an unborn thread holds
  nothing. `TypeCorrect` and `MutexHolds` follow. `NeverAllWaiting` adds that
  `running_thread`, once everybody spins, names a thread. `RelayDelivers` adds
  `Carried`: with a single runner, what record and file contain at each stage of
  the relay. `SectionsImplemented` is the refinement of `AtomicSections`; the
  mapping shows the value at `Lock` until the section ends. `CrowdNeverGrows`
  proves the action property on runners with the library's facts on finite
  cardinalities.
- `Processes_proof`.
  - `SafeForkZombie`: each pending or running handler has a zombie of its own, two
    when both: that makes `WaitNeverBlocks` inductive, for every number of forks
    (`HandlerNeverBlocks`, `CountersInRange`). `StepsLeft` weighs the forks to
    come, the children alive and the signal told; `EveryStepUsesUp` shows that it
    is a natural number which every step lowers, so that no run is endless.
  - `ParentChildRelay`: `SignalExplained` says that a pending or handled SIGCHLD
    means a zombie or a child that was once stopped; `FramesCounted` that the
    channel holds the last frames sent, in order, and the child has had all the
    others; `EndsInOrder` that the parent's end is open before the child reads and
    never opened again, without which an end of file could come before the first
    frame. `HandlerHangExplained`, and, an action property, `FramesInOrder`, for
    both transports and any number of frames. `HoldUps` adds that a parent which
    sleeps in `open` holds the write end and has no reader, and that a zombie was
    told of or came `early`. `NeverBothWait`: the two never wait for one another,
    except in the handler for a child that was once stopped. `DeathIsTold`: only
    the death that precedes `signal(SIGCHLD, ...)` goes unheard, and the parent
    it leaves waiting is in `open`.
  - `ChildProcesses`: `ChainOrder` says who has waited for whom at each place,
    `LinesKept` that a line lies behind those of the processes its writer waited
    for: so a write falls behind every line of its own chain, and can only hit
    the other's. `LengthBound` counts one line for each process.
    `LinesSafeFromOwnChain`, `EverybodyWrote`. `ChainStepsLeft` gives each place
    the steps still to come, a child's included until it is forked:
    `ChainsTerminate` bounds every run by 18 steps, and `SomeChildRuns` shows
    that none stops in a `wait` before everybody has ended.
- `NamedObjects_proof`.
  - `UnixSocket`: `Owns` says that a server that nobody has robbed has the path.
    `OneServerAtATime` is a consequence, two servers being unable to have one
    path. `TypeCorrect`, `ServersApart`, `StalePathExplained`. The second
    invariant, `Exchanges`, is about lines: whoever is `at` a server is in its
    queue or its hand, once, and in no other server's (`LinesMatch`); a server
    has somebody in hand exactly while it reads or answers, and answers only who
    has written (`InHand`). Closing a server, leaving, accepting, connecting and
    answering have a lemma each. `WaitersAreInLine` and `AnsweredOnce` say that
    an exchange is one line and one answer, from the server that was asked, in
    both kinds. `OnlyTheSilentHoldUp` says that the server of a client that waits
    goes on, or is held up in `read` by another client, which has not written.
  - `ProducerConsumer`: `Whole` says that where a piece of a line is in the FIFO
    the rest of it follows. `TextIsOneLine` is not inductive, because the buffer
    is filled from the FIFO: what a read puts at its beginning is one line, or
    the rest of one, only if the FIFO is `Whole`; and it ends within the buffer
    because no line is longer. `InOrder` extends the order of what was printed
    to buffer, FIFO and keyboard; `FirstReadWaits` says why nothing is printed
    before something was read. `PrintsOneLine`, and the action property
    `PrintsInOrder`, for every size of buffers and FIFO. `OneProceeds` excludes
    that both programs wait, with `Sleepers` (who sleeps in `open` does so while
    the other end is closed) and with a FIFO that has room for a line.
  - `SharedMemory`: `ProgramsPlaced` says what a place means for the segment: of
    those that were destroyed under a program only one that has not attached, of
    POSIX objects that whoever works with one has given it a size. `OthersBlank`
    says that an identifier which stands for nothing is blank, `LoneHasName` that
    a program alone has the segment that has the name, and `BoxTold` relates the
    history `box` to memory at each place of a lone writer and reader.
    `FreeSegment` counts identifiers: one is left whenever a new segment is made
    (`SegmentsSuffice`). `SegmentTypes`, `FaultsNeedARival`, `LetterBox`.
- `StreamChat_proof`. `Turns` says, for each place of the two ends and of the
  server, what is in flight: `OneTurn` is a consequence that is not inductive.
  `Queue` says that nobody queues twice or while served; without it an accept
  could find its client already answered. `Polite` adds that a client that left
  without being rude left an `exit` to read. `TypeCorrect`, `TakingTurns`,
  `OnlyRudeness`. `ConversationsImplemented` is the refinement of
  `Conversations`: with `Turns`, each step maps to one step of a conversation
  (a line, an answer, an arrival, a parting, the end of all) or to none.
  `ExitIsHeard` needs `Listening` besides, because `Turns` says nothing of a
  client once the server is down: a client with a line to read is reading.
- `DatagramChat_proof`. `Single`: a client without duplicates has at most one
  datagram anywhere, or the server's attention, and that about its last line.
  `Leaving`: only a client that left says exit, and one that waits for a server
  that has not started has lost its line. `NoFuture`: no datagram is about a line
  not sent. `TypeCorrect`, `WaitsExplained`, `AnswersMatch`.
- `CharDriver_proof`. `LateFiles` says that a file opened after init keeps a driver
  that is all there; `ArgsFit` that what an operation was called with keeps within
  `DATA_TRANSMIT` unless an offset was brought, which bounds the position it sets
  at its end. `MapsCounted` (a mapping in `dev_ioaddr` is counted) and `GoodMaps`
  (every address at hand can be mapped until a bad one is written) carry
  `FaultsExplained`. `AddressKept` says that, but for `raced`, the cell has the
  address written last or, if there is none, perhaps the default, and that who is
  about to put the default there found none.
  `Alone` carries what an undisturbed read has done so far. `TypeCorrect`,
  `CopiesStayInside`, `UnwindingComplete`, `FaultsAccounted`,
  `LoneReadReturnsIt`.
- `ButtonLed_proof`. `Loading` ties the condition of the module to how far init
  has come; `LateFiles` says that a file opened after init pins a module that is
  completely set up; `LedFollows` extends the property back to the moment the
  pins are set up; `Revivable` extends it to the pins a write has loaded and not
  stored. `TypeCorrect`, `LedIsKnown`, `GhostsExplained`, `RegistersMapped`,
  and, an action property, `FallsTogether`.
- `GpioBoard_proof`. Of the sysfs driver `OneDirectory`: while the user keeps his
  order and no export was hollow, there is at most one directory, and it belongs
  to both `kobj_control` and `GPIO_LED`; an unexport between its calls still has
  it. `ProtocolIsSafe`. `SysfsTouchesPins` is the refinement of `PinTouches`,
  which needs no protocol, and `WholeBoard` puts the detailed driver beside 04 and
  shows that the whole implements `GpioBoard`: so the other theorems, about
  `GpioBoard`, hold with it. `Places` says which file can be open at each place
  of `main`, and with it `LeaksCounted` is kept by each step; `LedDriven` and
  `ButtonIsMine` say what the application has reached there, `SeenHolds` that
  what it read of the LED differs from it by the parity of the toggles since.
  `TypeCorrect`, `LeaksExplained`, `DeafnessExplained`, `ToggleIsExact`.

Every invariant and every action property of section 3 is proved. Model-checked
only, because fairness and ENABLED are beyond the prover, are the liveness
properties, and the absence of deadlock in the runs that check it. What of them
is a matter of single states or steps, that who has to move is not held up or
that something is used up, is proved:

| Liveness, checked | What it rests on, proved |
|---|---|
| `EveryThreadKeepsWorking` | `NeverAllWaiting` |
| `EnteredIsShown` | `RelayDelivers` |
| `KeepsPrinting` | `OneProceeds` |
| `ChildDeathEndsParent` | `DeathIsTold`, `HandlerHangExplained` |
| `FramesArrive` | `NeverBothWait`, `FramesInOrder` |
| `ExitEndsConversation` | `TakingTurns`, `ExitIsHeard` |
| `SentIsAnswered` | `WaitersAreInLine`, `OnlyTheSilentHoldUp` |

## 6. Not modelled

Text and its formatting, except where a property depends on it (newlines in
5.2, NULs in 8.3); logging; the memory of buffers that are not freed; terminals that reach end of file in
the socket programs; the sleeps; partial sends, which the kernel does not do
for these sizes; `iomodule_read` of the button driver, which changes no state;
`_value` and `_direct` of the sysfs driver, which only its show operations read;
two writers of `export` at once; a `read` or `write` of `/sys` that fails for a
reason that is not the pin's.

Whole components, each with its reason in `PROJECT.json`:

- `N/4-*/4.1-waitpid`, `N/5-*/5.1-Thread`, `N/9-*/anonymous-mapping`: one child or
  two threads that nobody waits for in any order that could go wrong;
- `N/4-*/4.2-*/main.c-cp` and `N/9-*/Posix-shared-memory/writter.c`: superseded
  drafts that are not built;
- `P/old-project/memory_read_write`: the control flow of 02, which is modelled;
  `P/old-project/prr_exercise`: its probe dereferences NULL (line 185) before it
  has made anything for the device, so that its operations cannot be reached;
- `N/1-*`, `N/2-*`, `P/00-*`, `P/01-*`, `bbb-kernel-image`: straight-line input
  and output, build demonstrations, a kernel image.

## 7. Plan

Done: threads (5.2), FIFO and pipe programs (8), fork and wait (4.2, 4.3),
sockets (7.1, 7.2), shared memory (9), drivers 02 to 05 with the polling
application.

The exchange of one line and one answer over the Unix sockets was planned as an
abstract specification of its own; it is stated directly by `WaitersAreInLine`
and `AnsweredOnce`.

Open: the step from the proved parts of the liveness properties to the
properties themselves, which needs ENABLED.
