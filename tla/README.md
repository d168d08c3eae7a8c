# Fork & Signals: a TLA+ verification of the exercise programs

The repository holds the programs of a course on operating systems: processes
(`Ficha2`, handed in as `SISTC_Avaliacao`), signals (`Ficha3`, handed in there
too), threads (`Ficha4`), semaphores and shared memory (`Ficha5`) and sockets
(`Ficha6`). They are small and each is about one thing that is hard to test:
the order in which processes, threads, signals and bytes happen to arrive.
This directory models those orders.

## 1. The system

Paths are relative to `src/`. "Sheet" is the exercise sheet (PDF) beside the
code.

| Component | State | Operations | Interacts through |
|---|---|---|---|
| `SISTC_Avaliacao/sinais-v.c` | `nc`, `nt`, signal mask, dispositions | create 100 children; `cld_handler` and `int_handler` collect and count them | SIGCHLD, SIGINT, `waitpid` |
| `SISTC_Avaliacao/sinais-iii.c` | mask and dispositions of parent and children | create a child each second; one-shot handler that waits | inheritance at `fork`, signals |
| `SISTC_Avaliacao/ficha2-11.c`, `sinais-iv.c` | `dados`, stdio buffers, process table | generate a value, process it in a child | copy of memory at `fork`, SIGCHLD |
| `Ficha4/ex1.c`, `Ficha5/ex1.c`, `ex2.c`, `ex2_semaforo-sem-nome.c`, `myprint.c` | a lock, the screen | print a line character by character, for ever | mutex, named and unnamed semaphore, shared memory |
| `Ficha5/ex4-reader.c`, `ex4-writer.c` | shared segment, `/sem1` | store a line and post; wait and print | segment and semaphore found by name |
| `Ficha6/.../ex1` | connections, the variable `c` | echo a line in upper case, one client at a time | TCP |
| `Ficha6/.../ex2`, `ex3`, `ex4` | listening socket, a process per connection, files | store and echo a file; answer a message | TCP, `fork`, process table |
| `Ficha6/.../sock_aux.c` | the static `lbuf` and `lbuf_n` | read a block or a line | `read` |
| `Ficha6/.../ex5` | as ex4, the message as text with its length | parse and answer a message | TCP, `fork` |
| `Ficha4/par.c`, `SISTC_Avaliacao/ficha2-12.c`, `ficha2-5.c` | a vector or a block | process its parts in parallel | memory shared by threads, copied by `fork`; `waitpid` |
| `Ficha3` ex1, ex3, ex4 | mask, dispositions, handlers that are open | handle signals, which may nest; tell which wait | signals |
| `Ficha3` ex2, `test_sigfpe.c`, `Ficha1`, `simple_copy.c`, `simple_clone.c`, `http_get.c`, `dummy_webserver.c` | none that lasts | sequential | files, TCP |

What makes each correct, and what is hard about it:

- **sinais-v**: every child is collected and counted once. SIGCHLDs merge;
  some announce only that a child was stopped or continued; `++nt` is a load and a store that the other handler can come between;
  `printf` must not be interrupted by a handler that prints when the program is
  asked not to let it.
- **sinais-iii**: a child at work is protected from four signals, two blocked
  by its parent before the fork and two dealt with by itself after it;
  the handler runs once (`SA_RESETHAND`) and blocks.
- **ficha2-11, sinais-iv**: each value is processed once, as it was generated,
  although the parent goes on; zombies fill the process table, or must not.
- **Printers**: lines are not mixed, every task goes on printing, and neither a
  task killed inside the lock nor a semaphore that outlives the program spoils
  the next run.
- **Mailbox**: the reader prints when, and only when, a line was written, in
  whatever order the programs start and end.
- **Echo server**: each client gets its own reply whatever happened to the
  clients before it; a client that is gone must not take the server with it.
- **Forking servers**: sessions do not disturb each other; a client ends even
  if the server fails; what was shown was stored; an answer is whole.
- **par, ficha2-12, ficha2-5**: threads do not disturb what is another's
  alone; no child is left over when the next round begins, although the result
  of `fork` is not looked at; a parent's data are not what its child writes.
- **Ficha3**: handlers interrupt one another as far as the flags say and no
  further; once set up, the programs refuse to end; no signal is forgotten.
- **sock_aux**: no byte is lost, repeated or reordered between two calls (an
  overlapping `memcpy` may damage some), and none is written behind the caller's
  buffer.

## 2. Modules

| Module | Models | MC module | Notes |
|---|---|---|---|
| `SinaisV` | `sinais-v.c` | `MCSinaisV` | implements `Reaper`; proofs in `SinaisVProofs` |
| `Reaper` | - | - | abstract: every zombie is collected while the parent is up |
| `Signals` | the kernel (external) | - | effect of a signal, given mask and disposition; used by `SinaisIII` and `NestedHandlers` |
| `SinaisIII` | `sinais-iii.c` | `MCSinaisIII` | proofs in `ChildrenProofs` |
| `ValuePipeline` | `ficha2-11.c`, `sinais-iv.c` | `MCValuePipeline` | `prog` says which program runs; proofs in `ChildrenProofs` |
| `Printers` | four printing programs, `myprint.c` | `MCPrinters` | proofs in `SemaphoresProofs` |
| `Mailbox` | `ex4-reader.c`, `ex4-writer.c` | `MCMailbox` | proofs in `SemaphoresProofs` |
| `EchoServer` | `ex1_srv.c`, `ex1_clt.c` | `MCEchoServer` | implements `EchoService`; proofs in `EchoServerProofs` |
| `EchoService` | - | - | abstract: clients are answered in turn, the first one of a queue |
| `ForkServers` | `ex2` to `ex5`, servers and clients | `MCForkServers` | proofs in `ForkServersProofs` |
| `LineReaders` | `sock_aux.c`: the three readers | `MCLineReaders` | implements `LineSource`; proofs in `LineReadersProofs` |
| `LineSource` | - | - | abstract: each call takes the next line or block |
| `SplitVector` | `par.c`, `ficha2-12.c`, `ficha2-5.c` | `MCSplitVector` | proofs in `SplitVectorProofs` |
| `NestedHandlers` | `Ficha3` ex1, ex3, ex4 | `MCNestedHandlers` | proofs in `NestedHandlersProofs` |

Programs that differ in a few calls share a module, and a variable `prog`,
chosen in `Init` and never changed, says which one runs; each property says for
which it holds. `PROJECT.json` maps every definition to the lines it models.
Definitions whose comment begins "mutant of" are not part of a model: each is a
plausible bug in the definition it is about, and with it the property it is
listed with in `PROJECT.json` fails. `SemaphoresProofs` extends `Printers` and
`Mailbox`, `ChildrenProofs` extends `SinaisIII` and `ValuePipeline`; as both
modules of a pair are then in one scope, the general names of `Printers` and
`SinaisIII` begin with `P` and `S3` (`PSpec`, `S3TypeOK`).

### State and actions

**SinaisV.** Children are counted by state (`running`, `zombie`, `reaped`).
`pend` holds one bit for each signal, which is how SIGCHLDs merge. `stage` and `pc`
place `main`, `hpc` each handler and `top` says which of the three runs, since
a handler runs on top of what it interrupts: no step of `main` is possible
while a handler is active. `reg` is the value of `nt` a handler has loaded and
not yet stored. `Deliver` is the arrival of a signal: a handler's own signal is
blocked while it runs, the other one is not. `ChildExit` covers the child's
`exit(1)` and a signal that ends it, SIGINT from the terminal included. A child may
be stopped (`ChildStop`); it stays so until somebody continues or kills it
(`ChildContinue`, `StoppedKilled`), which need not happen. As `sa_flags` is 0 a
stop and a SIGCONT raise SIGCHLD as well.

**SinaisIII.** `at`, `mask` and `disp` for each process; `ForkChild` copies mask and
dispositions. `Terminate`, `StopChild` and `Continue` are any signals from outside
that have that effect on that process at that moment (`Signals!Effect`).

**ValuePipeline.** `copy` and `copyBuf` are what a child found in memory at
its fork: the value and the lines still in the stdio buffer, which `exit`
writes once more. `Room` is the limit of the process table, zombies included.

**Printers.** `pos[t]` is how far the unfinished line of `t` has come, `value`
the semaphore (or one minus the mutex). A task that finds it taken sleeps in
the kernel (`"blocked"`) until a post wakes it; with `pshared = 0` the post of
another process wakes nobody. What a line says is left out: each task has its
own buffer in all four programs.

**Mailbox.** `name` is the semaphore `/sem1` names by now, `sem` the values of
all semaphores created, `rsem` and `wsem` who has which open. `strcpy` and
`printf` take two steps each, so that reads can be torn. Both programs may be
ended before any step, a writer between its post and `sem_unlink` too: the name
is then left to the next programs.

**EchoServer.** One variable `byte` for `c`, kept between connections. A client
that is gone leaves an error on the connection: unread data make it a reset,
which is told to the next `read` or raises SIGPIPE at the next `write`. For
`EchoService` those who wait and the one being served are one queue, and what a
client has been sent is what it has been shown and what is on its way; a byte
that the server writes is the `Answer`, a `close` the end of the service.

**ForkServers.** `held` is what the server process has open, `child[c]` the
process of connection `c`; the server's end of a connection is open as long as
one of the two, or the queue, has it (`Open`), and the listening socket as long
as the server or any child lives (`Listening`). When the last of them closes a
connection with bytes that nobody has read, the client gets a reset (`Unread`). Nothing reaps the children, so
zombies count until the server ends (`Processes`). The server may be ended at any
point, alone (`KillServer`) or with all its children, as Ctrl-C at the terminal
does (`CtrlC`). A write to a file of ex2 may fail, which the code does not look
at: `lost` says whose file lacks a byte since then, and such a file is not
followed any more. After a reset ex2's client, whose `read` returns -1, shows what its buffer
holds once more, or nothing if that is empty (`ShownAtEnd`): the
`printf(buf)` that follows `buf[-1]=0`. Text is a sequence of
pieces with an origin and a case. ex2 reads pieces one by one, the others in
one `read` that may be short. In ex5 a piece is a letter or a blank, and `Parsed`
is what the `sscanf` at each place of the text leaves of it. Behind a short read
lies what was in the stack (`TextRead`), and behind a block that is not
terminated what was in the buffer (`Block`).

**LineReaders.** `stream` is what has not been read, `lbuf` what
`myReadLine2` has read ahead (its length is `lbuf_n`), `buf` what the call has
stored. Each `read` returns any amount that has arrived. What is left of `lbuf` is
moved by `memcpy`; if it is longer than what was taken, the two regions overlap
and the effect is undefined. `CopyLine` has both outcomes, the bytes moved as meant
or any bytes of `lbuf` in their place (`Undefined`), and `spoiled` says that the second
has happened.

**SplitVector.** `dados` is the vector of `main`, which the threads share;
`own[t]` is the copy that the process `t` got at its fork. `task[t]` is where a task
is, `args[t]` its part, `wild` whether anything was written behind the vector,
after which the program may be ended at any moment (`Crash`). Elements are
written one by one, so that threads whose parts overlap really race. The
values that only consume time are one value, `Noise`.

**NestedHandlers.** `frames` is the stack of open handler calls, each with the
mask to be restored at its end. `pending`, `mask` and `disp` are the kernel's;
`Signals!Effect` says what a delivery does. A stopped process receives nothing
until it is continued, so that several signals may then wait for delivery.
`told` is what `print_pending` has last found.

## 3. What TLC checks

Each module has one type invariant, `TypeOK`, which is proved (section 4);
`fork_servers` checks it as well, because there it also counts: processes, and
what the server has open. The other properties are listed here; the full
statement of each is beside it in the module.

| Run | Checks | Bounds |
|---|---|---|
| `sinais_v` | `CountSound`, `NoStrandedZombie`, `PrintfUndisturbed`, `AllCounted`, refinement `ReaperSpec` | 3 children, 1 stop |
| `sinais_iii` | `WorkersProtected`, `WaitHasChild`, `HangsOnlyOnStopped` | 3 children |
| `value_pipeline` | `ProcessedAsGenerated`, `NoGaps`, `GivesUpWhenBusy`, `LinesOnce`, `AllProcessed` | 6 values, room for 2 processes |
| `printers` | `Unmixed`, `HeldBySomebody`, `KeepsPrinting` | 2 tasks, 3 characters, 1 restart |
| `mailbox` | `PrintsAnnounced`, `OneSemaphore`, `PostReachesReader` | 2 writers, 2 executions of the reader |
| `echo_server` | `ReplyIsOwn`, `KilledIsLeft`, `OnlyStuckWaits`, refinement `ImplementsEchoService` | 2 clients, 2 lines, one without a newline |
| `fork_servers` | `TypeOK`, `StoredBeforeShown`, `AnsweredWholeOrNot`, `WordsInPlace`, `EveryClientEnds`, `TransfersWhole` | ex2, ex3 and ex4 with 2 clients, ex5 with 1; room for 1 or 2 processes; 1 execution of the server |
| `line_readers` | refinement `ImplementsLineSource`, `FitsBuffer`, `CallReturns` | 4 streams, `count` of 0, 1, 2, 4, `lbuf` of 3 bytes, 4 calls |
| `split_vector` | `DoubledWhereAlone`, `RoundsApart`, `ParentUnchanged`, `Finishes` | par: 6 elements, 4 threads; ficha2-12: 5 elements, 3 processes, 2 rounds |
| `nested_handlers` | `NestsAsMeant`, `OnlyKillEnds`, `ReportsBlockedOnly`, `Answered` | 4 signals |

Two runs end in a violation, each of something the repository says of a
program (`PROJECT.json`, "findings"):

| Run | Property | What it shows |
|---|---|---|
| `mailbox_lost` | `NextLineAnnounced` | the writer removes the name of the semaphore, so the next writer posts to one the reader does not have. |
| `split_vector_sequence` | `SequencePrinted` | `par.c:61` computes the length of a part as `par.c:60` does its beginning: with 8 elements and 4 threads (200 and 50 in the code) thread 0 gets none of elements 0 and 1, and element 1 is printed as 1 where the comment at l. 71 promises 2. The later threads get too many. |

### Bounds, and why they are enough

- *sinais-v*: three children are enough for two to be collected inside one
  interrupted `++nt` and one more to end in the meantime; a single stop is
  enough for a SIGCHLD that announces nothing and for a child that never ends. The
  safety properties are proved for any number of children.
- *sinais-iii*: one child to be collected, one that stays a zombie, one at work.
- *value_pipeline*: more values than processes, so that the table fills up
  and, in `sinais-iv.c`, has room again.
- *printers*: the programs have two tasks; three characters have a first, a
  middle and a last one. One restart follows any state of the first run.
- *mailbox*: two executions of each program are what it takes for a semaphore
  to be inherited, removed and replaced. The violation needs one of the reader.
- *echo_server*: the second client meets what the first one left behind.
- *fork_servers*: `Sizes` of ex2 to ex4 is `<<2, 1>>`: the first client's file has two
  blocks, its line comes in two segments, and the other's in one. There is room for
  one process or for two, so that a fork fails while a session runs or while its
  zombie is left. The server then ends with the second connection held; with one
  in the queue it ends when it is killed, by the same action (`Ends`). Clients are numbered in the order they start.
  The server is started once: it can be started again
  only when nothing of the last run is left, and is then in its initial state
  but for clients that have ended. For ex5 there is one client, with a line of
  three places, each a letter or a blank: the processes and their failures are
  those of ex4, and what is new is the parsing.
- *line_readers*: the streams have empty lines, lines longer than the caller's
  buffer and than `lbuf`, and last lines without an end. Three bytes in `lbuf` are
  enough for one to be taken and two to be moved onto themselves.
- *split_vector*: 6 elements in 4 parts give, with the lengths of `par.c`, a
  thread without elements, elements of one thread alone, of two and of none,
  and a part that reaches behind the vector. `split_vector_sequence` has 8, which the
  number of threads divides as in the code. 5 elements do not divide by 3
  processes, as 20000000 does not by 30. Two rounds follow one another; the code has 51.
- *nested_handlers*: four signals are enough for the two handlers of ex3 to be
  open with both signals waiting as well, or one open and one waiting over a stop
  and a SIGCONT.

### Deadlock

The check for deadlock is on in all runs but those of `ForkServers`, where a
program may really wait for ever: a server with nobody to serve and, in ex2, a
client and its session that wait for each other (the client for the end of the
answer, the session for the end of the file, `ex2_clt.c:48`,
`ex2_srv.c:71`). In the other modules the states in which a program has ended,
or only a user can go on, have a stuttering step of their own (`Ended`, `AllEnded`,
`Quiet`, `Rests`).

### Fairness

Programs have weak fairness on the steps they take by themselves: the kernel
schedules every process that can run. In `SinaisV` a pending signal that is not
blocked is delivered, and a child that is not stopped ends after its `sleep(5)`: for one that
is stopped there is no fairness, and `AllCounted` leaves such children out. (The
parent itself is taken not to be stopped for good.) There is none on
users (starting, typing, Ctrl-C, kill), on failures of `fork`, on stops and
continuations, on failures of writes, or on the interleaving of bytes. `Printers` has strong
fairness on `Acquire`: a task sleeps one second after each release
(`ex2.c:40`), so a task that was woken finds the lock free in that second;
without the sleep one task could take the lock again and again. `SinaisIII`
gives no fairness to `Continue`, hence the condition in `HangsOnlyOnStopped`;
so does `NestedHandlers` to the user's SIGCONT, hence the one in `Answered`. In
`SplitVector` main and the tasks run on, each with finitely many steps of its own.

## 4. What is proved

TLAPS proves the following for every value of the constants, from the named
assumption of each module alone: `NProcs` is a positive number and `MaxStops` a natural
one (`SinaisV`); there is a task, a line has a character (`Printers`);
the children followed are finitely many (`SinaisIII`); `MaxValue` and
`TableSize` are natural numbers (`ValuePipeline`); the writers are finitely
many and `MaxRuns` is a natural number (`Mailbox`); streams are sequences of
strings, `LbufSize` is positive (`LineReaders`); each program has a positive
number of elements, tasks and rounds, ficha2-5 one task (`SplitVector`);
`MaxSignals` is a natural number (`NestedHandlers`); a line is of two letters, any number
of times, is not empty and has its newline, if any, at the end, as `fgets` leaves it (`EchoServer`); each
program has a positive number of clients, each with a size of at least one, and
room for a process (`ForkServers`).

| Theorem | Statement |
|---|---|
| `SinaisVProofs!SpecInv` | `Spec => []Inv` |
| `SinaisVProofs!CountingIsSound` | `Spec => []CountSound` |
| `SinaisVProofs!NoZombieForgotten` | `Spec => []NoStrandedZombie` |
| `SinaisVProofs!PrintfProtected` | `Spec => []PrintfUndisturbed` |
| `SinaisVProofs!ImplementsReaper` | `Spec => R!Init /\ [][R!Next]_R!vars` |
| `SemaphoresProofs!LockAgrees` | `PSpec => []PInv` |
| `SemaphoresProofs!NeverMixed` | `PSpec => []Unmixed` |
| `SemaphoresProofs!HeldOnlyByHolder` | `PSpec => []HeldBySomebody` |
| `ChildrenProofs!MasksAgree` | `S3Spec => []S3Inv` |
| `ChildrenProofs!ChildrenAtWorkProtected` | `S3Spec => []WorkersProtected` |
| `ChildrenProofs!WaitNeverFails` | `S3Spec => []WaitHasChild` |
| `ChildrenProofs!AtMostOneReaped` | `S3Spec => []OneChildReaped` |
| `ChildrenProofs!SpecInv` | `Spec => []Inv` |
| `ChildrenProofs!OwnValueProcessed` | `Spec => []ProcessedAsGenerated` |
| `ChildrenProofs!NothingAfterGap` | `Spec => []NoGaps` |
| `ChildrenProofs!GivesUpForRoom` | `Spec => GivesUpWhenBusy` |
| `ChildrenProofs!NoValueSkipped` | `Spec => []NoneSkipped` |
| `ChildrenProofs!NoLineRepeated` | `Spec => []LinesOnce` |
| `SemaphoresProofs!SpecInv` | `Spec => []Inv` |
| `SemaphoresProofs!NothingUnannounced` | `Spec => []PrintsAnnounced` |
| `SemaphoresProofs!SameSemaphore` | `Spec => []OneSemaphore` |
| `LineReadersProofs!Invariance` | `Spec => []Inv` |
| `LineReadersProofs!Fits` | `Spec => FitsBuffer` |
| `LineReadersProofs!Implements` | `Spec => ImplementsLineSource` |
| `NestedHandlersProofs!Invariance` | `Spec => []IInv` |
| `NestedHandlersProofs!Nesting` | `Spec => []NestsAsMeant` |
| `NestedHandlersProofs!KillOnly` | `Spec => []OnlyKillEnds` |
| `NestedHandlersProofs!BlockedReports` | `Spec => []ReportsBlockedOnly` |
| `SplitVectorProofs!Invariance` | `Spec => []Inv` |
| `SplitVectorProofs!AloneIsDoubled` | `Spec => []DoubledWhereAlone` |
| `SplitVectorProofs!NoChildOutlivesRound` | `Spec => []RoundsApart` |
| `SplitVectorProofs!CopyIsChilds` | `Spec => []ParentUnchanged` |
| `EchoServerProofs!Invariance` | `Spec => []Inv` |
| `EchoServerProofs!NobodyElsesBytes` | `Spec => []ReplyIsOwn` |
| `EchoServerProofs!ServesInOrder` | `Spec => ImplementsEchoService` |
| `ForkServersProofs!Invariance` | `Spec => []Inv` |
| `ForkServersProofs!StoredFirst` | `Spec => []StoredBeforeShown` |
| `ForkServersProofs!OwnAnswer` | `Spec => []AnsweredWholeOrNot` |
| `ForkServersProofs!WordsShown` | `Spec => []WordsInPlace` |

Each of these eight modules also has `TypeCorrect`, `Spec => []TypeOK`; for
`Printers` and `SinaisIII` it is `LockTyped` and `ProcessesTyped`. With that
every invariant and every safety property of the passing runs is a theorem.

*SinaisV.* `CountSound` is not inductive: a store of a stale `reg` must be
known not to count a child too often. `RegInv` says that a loaded value is
never ahead of `nt`, that the innermost handler's is exact, and that an
interrupted `int_handler`'s is the only one that can fall behind. `TopInv`
says that what runs is active and that `main` runs only when no handler
does, without which a step of `main` could come inside a handler. `MainInv`
ties `nc` to the number of children, which bounds it and gives the
abstract program room for its `Fork`. `NoStrandedZombie` and
`PrintfUndisturbed` are then inductive relative to `Inv`; the refinement
follows step by step, `Fork`, `ChildExit` and `WaitpidReaps` being the steps of
`Reaper` with the same meaning, the ends of the parent its `Stop`, and all
others stutters.

*Printers.* `Unmixed` speaks of live tasks only, and a killed task stays
where it was with the lock taken. `LockInv` therefore speaks of all tasks: the
lock is free exactly when none is between wait and post, and never two are.
`UnfinishedInv` says that only a task that prints has an unfinished line,
`NoLockInv` that the program without a lock never comes near it.

*SinaisIII.* A mask only grows, and `MaskInv` says what is in it where: the
parent's before its first fork, which is why a child has it from its birth.
`HandlerInv` follows the handler's single run: a SIGCHLD is kept only while it is
set, and neither then nor while it waits has any child been reaped.

*ValuePipeline.* `CopyInv` (a child's copy is its value), `CreatedInv` (only
the last value, with `fork` still to be called, may lack its child) and
`LineInv` (on a terminal no buffer, the parent's or a copy, has anything in
it). `SkipInv` is the reason for `NoGaps`: nobody collects a child of `ficha2-11.c`, so a value
that was skipped is the sign of a table that stays full. `GivesUpWhenBusy` counts: in
`sinais-iv.c` what takes room is at work, since no child becomes a zombie.

*Mailbox.* `PrintsAnnounced` counts lines and posts, and in between the posts
are in semaphores, of which there may be several with or without a name.
`TokenInv` counts them all as the size of one set, `Tokens`, with an element
for each unit of each semaphore's value; a post adds one, a wait removes one.
`OpenInv` bounds the number of semaphores by the calls of `sem_open`, so
that each has its place in `sem`. `NameInv` says that until the first
`sem_unlink` there is at most one and it has its name.

*LineReaders.* The rest of the stream, in the eyes of `LineSource`, is what the
call has stored, what was read ahead and what no `read` has returned, in that
order (`Rest`). A step in the middle of a call leaves it as it is, a step that
returns takes the piece off its front. When `memcpy` spoils bytes, `Rest` keeps its
length and the piece that the call already holds (`Moved`); `LineSource` allows
just that, with `spoiled` set, so that until then the pieces are those of what was
sent. That the piece is the one due needs
`Inv`: what a call holds is shorter than its room and has no newline, and
nothing is read ahead when the call goes on to `read`. Sequences are the main
work (`Split`, `Joined`, `Grouped`, `Rejoin`): bytes move from one part of `Rest`
to another without a change of the whole.

*NestedHandlers.* `MaskInv` says that the mask is what `main` has blocked and
what the open calls defer, `SavedInv` that each call has kept the mask of the calls
below it, so that the return of one restores just that. `FreshInv` says that a
call's own signal was not blocked when it began. Of two calls for the same
signal the inner one would contradict this: `NestsAsMeant`. `DispInv` says
which dispositions are set, and together with `MaskInv` that no signal that
would end the program is unblocked.

*SplitVector.* For a thread, `Stage` says what it has left so far in the elements
it alone writes: nothing, noise, or the doubled value up to `idx`; its `val` is
what was there at first, provided that its first element is its own (`Sole`).
A step of another thread does not touch such an element (`Touches`). For
processes, `ForkInv` says that those before `next` have been collected and that one
whose `fork` has failed is not there. The point is `waitpid(-1)` (`Collects`):
it may collect a child whose turn is later, whose own `waitpid` then finds none,
so "nobody is left up to `next`" is kept, whichever child is collected, as long
as the `waitpid` for a given child returns only with it or if it is gone.

*EchoServer.* `ReplyIsOwn` says nothing of the server's `byte`, which survives
from one connection to the next. `PlaceInv` says that a connection waits, is
served and is closed, in this order and once. `BytesInv` then says where the bytes of
a client's line are: the first are on its screen, the next on their way back, one
is in `byte` while the server is about to write it, and the rest are
unread; once the connection is closed they are all back. Of a client that was
killed only what it has been shown is followed. For `ServesInOrder` the bytes on
screen and on their way are one sequence: a `read` of the client leaves it as it
is (`ReadAgain`), and what the server appends to it is, by `BytesInv`, the next
byte of the reply.

*ForkServers.* `HeldInv` and `PlaceInv` say who has a connection: the queue, the
server between `accept` and `close`, its process, one after the other. For ex2 there is one
chain of texts: of what the client has `sent` the first bytes are in `file`,
then one may be in `buffer`, and the next are in `toServer` (`Stored`), with nothing
left out as long as the server's end is open (`Whole`); of what is in `file` the first
are `printed`, the next in `toClient`, and one may still have to be sent back
(`Echoed`). A process that was ended may leave a byte on either way, hence the `n`
that is only known while it lives. The chain of a file to which a write has failed,
and what a client shows after a failed `read`, are not followed (`FileInv`).
`StoredBeforeShown` is what the two have in common. For ex3 to ex5
`RequestInv` says what is in `buffer` when an answer is made, `AnswerInv` which
answer is under way or shown: the client's own, unless its line was read in part
or, for ex4 and ex5, the connection was reset or the process ended. That the words of ex5 stay in their places also
needs what `Parsed` does (`ParsedFacts`): it moves no letter and fills blanks
only with the word behind them. `TypeOK` bounds the processes that live by `room`, so
its proof counts: the set of processes gets one element at a `fork` that had room,
and loses one or none otherwise. A lemma (`Moves`) says once for each
action what it does to one client, to the others nothing; the rest of the
proof then looks at a single client at a time.

Only checked by TLC: all liveness (`AllCounted`, `HangsOnlyOnStopped`,
`AllProcessed`, `KeepsPrinting`, `PostReachesReader`, `KilledIsLeft`,
`OnlyStuckWaits`, `EveryClientEnds`, `TransfersWhole`, `CallReturns`,
`Finishes`, `Answered`) and the fairness in `ReaperSpec`, which are out of the
prover's reach.

## 5. What is not modelled

- Failures of calls that end the program before it shares anything (`mmap`,
  `ftruncate`, `socket`, `listen`), of `sigaction` and `sigprocmask`, and of
  `accept`, after which the servers only wait a second and try again.
- A signal for one session of a forking server only. (One for the server, or for all of
  its processes, is in the model.)
- What `buf[-1] = 0` (`ex2_clt.c:100`, `n` being -1) does to the byte before the
  array: it is taken to be nobody's. The text given to `printf` as its format
  (`ex2_clt.c:101`) is taken to have no `%`.
- What an overlapping `memcpy` may do beyond leaving wrong bytes of `lbuf` in its
  destination (`sock_aux.c:172`).
- The limit of the queue of connections (5) and of the socket buffers. ex2's
  client sends all of its file before it reads: with a file that fills the
  buffers of both directions it and its session would block each other.
- `fgets` at the end of its input, which leaves `ex1_clt.c`'s buffer unset.
- Failures of `pthread_create` (`par.c:62`), which are not looked at there and
  leave `pthread_join` with an identifier that was never set.
- The sizes of arrays in ex5 (`ex5_srv.c:97`: `%7s` into seven bytes, lengths
  into four), and the depth of the stack in `Ficha3` ex4.
- `Ficha3/ex2.c`, which does not compile, and `test_sigfpe.c`, which shows the
  effect of one instruction.
- `dummy_webserver.c` and `http_get.c`: code handed out with the sheet, a
  sequential server such as that of ex1 and a client that reads to the end.
- `Ficha1`, `simple_copy.c`, `simple_clone.c`: sequential, files and terminal only.
- A call of `myReadLine2` after a failed one (`lbuf_n` is -1), which no program
  makes.
- The contents of messages beyond what the properties tell apart, and all
  wording.

Things noticed that no run shows:

- `sinais-iii.c:33`: children inherit the SIGCHLD handler, which the sheet
  wants to be the default in them; they have no children, so nothing follows.
- `sinais-iii.c:34-39`: a child is not protected from SIGTSTP and SIGTERM
  in its first steps, and the parent never from SIGTERM.
- `ex2_clt.c:43`: `strlen` of a buffer that is not terminated. What is
  stored at the server is then not the client's file; `toupper` at
  `ex2_srv.c:77` changes it as well.
- ex2 to ex5: no SIGCHLD handling, where the sheet asks to avoid zombies;
  they fill the process table, and the failed `fork` ends the server.
- `ex2_srv.c:133`: `SO_REUSEADDR` does not help a server that is started again
  while a session of the last one runs: the children hold the listening
  socket, and `bind` fails (`Start`).
- `sinais-v.c:103`: `cld_handler` may come between the load and the store of
  `++nt` in `int_handler`; the last "processes remaining" is then too large.
  `sa_mask` would prevent it, as the sheet says. `CountSound` bounds the error.
- `ex2_semaforo-sem-nome.c:20`: `sem_init(psem, 0, 1)` is private to one
  process; the other one, once blocked, is not woken. `KeepsPrinting` says what remains.
- `ex4-reader.c:18`, `ex4-writer.c:19`: a reader that starts late erases the
  first byte of a line already stored, and a writer that stores before the
  reader's `ftruncate` is ended by SIGBUS. Both are in `Mailbox`.
- `ex5_srv.c:102`: blanks in a text are overwritten by the word behind them, so
  that "A minha mensagem!" is answered with "AMMINHAMMENSAGEM!". The example of the sheet
  (`ficha6`, p. 7) has "A MINHA MENSAGEM!": for a line with blanks the code does not do
  what the sheet says. `WordsInPlace` states what it does: the letters are in place,
  and no blank is shown.
- `sock_aux.c:172`: `memcpy` on regions that overlap; `memmove` is what it takes.
- `ex2_clt.c:97`: after a reset `read` returns -1, and what is left in the buffer is shown
  once more. `ex2_srv.c:79`: a failed write to the file is not noticed, and the
  client is shown bytes that are not stored.
- `ex2_clt.c:48`, `ex2_srv.c:71`: at the end of a transfer client and session wait for each other.
- `ficha2-12.c:43`: the children write to their own copies of `dados_out`; with
  30 processes the last 20 elements are in nobody's part.
- `ex3.c:21`: until the handlers are set SIGTERM and SIGQUIT end the program.
- `ex4_srv.c:88` and `ex3_srv.c:80`: a short read is answered as if it were
  the whole message.

## 6. Plan

The order was that of importance: processes and signals first, then
semaphores and shared memory, the servers, and the smaller programs. The modules
of section 2 and the proofs of section 4 are done. What would come next:

1. `ForkServers`: an abstract service (each connection is answered from its own
   text, stored before it is shown, or reset) that the module implements, as
   `EchoServer` does `EchoService`.
2. Action properties beside the invariants, such as that what a client was
   shown is never taken back, nor what was stored.
3. Bounded socket buffers for ex2.

## 7. Running it

    tlc -workers 2 -config MCSinaisV.cfg MCSinaisV
    tlapm SinaisVProofs.tla

`PROJECT.json` lists every run with its module and configuration. The longest,
`fork_servers`, takes about two minutes (some 245000 states); most of it is liveness.
