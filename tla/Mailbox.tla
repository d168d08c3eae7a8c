------------------------------ MODULE Mailbox ------------------------------
(***************************************************************************)
(* Ficha5/ex4-reader.c and ex4-writer.c: a reader prints the line in a     *)
(* shared segment each time a semaphore, found by its name, is posted; a   *)
(* writer stores one line, posts and removes the name.  A semaphore lives  *)
(* on without its name for those who have it open.                         *)
(***************************************************************************)
EXTENDS Naturals, FiniteSets

CONSTANTS
  Writer,      \* bound: the executions of ex4-writer, each with a line of its own
  MaxRuns      \* bound: the executions of ex4-reader

ASSUME ConstantsAssumption ==
  IsFiniteSet(Writer) /\ "nobody" \notin Writer /\ MaxRuns \in Nat

VARIABLES
  segment,     \* the shared segment: "none", "empty" (before ftruncate), "sized"
  first, rest, \* whose text the first byte and the rest of the line are
  name,        \* the semaphore that /sem1 names; 0: none
  created,     \* the semaphores created so far are 1..created
  sem,         \* their values
  rpc, rsem,   \* the reader and the semaphore it has open
  head,        \* what the reader's printf has read so far
  runs,        \* executions of the reader
  prints,      \* lines it has printed
  shown,       \* the writers whose line was printed whole
  wpc, wsem    \* the writers and the semaphores they have opened

memory == <<segment, first, rest>>
semaphores == <<name, created, sem>>
reader == <<rpc, rsem, head, runs, prints, shown>>
writers == <<wpc, wsem>>
vars == <<memory, semaphores, reader, writers>>

SemId == 1..(Cardinality(Writer) + MaxRuns)

Init ==
  /\ segment = "none" /\ first = "nobody" /\ rest = "nobody"
  /\ name = 0 /\ created = 0 /\ sem = [s \in SemId |-> 0]
  /\ rpc = "off" /\ rsem = 0 /\ head = "nobody"
  /\ runs = 0 /\ prints = 0 /\ shown = {}
  /\ wpc = [w \in Writer |-> "off"] /\ wsem = [w \in Writer |-> 0]

\* mutant of Opened: sem_unlink first, as in ex2.c
OpenedAnew == created + 1

\* sem_open("/sem1", O_CREAT, 0666, 0): the semaphore of that name, or a new one.
Opened == IF name # 0 THEN name ELSE created + 1

SemOpen ==
  /\ name' = Opened
  /\ created' = IF name # 0 THEN created ELSE created + 1
  /\ UNCHANGED sem

SemPost(s) == sem' = [sem EXCEPT ![s] = @ + 1]
-----------------------------------------------------------------------------
(* ex4-reader *)

RMove(from, to) == rpc = from /\ rpc' = to

RShmOpen ==
  /\ RMove("off", "ftruncate") /\ runs < MaxRuns
  /\ runs' = runs + 1
  /\ segment' = IF segment = "none" THEN "empty" ELSE segment
  /\ UNCHANGED <<first, rest, semaphores, rsem, head, prints, shown, writers>>

Ftruncate ==
  /\ RMove("ftruncate", "sem_open")
  /\ segment' = "sized"
  /\ UNCHANGED <<first, rest, semaphores, rsem, head, runs, prints, shown, writers>>

RSemOpen ==
  /\ RMove("sem_open", "clear")
  /\ SemOpen /\ rsem' = Opened
  /\ UNCHANGED <<memory, head, runs, prints, shown, writers>>

\* strcpy(shm_ptr, "") writes the first byte only.
Clear ==
  /\ RMove("clear", "wait")
  /\ first' = "nobody"
  /\ UNCHANGED <<segment, rest, semaphores, rsem, head, runs, prints, shown, writers>>

\* mutant of SemWait: the reader polls, as the program of the sheet did
SemTry ==
  /\ RMove("wait", "print")
  /\ sem' = [sem EXCEPT ![rsem] = IF @ > 0 THEN @ - 1 ELSE 0]
  /\ UNCHANGED <<memory, name, created, rsem, head, runs, prints, shown, writers>>

\* mutant of SemWait: a line counts only with a second post
SemWaitTwice ==
  /\ RMove("wait", "print") /\ sem[rsem] > 1
  /\ sem' = [sem EXCEPT ![rsem] = @ - 2]
  /\ UNCHANGED <<memory, name, created, rsem, head, runs, prints, shown, writers>>

SemWait ==
  /\ RMove("wait", "print") /\ sem[rsem] > 0
  /\ sem' = [sem EXCEPT ![rsem] = @ - 1]
  /\ UNCHANGED <<memory, name, created, rsem, head, runs, prints, shown, writers>>

\* printf reads the segment while a writer may be changing it.
PrintHead ==
  /\ RMove("print", "printing")
  /\ head' = first
  /\ UNCHANGED <<memory, semaphores, rsem, runs, prints, shown, writers>>

PrintRest ==
  /\ RMove("printing", "wait")
  /\ prints' = prints + 1
  /\ shown' = IF head = rest /\ head # "nobody" THEN shown \cup {head} ELSE shown
  /\ head' = "nobody"
  /\ UNCHANGED <<memory, semaphores, rsem, runs, writers>>

\* Ctrl-C: the segment and the name of the semaphore stay behind.
KillReader ==
  /\ rpc # "off" /\ rpc' = "off"
  /\ rsem' = 0 /\ head' = "nobody"
  /\ UNCHANGED <<memory, semaphores, runs, prints, shown, writers>>
-----------------------------------------------------------------------------
(* ex4-writer *)

WMove(w, from, to) == wpc[w] = from /\ wpc' = [wpc EXCEPT ![w] = to]

WShmOpen(w) ==
  /\ WMove(w, "off", IF segment = "none" THEN "failed" ELSE "sem_open")
  /\ UNCHANGED <<memory, semaphores, reader, wsem>>

WSemOpen(w) ==
  /\ WMove(w, "sem_open", "fgets")
  /\ SemOpen /\ wsem' = [wsem EXCEPT ![w] = Opened]
  /\ UNCHANGED <<memory, reader>>

\* The user types a line.
Fgets(w) ==
  /\ WMove(w, "fgets", "strcpy")
  /\ UNCHANGED <<memory, semaphores, reader, wsem>>

\* A segment without size cannot be written: SIGBUS.
StrcpyFirst(w) ==
  /\ WMove(w, "strcpy", IF segment = "sized" THEN "copying" ELSE "failed")
  /\ first' = IF segment = "sized" THEN w ELSE first
  /\ UNCHANGED <<segment, rest, semaphores, reader, wsem>>

StrcpyRest(w) ==
  /\ WMove(w, "copying", "post")
  /\ rest' = w
  /\ UNCHANGED <<segment, first, semaphores, reader, wsem>>

Post(w) ==
  /\ WMove(w, "post", "unlink")
  /\ SemPost(wsem[w])
  /\ UNCHANGED <<memory, name, created, reader, wsem>>

\* Whatever /sem1 names by now loses its name.
Unlink(w) ==
  /\ WMove(w, "unlink", "done")
  /\ name' = 0
  /\ UNCHANGED <<memory, created, sem, reader, wsem>>

\* Ctrl-C or a signal, at any point: half a line may be stored, a post may be missing, or
\* only the name may be left ("left").
KillWriter(w) ==
  /\ wpc[w] \notin {"off", "done", "failed", "left"}
  /\ WMove(w, wpc[w], IF wpc[w] = "unlink" THEN "left" ELSE "failed")
  /\ UNCHANGED <<memory, semaphores, reader, wsem>>

ReaderStep ==
  Ftruncate \/ RSemOpen \/ Clear \/ SemWait \/ PrintHead \/ PrintRest

WriterStep(w) ==
  \/ WShmOpen(w) \/ WSemOpen(w)
  \/ StrcpyFirst(w) \/ StrcpyRest(w) \/ Post(w) \/ Unlink(w)

Ended ==
  /\ rpc = "off" \/ (rpc = "wait" /\ sem[rsem] = 0)
  /\ \A w \in Writer : wpc[w] \in {"done", "failed", "left"}
  /\ UNCHANGED vars

Next ==
  \/ RShmOpen \/ ReaderStep \/ KillReader
  \/ \E w \in Writer : WriterStep(w) \/ Fgets(w) \/ KillWriter(w)
  \/ Ended

Spec ==
  /\ Init /\ [][Next]_vars
  /\ WF_vars(ReaderStep) /\ \A w \in Writer : WF_vars(WriterStep(w))
-----------------------------------------------------------------------------
(* Properties *)

Count(P) == Cardinality({w \in Writer : wpc[w] \in P})

TypeOK ==
  /\ segment \in {"none", "empty", "sized"}
  /\ {first, rest, head} \subseteq Writer \cup {"nobody"}
  /\ name \in 0..created /\ created \in 0..(Cardinality(Writer) + MaxRuns)
  /\ sem \in [SemId -> Nat]
  /\ rpc \in {"off", "ftruncate", "sem_open", "clear", "wait", "print", "printing"}
  /\ rsem \in 0..created
  /\ runs \in 0..MaxRuns /\ prints \in Nat /\ shown \subseteq Writer
  /\ wpc \in [Writer -> {"off", "sem_open", "fgets", "strcpy", "copying", "post",
                         "unlink", "done", "failed", "left"}]
  /\ wsem \in [Writer -> 0..created]

\* The reader prints only when a writer has written: over all executions, with
\* semaphores left behind and names removed, never more lines than posts.
PrintsAnnounced == prints + (IF rpc \in {"print", "printing"} THEN 1 ELSE 0) =<
                     Count({"unlink", "done", "left"})

\* What a writer posts to the reader's own semaphore makes the reader print, unless
\* the reader is ended.
PostReachesReader ==
  \A n \in 0..Cardinality(Writer) :
    (rpc = "wait" /\ sem[rsem] > 0 /\ prints = n) ~> (prints > n \/ rpc = "off")

\* As long as no writer has removed the name, reader and writers agree on the
\* semaphore, in whatever order they have started.
OneSemaphore ==
  Count({"done"}) = 0 =>
    created =< 1 /\ (rsem # 0 => rsem = name) /\ \A w \in Writer : wsem[w] \in {0, name}

\* Once the reader has shown a line, it is told of the next one too: "apenas faca
\* impressoes quando o programa em ex4-writer.c escreve uma nova linha".
NextLineAnnounced ==
  \A w \in Writer :
    shown # {} /\ wpc[w] = "unlink" /\ rpc = "wait" => wsem[w] = rsem
=============================================================================
