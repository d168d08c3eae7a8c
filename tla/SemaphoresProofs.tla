-------------------------- MODULE SemaphoresProofs --------------------------
(***************************************************************************)
(* The two uses that the programs of Ficha5 make of a semaphore: one that  *)
(* starts at 1 keeps lines apart (Printers), one that starts at 0 announces *)
(* a line (Mailbox).  The safety properties of both, for any number of     *)
(* tasks, any length of line and any number of executions.                 *)
(***************************************************************************)
EXTENDS Printers, Mailbox, Integers, FiniteSetTheorems, TLAPS

-----------------------------------------------------------------------------
(* Printers *)

Critical(t) == pc[t] \in {"print", "post"}

\* A killed task stays where it was, so that the semaphore stays taken.
LockInv ==
  prog # "threads" =>
    /\ value = 1 => \A t \in Task : ~Critical(t)
    /\ value = 0 => \E t \in Task : Critical(t)
    /\ \A t, u \in Task : Critical(t) /\ Critical(u) => t = u

UnfinishedInv == \A t \in Task : pos[t] > 0 => pc[t] = "print"

\* Ficha4/ex1.c has no lock to wait for or to release.
NoLockInv ==
  prog = "threads" => \A t \in Task : pc[t] \in {"sprintf", "sleep", "print"}

PInv == PTypeOK /\ LockInv /\ UnfinishedInv /\ NoLockInv

USE PAssumption DEF PAssumption

LEMMA PInitInv == PInit => PInv
<1> SUFFICES ASSUME PInit PROVE PInv
  OBVIOUS
<1> USE DEF PInit
<1>1. PTypeOK BY DEF PTypeOK
<1>2. LockInv BY DEF LockInv, Critical
<1>3. UnfinishedInv BY DEF UnfinishedInv
<1>4. NoLockInv BY DEF NoLockInv
<1>5. QED BY <1>1, <1>2, <1>3, <1>4 DEF PInv

LEMMA TaskStep ==
  ASSUME PInv, NEW t \in Task, Step(t)
  PROVE  PInv'
<1> USE DEF PInv, PTypeOK, LockInv, UnfinishedInv, NoLockInv, Critical, At, Move
<1>1. CASE Sprintf(t) BY <1>1 DEF Sprintf
<1>2. CASE Sleep(t)
  <2>1. PTypeOK' BY <1>2 DEF Sleep
  <2>2. LockInv'
    <3>1. CASE prog = "threads" BY <1>2, <3>1 DEF Sleep
    <3>2. CASE prog # "threads" BY <1>2, <3>2 DEF Sleep
    <3>3. QED BY <3>1, <3>2
  <2>3. UnfinishedInv' /\ NoLockInv' BY <1>2 DEF Sleep
  <2>4. QED BY <2>1, <2>2, <2>3
<1>3. CASE Acquire(t) BY <1>3 DEF Acquire
<1>4. CASE Block(t) BY <1>4 DEF Block
<1>5. CASE Fputc(t) BY <1>5 DEF Fputc
<1>6. CASE Release(t)
  <2>1. prog # "threads" /\ value = 0
    BY <1>6 DEF Release
  <2>2. CASE Wakeable = {} /\ Move(t, "sleep")
    BY <1>6, <2>1, <2>2 DEF Release
  <2>3. ASSUME NEW u \in Wakeable, pc' = [pc EXCEPT ![t] = "sleep", ![u] = "wait"]
        PROVE  PInv'
    <3>1. u \in Task /\ u # t
      BY <1>6, <2>3 DEF Release, Wakeable
    <3>2. QED BY <1>6, <2>1, <2>3, <3>1 DEF Release
  <2>4. QED BY <1>6, <2>2, <2>3 DEF Release
<1>7. QED BY <1>1, <1>2, <1>3, <1>4, <1>5, <1>6 DEF Step

LEMMA OutsideStep ==
  ASSUME PInv, Interrupt \/ Restart \/ UNCHANGED pvars \/ \E t \in Task : Kill(t)
  PROVE  PInv'
<1> USE DEF PInv, PTypeOK, LockInv, UnfinishedInv, NoLockInv, Critical
<1>1. CASE Interrupt BY <1>1 DEF Interrupt
<1>2. CASE Restart BY <1>2 DEF Restart, NewSemaphore
<1>3. CASE UNCHANGED pvars BY <1>3 DEF pvars
<1>4. ASSUME NEW t \in Task, Kill(t) PROVE PInv'
  BY <1>4 DEF Kill
<1>5. QED BY <1>1, <1>2, <1>3, <1>4

\* The value of the lock and the places of the tasks always agree (sem_wait, myprint and
\* sem_post in myfunc), and only a task that prints has an unfinished line.
THEOREM LockAgrees == PSpec => []PInv
<1>1. PInv /\ [PNext]_pvars => PInv'
  BY TaskStep, OutsideStep DEF PNext
<1>2. QED BY <1>1, PInitInv, PTL DEF PSpec

\* With the mutex or either semaphore no two lines are ever mixed, whatever tasks
\* are killed and however often the program is started again.
THEOREM NeverMixed == PSpec => []Unmixed
<1>1. PInv => Unmixed
  BY DEF PInv, PTypeOK, LockInv, UnfinishedInv, NoLockInv, Critical, Unmixed
<1>2. QED BY <1>1, LockAgrees, PTL

\* Whoever finds the semaphore taken has somebody to wait for.
THEOREM HeldOnlyByHolder == PSpec => []HeldBySomebody
<1>1. PInv => HeldBySomebody
  BY DEF PInv, LockInv, Critical, HeldBySomebody
<1>2. QED BY <1>1, LockAgrees, PTL

\* The semaphore is 0 or 1, whoever is killed or started again.
THEOREM LockTyped == PSpec => []PTypeOK
<1>1. PInv => PTypeOK BY DEF PInv
<1>2. QED BY LockAgrees, <1>1, PTL

HIDE PAssumption DEF PAssumption
-----------------------------------------------------------------------------
(* Mailbox.  What is to be counted is counted as the size of a set: the values *)
(* of all the semaphores together are the size of Tokens.                      *)

Openers == {w \in Writer : wsem[w] # 0}

Posted == {w \in Writer : wpc[w] \in {"unlink", "done", "left"}}

Tokens == {t \in SemId \X Nat : t[2] \in 1..sem[t[1]]}

\* One if the reader has taken a post and not finished its line.
Printing == IF rpc \in {"print", "printing"} THEN 1 ELSE 0

\* One if an execution of the reader has not come to its sem_open.
Early == IF rpc \in {"ftruncate", "sem_open"} THEN 1 ELSE 0

\* Every semaphore was created by a sem_open of its own, and a program that is past its
\* sem_open has one.
OpenInv ==
  /\ created + Early =< Cardinality(Openers) + runs
  /\ rpc \in {"off", "ftruncate", "sem_open"} => rsem = 0
  /\ rpc \in {"clear", "wait", "print", "printing"} => rsem # 0
  /\ \A w \in Writer :
       /\ wpc[w] \in {"off", "sem_open"} => wsem[w] = 0
       /\ wpc[w] \in {"fgets", "strcpy", "copying", "post", "unlink", "done"} =>
            wsem[w] # 0

\* A post is in a semaphore, or was turned into a line, or is lost.
TokenInv ==
  IsFiniteSet(Tokens) /\ Cardinality(Tokens) + prints + Printing =< Cardinality(Posted)

\* Until a name is removed there is one semaphore.
NameInv == (\A w \in Writer : wpc[w] # "done") => name = created /\ created =< 1

Inv == TypeOK /\ OpenInv /\ TokenInv /\ NameInv

USE ConstantsAssumption DEF ConstantsAssumption

LEMMA Finite ==
  /\ IsFiniteSet(Openers) /\ Cardinality(Openers) \in Nat
  /\ Cardinality(Openers) =< Cardinality(Writer)
  /\ IsFiniteSet(Posted) /\ Cardinality(Posted) \in Nat
  /\ Cardinality(Writer) \in Nat
<1>1. Openers \subseteq Writer /\ Posted \subseteq Writer
  BY DEF Openers, Posted
<1>2. QED BY <1>1, FS_Subset, FS_CardinalityType

LEMMA InitInv == Init => Inv
<1> SUFFICES ASSUME Init PROVE Inv
  OBVIOUS
<1> USE DEF Init
<1>1. TypeOK BY FS_CardinalityType DEF TypeOK, SemId
<1>2. OpenInv BY Finite DEF OpenInv, Early
<1>3. TokenInv
  <2>1. Tokens = {}
    BY DEF Tokens
  <2>2. QED BY <2>1, FS_EmptySet, Finite DEF TokenInv, Printing
<1>4. NameInv BY DEF NameInv
<1>5. QED BY <1>1, <1>2, <1>3, <1>4 DEF Inv
-----------------------------------------------------------------------------
\* The semaphore that sem_open gives to the reader or to a writer.
LEMMA SemOpenType ==
  ASSUME TypeOK, SemOpen, created < Cardinality(Writer) + MaxRuns
  PROVE  /\ Opened \in 1..created' /\ created' \in 0..(Cardinality(Writer) + MaxRuns)
         /\ name' \in 0..created' /\ created =< created' /\ created' =< created + 1
         /\ sem' = sem
  BY Finite DEF TypeOK, SemOpen, Opened

\* The reader: its sem_open, its wait and its printf count.
LEMMA ReaderInv ==
  ASSUME Inv, RShmOpen \/ ReaderStep \/ KillReader
  PROVE  Inv'
<1> USE DEF Inv, TypeOK, OpenInv, NameInv, RMove, semaphores, memory, writers, Early
<1>1. Openers' = Openers /\ Posted' = Posted /\ UNCHANGED writers
  BY DEF ReaderStep, RShmOpen, Ftruncate, RSemOpen, Clear, SemWait, PrintHead, PrintRest,
         KillReader, Openers, Posted, reader
<1>2. CASE RShmOpen \/ Ftruncate \/ Clear \/ PrintHead \/ KillReader
  <2>1. Tokens' = Tokens /\ prints' + Printing' =< prints + Printing /\ prints' = prints
    BY <1>2 DEF RShmOpen, Ftruncate, Clear, PrintHead, KillReader, Tokens, Printing
  <2>2. TokenInv'
    BY <1>1, <2>1, Finite, FS_CardinalityType DEF TokenInv, Printing
  <2>3. TypeOK' /\ OpenInv' /\ NameInv'
    BY <1>1, <1>2, Finite DEF RShmOpen, Ftruncate, Clear, PrintHead, KillReader
  <2>4. QED BY <2>2, <2>3
<1>3. CASE RSemOpen
  <2>1. created < Cardinality(Writer) + MaxRuns
    BY <1>3, Finite DEF RSemOpen
  <2>2. /\ Opened \in 1..created' /\ created' \in 0..(Cardinality(Writer) + MaxRuns)
        /\ name' \in 0..created' /\ created =< created' /\ created' =< created + 1
        /\ sem' = sem
    BY <1>3, <2>1, SemOpenType DEF RSemOpen
  <2>3. TypeOK' /\ OpenInv'
    BY <1>1, <1>3, <2>2, Finite DEF RSemOpen
  <2>4. NameInv'
    BY <1>1, <1>3 DEF RSemOpen, SemOpen, Opened
  <2>5. TokenInv'
    BY <1>1, <1>3, <2>2 DEF RSemOpen, TokenInv, Tokens, Printing
  <2>6. QED BY <2>3, <2>4, <2>5
<1>4. CASE SemWait
  <2>1. rsem \in 1..created /\ sem[rsem] > 0
    BY <1>4 DEF SemWait
  <2>2. rsem \in SemId /\ sem[rsem] \in Nat \ {0}
    <3>1. rsem \in SemId
      BY <2>1, Finite DEF SemId
    <3>2. sem[rsem] \in Nat
      BY <3>1
    <3>3. QED BY <2>1, <3>1, <3>2
  <2>3. Tokens' = Tokens \ {<<rsem, sem[rsem]>>} /\ <<rsem, sem[rsem]>> \in Tokens
    BY <1>4, <2>2 DEF SemWait, Tokens
  <2>4. IsFiniteSet(Tokens') /\ Cardinality(Tokens') = Cardinality(Tokens) - 1
    BY <2>3, FS_RemoveElement DEF TokenInv
  <2>5. TokenInv'
    BY <1>1, <1>4, <2>4, Finite, FS_CardinalityType DEF SemWait, TokenInv, Printing
  <2>6. TypeOK' /\ OpenInv' /\ NameInv'
    <3>1. sem' \in [SemId -> Nat]
      BY <1>4, <2>2 DEF SemWait
    <3>2. QED BY <1>1, <1>4, <3>1, Finite DEF SemWait
  <2>7. QED BY <2>5, <2>6
<1>5. CASE PrintRest
  <2>1. TypeOK' /\ OpenInv' /\ NameInv'
    BY <1>1, <1>5, Finite DEF PrintRest
  <2>2. TokenInv'
    BY <1>1, <1>5, Finite, FS_CardinalityType DEF PrintRest, TokenInv, Tokens, Printing
  <2>3. QED BY <2>1, <2>2
<1>6. QED BY <1>2, <1>3, <1>4, <1>5 DEF ReaderStep

\* A writer: its sem_open and its post count.
LEMMA WriterInv ==
  ASSUME Inv, NEW w \in Writer, WriterStep(w) \/ Fgets(w) \/ KillWriter(w)
  PROVE  Inv'
<1> USE DEF Inv, TypeOK, OpenInv, NameInv, WMove, semaphores, memory, reader, Early
<1>1. CASE \/ WShmOpen(w) \/ Fgets(w) \/ KillWriter(w) \/ StrcpyFirst(w) \/ StrcpyRest(w)
           \/ Unlink(w)
  <2>1. Openers' = Openers /\ Posted' = Posted /\ Tokens' = Tokens
    BY <1>1 DEF WShmOpen, Fgets, KillWriter, StrcpyFirst, StrcpyRest, Unlink, Openers,
                Posted, Tokens
  <2>2. TypeOK' /\ OpenInv' /\ NameInv'
    BY <1>1, <2>1, Finite DEF WShmOpen, Fgets, KillWriter, StrcpyFirst, StrcpyRest, Unlink
  <2>3. TokenInv'
    BY <1>1, <2>1 DEF WShmOpen, Fgets, KillWriter, StrcpyFirst, StrcpyRest, Unlink,
                      TokenInv, Printing
  <2>4. QED BY <2>2, <2>3
<1>2. CASE WSemOpen(w)
  <2>1. w \notin Openers
    BY <1>2 DEF WSemOpen, Openers
  <2>2. Cardinality(Openers \cup {w}) = Cardinality(Openers) + 1
    BY <2>1, Finite, FS_AddElement
  <2>3. Cardinality(Openers \cup {w}) =< Cardinality(Writer)
    <3>1. Openers \cup {w} \subseteq Writer
      BY DEF Openers
    <3>2. QED BY <3>1, FS_Subset
  <2>4. created < Cardinality(Writer) + MaxRuns
    BY <2>2, <2>3, Finite
  <2>5. /\ Opened \in 1..created' /\ created' \in 0..(Cardinality(Writer) + MaxRuns)
        /\ name' \in 0..created' /\ created =< created' /\ created' =< created + 1
        /\ sem' = sem
    BY <1>2, <2>4, SemOpenType DEF WSemOpen
  <2>6. Openers' = Openers \cup {w}
    BY <1>2, <2>5 DEF WSemOpen, Openers
  <2>7. TypeOK' /\ OpenInv'
    BY <1>2, <2>2, <2>5, <2>6, Finite DEF WSemOpen
  <2>8. NameInv'
    BY <1>2 DEF WSemOpen, SemOpen, Opened
  <2>9. Posted' = Posted
    BY <1>2 DEF WSemOpen, Posted
  <2>10. TokenInv'
    BY <1>2, <2>5, <2>9 DEF WSemOpen, TokenInv, Tokens, Printing
  <2>11. QED BY <2>7, <2>8, <2>10
<1>3. CASE Post(w)
  <2>1. wsem[w] \in SemId /\ sem[wsem[w]] \in Nat
    <3>1. wpc[w] = "post" BY <1>3 DEF Post
    <3>2. wsem[w] # 0 /\ wsem[w] \in 0..created BY <3>1
    <3>3. created \in 0..(Cardinality(Writer) + MaxRuns) /\ sem \in [SemId -> Nat] OBVIOUS
    <3>4. wsem[w] \in SemId BY ONLY <3>2, <3>3, Finite, ConstantsAssumption DEF SemId
    <3>5. QED BY ONLY <3>3, <3>4
  <2>2. Openers' = Openers
    BY <1>3 DEF Post, Openers
  <2>3. TypeOK' /\ OpenInv' /\ NameInv'
    BY <1>3, <2>1, <2>2, Finite DEF Post, SemPost
  <2>4. Tokens' = Tokens \cup {<<wsem[w], sem[wsem[w]] + 1>>}
    BY <1>3, <2>1 DEF Post, SemPost, Tokens
  <2>5. /\ Cardinality(Tokens) \in Nat /\ IsFiniteSet(Tokens')
        /\ Cardinality(Tokens') \in {Cardinality(Tokens), Cardinality(Tokens) + 1}
    <3>1. IsFiniteSet(Tokens)
      BY DEF TokenInv
    <3>2. QED BY <2>4, <3>1, FS_AddElement, FS_CardinalityType
  <2>6. Posted' = Posted \cup {w} /\ w \notin Posted
    BY <1>3 DEF Post, Posted
  <2>7. Cardinality(Posted') = Cardinality(Posted) + 1
    BY <2>6, Finite, FS_AddElement
  <2>8. TokenInv'
    <3>1. UNCHANGED <<rpc, prints>>
      BY <1>3 DEF Post
    <3>2. QED BY <2>5, <2>7, <3>1, Finite DEF TokenInv, Printing
  <2>9. QED BY <2>3, <2>8
<1>4. QED BY <1>1, <1>2, <1>3 DEF WriterStep

\* Whatever programs start and end in whatever order, semaphores are opened as OpenInv
\* says, posts are used once, and the name is removed only by a writer that has posted.
THEOREM SpecInv == Spec => []Inv
<1>1. Inv /\ UNCHANGED vars => Inv'
  BY DEF Inv, TypeOK, OpenInv, TokenInv, NameInv, Openers, Posted, Tokens, Printing, Early,
         vars, memory, semaphores, reader, writers
<1>2. Inv /\ [Next]_vars => Inv'
  BY <1>1, ReaderInv, WriterInv DEF Next, Ended
<1>3. QED BY <1>2, InitInv, PTL DEF Spec

\* The reader prints no line that no post of ex4-writer has announced, in any number of
\* executions of both programs.
THEOREM NothingUnannounced == Spec => []PrintsAnnounced
<1>1. Inv => PrintsAnnounced
  BY Finite, FS_CardinalityType DEF Inv, TypeOK, TokenInv, Printing, Posted, PrintsAnnounced,
     Count
<1>2. QED BY <1>1, SpecInv, PTL

\* Until the first ex4-writer has called sem_unlink all programs have the same semaphore
\* open, whichever of them created it.
THEOREM SameSemaphore == Spec => []OneSemaphore
<1>1. Inv => OneSemaphore
  <2> SUFFICES ASSUME Inv, Count({"done"}) = 0 PROVE OneSemaphore
    BY DEF OneSemaphore
  <2> DEFINE Done == {w \in Writer : wpc[w] \in {"done"}}
  <2>1. IsFiniteSet(Done) /\ Cardinality(Done) = 0
    BY FS_Subset DEF Count
  <2>2. Done = {}
    BY <2>1, FS_EmptySet
  <2>3. name = created /\ created =< 1
    BY <2>2 DEF Inv, NameInv
  <2>4. QED BY <2>3 DEF Inv, TypeOK, OneSemaphore
<1>2. QED BY <1>1, SpecInv, PTL

\* Segment, semaphores and programs keep their types.
THEOREM TypeCorrect == Spec => []TypeOK
<1>1. Inv => TypeOK BY DEF Inv
<1>2. QED BY SpecInv, <1>1, PTL
=============================================================================
