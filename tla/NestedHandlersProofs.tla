------------------------ MODULE NestedHandlersProofs ------------------------
(***************************************************************************)
(* Proofs about NestedHandlers, for every number of signals.  The mask is  *)
(* what main has blocked and what the open calls of the handler defer;     *)
(* each call keeps the mask it has to restore.                             *)
(***************************************************************************)
EXTENDS NestedHandlers, TLAPS

\* What is left to set up, at any time.
Ahead ==
  /\ prog = "ex1" => todo \in {<<"TERM">>, <<>>}
  /\ prog = "ex3" => todo \in {<<"mask", "TERM", "QUIT">>, <<"TERM", "QUIT">>, <<"QUIT">>, <<>>}
  /\ prog = "ex4" => todo \in
       {<<"mask", "INT", "TERM", "QUIT", "TSTP">>, <<"INT", "TERM", "QUIT", "TSTP">>,
        <<"TERM", "QUIT", "TSTP">>, <<"QUIT", "TSTP">>, <<"TSTP">>, <<>>}

\* What main has blocked so far.
Unmasked == prog = "ex1" \/ (todo # <<>> /\ Head(todo) = "mask")
Base == IF Unmasked THEN {} ELSE (Signal \ Admitted) \ Unstoppable

\* The signals that a program sets.
Setting ==
  IF prog = "ex1" THEN {"TERM"} ELSE IF prog = "ex3" THEN {"TERM", "QUIT"}
  ELSE {"INT", "TERM", "QUIT", "TSTP"}

\* Other dispositions are not touched, and what was set or is still to be set is all there.
DispInv ==
  /\ \A s \in Signal : s \notin Setting => disp[s] = "default"
  /\ \A s \in Setting : disp[s] \in {"default", Choice(s)}
  /\ \A s \in Setting : disp[s] = Choice(s) \/ \E i \in DOMAIN todo : todo[i] = s

MaskInv ==
  \A s \in Signal :
    s \in mask <=> s \in Base \/ \E i \in DOMAIN frames : s \in Deferred(frames[i].sig)

SavedInv ==
  \A i \in DOMAIN frames : \A s \in Signal :
    s \in frames[i].saved <=>
      s \in Base \/ \E j \in DOMAIN frames : j > i /\ s \in Deferred(frames[j].sig)

\* A call begins only when its signal is not blocked.
FreshInv == \A i \in DOMAIN frames : frames[i].sig \notin frames[i].saved

ToldInv == told # {} => todo = <<>>

IInv ==
  /\ TypeOK /\ Ahead /\ DispInv /\ MaskInv /\ SavedInv /\ FreshInv /\ ToldInv
  /\ OnlyKillEnds /\ ReportsBlockedOnly

USE DEF Signal, Sig, Terminating, Stopping, Unstoppable, Disposition, Programs

LEMMA InitInv == Init => IInv
<1> SUFFICES ASSUME Init PROVE IInv
  OBVIOUS
<1> USE DEF Init, Setup
<1>1. TypeOK
  <2>1. frames \in Seq(Frame) OBVIOUS
  <2>2. todo \in Seq(Signal \cup {"mask"})
    <3>1. CASE prog = "ex1" BY <3>1
    <3>2. CASE prog = "ex3" BY <3>2
    <3>3. CASE prog = "ex4" BY <3>3
    <3>4. QED BY <3>1, <3>2, <3>3
  <2>3. QED BY <2>1, <2>2 DEF TypeOK
<1>2. Ahead BY DEF Ahead
<1>3. DispInv BY DEF DispInv, Setting, Choice
<1>4. MaskInv /\ SavedInv /\ FreshInv /\ ToldInv
  BY DEF MaskInv, SavedInv, FreshInv, ToldInv, Base, Unmasked
<1>5. OnlyKillEnds /\ ReportsBlockedOnly
  BY DEF OnlyKillEnds, ReportsBlockedOnly
<1>6. QED BY <1>1, <1>2, <1>3, <1>4, <1>5 DEF IInv

\* What a call of the handler leaves on the stack, and what its return takes away.
LEMMA Push ==
  ASSUME frames \in Seq(Frame), NEW f \in Frame, frames' = <<f>> \o frames
  PROVE  /\ frames' \in Seq(Frame) /\ Len(frames') = Len(frames) + 1 /\ frames'[1] = f
         /\ \A i \in DOMAIN frames : i + 1 \in DOMAIN frames' /\ frames'[i + 1] = frames[i]
         /\ \A i \in DOMAIN frames' : i = 1 \/ (i - 1 \in DOMAIN frames /\ frames'[i] = frames[i - 1])
  OBVIOUS

LEMMA Pop ==
  ASSUME frames \in Seq(Frame), frames # <<>>, frames' = Tail(frames)
  PROVE  /\ frames' \in Seq(Frame) /\ 1 \in DOMAIN frames
         /\ \A i \in DOMAIN frames' : i + 1 \in DOMAIN frames /\ frames'[i] = frames[i + 1]
         /\ \A i \in DOMAIN frames : i = 1 \/ (i - 1 \in DOMAIN frames' /\ frames'[i - 1] = frames[i])
  OBVIOUS

\* What the steps of a call change in it.
LEMMA Retouch ==
  ASSUME frames \in Seq(Frame), frames # <<>>, NEW a \in {"recebi", "sleep", "fim"},
         frames' = [frames EXCEPT ![1].at = a]
  PROVE  /\ frames' \in Seq(Frame) /\ DOMAIN frames' = DOMAIN frames
         /\ \A i \in DOMAIN frames :
              frames'[i].sig = frames[i].sig /\ frames'[i].saved = frames[i].saved
<1>1. 1 \in DOMAIN frames /\ frames[1] \in Frame OBVIOUS
<1> DEFINE f == [frames[1] EXCEPT !.at = a]
<1>2. f \in Frame /\ f.sig = frames[1].sig /\ f.saved = frames[1].saved BY <1>1 DEF Frame
<1>3. frames' = [frames EXCEPT ![1] = f] OBVIOUS
<1> HIDE DEF f
<1>4. frames' \in Seq(Frame) /\ DOMAIN frames' = DOMAIN frames BY <1>1, <1>2, <1>3
<1>5. ASSUME NEW i \in DOMAIN frames
      PROVE  frames'[i].sig = frames[i].sig /\ frames'[i].saved = frames[i].saved
  BY <1>1, <1>2, <1>3
<1>6. QED BY <1>4, <1>5

LEMMA TopFrame ==
  ASSUME frames \in Seq(Frame), frames # <<>>
  PROVE  Top \in Frame /\ Top = frames[1] /\ Top.saved \subseteq Signal \ Unstoppable
<1>1. Top \in Frame /\ Top = frames[1] BY DEF Top
<1>2. QED BY <1>1 DEF Frame

LEMMA Tails ==
  /\ Tail(<<"mask", "TERM", "QUIT">>) = <<"TERM", "QUIT">>
  /\ Tail(<<"TERM", "QUIT">>) = <<"QUIT">>
  /\ Tail(<<"QUIT">>) = <<>> /\ Tail(<<"TERM">>) = <<>> /\ Tail(<<"TSTP">>) = <<>>
  /\ Tail(<<"QUIT", "TSTP">>) = <<"TSTP">>
  /\ Tail(<<"TERM", "QUIT", "TSTP">>) = <<"QUIT", "TSTP">>
  /\ Tail(<<"INT", "TERM", "QUIT", "TSTP">>) = <<"TERM", "QUIT", "TSTP">>
  /\ Tail(<<"mask", "INT", "TERM", "QUIT", "TSTP">>) = <<"INT", "TERM", "QUIT", "TSTP">>
  OBVIOUS

LEMMA TypeStep == TypeOK /\ Ahead /\ [Next]_vars => TypeOK' /\ Ahead'
<1> SUFFICES ASSUME TypeOK, Ahead, [Next]_vars PROVE TypeOK' /\ Ahead'
  OBVIOUS
<1>1. CASE Sigprocmask \/ Sigaction
  <2> USE <1>1 DEF Sigprocmask, Sigaction, MainRuns, TypeOK
  <2>1. todo # <<>> /\ todo' = Tail(todo) /\ prog' = prog OBVIOUS
  <2>2. Ahead'
    <3>1. CASE prog = "ex1" BY <2>1, <3>1, Tails DEF Ahead
    <3>2. CASE prog = "ex3" BY <2>1, <3>2, Tails DEF Ahead
    <3>3. CASE prog = "ex4" BY <2>1, <3>3, Tails DEF Ahead
    <3>4. QED BY <3>1, <3>2, <3>3
  <2>3. disp' \in [Signal -> Disposition] BY DEF Choice
  <2>4. todo' \in Seq(Signal \cup {"mask"})
    <3> DEFINE S == Signal \cup {"mask"}
    <3>1. todo \in Seq(S) OBVIOUS
    <3> HIDE DEF S
    <3>2. todo' \in Seq(S) BY ONLY <2>1, <3>1
    <3>3. QED BY <3>2 DEF S
  <2>5. mask' = mask \/ mask' = (Signal \ Admitted) \ Unstoppable OBVIOUS
  <2>6. QED BY <2>2, <2>3, <2>4, <2>5
<1>2. CASE PrintOla \/ PrintPending \/ Sleep
  BY <1>2 DEF PrintOla, PrintPending, Sleep, Loop, TypeOK, Ahead
<1>3. CASE Recebi \/ HandlerSleep
  <2> USE <1>3 DEF Recebi, HandlerSleep, TypeOK
  <2>1. frames' \in Seq(Frame) BY Retouch
  <2>2. QED BY <2>1 DEF Ahead
<1>4. CASE Fim
  <2> USE <1>4 DEF Fim, TypeOK
  <2>1. frames' \in Seq(Frame) BY Pop
  <2>2. mask' \subseteq Signal \ Unstoppable BY TopFrame
  <2>3. QED BY <2>1, <2>2 DEF Ahead
<1>5. ASSUME NEW s \in Signal, Deliver(s) PROVE TypeOK' /\ Ahead'
  <2> USE <1>5 DEF Deliver, TypeOK
  <2>1. s \notin Unstoppable BY DEF Deliverable
  <2>2. frames' \in Seq(Frame) /\ mask' \subseteq Signal \ Unstoppable
    <3> DEFINE f == [sig |-> s, at |-> "recebi", saved |-> mask]
    <3>1. f \in Frame BY DEF Frame
    <3>2. CASE Effect(mask, disp, s) = "handle"
      <4>1. frames' = <<f>> \o frames /\ mask' = mask \cup Deferred(s) BY <3>2
      <4> HIDE DEF f
      <4>2. QED BY <2>1, <3>1, <4>1 DEF Deferred
    <3>3. CASE Effect(mask, disp, s) # "handle" BY <3>3
    <3>4. QED BY <3>2, <3>3
  <2>3. life' \in {"run", "stopped", "exit"} \cup Terminating
    BY DEF Effect, Default
  <2>4. QED BY <2>2, <2>3 DEF Ahead
<1>6. ASSUME NEW s \in Signal, Send(s) PROVE TypeOK' /\ Ahead'
  BY <1>6 DEF Send, Kept, Cancelled, TypeOK, Ahead
<1>7. CASE UNCHANGED vars BY <1>7 DEF vars, TypeOK, Ahead
<1>8. QED
  BY <1>1, <1>2, <1>3, <1>4, <1>5, <1>6, <1>7 DEF Next, ProgramStep, Rests

LEMMA Turn ==
  ASSUME TypeOK, Ahead, todo # <<>>
  PROVE  /\ Head(todo) \in Setting \cup {"mask"}
         /\ Head(todo) = "mask" => prog # "ex1" /\ Tail(todo) # <<>> /\ Head(Tail(todo)) # "mask"
         /\ Head(todo) # "mask" => Tail(todo) = <<>> \/ Head(Tail(todo)) # "mask"
<1>1. CASE prog = "ex1" BY <1>1, Tails DEF Ahead, Setting
<1>2. CASE prog = "ex3"
  <2>1. CASE todo = <<"mask", "TERM", "QUIT">> BY <1>2, <2>1, Tails DEF Setting
  <2>2. CASE todo = <<"TERM", "QUIT">> BY <1>2, <2>2, Tails DEF Setting
  <2>3. CASE todo = <<"QUIT">> BY <1>2, <2>3, Tails DEF Setting
  <2>4. QED BY <1>2, <2>1, <2>2, <2>3 DEF Ahead
<1>3. CASE prog = "ex4"
  <2>1. CASE todo = <<"mask", "INT", "TERM", "QUIT", "TSTP">>
    BY <1>3, <2>1, Tails DEF Setting
  <2>2. CASE todo = <<"INT", "TERM", "QUIT", "TSTP">> BY <1>3, <2>2, Tails DEF Setting
  <2>3. CASE todo = <<"TERM", "QUIT", "TSTP">> BY <1>3, <2>3, Tails DEF Setting
  <2>4. CASE todo = <<"QUIT", "TSTP">> BY <1>3, <2>4, Tails DEF Setting
  <2>5. CASE todo = <<"TSTP">> BY <1>3, <2>5, Tails DEF Setting
  <2>6. QED BY <1>3, <2>1, <2>2, <2>3, <2>4, <2>5 DEF Ahead
<1>4. QED BY <1>1, <1>2, <1>3 DEF TypeOK

\* Only Sigaction sets a disposition, each in its turn.
LEMMA DispStep == TypeOK /\ Ahead /\ DispInv /\ [Next]_vars => DispInv'
<1> SUFFICES ASSUME TypeOK, Ahead, DispInv, [Next]_vars PROVE DispInv'
  OBVIOUS
<1>1. CASE Sigaction \/ Sigprocmask
  <2>1. /\ todo # <<>> /\ todo' = Tail(todo) /\ prog' = prog
        /\ disp' = IF Head(todo) = "mask" THEN disp
                   ELSE [disp EXCEPT ![Head(todo)] = Choice(Head(todo))]
    BY <1>1 DEF Sigaction, Sigprocmask
  <2>2. Head(todo) \in Setting \cup {"mask"} /\ Setting \subseteq Signal /\ "mask" \notin Signal
    BY <2>1, Turn DEF Setting
  <2>3. Setting' = Setting /\ disp \in [Signal -> Disposition] BY <2>1 DEF Setting, TypeOK
  <2>4. \A i \in DOMAIN todo : todo[i] = Head(todo) \/ \E k \in DOMAIN todo' : todo'[k] = todo[i]
    <3>1. todo \in Seq(Signal \cup {"mask"}) BY DEF TypeOK
    <3>2. ASSUME NEW i \in DOMAIN todo, i # 1
          PROVE  i - 1 \in DOMAIN todo' /\ todo'[i - 1] = todo[i]
      <4> DEFINE S == Signal \cup {"mask"}
      <4>1. todo \in Seq(S) BY <3>1
      <4> HIDE DEF S
      <4>2. QED BY ONLY <2>1, <3>2, <4>1
    <3>3. todo[1] = Head(todo) BY <2>1, <3>1
    <3>4. ASSUME NEW i \in DOMAIN todo
          PROVE  todo[i] = Head(todo) \/ \E k \in DOMAIN todo' : todo'[k] = todo[i]
      <4>1. CASE i = 1 BY <3>3, <4>1
      <4>2. CASE i # 1 BY ONLY <3>2, <4>2
      <4>3. QED BY <4>1, <4>2
    <3>5. QED BY ONLY <3>4
  <2>5. \A s \in Signal : disp'[s] = IF s = Head(todo) THEN Choice(s) ELSE disp[s]
    BY <2>1, <2>2, <2>3
  <2>6. ASSUME NEW s \in Setting
        PROVE  disp'[s] = Choice(s) \/ \E k \in DOMAIN todo' : todo'[k] = s
    <3>1. CASE s = Head(todo) BY <2>2, <2>5, <3>1
    <3>2. CASE s # Head(todo) BY <2>2, <2>4, <2>5, <3>2 DEF DispInv
    <3>3. QED BY <3>1, <3>2
  <2>7. \A s \in Setting : disp'[s] \in {"default", Choice(s)} BY <2>2, <2>5 DEF DispInv
  <2>8. \A s \in Signal : s \notin Setting => disp'[s] = "default" BY <2>2, <2>5 DEF DispInv
  <2>9. QED BY <2>3, <2>6, <2>7, <2>8 DEF DispInv, Choice
<1>2. CASE UNCHANGED <<prog, todo, disp>> BY <1>2 DEF DispInv, Setting, Choice
<1>3. QED
  BY <1>1, <1>2
  DEF Next, ProgramStep, Rests, vars, PrintOla, PrintPending, Sleep, Loop, Recebi, HandlerSleep,
      Fim, Deliver, Send

Masks == MaskInv /\ SavedInv /\ FreshInv

\* The mask is deferred to by the calls that are open: Deliver adds one, Fim takes it back.
LEMMA MasksStep == TypeOK /\ Ahead /\ Masks /\ [Next]_vars => Masks'
<1> SUFFICES ASSUME TypeOK, Ahead, Masks, [Next]_vars PROVE Masks'
  OBVIOUS
<1> USE DEF Masks
<1>1. CASE Sigprocmask
  <2>1. frames = <<>> /\ frames' = <<>> BY <1>1 DEF Sigprocmask, MainRuns
  <2>2. prog # "ex1" /\ prog' = prog /\ todo' # <<>> /\ Head(todo') # "mask"
    BY <1>1, Turn DEF Sigprocmask
  <2>3. mask' = Base' /\ Base' \subseteq Signal
    BY <1>1, <2>2 DEF Sigprocmask, Base, Unmasked, Admitted
  <2>4. QED BY <2>1, <2>3 DEF MaskInv, SavedInv, FreshInv
<1>2. CASE Sigaction
  <2>1. frames = <<>> /\ frames' = <<>> /\ mask' = mask BY <1>2 DEF Sigaction, MainRuns
  <2>2. Base' = Base
    BY <1>2, Turn DEF Sigaction, Base, Unmasked, Admitted
  <2>3. QED BY <2>1, <2>2 DEF MaskInv, SavedInv, FreshInv
<1>3. CASE Recebi \/ HandlerSleep
  <2>1. Base' = Base /\ mask' = mask /\ prog' = prog
    BY <1>3 DEF Recebi, HandlerSleep, Base, Unmasked, Admitted
  <2>2. /\ DOMAIN frames' = DOMAIN frames
        /\ \A i \in DOMAIN frames :
             frames'[i].sig = frames[i].sig /\ frames'[i].saved = frames[i].saved
    BY <1>3, Retouch DEF Recebi, HandlerSleep, TypeOK
  <2>3. \A s : Deferred(s)' = Deferred(s) BY <2>1 DEF Deferred
  <2>4. QED BY <2>1, <2>2, <2>3 DEF MaskInv, SavedInv, FreshInv, Deferred
<1>4. CASE Fim
  <2>1. /\ frames \in Seq(Frame) /\ frames # <<>> /\ frames' = Tail(frames)
        /\ mask' = frames[1].saved /\ Base' = Base /\ prog' = prog
    BY <1>4, TopFrame DEF Fim, TypeOK, Base, Unmasked, Admitted
  <2>2. /\ frames' \in Seq(Frame) /\ 1 \in DOMAIN frames
        /\ \A i \in DOMAIN frames' : i + 1 \in DOMAIN frames /\ frames'[i] = frames[i + 1]
        /\ \A i \in DOMAIN frames :
             i = 1 \/ (i - 1 \in DOMAIN frames' /\ frames'[i - 1] = frames[i])
    BY <2>1, Pop
  <2>3. DOMAIN frames \subseteq Nat \ {0} /\ DOMAIN frames' \subseteq Nat \ {0}
    BY <2>1, <2>2
  <2>4. MaskInv'
    <3> SUFFICES ASSUME NEW s \in Signal
                 PROVE  s \in frames[1].saved <=>
                          s \in Base \/ \E i \in DOMAIN frames' : s \in Deferred(frames'[i].sig)
      BY <2>1 DEF MaskInv, Deferred
    <3>1. s \in frames[1].saved <=>
            s \in Base \/ \E j \in DOMAIN frames : j > 1 /\ s \in Deferred(frames[j].sig)
      BY <2>2 DEF SavedInv
    <3>2. ASSUME NEW j \in DOMAIN frames, j > 1, s \in Deferred(frames[j].sig)
          PROVE  \E i \in DOMAIN frames' : s \in Deferred(frames'[i].sig)
      BY <2>2, <3>2
    <3>3. ASSUME NEW i \in DOMAIN frames', s \in Deferred(frames'[i].sig)
          PROVE  \E j \in DOMAIN frames : j > 1 /\ s \in Deferred(frames[j].sig)
      BY <2>2, <2>3, <3>3
    <3>4. QED BY <3>1, <3>2, <3>3
  <2>5. SavedInv'
    <3> SUFFICES ASSUME NEW i \in DOMAIN frames', NEW s \in Signal
                 PROVE  s \in frames'[i].saved <=>
                          s \in Base \/ \E j \in DOMAIN frames' :
                                          j > i /\ s \in Deferred(frames'[j].sig)
      BY <2>1 DEF SavedInv, Deferred
    <3>1. s \in frames'[i].saved <=>
            s \in Base \/ \E j \in DOMAIN frames : j > i + 1 /\ s \in Deferred(frames[j].sig)
      BY <2>2 DEF SavedInv
    <3>2. ASSUME NEW j \in DOMAIN frames, j > i + 1, s \in Deferred(frames[j].sig)
          PROVE  \E k \in DOMAIN frames' : k > i /\ s \in Deferred(frames'[k].sig)
      <4>1. j - 1 \in DOMAIN frames' /\ frames'[j - 1] = frames[j] /\ j - 1 > i
        BY <2>2, <2>3, <3>2
      <4>2. QED BY <3>2, <4>1
    <3>3. ASSUME NEW k \in DOMAIN frames', k > i, s \in Deferred(frames'[k].sig)
          PROVE  \E j \in DOMAIN frames : j > i + 1 /\ s \in Deferred(frames[j].sig)
      <4>1. k + 1 \in DOMAIN frames /\ frames'[k] = frames[k + 1] /\ k + 1 > i + 1
        BY <2>2, <2>3, <3>3
      <4>2. QED BY <3>3, <4>1
    <3>4. QED BY <3>1, <3>2, <3>3
  <2>6. FreshInv' BY <2>2 DEF FreshInv
  <2>7. QED BY <2>4, <2>5, <2>6
<1>5. ASSUME NEW s \in Signal, Deliver(s) PROVE Masks'
  <2>1. Base' = Base /\ prog' = prog BY <1>5 DEF Deliver, Base, Unmasked, Admitted
  <2>2. CASE Effect(mask, disp, s) # "handle"
    BY <1>5, <2>1, <2>2 DEF Deliver, MaskInv, SavedInv, FreshInv, Deferred
  <2>3. CASE Effect(mask, disp, s) = "handle"
    <3> DEFINE f == [sig |-> s, at |-> "recebi", saved |-> mask]
    <3>1. frames' = <<f>> \o frames /\ mask' = mask \cup Deferred(s) /\ s \notin mask
      BY <1>5, <2>3 DEF Deliver, Deliverable
    <3>2. f \in Frame /\ frames \in Seq(Frame) /\ f.sig = s /\ f.saved = mask
      BY DEF Frame, TypeOK
    <3> HIDE DEF f
    <3>3. /\ frames' \in Seq(Frame) /\ Len(frames') = Len(frames) + 1 /\ frames'[1] = f
          /\ \A i \in DOMAIN frames : i + 1 \in DOMAIN frames' /\ frames'[i + 1] = frames[i]
          /\ \A i \in DOMAIN frames' :
               i = 1 \/ (i - 1 \in DOMAIN frames /\ frames'[i] = frames[i - 1])
      BY <3>1, <3>2, Push
    <3>4. /\ DOMAIN frames \subseteq Nat \ {0} /\ DOMAIN frames' \subseteq Nat \ {0}
          /\ 1 \in DOMAIN frames'
      BY <3>2, <3>3
    <3>5. MaskInv'
      <4> SUFFICES ASSUME NEW x \in Signal
                   PROVE  x \in mask \cup Deferred(s) <=>
                            x \in Base \/ \E i \in DOMAIN frames' : x \in Deferred(frames'[i].sig)
        BY <2>1, <3>1 DEF MaskInv, Deferred
      <4>1. x \in mask <=>
              x \in Base \/ \E i \in DOMAIN frames : x \in Deferred(frames[i].sig)
        BY DEF MaskInv
      <4>2. ASSUME NEW i \in DOMAIN frames, x \in Deferred(frames[i].sig)
            PROVE  \E k \in DOMAIN frames' : x \in Deferred(frames'[k].sig)
        BY <3>3, <4>2
      <4>3. ASSUME NEW k \in DOMAIN frames', x \in Deferred(frames'[k].sig)
            PROVE  x \in Deferred(s) \/ \E i \in DOMAIN frames : x \in Deferred(frames[i].sig)
        BY <3>2, <3>3, <4>3
      <4>4. x \in Deferred(s) => x \in Deferred(frames'[1].sig) BY <3>2, <3>3
      <4>5. QED BY <3>4, <4>1, <4>2, <4>3, <4>4
    <3>6. SavedInv'
      <4> SUFFICES ASSUME NEW i \in DOMAIN frames', NEW x \in Signal
                   PROVE  x \in frames'[i].saved <=>
                            x \in Base \/ \E j \in DOMAIN frames' :
                                            j > i /\ x \in Deferred(frames'[j].sig)
        BY <2>1 DEF SavedInv, Deferred
      <4>1. ASSUME NEW j \in DOMAIN frames, x \in Deferred(frames[j].sig)
            PROVE  j + 1 \in DOMAIN frames' /\ x \in Deferred(frames'[j + 1].sig)
        BY <3>3, <4>1
      <4>2. ASSUME NEW j \in DOMAIN frames', j > 1, x \in Deferred(frames'[j].sig)
            PROVE  j - 1 \in DOMAIN frames /\ x \in Deferred(frames[j - 1].sig)
        BY <3>3, <4>2
      <4>3. CASE i = 1
        <5>1. x \in frames'[i].saved <=>
                x \in Base \/ \E j \in DOMAIN frames : x \in Deferred(frames[j].sig)
          BY <3>2, <3>3, <4>3 DEF MaskInv
        <5>2. \A j \in DOMAIN frames : j + 1 > i BY <3>4, <4>3
        <5>3. QED BY <4>1, <4>2, <4>3, <5>1, <5>2
      <4>4. CASE i # 1
        <5>1. i - 1 \in DOMAIN frames /\ frames'[i] = frames[i - 1] BY <3>3, <4>4
        <5>2. x \in frames'[i].saved <=>
                x \in Base \/ \E j \in DOMAIN frames : j > i - 1 /\ x \in Deferred(frames[j].sig)
          BY <5>1 DEF SavedInv
        <5>3. \A j \in DOMAIN frames : j > i - 1 => j + 1 > i BY <3>4
        <5>4. \A j \in DOMAIN frames' : j > i => j > 1 /\ j - 1 > i - 1 BY <3>4
        <5>5. QED BY <4>1, <4>2, <5>2, <5>3, <5>4
      <4>5. QED BY <4>3, <4>4
    <3>7. FreshInv' BY <3>1, <3>2, <3>3 DEF FreshInv
    <3>8. QED BY <3>5, <3>6, <3>7
  <2>4. QED BY <2>2, <2>3
<1>6. CASE UNCHANGED <<prog, todo, frames, mask>>
  BY <1>6 DEF MaskInv, SavedInv, FreshInv, Base, Unmasked, Admitted, Deferred
<1>7. QED
  BY <1>1, <1>2, <1>3, <1>4, <1>5, <1>6
  DEF Next, ProgramStep, Rests, vars, PrintOla, PrintPending, Sleep, Loop, Send

\* main reports only when no call is open, and then only what it has blocked itself.
LEMMA ToldStep == IInv /\ [Next]_vars => ToldInv' /\ ReportsBlockedOnly'
<1> SUFFICES ASSUME IInv, [Next]_vars PROVE ToldInv' /\ ReportsBlockedOnly'
  OBVIOUS
<1>1. CASE PrintPending
  <2>1. todo = <<>> /\ frames = <<>> /\ pending \subseteq mask /\ told' = pending /\ disp' = disp
        /\ todo' = todo
    BY <1>1 DEF PrintPending, Loop, MainRuns, Runs, Deliverable
  <2>2. \A s \in pending : s \in Base BY <2>1 DEF IInv, MaskInv, TypeOK
  <2>3. \A s \in Base : s \in Signal /\ s \notin Setting
    BY DEF Base, Unmasked, Admitted, Setting, IInv, TypeOK
  <2>4. QED BY <2>1, <2>2, <2>3 DEF IInv, DispInv, ToldInv, ReportsBlockedOnly
<1>2. CASE Sigaction \/ Sigprocmask
  BY <1>2 DEF Sigaction, Sigprocmask, IInv, ToldInv, ReportsBlockedOnly
<1>3. CASE UNCHANGED <<todo, told, disp>>
  BY <1>3 DEF IInv, ToldInv, ReportsBlockedOnly
<1>4. QED
  BY <1>1, <1>2, <1>3
  DEF Next, ProgramStep, Rests, vars, PrintOla, Sleep, Loop, Recebi, HandlerSleep, Fim, Deliver, Send

\* What is set at the end leaves only SIGKILL to end ex3 and ex4.
LEMMA EndStep == IInv /\ [Next]_vars => OnlyKillEnds'
<1> SUFFICES ASSUME IInv, [Next]_vars PROVE OnlyKillEnds'
  OBVIOUS
<1>1. CASE Sigprocmask \/ Sigaction \/ PrintOla \/ PrintPending \/ Sleep \/ HandlerSleep \/ Fim
  BY <1>1 DEF Sigprocmask, Sigaction, PrintOla, PrintPending, Sleep, HandlerSleep, Fim, Loop,
              MainRuns, Runs, OnlyKillEnds
<1>2. CASE Recebi BY <1>2 DEF Recebi, Runs, OnlyKillEnds
<1>3. ASSUME NEW s \in Signal, Deliver(s) PROVE OnlyKillEnds'
  <2>1. todo' = todo /\ prog' = prog /\ life = "run" /\ s \notin mask /\ s \notin Unstoppable
    BY <1>3 DEF Deliver, Deliverable, IInv, TypeOK
  <2>2. CASE Effect(mask, disp, s) # "terminate"
    BY <1>3, <2>1, <2>2 DEF Deliver, OnlyKillEnds
  <2>3. CASE Effect(mask, disp, s) = "terminate" /\ todo = <<>>
    <3>1. disp[s] = "default" /\ s \in {"INT", "QUIT", "TERM"}
      BY <2>1, <2>3 DEF Effect, Default
    <3>2. s \notin Setting BY <2>3, <3>1 DEF IInv, DispInv, Choice
    <3>3. s \notin Base BY <2>1 DEF IInv, MaskInv
    <3>4. prog = "ex1" /\ s # "TERM"
      BY <2>3, <3>1, <3>2, <3>3 DEF Setting, Base, Unmasked, Admitted, IInv, TypeOK
    <3>5. life' = s BY <1>3, <2>3 DEF Deliver
    <3>6. QED BY <2>1, <3>4, <3>5 DEF OnlyKillEnds
  <2>4. QED BY <2>1, <2>2, <2>3 DEF OnlyKillEnds
<1>4. ASSUME NEW s \in Signal, Send(s) PROVE OnlyKillEnds'
  BY <1>4 DEF Send, OnlyKillEnds, IInv
<1>5. CASE UNCHANGED vars BY <1>5 DEF vars, OnlyKillEnds, IInv
<1>6. QED
  BY <1>1, <1>2, <1>3, <1>4, <1>5 DEF Next, ProgramStep, Rests

LEMMA InvNests == IInv => NestsAsMeant
<1> SUFFICES ASSUME IInv PROVE NestsAsMeant
  OBVIOUS
<1>1. ASSUME prog = "ex3", NEW i \in DOMAIN frames, NEW j \in DOMAIN frames, i < j
      PROVE  frames[i].sig # frames[j].sig
  <2>1. frames[j] \in Frame BY DEF IInv, TypeOK
  <2>2. frames[j].sig \in frames[i].saved
    BY <1>1, <2>1 DEF IInv, SavedInv, Deferred, Frame
  <2>3. QED BY <2>2 DEF IInv, FreshInv
<1>2. prog = "ex3" => \A i, j \in DOMAIN frames : frames[i].sig = frames[j].sig => i = j
  <2> SUFFICES ASSUME prog = "ex3", NEW i \in DOMAIN frames, NEW j \in DOMAIN frames,
                      frames[i].sig = frames[j].sig, i # j
               PROVE  FALSE
    OBVIOUS
  <2>1. i \in Nat /\ j \in Nat BY DEF IInv, TypeOK
  <2>2. i < j \/ j < i BY <2>1
  <2>3. QED BY <1>1, <2>2
<1>3. ASSUME prog = "ex4", NEW s \in mask PROVE disp[s] # "handler"
  <2>1. s \in Base BY <1>3 DEF IInv, MaskInv, Deferred, TypeOK
  <2>2. s \in Signal /\ s \notin Setting
    BY <1>3, <2>1 DEF Base, Unmasked, Admitted, Setting
  <2>3. QED BY <2>2 DEF IInv, DispInv
<1>4. QED BY <1>2, <1>3 DEF NestsAsMeant

\* ex1, ex3, ex4 of Ficha3: the mask, now and on every return from a handler, is what main has
\* blocked and what the calls still open defer, and dispositions are as main has set them.
THEOREM Invariance == Spec => []IInv
<1>1. IInv /\ [Next]_vars => IInv'
  BY TypeStep, DispStep, MasksStep, ToldStep, EndStep DEF IInv, Masks
<1>2. QED BY InitInv, <1>1, PTL DEF Spec

\* The variables keep their types, and SIGKILL and SIGSTOP are never blocked nor kept.
THEOREM TypeCorrect == Spec => []TypeOK
<1>1. IInv => TypeOK BY DEF IInv
<1>2. QED BY Invariance, <1>1, PTL

\* In ex3 no two calls for one signal are open; in ex4 no signal with a handler is deferred.
THEOREM Nesting == Spec => []NestsAsMeant
<1>1. QED BY Invariance, InvNests, PTL

\* Once they are set up, only SIGKILL ends ex3 and ex4, and SIGTERM does not kill ex1.
THEOREM KillOnly == Spec => []OnlyKillEnds
<1>1. IInv => OnlyKillEnds BY DEF IInv
<1>2. QED BY Invariance, <1>1, PTL

\* What main reports as pending has no handler.
THEOREM BlockedReports == Spec => []ReportsBlockedOnly
<1>1. IInv => ReportsBlockedOnly BY DEF IInv
<1>2. QED BY Invariance, <1>1, PTL
=============================================================================
