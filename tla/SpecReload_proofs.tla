-------------------------- MODULE SpecReload_proofs --------------------------
(***************************************************************************)
(* Proofs about SpecReload: its type invariant, that an idle debouncer     *)
(* agrees with the file, and that it implements LastKnownGood, for every   *)
(* set of contents and every bound.                                        *)
(***************************************************************************)
EXTENDS SpecReload, TLAPS

-----------------------------------------------------------------------------
(* Queues.  What the two predicates on queues say of a longer or a shorter *)
(* queue; no other proof looks inside a sequence.                          *)

\* No event is in an empty queue (a fact about NoTarget, YoungestIsRemoval).
LEMMA EmptyQueue == NoTarget(<<>>) /\ ~YoungestIsRemoval(<<>>)
BY DEF NoTarget, YoungestIsRemoval

\* Where the target events of an extended queue are (Append in the kernel
\* and in the channel).
LEMMA AppendNoTarget ==
    ASSUME NEW s \in Seq(Event), NEW e \in Event
    PROVE  NoTarget(Append(s, e)) <=> NoTarget(s) /\ e.about # "spec"
<1>1. /\ Len(Append(s, e)) = Len(s) + 1
      /\ \A i \in 1..Len(s) : Append(s, e)[i] = s[i]
      /\ Append(s, e)[Len(s) + 1] = e
      /\ Len(s) \in Nat
  OBVIOUS
<1>2. ASSUME NoTarget(Append(s, e)) PROVE NoTarget(s) /\ e.about # "spec"
  BY <1>1, <1>2 DEF NoTarget
<1>3. ASSUME NoTarget(s), e.about # "spec" PROVE NoTarget(Append(s, e))
  BY <1>1, <1>3 DEF NoTarget
<1> QED BY <1>2, <1>3

\* An event put at the end of a queue is its youngest.
LEMMA AppendYoungest ==
    ASSUME NEW s \in Seq(Event), NEW e \in Event
    PROVE  YoungestIsRemoval(Append(s, e)) <=>
               \/ e.about = "spec" /\ e.kind = "remove"
               \/ e.about # "spec" /\ YoungestIsRemoval(s)
<1>1. /\ Len(Append(s, e)) = Len(s) + 1
      /\ \A i \in 1..Len(s) : Append(s, e)[i] = s[i]
      /\ Append(s, e)[Len(s) + 1] = e
      /\ Len(s) \in Nat
  OBVIOUS
<1>2. ASSUME YoungestIsRemoval(Append(s, e))
      PROVE  \/ e.about = "spec" /\ e.kind = "remove"
             \/ e.about # "spec" /\ YoungestIsRemoval(s)
  <2>1. PICK i \in 1..Len(s) + 1 :
            /\ Append(s, e)[i].about = "spec" /\ Append(s, e)[i].kind = "remove"
            /\ \A j \in i + 1..Len(s) + 1 : Append(s, e)[j].about # "spec"
    BY <1>1, <1>2 DEF YoungestIsRemoval
  <2>2. CASE i = Len(s) + 1
    BY <1>1, <2>1, <2>2
  <2>3. CASE i \in 1..Len(s)
    BY <1>1, <2>1, <2>3 DEF YoungestIsRemoval
  <2> QED BY <1>1, <2>2, <2>3
<1>3. ASSUME e.about = "spec", e.kind = "remove"
      PROVE  YoungestIsRemoval(Append(s, e))
  BY <1>1, <1>3 DEF YoungestIsRemoval
<1>4. ASSUME e.about # "spec", YoungestIsRemoval(s)
      PROVE  YoungestIsRemoval(Append(s, e))
  <2>1. PICK i \in 1..Len(s) :
            /\ s[i].about = "spec" /\ s[i].kind = "remove"
            /\ \A j \in i + 1..Len(s) : s[j].about # "spec"
    BY <1>4 DEF YoungestIsRemoval
  <2>2. \A j \in i + 1..Len(s) + 1 : Append(s, e)[j].about # "spec"
    BY <1>1, <1>4, <2>1
  <2> QED BY <1>1, <2>1, <2>2 DEF YoungestIsRemoval
<1> QED BY <1>2, <1>3, <1>4

\* The same two facts for the oldest event, which Deliver, Recv and Collect
\* take from a queue.
LEMMA TailNoTarget ==
    ASSUME NEW s \in Seq(Event), s # <<>>
    PROVE  NoTarget(s) <=> Head(s).about # "spec" /\ NoTarget(Tail(s))
<1>1. /\ Len(s) \in Nat \ {0}
      /\ Len(Tail(s)) = Len(s) - 1
      /\ \A i \in 1..Len(s) - 1 : Tail(s)[i] = s[i + 1]
      /\ Head(s) = s[1]
  OBVIOUS
<1>2. ASSUME NoTarget(s) PROVE Head(s).about # "spec" /\ NoTarget(Tail(s))
  BY <1>1, <1>2 DEF NoTarget
<1>3. ASSUME Head(s).about # "spec", NoTarget(Tail(s)), NEW i \in 1..Len(s)
      PROVE  s[i].about # "spec"
  <2>1. CASE i = 1
    BY <1>1, <1>3, <2>1
  <2>2. CASE i # 1
    <3>1. i - 1 \in 1..Len(s) - 1 /\ s[i] = Tail(s)[i - 1]
      BY <1>1, <1>3, <2>2
    <3> QED BY <1>1, <1>3, <3>1 DEF NoTarget
  <2> QED BY <2>1, <2>2
<1> QED BY <1>2, <1>3 DEF NoTarget

LEMMA TailYoungest ==
    ASSUME NEW s \in Seq(Event), s # <<>>
    PROVE  /\ YoungestIsRemoval(Tail(s)) => YoungestIsRemoval(s)
           /\ Head(s).about = "spec" /\ Head(s).kind = "remove" /\ NoTarget(Tail(s))
              => YoungestIsRemoval(s)
<1>1. /\ Len(s) \in Nat \ {0}
      /\ Len(Tail(s)) = Len(s) - 1
      /\ \A i \in 1..Len(s) - 1 : Tail(s)[i] = s[i + 1]
      /\ Head(s) = s[1]
  OBVIOUS
<1>2. ASSUME YoungestIsRemoval(Tail(s)) PROVE YoungestIsRemoval(s)
  <2>1. PICK i \in 1..Len(s) - 1 :
            /\ Tail(s)[i].about = "spec" /\ Tail(s)[i].kind = "remove"
            /\ \A j \in i + 1..Len(s) - 1 : Tail(s)[j].about # "spec"
    BY <1>1, <1>2 DEF YoungestIsRemoval
  <2>2. s[i + 1].about = "spec" /\ s[i + 1].kind = "remove" /\ i + 1 \in 1..Len(s)
    BY <1>1, <2>1
  <2>3. ASSUME NEW j \in i + 2..Len(s) PROVE s[j].about # "spec"
    <3>1. j - 1 \in i + 1..Len(s) - 1 /\ s[j] = Tail(s)[j - 1]
      BY <1>1
    <3> QED BY <2>1, <3>1
  <2> QED BY <1>1, <2>2, <2>3 DEF YoungestIsRemoval
<1>3. ASSUME Head(s).about = "spec", Head(s).kind = "remove", NoTarget(Tail(s))
      PROVE  YoungestIsRemoval(s)
  <2>1. ASSUME NEW j \in 2..Len(s) PROVE s[j].about # "spec"
    <3>1. j - 1 \in 1..Len(s) - 1 /\ s[j] = Tail(s)[j - 1]
      BY <1>1
    <3> QED BY <1>1, <1>3, <3>1 DEF NoTarget
  <2> QED BY <1>1, <1>3, <2>1 DEF YoungestIsRemoval
<1> QED BY <1>2, <1>3
-----------------------------------------------------------------------------
(* Type correctness. *)

\* Every step keeps the types of the variables.
LEMMA TypeStep == TypeOK /\ [Next]_vars => TypeOK'
<1> SUFFICES ASSUME TypeOK, [Next]_vars PROVE TypeOK'
  OBVIOUS
<1> USE ContentAssumption DEF ContentAssumption
<1>1. ASSUME NEW new \in Content \cup {NoFile}, NEW k \in Kind,
             Edited(new, k)
      PROVE  TypeOK'
  <2>1. [kind |-> k, about |-> "spec"] \in Event
    BY DEF Event
  <2>2. kernel' \in Seq(Event)
    <3>1. kernel \in Seq(Event)
      BY DEF TypeOK
    <3>2. kernel' = kernel \/ kernel' = Append(kernel, [kind |-> k, about |-> "spec"])
      BY <1>1 DEF Edited
    <3> QED BY <2>1, <3>1, <3>2
  <2> QED BY <1>1, <2>2 DEF TypeOK, Edited, outcome
<1>2. CASE Write
  BY <1>1, <1>2 DEF Write, Kind
<1>3. CASE RenameTo
  BY <1>1, <1>3 DEF RenameTo, Kind
<1>4. CASE Create
  BY <1>1, <1>4 DEF Create, Kind
<1>5. CASE Remove
  BY <1>1, <1>5 DEF Remove, Kind
<1>6. CASE RenameAway
  BY <1>1, <1>6 DEF RenameAway, Kind
<1>7. CASE TouchSibling
  <2>1. \A k \in Kind : [kind |-> k, about |-> "sibling"] \in Event
    BY DEF Event
  <2>2. kernel' \in Seq(Event)
    BY <1>7, <2>1 DEF TypeOK, TouchSibling
  <2> QED BY <1>7, <2>2 DEF TypeOK, TouchSibling, outcome
<1>8. CASE Attach \/ AttachFails \/ DropGuard \/ Start
  BY <1>8 DEF TypeOK, Attach, AttachFails, DropGuard, Start, Goto, queues,
              outcome, env
<1>9. CASE Deliver
  <2>1. kernel' \in Seq(Event) /\ rx' \in Seq(Event)
    BY <1>9 DEF TypeOK, Deliver
  <2> QED BY <1>9, <2>1 DEF TypeOK, Deliver, outcome
<1>10. CASE Recv \/ Collect
  <2>1. Head(rx) \in Event /\ rx' \in Seq(Event)
    <3>1. rx \in Seq(Event)
      BY DEF TypeOK
    <3>2. rx # <<>> /\ rx' = Tail(rx)
      BY <1>10 DEF Recv, Collect
    <3> QED BY <3>1, <3>2
  <2>2. pending' \in SUBSET Event
    BY <1>10, <2>1 DEF TypeOK, Recv, Collect
  <2> QED BY <1>10, <2>1, <2>2 DEF TypeOK, Recv, Collect, Goto, env, outcome
<1>11. CASE RecvClosed \/ EndOfBurst \/ Ignore \/ NoteRemoval \/ StartReload
  BY <1>11 DEF TypeOK, RecvClosed, EndOfBurst, Ignore, NoteRemoval,
               StartReload, Goto, env, outcome
<1>12. CASE LoadOk \/ LoadFails
  BY <1>12 DEF TypeOK, LoadOk, LoadFails, Goto, env, outcome
<1>13. CASE ClearError \/ Swap \/ CountFailure \/ SetError
  BY <1>13 DEF TypeOK, ClearError, Swap, CountFailure, SetError, Goto, env
<1>14. CASE UNCHANGED vars
  BY <1>14 DEF TypeOK, vars
<1> QED
  BY <1>2, <1>3, <1>4, <1>5, <1>6, <1>7, <1>8, <1>9, <1>10, <1>11, <1>12,
     <1>13, <1>14
  DEF Next, Editor, Watcher, Debouncer

\* The variables have their types in every reachable state.
THEOREM TypeCorrect == Spec => []TypeOK
<1>1. Init => TypeOK
  BY ContentAssumption DEF Init, TypeOK, ContentAssumption
<1> QED BY <1>1, TypeStep, PTL DEF Spec
-----------------------------------------------------------------------------
(* The inductive invariant. *)

\* Nothing is under way before the watcher is attached, a burst is held only
\* while it is collected and judged, and the swap follows the clearing.
Lifecycle ==
    /\ watch \in {"starting", "failed"} =>
           pc = "none" /\ kernel = <<>> /\ rx = <<>> /\ pending = {}
    /\ pc \notin {"collect", "decide"} => pending = {}
    /\ pc = "swap" => err = "None"

\* QuiescentAgreement alone says nothing while an attempt is under way.  It
\* is inductive once it does: the attempt is about the file as it is now.
Settled ==
    CaughtUp /\ pc # "load" =>
        /\ Succeeding => disk = loaded
        /\ Failing => disk \notin Good
        /\ ~Succeeding /\ ~Failing => Agree

IInv == TypeOK /\ Lifecycle /\ RemovalIsTruth /\ Settled

\* Before the first step everything is settled.
LEMMA InitInv == Init => IInv
<1> SUFFICES ASSUME Init PROVE IInv
  OBVIOUS
<1>1. TypeOK
  BY ContentAssumption DEF Init, TypeOK, ContentAssumption
<1>2. Lifecycle
  BY DEF Init, Lifecycle
<1>3. RemovalIsTruth
  BY EmptyQueue DEF Init, RemovalIsTruth
<1>4. Settled
  BY DEF Init, Settled, Succeeding, Failing, Agree
<1> QED BY <1>1, <1>2, <1>3, <1>4 DEF IInv

\* An edit leaves its event behind, or is missed: the server is not caught up.
LEMMA EditStep ==
    ASSUME IInv, NEW new, NEW k \in Kind, Edited(new, k),
           k = "remove" => new = NoFile
    PROVE  Lifecycle' /\ RemovalIsTruth' /\ Settled'
<1> DEFINE e == [kind |-> k, about |-> "spec"]
<1>1. e \in Event /\ e.kind = k /\ e.about = "spec"
  BY DEF Event
<1>2. Lifecycle'
  BY DEF IInv, Lifecycle, Edited, outcome
<1>3. CASE watch = "attached"
  <2>1. kernel' = Append(kernel, e) /\ rx' = rx /\ pending' = pending
    BY <1>3 DEF Edited
  <2>2. ~NoTarget(kernel')
    BY <1>1, <2>1, AppendNoTarget DEF IInv, TypeOK
  <2>3. YoungestIsRemoval(kernel') => k = "remove"
    BY <1>1, <2>1, AppendYoungest DEF IInv, TypeOK
  <2>4. RemovalIsTruth'
    BY <2>2, <2>3 DEF RemovalIsTruth, Edited
  <2>5. Settled'
    BY <2>2 DEF Settled, CaughtUp, Owed
  <2> QED BY <1>2, <2>4, <2>5
<1>4. CASE watch # "attached"
  <2>1. missed' # 0
    BY <1>4 DEF Edited, IInv, TypeOK
  <2>2. watch \in {"starting", "failed"}
    BY <1>4 DEF Edited, IInv, TypeOK
  <2>3. kernel' = <<>> /\ rx' = <<>> /\ pending' = {}
    BY <1>4, <2>2 DEF Edited, IInv, Lifecycle
  <2>4. RemovalIsTruth'
    BY <2>3, EmptyQueue DEF RemovalIsTruth
  <2>5. Settled'
    BY <2>1 DEF Settled, CaughtUp
  <2> QED BY <1>2, <2>4, <2>5
<1> QED BY <1>3, <1>4

\* An event about another file changes nothing the invariant speaks of.
LEMMA TouchStep ==
    ASSUME IInv, TouchSibling
    PROVE  Lifecycle' /\ RemovalIsTruth' /\ Settled'
<1>1. PICK k \in Kind : kernel' = Append(kernel, [kind |-> k, about |-> "sibling"])
  BY DEF TouchSibling
<1> DEFINE e == [kind |-> k, about |-> "sibling"]
<1>2. e \in Event /\ e.about # "spec"
  BY DEF Event
<1>3. NoTarget(kernel') <=> NoTarget(kernel)
  BY <1>1, <1>2, AppendNoTarget DEF IInv, TypeOK
<1>4. YoungestIsRemoval(kernel') => YoungestIsRemoval(kernel)
  BY <1>1, <1>2, AppendYoungest DEF IInv, TypeOK
<1>5. Lifecycle'
  BY DEF IInv, Lifecycle, TouchSibling, outcome
<1>6. RemovalIsTruth'
  BY <1>3, <1>4 DEF IInv, RemovalIsTruth, TouchSibling, AnyReloadTrigger
<1>7. Settled'
  BY <1>3 DEF IInv, Settled, TouchSibling, CaughtUp, Owed, CanSee, Agree,
              Succeeding, Failing, outcome
<1> QED BY <1>5, <1>6, <1>7

\* Delivery moves the oldest event from one queue to the end of the other.
LEMMA DeliverStep ==
    ASSUME IInv, Deliver
    PROVE  Lifecycle' /\ RemovalIsTruth' /\ Settled'
<1>1. /\ kernel \in Seq(Event) /\ kernel # <<>> /\ rx \in Seq(Event)
      /\ Head(kernel) \in Event
      /\ rx' = Append(rx, Head(kernel)) /\ kernel' = Tail(kernel)
  BY DEF IInv, TypeOK, Deliver
<1>2. /\ NoTarget(kernel) <=> Head(kernel).about # "spec" /\ NoTarget(kernel')
      /\ NoTarget(rx') <=> NoTarget(rx) /\ Head(kernel).about # "spec"
  BY <1>1, TailNoTarget, AppendNoTarget
<1>3. YoungestIsRemoval(kernel') => YoungestIsRemoval(kernel)
  BY <1>1, TailYoungest
<1>4. YoungestIsRemoval(rx') /\ NoTarget(kernel') =>
          \/ YoungestIsRemoval(kernel)
          \/ YoungestIsRemoval(rx) /\ NoTarget(kernel)
  BY <1>1, <1>2, TailYoungest, AppendYoungest
<1>5. Lifecycle'
  BY DEF IInv, Lifecycle, Deliver, outcome
<1>6. RemovalIsTruth'
  BY <1>2, <1>3, <1>4 DEF IInv, RemovalIsTruth, Deliver, AnyReloadTrigger
<1>7. Settled'
  BY <1>2 DEF IInv, Settled, Deliver, CaughtUp, Owed, CanSee, Agree,
              Succeeding, Failing, outcome
<1> QED BY <1>5, <1>6, <1>7

\* The burst grows by the oldest event of the channel: what the invariant
\* said of the channel it now says of the burst.
LEMMA TakeStep ==
    ASSUME IInv, Recv \/ Collect
    PROVE  Lifecycle' /\ RemovalIsTruth' /\ Settled'
<1>1. /\ rx \in Seq(Event) /\ rx # <<>> /\ Head(rx) \in Event
      /\ rx' = Tail(rx) /\ pending' = pending \cup {Head(rx)}
      /\ UNCHANGED <<env, canonical, outcome, missed>>
      /\ pc' = "collect" /\ pc \in {"idle", "collect"}
  BY DEF IInv, TypeOK, Lifecycle, Recv, Collect, Goto
<1>2. NoTarget(rx) <=> Head(rx).about # "spec" /\ NoTarget(rx')
  BY <1>1, TailNoTarget
<1>3. /\ YoungestIsRemoval(rx') => YoungestIsRemoval(rx)
      /\ Head(rx).about = "spec" /\ Head(rx).kind = "remove" /\ NoTarget(rx')
         => YoungestIsRemoval(rx)
  BY <1>1, TailYoungest
<1>4. Lifecycle'
  BY <1>1 DEF IInv, Lifecycle, env, outcome
<1>5. RemovalIsTruth'
  <2>1. ASSUME NoTarget(rx'), NoTarget(kernel), ~AnyReloadTrigger',
               NEW e \in pending', e.about = "spec"
        PROVE  disk = NoFile
    <3>1. CASE Head(rx).about = "spec"
      <4>1. Head(rx).kind = "remove"
        BY <1>1, <2>1 DEF AnyReloadTrigger, Event, Kind
      <4> QED BY <1>3, <2>1, <3>1, <4>1 DEF IInv, RemovalIsTruth
    <3>2. CASE Head(rx).about # "spec"
      <4>1. NoTarget(rx) /\ e \in pending /\ ~AnyReloadTrigger
        BY <1>1, <1>2, <2>1, <3>2 DEF AnyReloadTrigger
      <4> QED BY <2>1, <4>1 DEF IInv, RemovalIsTruth
    <3> QED BY <3>1, <3>2
  <2> QED BY <1>1, <1>3, <2>1 DEF IInv, RemovalIsTruth, env
<1>6. Settled'
  <2>1. Owed' <=> Owed
    BY <1>1, <1>2 DEF Owed, env
  <2> QED BY <1>1, <2>1 DEF IInv, Settled, CaughtUp, CanSee, Agree,
                            Succeeding, Failing, env, outcome
<1> QED BY <1>4, <1>5, <1>6

\* The steps that leave the queues and the burst alone, or start and stop.
LEMMA IdleStep ==
    ASSUME IInv,
           \/ Attach \/ AttachFails \/ DropGuard \/ Start \/ RecvClosed
           \/ EndOfBurst \/ UNCHANGED vars
    PROVE  Lifecycle' /\ RemovalIsTruth' /\ Settled'
<1>1. UNCHANGED <<spelling, disk, kernel, rx, pending, outcome, missed>>
  BY DEF Attach, AttachFails, DropGuard, Start, RecvClosed, EndOfBurst, vars,
         env, queues, outcome
<1>2. Lifecycle'
  BY <1>1 DEF IInv, TypeOK, Lifecycle, Attach, AttachFails, DropGuard, Start,
              RecvClosed, EndOfBurst, vars, env, outcome, Goto
<1>3. RemovalIsTruth'
  BY <1>1 DEF IInv, RemovalIsTruth, AnyReloadTrigger
<1>4. CaughtUp' => CaughtUp
  <2>1. CanSee' => CanSee
    BY <1>1 DEF IInv, TypeOK, Lifecycle, Attach, AttachFails, DropGuard, Start,
                RecvClosed, EndOfBurst, vars, env, Goto, CanSee
  <2> QED BY <1>1, <2>1 DEF CaughtUp, Owed
<1>5. /\ pc' = "load" <=> pc = "load"
      /\ Succeeding' <=> Succeeding
      /\ Failing' <=> Failing
  BY DEF IInv, TypeOK, Lifecycle, Attach, AttachFails, DropGuard, Start,
         RecvClosed, EndOfBurst, vars, env, Goto, Succeeding, Failing
<1>6. Agree' <=> Agree
  BY <1>1 DEF Agree, outcome
<1>7. Settled'
  BY <1>1, <1>4, <1>5, <1>6 DEF IInv, Settled, Succeeding, Failing, outcome
<1> QED BY <1>2, <1>3, <1>7

\* A burst is judged.  Ignoring it loses nothing that could be seen; a
\* removal is believed because it is the truth unless another event follows.
LEMMA JudgeStep ==
    ASSUME IInv, Ignore \/ NoteRemoval \/ StartReload
    PROVE  Lifecycle' /\ RemovalIsTruth' /\ Settled'
<1>1. /\ pending' = {} /\ pc = "decide"
      /\ UNCHANGED <<env, rx, canonical, outcome>>
  BY DEF Ignore, NoteRemoval, StartReload, Goto
<1>2. Lifecycle'
  BY <1>1 DEF IInv, Lifecycle, env, Ignore, NoteRemoval, StartReload, Goto
<1>3. RemovalIsTruth'
  BY <1>1 DEF IInv, RemovalIsTruth, env
<1>4. CASE Ignore
  <2>1. CanSee => ~\E e \in pending : e.about = "spec"
    BY <1>1, <1>4 DEF Ignore, TouchesTarget, Matches, CanSee
  <2>2. CaughtUp' => CaughtUp
    BY <1>1, <1>4, <2>1 DEF Ignore, CaughtUp, Owed, CanSee, env, Goto
  <2>3. CaughtUp' => Agree
    BY <1>1, <2>2 DEF IInv, Settled, Succeeding, Failing
  <2> QED BY <1>1, <1>2, <1>3, <1>4, <2>3
          DEF Settled, Succeeding, Failing, Agree, Ignore, Goto, env, outcome
<1>5. CASE NoteRemoval
  <2>1. ~Owed' => disk = NoFile
    BY <1>1, <1>5 DEF IInv, RemovalIsTruth, Owed, env, NoteRemoval,
                      TouchesTarget, Matches
  <2>2. CaughtUp' => disk' \notin Good
    BY <1>1, <2>1, ContentAssumption DEF CaughtUp, env, ContentAssumption
  <2> QED BY <1>2, <1>3, <1>5, <2>2 DEF Settled, Succeeding, Failing, NoteRemoval, Goto
<1>6. CASE StartReload
  BY <1>2, <1>3, <1>6 DEF Settled, StartReload, Goto
<1> QED BY <1>4, <1>5, <1>6

\* An attempt reads the file: from here on its outcome is about that content.
LEMMA LoadStep ==
    ASSUME IInv, LoadOk \/ LoadFails
    PROVE  Lifecycle' /\ RemovalIsTruth' /\ Settled'
<1>1. UNCHANGED <<env, rx, pending>>
  BY DEF LoadOk, LoadFails
<1>2. Lifecycle'
  BY <1>1 DEF IInv, Lifecycle, env, LoadOk, LoadFails, Goto
<1>3. RemovalIsTruth'
  BY <1>1 DEF IInv, RemovalIsTruth, AnyReloadTrigger, env
<1>4. Settled'
  BY <1>1 DEF Settled, Succeeding, Failing, LoadOk, LoadFails, Goto, env
<1> QED BY <1>2, <1>3, <1>4

\* The attempt takes effect, one shared variable at a time.
LEMMA EffectStep ==
    ASSUME IInv, ClearError \/ Swap \/ CountFailure \/ SetError
    PROVE  Lifecycle' /\ RemovalIsTruth' /\ Settled'
<1>1. UNCHANGED <<env, rx, canonical, pending, loaded, missed>>
  BY DEF ClearError, Swap, CountFailure, SetError
<1>2. Lifecycle'
  BY <1>1 DEF IInv, Lifecycle, env, ClearError, Swap, CountFailure, SetError,
              Goto
<1>3. RemovalIsTruth'
  BY <1>1 DEF IInv, RemovalIsTruth, AnyReloadTrigger, env
<1>4. CaughtUp' => CaughtUp
  BY <1>1 DEF CaughtUp, Owed, CanSee, env, ClearError, Swap, CountFailure,
              SetError, Goto
<1>5. CASE ClearError
  BY <1>1, <1>2, <1>3, <1>4, <1>5
  DEF IInv, Settled, Succeeding, Failing, ClearError, Goto, env
<1>6. CASE Swap
  <2>1. CaughtUp' => Agree'
    <3>1. pc = "swap" /\ cell' = loaded /\ err' = err
      BY <1>6 DEF Swap, Goto
    <3>2. err = "None"
      BY <3>1 DEF IInv, Lifecycle
    <3> QED BY <1>1, <1>4, <3>1, <3>2
        DEF IInv, TypeOK, Settled, Succeeding, Agree, env
  <2> QED BY <1>2, <1>3, <1>6, <2>1 DEF Settled, Succeeding, Failing, Swap, Goto
<1>7. CASE CountFailure
  BY <1>1, <1>2, <1>3, <1>4, <1>7
  DEF IInv, Settled, Succeeding, Failing, CountFailure, env
<1>8. CASE SetError
  <2>1. CaughtUp' => Agree'
    <3>1. pc = "seterr" /\ err' = "Some"
      BY <1>8 DEF SetError, Goto
    <3> QED BY <1>1, <1>4, <3>1 DEF IInv, Settled, Failing, Agree, env
  <2> QED BY <1>2, <1>3, <1>8, <2>1 DEF Settled, Succeeding, Failing, SetError, Goto
<1> QED BY <1>5, <1>6, <1>7, <1>8

\* The invariant holds in every reachable state.
LEMMA NextInv == IInv /\ [Next]_vars => IInv'
<1> SUFFICES ASSUME IInv, [Next]_vars PROVE IInv'
  OBVIOUS
<1>1. TypeOK'
  BY TypeStep DEF IInv
<1>2. Lifecycle' /\ RemovalIsTruth' /\ Settled'
  <2>1. CASE Write
    BY <2>1, EditStep DEF Write, Kind
  <2>2. CASE RenameTo
    BY <2>2, EditStep DEF RenameTo, Kind
  <2>3. CASE Create
    BY <2>3, EditStep DEF Create, Kind
  <2>4. CASE Remove
    BY <2>4, EditStep DEF Remove, Kind
  <2>5. CASE RenameAway
    BY <2>5, EditStep DEF RenameAway, Kind
  <2>6. CASE TouchSibling
    BY <2>6, TouchStep
  <2>7. CASE Deliver
    BY <2>7, DeliverStep
  <2>8. CASE Recv \/ Collect
    BY <2>8, TakeStep
  <2>9. CASE \/ Attach \/ AttachFails \/ DropGuard \/ Start \/ RecvClosed
             \/ EndOfBurst \/ UNCHANGED vars
    BY <2>9, IdleStep
  <2>10. CASE Ignore \/ NoteRemoval \/ StartReload
    BY <2>10, JudgeStep
  <2>11. CASE LoadOk \/ LoadFails
    BY <2>11, LoadStep
  <2>12. CASE ClearError \/ Swap \/ CountFailure \/ SetError
    BY <2>12, EffectStep
  <2> QED
    BY <2>1, <2>2, <2>3, <2>4, <2>5, <2>6, <2>7, <2>8, <2>9, <2>10, <2>11, <2>12
    DEF Next, Editor, Watcher, Debouncer
<1> QED BY <1>1, <1>2 DEF IInv

LEMMA Invariance == Spec => []IInv
BY InitInv, NextInv, PTL DEF Spec

\* An idle debouncer with no event under way has /readyz and the served
\* specification agree with the file (debouncer_loop, readyz_handler).
THEOREM QuiescentAgreementHolds == Spec => []QuiescentAgreement
<1>1. IInv => QuiescentAgreement
  BY DEF IInv, Settled, QuiescentAgreement, Succeeding, Failing
<1> QED BY <1>1, Invariance, PTL

\* A burst of removals can be reported without looking at the file
\* (debouncer_loop, any_remove && !any_reload_trigger).
THEOREM RemovalIsTruthHolds == Spec => []RemovalIsTruth
<1>1. IInv => RemovalIsTruth
  BY DEF IInv
<1> QED BY <1>1, Invariance, PTL
-----------------------------------------------------------------------------
(* The refinement.  Every step maps to a step of LastKnownGood or to a      *)
(* stutter; IInv supplies the guards of the abstract steps.                 *)

\* Edits, however they are made, are edits.
LEMMA EditRefines ==
    ASSUME IInv, NEW new \in Content \cup {NoFile}, NEW k \in Kind, Edited(new, k)
    PROVE  LKG!Edit
<1>1. UNCHANGED <<pc, outcome>> /\ disk' = new
  BY DEF Edited
<1>2. Behind'
  <2> DEFINE e == [kind |-> k, about |-> "spec"]
  <2>1. e \in Event /\ e.about = "spec"
    BY DEF Event
  <2>2. CASE watch = "attached"
    <3>1. ~NoTarget(kernel')
      BY <2>1, <2>2, AppendNoTarget DEF Edited, IInv, TypeOK
    <3> QED BY <3>1 DEF Behind, CaughtUp, Owed
  <2>3. CASE watch # "attached"
    <3>1. missed' # 0
      BY <2>3 DEF Edited, IInv, TypeOK
    <3> QED BY <3>1 DEF Behind, CaughtUp
  <2> QED BY <2>2, <2>3
<1>3. UNCHANGED <<Served, Ready, Counted>>
  BY <1>1 DEF Served, Ready, Counted, Succeeding, Failing, outcome
<1> QED BY <1>1, <1>2, <1>3 DEF LKG!Edit

\* Moving events, judging them, and starting and stopping, is invisible.
LEMMA QueueRefines ==
    ASSUME IInv,
           \/ TouchSibling \/ Deliver \/ Recv \/ Collect \/ Ignore \/ StartReload
           \/ Attach \/ AttachFails \/ DropGuard \/ Start \/ RecvClosed
           \/ EndOfBurst \/ UNCHANGED vars
    PROVE  UNCHANGED LKG!vars
<1>1. UNCHANGED <<disk, spelling, missed, outcome>>
  BY DEF TouchSibling, Deliver, Recv, Collect, Ignore, StartReload, Attach,
         AttachFails, DropGuard, Start, RecvClosed, EndOfBurst, vars, env,
         queues, outcome
<1>2. /\ ~Succeeding /\ ~Failing /\ ~Succeeding' /\ ~Failing'
      \/ pc' = pc
  BY DEF IInv, TypeOK, Lifecycle, TouchSibling, Deliver, Recv, Collect, Ignore,
         StartReload, Attach, AttachFails, DropGuard, Start, RecvClosed,
         EndOfBurst, vars, env, Goto, Succeeding, Failing
<1>3. UNCHANGED <<Served, Ready, Counted>>
  BY <1>1, <1>2 DEF Served, Ready, Counted, Succeeding, Failing, outcome
<1>4. Behind' <=> Behind
  <2>1. CASE TouchSibling
    <3>1. PICK k \in Kind :
              kernel' = Append(kernel, [kind |-> k, about |-> "sibling"])
      BY <2>1 DEF TouchSibling
    <3>2. NoTarget(kernel') <=> NoTarget(kernel)
      BY <3>1, AppendNoTarget DEF IInv, TypeOK, Event
    <3> QED BY <2>1, <3>2 DEF TouchSibling, Behind, CaughtUp, Owed, CanSee
  <2>2. CASE Deliver
    <3>1. /\ kernel \in Seq(Event) /\ kernel # <<>> /\ rx \in Seq(Event)
          /\ Head(kernel) \in Event
          /\ rx' = Append(rx, Head(kernel)) /\ kernel' = Tail(kernel)
      BY <2>2 DEF IInv, TypeOK, Deliver
    <3>2. /\ NoTarget(kernel) <=>
                 Head(kernel).about # "spec" /\ NoTarget(kernel')
          /\ NoTarget(rx') <=> NoTarget(rx) /\ Head(kernel).about # "spec"
      BY <3>1, TailNoTarget, AppendNoTarget
    <3> QED BY <2>2, <3>2 DEF Deliver, Behind, CaughtUp, Owed, CanSee
  <2>3. CASE Recv \/ Collect
    <3>1. /\ rx \in Seq(Event) /\ rx # <<>>
          /\ rx' = Tail(rx) /\ pending' = pending \cup {Head(rx)}
          /\ kernel' = kernel /\ canonical' = canonical
          /\ pc' = "collect" /\ pc \in {"idle", "collect"}
      BY <2>3 DEF IInv, TypeOK, Lifecycle, Recv, Collect, Goto, env
    <3>2. NoTarget(rx) <=> Head(rx).about # "spec" /\ NoTarget(rx')
      BY <3>1, TailNoTarget
    <3>3. Owed' <=> Owed
      BY <3>1, <3>2 DEF Owed
    <3> QED BY <1>1, <3>1, <3>3 DEF Behind, CaughtUp, CanSee
  <2>4. CASE Ignore
    <3>1. CanSee => ~\E e \in pending : e.about = "spec"
      BY <2>4 DEF Ignore, TouchesTarget, Matches, CanSee, Goto
    <3> QED BY <1>1, <2>4, <3>1
            DEF Ignore, Behind, CaughtUp, Owed, CanSee, env, Goto
  <2>5. CASE StartReload
    <3>1. \E e \in pending : e.about = "spec"
      BY <2>5 DEF StartReload, TouchesTarget, Matches
    <3> QED BY <2>5, <3>1 DEF StartReload, Behind, CaughtUp, Owed, Goto
  <2>6. CASE \/ Attach \/ AttachFails \/ DropGuard \/ Start \/ RecvClosed
             \/ EndOfBurst \/ UNCHANGED vars
    <3>1. UNCHANGED <<kernel, rx, pending>>
      BY <2>6 DEF Attach, AttachFails, DropGuard, Start, RecvClosed,
                  EndOfBurst, vars, env, queues
    <3>2. CanSee' <=> CanSee
      BY <1>1, <2>6
      DEF IInv, TypeOK, Lifecycle, Attach, AttachFails, DropGuard, Start,
          RecvClosed, EndOfBurst, vars, env, Goto, CanSee
    <3>3. pc' = "load" <=> pc = "load"
      BY <2>6 DEF IInv, TypeOK, Lifecycle, Attach, AttachFails, DropGuard,
                  Start, RecvClosed, EndOfBurst, vars, env, Goto
    <3> QED BY <1>1, <3>1, <3>2, <3>3 DEF Behind, CaughtUp, Owed
  <2> QED BY <2>1, <2>2, <2>3, <2>4, <2>5, <2>6
<1> QED BY <1>1, <1>3, <1>4 DEF LKG!vars

\* The attempt takes effect without anyone seeing a difference.
LEMMA EffectRefines ==
    ASSUME IInv, ClearError \/ Swap \/ CountFailure \/ SetError
    PROVE  UNCHANGED LKG!vars
<1>1. UNCHANGED <<spelling, disk, kernel, rx, canonical, pending, loaded, missed>>
  BY DEF ClearError, Swap, CountFailure, SetError, env
<1>2. pc' # "load" /\ pc # "load" /\ pc \notin {"none", "start"}
      /\ pc' \notin {"none", "start"}
  BY DEF ClearError, Swap, CountFailure, SetError, Goto
<1>3. Behind' <=> Behind
  BY <1>1, <1>2 DEF Behind, CaughtUp, Owed, CanSee
<1>4. UNCHANGED <<Served, Ready, Counted>>
  <2>1. CASE ClearError
    BY <2>1 DEF ClearError, Goto, Served, Ready, Counted, Succeeding, Failing
  <2>2. CASE Swap
    BY <2>2 DEF Swap, Goto, Served, Ready, Counted, Succeeding, Failing, IInv,
                Lifecycle
  <2>3. CASE CountFailure
    BY <2>3 DEF CountFailure, Served, Ready, Counted, Succeeding, Failing
  <2>4. CASE SetError
    BY <2>4 DEF SetError, Goto, Served, Ready, Counted, Succeeding, Failing
  <2> QED BY <2>1, <2>2, <2>3, <2>4
<1> QED BY <1>1, <1>3, <1>4 DEF LKG!vars

\* The attempt itself is the moment the file is read, or a removal noted.
LEMMA AttemptRefines ==
    ASSUME IInv, LoadOk \/ LoadFails \/ NoteRemoval
    PROVE  LKG!Succeed \/ LKG!Fail
<1>1. disk' = disk /\ cell' = cell /\ err' = err /\ failures' = failures
  BY DEF LoadOk, LoadFails, NoteRemoval, env, outcome
<1>2. Behind
  BY DEF LoadOk, LoadFails, NoteRemoval, Goto, Behind, CaughtUp, Owed,
         TouchesTarget, Matches
<1>3. Behind' \in BOOLEAN
  BY DEF Behind
<1>4. CASE LoadOk
  <2>1. Served' = disk /\ Ready' = TRUE /\ Counted' = Counted
    BY <1>1, <1>4 DEF LoadOk, Goto, Served, Ready, Counted, Succeeding, Failing
  <2> QED BY <1>1, <1>2, <1>3, <1>4, <2>1 DEF LKG!Succeed, LoadOk
<1>5. CASE LoadFails
  <2>1. Served' = Served /\ Ready' = FALSE /\ Counted' = Counted + 1
    BY <1>1, <1>5 DEF LoadFails, Goto, Served, Ready, Counted, Succeeding, Failing
  <2> QED BY <1>1, <1>2, <1>3, <1>5, <2>1 DEF LKG!Fail, LoadFails
<1>6. CASE NoteRemoval
  <2>1. Served' = Served /\ Ready' = FALSE /\ Counted' = Counted + 1
    BY <1>1, <1>6 DEF NoteRemoval, Goto, Served, Ready, Counted, Succeeding, Failing
  <2>2. disk \in Good => Behind'
    <3>1. ~Owed' => disk = NoFile
      BY <1>6 DEF IInv, RemovalIsTruth, Owed, env, NoteRemoval, TouchesTarget,
                  Matches
    <3> QED BY <3>1, ContentAssumption DEF Behind, CaughtUp, ContentAssumption
  <2> QED BY <1>1, <1>2, <1>3, <2>1, <2>2 DEF LKG!Fail
<1> QED BY <1>4, <1>5, <1>6

\* The reload thread implements LastKnownGood (debouncer_loop against the
\* documentation of AppState::last_reload_error and /readyz).
THEOREM Refinement == Spec => Implements
<1>1. Init => LKG!Init
  <2> SUFFICES ASSUME Init PROVE LKG!Init
    OBVIOUS
  <2>1. Served = disk /\ Ready = TRUE /\ Counted = 0 /\ disk \in Good
    BY DEF Init, Served, Ready, Counted, Succeeding, Failing
  <2>2. ~Owed
    BY EmptyQueue DEF Init, Owed
  <2>3. disk # NoFile
    BY ContentAssumption DEF Init, ContentAssumption
  <2>4. Behind = FALSE
    BY <2>2, <2>3 DEF Init, Behind, CaughtUp, CanSee
  <2> QED BY <2>1, <2>4 DEF LKG!Init
<1>2. IInv /\ [Next]_vars => [LKG!Next]_(LKG!vars)
  <2> SUFFICES ASSUME IInv, [Next]_vars
               PROVE  LKG!Next \/ UNCHANGED LKG!vars
    OBVIOUS
  <2>1. CASE Write
    BY <2>1, EditRefines DEF Write, Kind, LKG!Next
  <2>2. CASE RenameTo
    BY <2>2, EditRefines DEF RenameTo, Kind, LKG!Next
  <2>3. CASE Create
    BY <2>3, EditRefines DEF Create, Kind, LKG!Next
  <2>4. CASE Remove
    BY <2>4, EditRefines DEF Remove, Kind, LKG!Next
  <2>5. CASE RenameAway
    BY <2>5, EditRefines DEF RenameAway, Kind, LKG!Next
  <2>6. CASE LoadOk \/ LoadFails \/ NoteRemoval
    BY <2>6, AttemptRefines DEF LKG!Next
  <2> QED
    BY <2>1, <2>2, <2>3, <2>4, <2>5, <2>6, QueueRefines, EffectRefines
    DEF Next, Editor, Watcher, Debouncer
<1> QED BY <1>1, <1>2, Invariance, PTL DEF Spec, Implements, LKG!Spec

\* What the promise is good for: whenever the server has accounted for the
\* last change of the file, /readyz tells whether the file is a specification,
\* and if it is, that is the one served (readyz_handler, snapshot_spec).
THEOREM ServedAgrees == Spec => []LKG!Agreement
<1>1. LKG!Init => LKG!Agreement
  BY DEF LKG!Init, LKG!Agreement
<1>2. LKG!Agreement /\ [LKG!Next]_(LKG!vars) => LKG!Agreement'
  <2>1. LKG!Agreement /\ LKG!Edit => LKG!Agreement'
    BY DEF LKG!Agreement, LKG!Edit
  <2>2. LKG!Agreement /\ LKG!Succeed => LKG!Agreement'
    BY DEF LKG!Agreement, LKG!Succeed
  <2>3. LKG!Agreement /\ LKG!Fail => LKG!Agreement'
    BY DEF LKG!Agreement, LKG!Fail
  <2>4. LKG!Agreement /\ UNCHANGED LKG!vars => LKG!Agreement'
    BY DEF LKG!Agreement, LKG!vars
  <2> QED BY <2>1, <2>2, <2>3, <2>4 DEF LKG!Next
<1> QED BY <1>1, <1>2, Refinement, PTL DEF Implements, LKG!Spec
=============================================================================
