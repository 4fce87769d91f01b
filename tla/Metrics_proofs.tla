---------------------------- MODULE Metrics_proofs ----------------------------
(***************************************************************************)
(* Proofs about Metrics, for every finite set of responses and every set of *)
(* labels: no increment of a counter or of a histogram bucket is lost,      *)
(* however recorders race to register a label.                              *)
(***************************************************************************)
EXTENDS Metrics, Induction_proofs

Counting == {"lookup", "guarded", "register", "add"}
Past == {"load", "exchange", "done"}

\* A recorder has a program, which ends in the key of its request, from the
\* time it begins; it bumps counters until it is through with that.
ProgInv ==
    \A t \in Recorders :
        /\ pc[t] = "idle" => prog[t] = <<>> /\ at[t] = 0
        /\ pc[t] # "idle" => /\ Len(prog[t]) \in 1..MaxErrors + 1
                             /\ prog[t][Len(prog[t])] \in Keys
                             /\ at[t] <= Len(prog[t])
        /\ pc[t] \in Counting => at[t] < Len(prog[t])

\* What a recorder holds is what the map holds.
HeldInv ==
    \A t \in Recorders :
        /\ pc[t] \in {"guarded", "add"} =>
              counters[Label(t)] # None /\ held[t] = counters[Label(t)]
        /\ pc[t] \in {"bucket", "load", "exchange"} =>
              durations[MethodOf(t)] # None /\ held[t] = durations[MethodOf(t)]

BucketInv ==
    \A t \in Recorders :
        /\ bucket[t] \in 1..Buckets + 1
        /\ pc[t] \in Past => bucket[t] = Buckets + 1
        /\ pc[t] \notin Past \cup {"bucket"} => bucket[t] = 1

\* Nobody has touched what is not registered yet.
FreshInv ==
    /\ \A l \in Labels : counters[l] = None => \A t \in Recorders : value[l][t] = 0
    /\ \A m \in Methods : durations[m] = None =>
          \A t \in Recorders : series[m][t] = NewSeries

ScanInv ==
    /\ \A m \in left : durations[m] # None
    /\ scan \in {"count", "bucket", "sum", "shown"} => durations[method] # None

Control == TypeOK /\ ProgInv /\ HeldInv /\ BucketInv /\ FreshInv /\ ScanInv
IInv == Control /\ CountersAreExact /\ SeriesAreExact

-----------------------------------------------------------------------------
(* Cardinalities. *)

\* There are finitely many increments of a label.
LEMMA BumpsFinite == \A l : IsFiniteSet(Bumps(l))
<1> TAKE l
<1>1. IsFiniteSet(1..MaxErrors + 1)
  BY FS_Interval, BoundAssumption DEF BoundAssumption
<1>2. IsFiniteSet(Recorders \X (1..MaxErrors + 1))
  BY <1>1, FS_Product, RecordersAssumption DEF RecordersAssumption
<1> QED BY <1>2, FS_Subset DEF Bumps

\* There are finitely many recorders past a bucket, or past the count.
LEMMA RecordersFinite ==
    \A m, i : IsFiniteSet(Passed(m, i)) /\ IsFiniteSet(Counted(m))
<1> TAKE m, i
<1>1. Passed(m, i) \in SUBSET Recorders /\ Counted(m) \in SUBSET Recorders
  BY DEF Passed, Counted
<1> QED BY <1>1, FS_Subset, RecordersAssumption DEF RecordersAssumption

-----------------------------------------------------------------------------
(* The initial state. *)

LEMMA InitInv == Init => IInv
<1> SUFFICES ASSUME Init PROVE IInv
  OBVIOUS
<1> USE BoundAssumption DEF BoundAssumption
<1>0. NewSeries \in Series /\ 1 \in Durations
  BY DEF NewSeries, Series, Durations
<1>1. TypeOK
  BY <1>0 DEF Init, TypeOK
<1>2. ProgInv /\ HeldInv /\ BucketInv /\ FreshInv /\ ScanInv
  BY DEF Init, ProgInv, HeldInv, BucketInv, FreshInv, ScanInv, Counting, Past
<1>3. \A l \in Labels : Bumps(l) = {}
  BY DEF Init, Bumps
<1>4. CountersAreExact
  BY <1>3, FS_EmptySet DEF CountersAreExact, Init, Total
<1>5. \A m \in Methods, i \in 1..Buckets : Passed(m, i) = {} /\ Counted(m) = {}
  BY DEF Init, Passed, Counted, Inside
<1>6. \A m \in Methods : Shown(m) = NewSeries
  BY DEF Init, Shown
<1>7. NewSeries.count = 0 /\ \A i \in 1..Buckets : NewSeries.buckets[i] = 0
  BY DEF NewSeries
<1>8. SeriesAreExact
  BY <1>5, <1>6, <1>7, FS_EmptySet DEF SeriesAreExact
<1> QED BY <1>1, <1>2, <1>4, <1>8 DEF IInv, Control
-----------------------------------------------------------------------------
(* What a step leaves alone. *)

LEMMA CountersFrame ==
    ASSUME CountersAreExact, UNCHANGED <<counters, value, prog, at>>
    PROVE  CountersAreExact'
BY DEF CountersAreExact, Total, Bumps

LEMMA SeriesFrame ==
    ASSUME SeriesAreExact, UNCHANGED <<durations, series>>,
           \A m \in Methods, i \in 1..Buckets :
               Passed(m, i)' = Passed(m, i) /\ Counted(m)' = Counted(m)
    PROVE  SeriesAreExact'
<1>1. \A m \in Methods : Shown(m)' = Shown(m)
  BY DEF Shown
<1>2. \A m \in Methods : Counted(m)' = Counted(m)
  BY BoundAssumption DEF BoundAssumption
<1> QED BY <1>1, <1>2 DEF SeriesAreExact

\* A step of the scraper.
LEMMA RenderStep == ASSUME IInv, LockRequests \/ Render PROVE IInv'
<1> USE DEF IInv, Control
<1>1. UNCHANGED <<registry, pc, mine>>
  BY DEF LockRequests, Render, LockValidation, LockDurations, NextSeries, ReadCount,
         ReadBucket, ReadSum, Rendered, Unlock
<1>2. ProgInv' /\ HeldInv' /\ BucketInv' /\ FreshInv'
  BY <1>1 DEF registry, mine, ProgInv, HeldInv, BucketInv, FreshInv, Label, MethodOf
<1>3. CountersAreExact'
  BY <1>1, CountersFrame DEF registry, mine
<1>4. SeriesAreExact'
  <2>1. \A m \in Methods, i \in 1..Buckets :
            Passed(m, i)' = Passed(m, i) /\ Counted(m)' = Counted(m)
    BY <1>1 DEF registry, mine, Passed, Counted, Inside, MethodOf
  <2> QED BY <1>1, <2>1, SeriesFrame DEF registry
<1>5. ScanInv'
  BY <1>1 DEF registry, ScanInv, TypeOK, LockRequests, Render, LockValidation,
         LockDurations, NextSeries, ReadCount, ReadBucket, ReadSum, Rendered, Unlock, Step
<1>6. TypeOK'
  <2>1. /\ counters' \in [Labels -> Recorders \cup {None}]
        /\ value' \in [Labels -> [Recorders -> Nat]]
        /\ durations' \in [Methods -> Recorders \cup {None}]
        /\ series' \in [Methods -> [Recorders -> Series]]
        /\ held' \in [Recorders -> Recorders \cup {None}]
        /\ pc' = pc /\ prog' = prog /\ at' = at /\ dur' = dur
        /\ bucket' = bucket /\ current' = current
    BY <1>1 DEF TypeOK, registry, mine
  <2>2. /\ scan' \in {"idle", "requests", "validation", "durations",
                      "count", "bucket", "sum", "shown"}
        /\ method' \in Methods
        /\ left' \in SUBSET Methods
        /\ overlap' \in SUBSET Recorders
    BY DEF TypeOK, LockRequests, Render, LockValidation,
         LockDurations, NextSeries, ReadCount, ReadBucket, ReadSum, Rendered, Unlock, Step
  <2>3. shown' \in [buckets : Seq(Nat), count : Nat, sum : Nat]
    <3>1. scan \in {"count", "bucket"} => series[method][durations[method]] \in Series
      BY DEF TypeOK, ScanInv
    <3>2. CASE ReadCount
      <4>1. series[method][durations[method]].count \in Nat
        BY <3>1, <3>2 DEF ReadCount, Step, Series
      <4>2. <<>> \in Seq(Nat)
        OBVIOUS
      <4> QED BY <4>1, <4>2, <3>2 DEF ReadCount
    <3>3. CASE ReadBucket
      <4>0. shown.buckets \in Seq(Nat) /\ Len(shown.buckets) \in Nat
        BY DEF TypeOK
      <4>a. scan = "bucket" /\ Len(shown.buckets) + 1 \in 1..Buckets
        BY <4>0, <3>3, BoundAssumption DEF ReadBucket, BoundAssumption
      <4>b. series[method][durations[method]].buckets \in [1..Buckets -> Nat]
        BY <3>1, <4>a DEF Series
      <4>1. series[method][durations[method]].buckets[Len(shown.buckets) + 1] \in Nat
        BY <4>a, <4>b
      <4>2. Append(shown.buckets, series[method][durations[method]].buckets[Len(shown.buckets) + 1]) \in Seq(Nat)
        BY <4>0, <4>1
      <4> QED BY <4>2, <3>3 DEF ReadBucket, TypeOK
    <3>4. CASE ReadSum
      BY <3>1, <3>4 DEF ReadSum, Step, Series, TypeOK
    <3>5. CASE Rendered
      BY <3>5 DEF Rendered
    <3>6. CASE UNCHANGED shown
      BY <3>6 DEF TypeOK
    <3> QED BY <3>2, <3>3, <3>4, <3>5, <3>6 DEF LockRequests, Render, LockValidation,
         LockDurations, NextSeries, Unlock
  <2> QED BY <2>1, <2>2, <2>3 DEF TypeOK
<1> QED BY <1>2, <1>3, <1>4, <1>5, <1>6
-----------------------------------------------------------------------------
(* Steps that bump nothing. *)

\* What a recorder is about to bump is a label, and its method a method.
LEMMA Labelled ==
    ASSUME Control, NEW t \in Recorders
    PROVE  /\ pc[t] \in Counting => Label(t) \in Labels
           /\ pc[t] # "idle" => MethodOf(t) \in Methods
<1>1. prog[t] \in Seq(Labels) /\ at[t] \in Nat
  BY DEF Control, TypeOK
<1>2. pc[t] \in Counting => at[t] + 1 \in 1..Len(prog[t])
  BY <1>1 DEF Control, ProgInv
<1>3. pc[t] \in Counting => Label(t) \in Labels
  BY <1>1, <1>2 DEF Label
<1>4. pc[t] # "idle" => prog[t][Len(prog[t])] \in Keys
  BY DEF Control, ProgInv
<1> QED BY <1>3, <1>4 DEF MethodOf, Keys

LEMMA BeginStep == ASSUME IInv, NEW t \in Recorders, Begin(t) PROVE IInv'
<1> USE DEF IInv, Control
<1>1. PICK n \in 0..MaxErrors : \E errors \in [1..n -> Errors], key \in Keys :
          prog' = [prog EXCEPT ![t] = Append(errors, key)]
  BY DEF Begin
<1>2. PICK errors \in [1..n -> Errors], key \in Keys :
          prog' = [prog EXCEPT ![t] = Append(errors, key)]
  BY <1>1
<1>3. n \in Nat /\ n <= MaxErrors
  BY <1>1, BoundAssumption DEF BoundAssumption
<1>4. errors \in Seq(Labels) /\ Len(errors) = n
  BY <1>3 DEF Labels
<1>5. key \in Labels
  BY DEF Labels
<1>6. /\ Append(errors, key) \in Seq(Labels)
      /\ Len(Append(errors, key)) = n + 1
      /\ (Append(errors, key))[n + 1] = key
  BY <1>3, <1>4, <1>5
<1>7. /\ pc[t] = "idle" /\ pc' = [pc EXCEPT ![t] = "lookup"]
      /\ UNCHANGED <<registry, at, held, dur, bucket, current, scraper, overlap>>
  BY DEF Begin, Goto
<1>8. TypeOK'
  BY <1>2, <1>6, <1>7 DEF TypeOK, registry, scraper
<1>9. prog'[t] = Append(errors, key) /\ \A u \in Recorders \ {t} : prog'[u] = prog[u] /\ pc'[u] = pc[u]
  BY <1>2, <1>7 DEF TypeOK
<1>10. pc'[t] = "lookup" /\ at[t] = 0 /\ at' = at
  BY <1>7 DEF TypeOK, ProgInv
<1>11. ProgInv'
  <2>1. Len(prog'[t]) \in 1..MaxErrors + 1 /\ Len(prog'[t]) = n + 1
    BY <1>3, <1>6, <1>9, BoundAssumption DEF BoundAssumption
  <2>2. prog'[t][Len(prog'[t])] \in Keys
    BY <1>6, <1>9, <2>1
  <2>3. at'[t] < Len(prog'[t])
    BY <1>3, <1>10, <2>1
  <2> QED BY <1>9, <1>10, <2>1, <2>2, <2>3 DEF ProgInv
<1>12. HeldInv'
  BY <1>7, <1>9, <1>10 DEF HeldInv, registry, Label, MethodOf
<1>13. BucketInv' /\ FreshInv' /\ ScanInv'
  BY <1>7 DEF TypeOK, BucketInv, Past, FreshInv, ScanInv, registry, scraper
<1>14. CountersAreExact'
  <2>1. \A l \in Labels : Total(l)' = Total(l)
    BY <1>7 DEF Total, registry
  <2>2. \A b \in Recorders \X (1..MaxErrors + 1) :
            b[2] <= at'[b[1]] /\ prog'[b[1]][b[2]] = prog'[b[1]][b[2]] =>
            b[1] # t
    BY <1>10, BoundAssumption DEF BoundAssumption
  <2>3. \A l \in Labels : Bumps(l)' = Bumps(l)
    BY <1>9, <1>10, <2>2, BoundAssumption DEF Bumps, BoundAssumption
  <2> QED BY <2>1, <2>3 DEF CountersAreExact
<1>15. SeriesAreExact'
  <2>1. ~Inside(t) /\ ~Inside(t)' /\ pc[t] # "done" /\ pc'[t] # "done"
    BY <1>7, <1>10 DEF Inside
  <2>2. \A u \in Recorders \ {t} :
            /\ Inside(u)' = Inside(u) /\ MethodOf(u)' = MethodOf(u)
            /\ dur'[u] = dur[u] /\ bucket'[u] = bucket[u]
    BY <1>7, <1>9 DEF Inside, MethodOf
  <2>3. \A m \in Methods, i \in 1..Buckets :
            Passed(m, i)' = Passed(m, i) /\ Counted(m)' = Counted(m)
    BY <1>7, <1>9, <1>10, <2>1, <2>2 DEF Passed, Counted
  <2> QED BY <1>7, <2>3, SeriesFrame DEF registry
<1> QED BY <1>8, <1>11, <1>12, <1>13, <1>14, <1>15
\* A recorder that is counting is in no series.
LEMMA NotInside ==
    ASSUME IInv, NEW t \in Recorders, pc[t] \in Counting \cup {"find", "create"},
           pc'[t] \in Counting \cup {"find", "create", "bucket"},
           \A u \in Recorders \ {t} : pc'[u] = pc[u] /\ dur'[u] = dur[u],
           UNCHANGED <<durations, series, prog, bucket>>
    PROVE  SeriesAreExact'
<1>1. bucket[t] = 1
  BY DEF IInv, Control, BucketInv, Counting, Past
<1>2. ~Inside(t) /\ pc[t] # "done" /\ pc'[t] \notin Past
  BY DEF Inside, Counting, Past
<1>3. \A m \in Methods, i \in 1..Buckets : t \notin Passed(m, i) /\ t \notin Counted(m)
  BY <1>2 DEF Passed, Counted, Past, Inside
<1>4. bucket'[t] = 1
  BY <1>1
<1>5. \A m \in Methods, i \in 1..Buckets : t \notin Passed(m, i)' /\ t \notin Counted(m)'
  <2> SUFFICES ASSUME NEW m \in Methods, NEW i \in 1..Buckets, t \in Passed(m, i)' \/ t \in Counted(m)'
               PROVE  FALSE
    OBVIOUS
  <2>1. t \notin Counted(m)'
    BY <1>2 DEF Counted, Past
  <2>2. dur'[t] <= i /\ i < 1 /\ pc'[t] = "bucket"
    BY <1>2, <1>4, <2>1 DEF Passed, Past, Inside
  <2> QED BY <2>2
<1>6. \A m \in Methods, i \in 1..Buckets, u \in Recorders \ {t} :
          /\ u \in Passed(m, i)' <=> u \in Passed(m, i)
          /\ u \in Counted(m)' <=> u \in Counted(m)
  BY DEF Passed, Counted, Inside, MethodOf
<1>7. \A m \in Methods, i \in 1..Buckets :
          Passed(m, i)' = Passed(m, i) /\ Counted(m)' = Counted(m)
  <2> SUFFICES ASSUME NEW m \in Methods, NEW i \in 1..Buckets
               PROVE  Passed(m, i)' = Passed(m, i) /\ Counted(m)' = Counted(m)
    OBVIOUS
  <2>1. /\ Passed(m, i) \subseteq Recorders /\ Passed(m, i)' \subseteq Recorders
        /\ Counted(m) \subseteq Recorders /\ Counted(m)' \subseteq Recorders
    BY DEF Passed, Counted
  <2> QED BY <1>3, <1>5, <1>6, <2>1
<1> QED BY <1>7, SeriesFrame DEF IInv

LEMMA LookupStep ==
    ASSUME IInv, NEW t \in Recorders, LookupHit(t) \/ LookupMiss(t) PROVE IInv'
<1> USE DEF IInv, Control
<1>1. /\ pc[t] = "lookup" /\ pc' \in [Recorders -> {"idle", "lookup", "guarded", "register", "add",
                             "find", "create", "bucket", "count", "load", "exchange", "done"}]
      /\ pc'[t] \in {"guarded", "register"}
      /\ \A u \in Recorders \ {t} : pc'[u] = pc[u] /\ held'[u] = held[u]
      /\ UNCHANGED <<registry, prog, at, dur, bucket, current, scraper, overlap>>
  BY DEF LookupHit, LookupMiss, Goto, TypeOK, mine
<1>2. pc'[t] = "guarded" => counters[Label(t)] # None /\ held'[t] = counters[Label(t)]
  BY DEF LookupHit, LookupMiss, Goto, TypeOK
<1>3. Label(t) \in Labels
  BY <1>1, Labelled DEF Counting
<1>4. held' \in [Recorders -> Recorders \cup {None}]
  BY <1>3 DEF LookupHit, LookupMiss, TypeOK, mine
<1>5. TypeOK'
  BY <1>1, <1>4 DEF TypeOK, registry, scraper
<1>6. ProgInv'
  BY <1>1 DEF ProgInv, Counting
<1>7. HeldInv'
  BY <1>1, <1>2 DEF HeldInv, registry, Label, MethodOf
<1>8. BucketInv' /\ FreshInv' /\ ScanInv'
  BY <1>1 DEF BucketInv, Past, FreshInv, ScanInv, registry, scraper
<1>9. CountersAreExact'
  BY <1>1, CountersFrame DEF registry
<1>10. SeriesAreExact'
  BY <1>1, NotInside DEF Counting, registry
<1> QED BY <1>5, <1>6, <1>7, <1>8, <1>9, <1>10

LEMMA RegisterStep == ASSUME IInv, NEW t \in Recorders, Register(t) PROVE IInv'
<1> USE DEF IInv, Control
<1> DEFINE l == Label(t)
           counter == IF counters[l] = None THEN t ELSE counters[l]
<1>1. /\ pc[t] = "register" /\ pc' = [pc EXCEPT ![t] = "add"]
      /\ counters' = [counters EXCEPT ![l] = counter]
      /\ held' = [held EXCEPT ![t] = counter]
      /\ UNCHANGED <<value, durations, series, prog, at, dur, bucket, current,
                     scraper, overlap>>
  BY DEF Register, Goto
<1>2. l \in Labels
  BY <1>1, Labelled DEF Counting
<1>3. counter \in Recorders /\ counter # None
  BY <1>2, RecordersAssumption DEF TypeOK, RecordersAssumption
<1>4. TypeOK'
  BY <1>1, <1>3 DEF TypeOK, scraper
<1>5. counters'[l] = counter /\ held'[t] = counter /\ pc'[t] = "add"
  BY <1>1, <1>2 DEF TypeOK
<1>6. \A k \in Labels : counters[k] # None => counters'[k] = counters[k]
  BY <1>1, <1>2 DEF TypeOK
<1>7. \A u \in Recorders \ {t} : pc'[u] = pc[u] /\ held'[u] = held[u]
  BY <1>1 DEF TypeOK
<1>8. ProgInv'
  BY <1>1, <1>5, <1>7 DEF ProgInv, Counting
<1>9. HeldInv'
  <2> SUFFICES ASSUME NEW u \in Recorders
               PROVE  /\ pc'[u] \in {"guarded", "add"} =>
                            counters'[Label(u)] # None /\ held'[u] = counters'[Label(u)]
                      /\ pc'[u] \in {"bucket", "load", "exchange"} =>
                            durations[MethodOf(u)] # None /\ held'[u] = durations[MethodOf(u)]
    BY <1>1 DEF HeldInv, Label, MethodOf
  <2>1. CASE u = t
    BY <1>3, <1>5, <2>1
  <2>2. CASE u # t
    <3>1. pc[u] \in {"guarded", "add"} => Label(u) \in Labels
      BY Labelled DEF Counting
    <3> QED BY <1>6, <1>7, <2>2, <3>1 DEF HeldInv
  <2> QED BY <2>1, <2>2
<1>10. BucketInv'
  BY <1>1, <1>5, <1>7 DEF BucketInv, Past
<1>11. FreshInv' /\ ScanInv'
  BY <1>1, <1>6 DEF FreshInv, ScanInv, scraper
<1>12. CountersAreExact'
  <2>1. \A k \in Labels : Bumps(k)' = Bumps(k)
    BY <1>1 DEF Bumps
  <2>2. \A k \in Labels : Total(k)' = Total(k)
    <3> SUFFICES ASSUME NEW k \in Labels PROVE Total(k)' = Total(k)
      OBVIOUS
    <3>1. CASE counters[k] # None
      BY <1>1, <1>6, <3>1 DEF Total
    <3>2. CASE counters[k] = None /\ k = l
      <4>1. value[k][counter] = 0
        BY <1>3, <3>2 DEF FreshInv
      <4> QED BY <1>1, <1>3, <1>5, <3>2, <4>1 DEF Total
    <3>3. CASE counters[k] = None /\ k # l
      <4>1. counters'[k] = None
        BY <1>1, <3>3 DEF TypeOK
      <4> QED BY <3>3, <4>1 DEF Total
    <3> QED BY <3>1, <3>2, <3>3
  <2> QED BY <2>1, <2>2 DEF CountersAreExact
<1>13. SeriesAreExact'
  BY <1>1, <1>5, <1>7, NotInside DEF Counting
<1> QED BY <1>4, <1>8, <1>9, <1>10, <1>11, <1>12, <1>13
-----------------------------------------------------------------------------
(* Steps that bump. *)

LEMMA AddStep == ASSUME IInv, NEW t \in Recorders, Add(t) PROVE IInv'
<1> USE DEF IInv, Control
<1> DEFINE l == Label(t)
           c == counters[l]
<1>1. /\ pc[t] \in {"guarded", "add"}
      /\ value' = [value EXCEPT ![l][held[t]] = @ + 1]
      /\ at' = [at EXCEPT ![t] = @ + 1]
      /\ held' = [held EXCEPT ![t] = None]
      /\ pc' = [pc EXCEPT ![t] = IF at[t] + 1 < Len(prog[t]) THEN "lookup" ELSE "find"]
      /\ UNCHANGED <<counters, durations, series, prog, dur, bucket, current,
                     scraper, overlap>>
  BY DEF Add
<1>2. l \in Labels
  BY <1>1, Labelled DEF Counting
<1>3. held[t] = c /\ c \in Recorders /\ c # None
  BY <1>1, <1>2 DEF HeldInv, TypeOK
<1>4. at[t] \in Nat /\ at[t] < Len(prog[t]) /\ Len(prog[t]) \in 1..MaxErrors + 1
  BY <1>1 DEF TypeOK, ProgInv, Counting
<1>5. pc'[t] \in {"lookup", "find"} /\ at'[t] = at[t] + 1
  BY <1>1 DEF TypeOK
<1>6. \A u \in Recorders \ {t} : pc'[u] = pc[u] /\ held'[u] = held[u] /\ at'[u] = at[u]
  BY <1>1 DEF TypeOK
<1>7. value' \in [Labels -> [Recorders -> Nat]]
  <2>1. value \in [Labels -> [Recorders -> Nat]]
    BY DEF TypeOK
  <2>2. value[l] \in [Recorders -> Nat] /\ value[l][c] + 1 \in Nat
    BY <1>2, <1>3, <2>1
  <2>3. [value[l] EXCEPT ![c] = @ + 1] \in [Recorders -> Nat]
    BY <1>3, <2>2
  <2>4. value' = [value EXCEPT ![l] = [value[l] EXCEPT ![c] = @ + 1]]
    BY <1>1, <1>3
  <2> QED BY <1>2, <2>1, <2>3, <2>4
<1>8. TypeOK'
  <2>1. at' \in [Recorders -> Nat] /\ held' \in [Recorders -> Recorders \cup {None}]
    BY <1>1, <1>4 DEF TypeOK
  <2>2. pc' \in [Recorders -> {"idle", "lookup", "guarded", "register", "add",
                             "find", "create", "bucket", "count", "load", "exchange", "done"}]
    BY <1>1 DEF TypeOK
  <2> QED BY <1>1, <1>7, <2>1, <2>2 DEF TypeOK, scraper
<1>9. ProgInv'
  <2>1. pc'[t] = "lookup" => at'[t] < Len(prog[t])
    BY <1>1, <1>5 DEF TypeOK
  <2>2. at'[t] <= Len(prog[t])
    BY <1>4, <1>5, BoundAssumption DEF BoundAssumption
  <2> QED BY <1>1, <1>5, <1>6, <2>1, <2>2 DEF ProgInv, Counting
<1>10. HeldInv'
  BY <1>1, <1>5, <1>6 DEF HeldInv, Label, MethodOf
<1>11. BucketInv'
  BY <1>1, <1>5, <1>6 DEF BucketInv, Past
<1>12. FreshInv' /\ ScanInv'
  BY <1>1, <1>2, <1>3 DEF FreshInv, ScanInv, scraper, TypeOK
<1>13. CountersAreExact'
  <2> SUFFICES ASSUME NEW k \in Labels PROVE Total(k)' = Cardinality(Bumps(k)')
    BY DEF CountersAreExact
  <2>1. CASE k = l
    <3>1. Total(k)' = Total(k) + 1
      BY <1>1, <1>2, <1>3, <2>1 DEF Total, TypeOK
    <3>2. <<t, at[t] + 1>> \in Recorders \X (1..MaxErrors + 1)
      BY <1>4, BoundAssumption DEF BoundAssumption
    <3>3. <<t, at[t] + 1>> \notin Bumps(k)
      BY <1>4 DEF Bumps
    <3>4. Bumps(k)' = Bumps(k) \cup {<<t, at[t] + 1>>}
      <4>1. \A b \in Recorders \X (1..MaxErrors + 1) :
                b[1] = t => (b[2] <= at[t] + 1 <=> b[2] <= at[t] \/ b = <<t, at[t] + 1>>)
        BY <1>4, BoundAssumption DEF BoundAssumption
      <4>2. prog[t][at[t] + 1] = k
        BY <2>1 DEF Label
      <4>3. \A b \in Recorders \X (1..MaxErrors + 1) :
                b \in Bumps(k)' <=> b \in Bumps(k) \cup {<<t, at[t] + 1>>}
        BY <1>1, <1>5, <1>6, <4>1, <4>2 DEF Bumps
      <4> QED BY <3>2, <4>3 DEF Bumps
    <3>5. Cardinality(Bumps(k)') = Cardinality(Bumps(k)) + 1
      BY <3>3, <3>4, FS_AddElement, BumpsFinite
    <3> QED BY <3>1, <3>5 DEF CountersAreExact
  <2>2. CASE k # l
    <3>1. Total(k)' = Total(k)
      BY <1>1, <1>2, <2>2 DEF Total, TypeOK
    <3>2. \A b \in Recorders \X (1..MaxErrors + 1) :
              b[1] = t /\ prog[t][b[2]] = k => (b[2] <= at[t] + 1 <=> b[2] <= at[t])
      BY <1>4, <2>2, BoundAssumption DEF BoundAssumption, Label
    <3>3. Bumps(k)' = Bumps(k)
      BY <1>1, <1>5, <1>6, <3>2 DEF Bumps
    <3> QED BY <3>1, <3>3 DEF CountersAreExact
  <2> QED BY <2>1, <2>2
<1>14. SeriesAreExact'
  BY <1>1, <1>5, <1>6, NotInside DEF Counting
<1> QED BY <1>8, <1>9, <1>10, <1>11, <1>12, <1>13, <1>14

LEMMA FindStep == ASSUME IInv, NEW t \in Recorders, Find(t) PROVE IInv'
<1> USE DEF IInv, Control
<1> DEFINE m == MethodOf(t)
<1>1. /\ pc[t] = "find"
      /\ dur' \in [Recorders -> Durations]
      /\ \A u \in Recorders \ {t} : dur'[u] = dur[u]
      /\ UNCHANGED <<registry, prog, at, bucket, current, scraper, overlap>>
  BY DEF Find, TypeOK
<1>2. m \in Methods
  BY <1>1, Labelled
<1>3. \/ /\ pc' = [pc EXCEPT ![t] = "bucket"]
         /\ held' = [held EXCEPT ![t] = durations[m]]
         /\ durations[m] # None
      \/ pc' = [pc EXCEPT ![t] = "create"] /\ held' = held
  BY DEF Find
<1>4. /\ pc'[t] \in {"bucket", "create"}
      /\ pc' \in [Recorders -> {"idle", "lookup", "guarded", "register", "add",
                             "find", "create", "bucket", "count", "load", "exchange", "done"}]
      /\ held' \in [Recorders -> Recorders \cup {None}]
      /\ pc'[t] = "bucket" => durations[m] # None /\ held'[t] = durations[m]
      /\ \A u \in Recorders \ {t} : pc'[u] = pc[u] /\ held'[u] = held[u]
  BY <1>2, <1>3 DEF TypeOK
<1>5. TypeOK'
  BY <1>1, <1>4 DEF TypeOK, registry, scraper
<1>6. ProgInv'
  BY <1>1, <1>4 DEF ProgInv, Counting
<1>7. HeldInv'
  BY <1>1, <1>4 DEF HeldInv, registry, Label, MethodOf
<1>8. BucketInv' /\ FreshInv' /\ ScanInv'
  BY <1>1, <1>4 DEF BucketInv, Past, FreshInv, ScanInv, registry, scraper
<1>9. CountersAreExact'
  BY <1>1, CountersFrame DEF registry
<1>10. SeriesAreExact'
  BY <1>1, <1>4, NotInside DEF Counting, registry
<1> QED BY <1>5, <1>6, <1>7, <1>8, <1>9, <1>10
LEMMA CreateStep == ASSUME IInv, NEW t \in Recorders, Create(t) PROVE IInv'
<1> USE DEF IInv, Control
<1> DEFINE m == MethodOf(t)
           s == IF durations[m] = None THEN t ELSE durations[m]
<1>1. /\ pc[t] = "create" /\ pc' = [pc EXCEPT ![t] = "bucket"]
      /\ ~DurationsLocked
      /\ durations' = [durations EXCEPT ![m] = s]
      /\ held' = [held EXCEPT ![t] = s]
      /\ UNCHANGED <<counters, value, series, prog, at, dur, bucket, current,
                     scraper, overlap>>
  BY DEF Create, Goto
<1>2. m \in Methods
  BY <1>1, Labelled
<1>3. s \in Recorders /\ s # None
  BY <1>2, RecordersAssumption DEF TypeOK, RecordersAssumption
<1>4. TypeOK'
  BY <1>1, <1>3 DEF TypeOK, scraper
<1>5. durations'[m] = s /\ held'[t] = s /\ pc'[t] = "bucket"
  BY <1>1, <1>2 DEF TypeOK
<1>6. \A k \in Methods : durations[k] # None => durations'[k] = durations[k]
  BY <1>1, <1>2 DEF TypeOK
<1>7. \A u \in Recorders \ {t} : pc'[u] = pc[u] /\ held'[u] = held[u]
  BY <1>1 DEF TypeOK
<1>8. ProgInv'
  BY <1>1, <1>5, <1>7 DEF ProgInv, Counting
<1>9. HeldInv'
  <2> SUFFICES ASSUME NEW u \in Recorders
               PROVE  /\ pc'[u] \in {"guarded", "add"} =>
                            counters[Label(u)] # None /\ held'[u] = counters[Label(u)]
                      /\ pc'[u] \in {"bucket", "load", "exchange"} =>
                            durations'[MethodOf(u)] # None /\ held'[u] = durations'[MethodOf(u)]
    BY <1>1 DEF HeldInv, Label, MethodOf
  <2>1. CASE u = t
    BY <1>3, <1>5, <2>1
  <2>2. CASE u # t
    <3>1. pc[u] \in {"bucket", "load", "exchange"} => MethodOf(u) \in Methods
      BY Labelled
    <3> QED BY <1>6, <1>7, <2>2, <3>1 DEF HeldInv
  <2> QED BY <2>1, <2>2
<1>10. BucketInv'
  BY <1>1, <1>5, <1>7 DEF BucketInv, Past
<1>11. FreshInv'
  BY <1>1, <1>6 DEF FreshInv
<1>12. ScanInv'
  BY <1>1, <1>6 DEF ScanInv, scraper, TypeOK, DurationsLocked
<1>13. CountersAreExact'
  BY <1>1, CountersFrame
<1>14. SeriesAreExact'
  <2>1. \A k \in Methods : Shown(k)' = Shown(k)
    <3> SUFFICES ASSUME NEW k \in Methods PROVE Shown(k)' = Shown(k)
      OBVIOUS
    <3>1. CASE durations[k] # None
      BY <1>1, <1>6, <3>1 DEF Shown
    <3>2. CASE durations[k] = None /\ k = m
      <4>1. series[k][s] = NewSeries
        BY <1>3, <3>2 DEF FreshInv
      <4> QED BY <1>1, <1>3, <1>5, <3>2, <4>1 DEF Shown
    <3>3. CASE durations[k] = None /\ k # m
      <4>1. durations'[k] = None
        BY <1>1, <3>3 DEF TypeOK
      <4> QED BY <3>3, <4>1 DEF Shown
    <3> QED BY <3>1, <3>2, <3>3
  <2>2. bucket[t] = 1
    BY <1>1 DEF BucketInv, Past
  <2>3. \A k \in Methods : Counted(k)' = Counted(k)
    BY <1>1, <1>5, <1>7 DEF Counted, MethodOf
  <2>4. \A k \in Methods, i \in 1..Buckets : Passed(k, i)' = Passed(k, i)
    <3> SUFFICES ASSUME NEW k \in Methods, NEW i \in 1..Buckets, NEW u \in Recorders
                 PROVE  u \in Passed(k, i)' <=> u \in Passed(k, i)
      BY DEF Passed
    <3>1. CASE u = t
      <4>1. ~(i < bucket[t]) /\ bucket' = bucket
        BY <1>1, <2>2
      <4> QED BY <3>1, <4>1 DEF Passed
    <3>2. CASE u # t
      BY <1>1, <1>7, <3>2 DEF Passed, Inside, MethodOf
    <3> QED BY <3>1, <3>2
  <2> QED BY <2>1, <2>3, <2>4 DEF SeriesAreExact
<1> QED BY <1>4, <1>8, <1>9, <1>10, <1>11, <1>12, <1>13, <1>14

\* The series a recorder holds is the one of its method, and a series.
LEMMA HeldSeries ==
    ASSUME IInv, NEW t \in Recorders, pc[t] \in {"bucket", "load", "exchange"}
    PROVE  /\ MethodOf(t) \in Methods /\ held[t] \in Recorders /\ held[t] # None
           /\ durations[MethodOf(t)] = held[t]
           /\ series[MethodOf(t)][held[t]] \in Series
<1> USE DEF IInv, Control
<1>1. MethodOf(t) \in Methods
  BY Labelled
<1>2. held[t] = durations[MethodOf(t)] /\ held[t] # None
  BY DEF HeldInv
<1> QED BY <1>1, <1>2 DEF TypeOK

\* What a recorder inside a series does to it, other recorders do not see.
LEMMA SeriesUpdate ==
    ASSUME IInv, NEW t \in Recorders, pc[t] \in {"bucket", "load", "exchange"},
           NEW new \in Series, UNCHANGED durations,
           series' = [series EXCEPT ![MethodOf(t)] =
                         [series[MethodOf(t)] EXCEPT ![held[t]] = new]]
    PROVE  /\ series' \in [Methods -> [Recorders -> Series]]
           /\ \A m \in Methods : durations[m] = None =>
                 \A u \in Recorders : series'[m][u] = NewSeries
           /\ \A m \in Methods :
                 /\ m = MethodOf(t) => Shown(m)' = new /\ Shown(m) = series[m][held[t]]
                 /\ m # MethodOf(t) => Shown(m)' = Shown(m)
<1> USE DEF IInv, Control
<1>0. series \in [Methods -> [Recorders -> Series]]
  BY DEF TypeOK
<1>1. [series[MethodOf(t)] EXCEPT ![held[t]] = new] \in [Recorders -> Series]
  BY <1>0, HeldSeries
<1>2. series' \in [Methods -> [Recorders -> Series]]
  BY <1>0, <1>1
<1>3. \A m \in Methods \ {MethodOf(t)} : series'[m] = series[m]
  BY <1>0
<1>4. series'[MethodOf(t)][held[t]] = new
  BY <1>0, <1>1, HeldSeries
<1>5. \A m \in Methods : durations[m] = None =>
          \A u \in Recorders : series'[m][u] = NewSeries
  BY <1>3, HeldSeries DEF FreshInv
<1>6. \A m \in Methods : m = MethodOf(t) => Shown(m)' = new /\ Shown(m) = series[m][held[t]]
  <2> SUFFICES ASSUME NEW m \in Methods, m = MethodOf(t)
               PROVE  Shown(m)' = new /\ Shown(m) = series[m][held[t]]
    OBVIOUS
  <2>1. durations[m] = held[t] /\ held[t] # None
    BY HeldSeries
  <2>2. series'[m][held[t]] = new
    BY <1>4
  <2> QED BY <2>1, <2>2 DEF Shown
<1>7. \A m \in Methods : m # MethodOf(t) => Shown(m)' = Shown(m)
  BY <1>3 DEF Shown
<1> QED BY <1>2, <1>5, <1>6, <1>7
\* What every step inside a series keeps.
LEMMA InsideControl ==
    ASSUME IInv, NEW t \in Recorders, pc[t] \in {"bucket", "load", "exchange"},
           pc' \in [Recorders -> {"load", "exchange", "done", "bucket"} \cup
                   {"idle", "lookup", "guarded", "register", "add", "find", "create", "count"}],
           pc'[t] \in {"bucket", "load", "exchange", "done"},
           \A u \in Recorders \ {t} : pc'[u] = pc[u] /\ bucket'[u] = bucket[u],
           bucket' \in [Recorders -> Nat], current' \in [Recorders -> Nat],
           bucket'[t] \in 1..Buckets + 1, pc'[t] \in Past => bucket'[t] = Buckets + 1,
           series' \in [Methods -> [Recorders -> Series]],
           overlap' \in SUBSET Recorders,
           \A m \in Methods : durations[m] = None =>
                 \A u \in Recorders : series'[m][u] = NewSeries,
           UNCHANGED <<counters, value, durations, prog, at, held, dur, scraper>>
    PROVE  Control' /\ CountersAreExact'
<1> USE DEF IInv, Control
<1>1. TypeOK'
  BY DEF TypeOK, scraper
<1>2. ProgInv'
  BY DEF ProgInv, Counting
<1>3. HeldInv'
  BY DEF HeldInv, Label, MethodOf
<1>4. BucketInv'
  BY DEF BucketInv, Past
<1>5. FreshInv' /\ ScanInv'
  BY DEF FreshInv, ScanInv, scraper
<1>6. CountersAreExact'
  BY CountersFrame
<1> QED BY <1>1, <1>2, <1>3, <1>4, <1>5, <1>6

LEMMA EntersType ==
    ASSUME IInv, NEW t \in Recorders, Enters(t) PROVE overlap' \in SUBSET Recorders
BY DEF IInv, Control, TypeOK, Enters

LEMMA Increment ==
    ASSUME NEW f \in [1..Buckets -> Nat], NEW i \in 1..Buckets
    PROVE  /\ [f EXCEPT ![i] = @ + 1] \in [1..Buckets -> Nat]
           /\ \A j \in 1..Buckets :
                 [f EXCEPT ![i] = @ + 1][j] = IF j = i THEN f[j] + 1 ELSE f[j]
<1>1. f[i] + 1 \in Nat
  OBVIOUS
<1> QED BY <1>1

LEMMA BumpStep == ASSUME IInv, NEW t \in Recorders, Bump(t) PROVE IInv'
<1> DEFINE m == MethodOf(t)
           i == bucket[t]
           old == series[m][held[t]]
           new == IF dur[t] <= i THEN [old EXCEPT !.buckets = [old.buckets EXCEPT ![i] = @ + 1]]
                                 ELSE old
<1>1. /\ pc[t] = "bucket" /\ i <= Buckets
      /\ bucket' = [bucket EXCEPT ![t] = @ + 1]
      /\ Enters(t)
      /\ UNCHANGED <<counters, value, durations, pc, prog, at, held, dur, current,
                     scraper>>
  BY DEF Bump
<1>2. TypeOK /\ BucketInv
  BY DEF IInv, Control
<1>3. i \in 1..Buckets /\ Buckets \in Nat
  BY <1>1, <1>2, BoundAssumption DEF BucketInv, BoundAssumption
<1>4. m \in Methods /\ held[t] \in Recorders /\ old \in Series
  BY <1>1, HeldSeries
<1>5. old.buckets \in [1..Buckets -> Nat] /\ old.count \in Nat /\ old.sum \in Nat
  BY <1>4 DEF Series
<1>6. /\ [old.buckets EXCEPT ![i] = @ + 1] \in [1..Buckets -> Nat]
      /\ \A j \in 1..Buckets : [old.buckets EXCEPT ![i] = @ + 1][j] =
            IF j = i THEN old.buckets[j] + 1 ELSE old.buckets[j]
  BY <1>3, <1>5, Increment
<1>7. new \in Series
  BY <1>4, <1>6 DEF Series
<1>8. series' = [series EXCEPT ![m] = [series[m] EXCEPT ![held[t]] = new]]
  <2>1. series \in [Methods -> [Recorders -> Series]]
    BY <1>2 DEF TypeOK
  <2>2. CASE dur[t] <= i
    BY <2>2 DEF Bump
  <2>3. CASE ~(dur[t] <= i)
    <3>1. [series[m] EXCEPT ![held[t]] = old] = series[m]
      BY <1>4, <2>1
    <3>2. [series EXCEPT ![m] = series[m]] = series
      BY <1>4, <2>1
    <3> QED BY <2>3, <3>1, <3>2 DEF Bump
  <2> QED BY <2>2, <2>3
<1>9. UNCHANGED durations
  BY <1>1
<1>10. /\ series' \in [Methods -> [Recorders -> Series]]
       /\ \A k \in Methods : durations[k] = None =>
              \A u \in Recorders : series'[k][u] = NewSeries
       /\ \A k \in Methods :
              /\ k = m => Shown(k)' = new /\ Shown(k) = old
              /\ k # m => Shown(k)' = Shown(k)
  <2>1. pc[t] \in {"bucket", "load", "exchange"}
    BY <1>1
  <2> HIDE DEF new
  <2>2. /\ series' \in [Methods -> [Recorders -> Series]]
        /\ \A k \in Methods : durations[k] = None =>
              \A u \in Recorders : series'[k][u] = NewSeries
        /\ \A k \in Methods :
              /\ k = MethodOf(t) => Shown(k)' = new /\ Shown(k) = series[k][held[t]]
              /\ k # MethodOf(t) => Shown(k)' = Shown(k)
    BY <1>7, <1>8, <1>9, <2>1, SeriesUpdate, Zenon
  <2> QED BY <2>2
<1>11. bucket'[t] = i + 1 /\ \A u \in Recorders \ {t} : bucket'[u] = bucket[u]
  BY <1>1, <1>2 DEF TypeOK
<1>12. Control' /\ CountersAreExact'
  <2>1. bucket' \in [Recorders -> Nat] /\ i + 1 \in 1..Buckets + 1
    BY <1>1, <1>2, <1>3 DEF TypeOK
  <2> QED BY <1>1, <1>2, <1>10, <1>11, <2>1, InsideControl, EntersType DEF TypeOK, Past
<1>13. \A k \in Methods : Counted(k)' = Counted(k)
  BY <1>1 DEF Counted, MethodOf
<1>14. \A k \in Methods, j \in 1..Buckets :
          /\ k = m /\ j = i /\ dur[t] <= i =>
                Passed(k, j)' = Passed(k, j) \cup {t} /\ t \notin Passed(k, j)
          /\ ~(k = m /\ j = i /\ dur[t] <= i) => Passed(k, j)' = Passed(k, j)
  <2> SUFFICES ASSUME NEW k \in Methods, NEW j \in 1..Buckets
               PROVE  /\ k = m /\ j = i /\ dur[t] <= i =>
                            Passed(k, j)' = Passed(k, j) \cup {t} /\ t \notin Passed(k, j)
                      /\ ~(k = m /\ j = i /\ dur[t] <= i) => Passed(k, j)' = Passed(k, j)
    OBVIOUS
  <2>1. \A u \in Recorders \ {t} : u \in Passed(k, j)' <=> u \in Passed(k, j)
    BY <1>1, <1>11 DEF Passed, Inside, MethodOf
  <2>2. t \in Passed(k, j) <=> m = k /\ dur[t] <= j /\ j < i
    BY <1>1 DEF Passed, Inside
  <2>3. t \in Passed(k, j)' <=> m = k /\ dur[t] <= j /\ j < i + 1
    BY <1>1, <1>11 DEF Passed, Inside, MethodOf
  <2>4. j < i + 1 <=> j < i \/ j = i
    BY <1>3
  <2>5. Passed(k, j) \subseteq Recorders /\ Passed(k, j)' \subseteq Recorders
    BY DEF Passed
  <2>6. ~(i < i)
    BY <1>3
  <2> QED BY <2>1, <2>2, <2>3, <2>4, <2>5, <2>6
<1>15. SeriesAreExact'
  <2> SUFFICES ASSUME NEW k \in Methods
               PROVE  /\ \A j \in 1..Buckets : Shown(k)'.buckets[j] = Cardinality(Passed(k, j)')
                      /\ Shown(k)'.count = Cardinality(Counted(k)')
    BY DEF SeriesAreExact
  <2>1. /\ \A j \in 1..Buckets : Shown(k).buckets[j] = Cardinality(Passed(k, j))
        /\ Shown(k).count = Cardinality(Counted(k))
    BY DEF IInv, SeriesAreExact
  <2>2. CASE k = m /\ dur[t] <= i
    <3>1. Shown(k)' = new /\ Shown(k) = old
      BY <1>10, <2>2
    <3>2. new.count = old.count /\ new.buckets = [old.buckets EXCEPT ![i] = @ + 1]
      BY <1>4, <2>2 DEF Series
    <3>3. \A j \in 1..Buckets :
              new.buckets[j] = IF j = i THEN old.buckets[j] + 1 ELSE old.buckets[j]
      BY <1>6, <3>2
    <3>4. \A j \in 1..Buckets : Cardinality(Passed(k, j)') =
              IF j = i THEN Cardinality(Passed(k, j)) + 1 ELSE Cardinality(Passed(k, j))
      BY <1>14, <2>2, RecordersFinite, FS_AddElement
    <3>5. ASSUME NEW j \in 1..Buckets
          PROVE  Shown(k)'.buckets[j] = Cardinality(Passed(k, j)')
      <4>1. Shown(k)'.buckets[j] = IF j = i THEN old.buckets[j] + 1 ELSE old.buckets[j]
        BY <3>1, <3>3
      <4>2. old.buckets[j] = Cardinality(Passed(k, j))
        BY <2>1, <3>1
      <4> QED BY <3>4, <4>1, <4>2
    <3>6. Shown(k)'.count = Cardinality(Counted(k)')
      BY <1>13, <2>1, <3>1, <3>2
    <3> QED BY <3>5, <3>6
  <2>3. CASE ~(k = m /\ dur[t] <= i)
    <3>1. Shown(k)' = Shown(k)
      BY <1>10, <2>3
    <3>2. \A j \in 1..Buckets : Passed(k, j)' = Passed(k, j)
      BY <1>14, <2>3
    <3> QED BY <1>13, <2>1, <3>1, <3>2
  <2> QED BY <2>2, <2>3
<1> QED BY <1>12, <1>15 DEF IInv
LEMMA CountStep == ASSUME IInv, NEW t \in Recorders, Count(t) PROVE IInv'
<1> DEFINE m == MethodOf(t)
           old == series[m][held[t]]
           new == [old EXCEPT !.count = @ + 1]
<1>1. /\ pc[t] = "bucket" /\ pc' = [pc EXCEPT ![t] = "load"]
      /\ bucket[t] > Buckets
      /\ series' = [series EXCEPT ![m] = [series[m] EXCEPT ![held[t]] = new]]
      /\ Enters(t)
      /\ UNCHANGED <<counters, value, durations, prog, at, held, dur, bucket, current,
                     scraper>>
  BY DEF Count, Goto, mine
<1>2. TypeOK /\ BucketInv
  BY DEF IInv, Control
<1>3. bucket[t] = Buckets + 1
  BY <1>1, <1>2, BoundAssumption DEF BucketInv, BoundAssumption
<1>4. m \in Methods /\ held[t] \in Recorders /\ old \in Series
  BY <1>1, HeldSeries
<1>5. new \in Series /\ new.buckets = old.buckets /\ new.count = old.count + 1
  BY <1>4 DEF Series
<1>6. /\ series' \in [Methods -> [Recorders -> Series]]
      /\ \A k \in Methods : durations[k] = None =>
             \A u \in Recorders : series'[k][u] = NewSeries
      /\ \A k \in Methods :
             /\ k = MethodOf(t) => Shown(k)' = new /\ Shown(k) = series[k][held[t]]
             /\ k # MethodOf(t) => Shown(k)' = Shown(k)
  <2>1. pc[t] \in {"bucket", "load", "exchange"} /\ UNCHANGED durations
    BY <1>1
  <2>2. new \in Series /\ series' = [series EXCEPT ![m] = [series[m] EXCEPT ![held[t]] = new]]
    BY <1>1, <1>5
  <2> HIDE DEF new
  <2> QED BY <2>1, <2>2, SeriesUpdate, Zenon
<1>7. pc'[t] = "load" /\ \A u \in Recorders \ {t} : pc'[u] = pc[u]
  BY <1>1, <1>2 DEF TypeOK
<1>8. Control' /\ CountersAreExact'
  <2>1. pc' \in [Recorders -> {"load", "exchange", "done", "bucket"} \cup
                   {"idle", "lookup", "guarded", "register", "add", "find", "create", "count"}]
    BY <1>1, <1>2 DEF TypeOK
  <2>2. bucket' \in [Recorders -> Nat] /\ current' \in [Recorders -> Nat]
    BY <1>1, <1>2 DEF TypeOK
  <2>3. bucket'[t] \in 1..Buckets + 1 /\ bucket'[t] = Buckets + 1
    BY <1>1, <1>3, BoundAssumption DEF BoundAssumption
  <2> QED BY <1>1, <1>6, <1>7, <2>1, <2>2, <2>3, InsideControl, EntersType
<1>9. \A k \in Methods, j \in 1..Buckets : Passed(k, j)' = Passed(k, j)
  BY <1>1, <1>7 DEF Passed, Inside, MethodOf
<1>10. \A k \in Methods :
          /\ k = m => Counted(k)' = Counted(k) \cup {t} /\ t \notin Counted(k)
          /\ k # m => Counted(k)' = Counted(k)
  BY <1>1, <1>7 DEF Counted, MethodOf
<1>11. SeriesAreExact'
  <2> SUFFICES ASSUME NEW k \in Methods
               PROVE  /\ \A j \in 1..Buckets : Shown(k)'.buckets[j] = Cardinality(Passed(k, j)')
                      /\ Shown(k)'.count = Cardinality(Counted(k)')
    BY DEF SeriesAreExact
  <2>1. /\ \A j \in 1..Buckets : Shown(k).buckets[j] = Cardinality(Passed(k, j))
        /\ Shown(k).count = Cardinality(Counted(k))
    BY DEF IInv, SeriesAreExact
  <2>2. CASE k = m
    <3>1. Shown(k)' = new /\ Shown(k) = old
      BY <1>6, <2>2
    <3>2. Cardinality(Counted(k)') = Cardinality(Counted(k)) + 1
      BY <1>10, <2>2, RecordersFinite, FS_AddElement
    <3> HIDE DEF new, old
    <3> QED BY <1>5, <1>9, <2>1, <3>1, <3>2
  <2>3. CASE k # m
    BY <1>6, <1>9, <1>10, <2>1, <2>3
  <2> QED BY <2>2, <2>3
<1> QED BY <1>8, <1>11 DEF IInv

\* The exchange of the sum, whether it succeeds or not, and the load before
\* it count nothing.
LEMMA SumStep ==
    ASSUME IInv, NEW t \in Recorders, Load(t) \/ Exchange(t) \/ ExchangeFails(t)
    PROVE  IInv'
<1> DEFINE m == MethodOf(t)
           old == series[m][held[t]]
<1>1. TypeOK /\ BucketInv /\ BoundAssumption
  BY BoundAssumption DEF IInv, Control
<1>2. /\ pc[t] \in {"load", "exchange"} /\ pc'[t] \in {"exchange", "done"}
      /\ pc' \in [Recorders -> {"load", "exchange", "done", "bucket"} \cup
                   {"idle", "lookup", "guarded", "register", "add", "find", "create", "count"}]
      /\ \A u \in Recorders \ {t} : pc'[u] = pc[u]
      /\ UNCHANGED <<counters, value, durations, prog, at, held, dur, bucket, scraper>>
  <2>1. UNCHANGED <<counters, value, durations, prog, at, held, dur, bucket, scraper>>
    BY DEF Load, Exchange, ExchangeFails, registry, mine
  <2>2. \/ pc[t] = "load" /\ pc' = [pc EXCEPT ![t] = "exchange"]
        \/ pc[t] = "exchange" /\ pc' = [pc EXCEPT ![t] = "done"]
        \/ pc[t] = "exchange" /\ pc' = pc
    BY DEF Load, Exchange, ExchangeFails, Goto
  <2>3. pc \in [Recorders -> {"load", "exchange", "done", "bucket"} \cup
                   {"idle", "lookup", "guarded", "register", "add", "find", "create", "count"}]
    BY <1>1 DEF TypeOK
  <2> QED BY <2>1, <2>2, <2>3
<1>3. m \in Methods /\ held[t] \in Recorders /\ old \in Series
  BY <1>2, HeldSeries
<1>4. old.sum \in Nat
  BY <1>3 DEF Series
<1>5. current' \in [Recorders -> Nat]
  <2>1. current \in [Recorders -> Nat]
    BY <1>1 DEF TypeOK
  <2>2. current' = current \/ current' = [current EXCEPT ![t] = old.sum]
    BY DEF Load, Exchange, ExchangeFails, mine
  <2> QED BY <1>4, <2>1, <2>2
<1>6. overlap' \in SUBSET Recorders
  BY <1>1, EntersType DEF Load, Exchange, ExchangeFails, TypeOK
<1>7. /\ series' \in [Methods -> [Recorders -> Series]]
      /\ \A k \in Methods : durations[k] = None =>
             \A u \in Recorders : series'[k][u] = NewSeries
      /\ \A k \in Methods : /\ Shown(k)'.buckets = Shown(k).buckets
                             /\ Shown(k)'.count = Shown(k).count
  <2>1. CASE Exchange(t)
    <3> DEFINE new == [old EXCEPT !.sum = current[t] + dur[t]]
    <3>1. pc[t] \in {"bucket", "load", "exchange"} /\ UNCHANGED durations
      BY <1>2
    <3>2. current[t] + dur[t] \in Nat
      BY <1>1, BoundAssumption DEF TypeOK, Durations, BoundAssumption
    <3>3. new \in Series /\ new.buckets = old.buckets /\ new.count = old.count
      BY <1>3, <3>2 DEF Series
    <3>4. series' = [series EXCEPT ![m] = [series[m] EXCEPT ![held[t]] = new]]
      BY <2>1 DEF Exchange
    <3> HIDE DEF new
    <3>5. /\ series' \in [Methods -> [Recorders -> Series]]
          /\ \A k \in Methods : durations[k] = None =>
                 \A u \in Recorders : series'[k][u] = NewSeries
          /\ \A k \in Methods :
                 /\ k = MethodOf(t) => Shown(k)' = new /\ Shown(k) = series[k][held[t]]
                 /\ k # MethodOf(t) => Shown(k)' = Shown(k)
      BY <3>1, <3>3, <3>4, SeriesUpdate, Zenon
    <3> QED BY <3>3, <3>5
  <2>2. CASE Load(t) \/ ExchangeFails(t)
    <3>1. UNCHANGED <<series, durations>>
      BY <2>2 DEF Load, ExchangeFails, registry
    <3> QED BY <1>1, <3>1 DEF IInv, Control, TypeOK, FreshInv, Shown
  <2> QED BY <2>1, <2>2
<1>8. Control' /\ CountersAreExact'
  <2>1. bucket[t] = Buckets + 1 /\ Buckets + 1 \in 1..Buckets + 1
    BY <1>1, <1>2 DEF BucketInv, Past, BoundAssumption
  <2>2. bucket' \in [Recorders -> Nat]
    BY <1>1, <1>2 DEF TypeOK
  <2> QED BY <1>2, <1>5, <1>6, <1>7, <2>1, <2>2, InsideControl
<1>9. \A k \in Methods, j \in 1..Buckets :
          Passed(k, j)' = Passed(k, j) /\ Counted(k)' = Counted(k)
  BY <1>2 DEF Passed, Counted, Inside, MethodOf
<1>10. \A k \in Methods : Counted(k)' = Counted(k)
  BY <1>2 DEF Counted, MethodOf
<1>11. SeriesAreExact'
  BY <1>7, <1>9, <1>10 DEF IInv, SeriesAreExact
<1> QED BY <1>8, <1>11 DEF IInv
-----------------------------------------------------------------------------
(* The theorems. *)

LEMMA NextInv == IInv /\ [Next]_vars => IInv'
<1> SUFFICES ASSUME IInv, [Next]_vars PROVE IInv'
  OBVIOUS
<1>1. CASE LockRequests \/ Render
  BY <1>1, RenderStep
<1>2. ASSUME NEW t \in Recorders, Begin(t) \/ Recorder(t) PROVE IInv'
  BY <1>2, BeginStep, LookupStep, RegisterStep, AddStep, FindStep, CreateStep,
     BumpStep, CountStep, SumStep DEF Recorder
<1>3. CASE UNCHANGED vars
  <2>1. Control'
    BY <1>3 DEF vars, registry, mine, scraper, IInv, Control, TypeOK, ProgInv,
         HeldInv, BucketInv, FreshInv, ScanInv, Label, MethodOf
  <2>2. CountersAreExact'
    BY <1>3, CountersFrame DEF vars, registry, mine, IInv
  <2>3. \A m \in Methods, i \in 1..Buckets :
            Passed(m, i)' = Passed(m, i) /\ Counted(m)' = Counted(m)
    BY <1>3 DEF vars, registry, mine, Passed, Counted, Inside, MethodOf
  <2>4. SeriesAreExact'
    BY <1>3, <2>3, SeriesFrame DEF vars, registry, IInv
  <2> QED BY <2>1, <2>2, <2>4 DEF IInv
<1> QED BY <1>1, <1>2, <1>3 DEF Next

LEMMA Invariance == Spec => []IInv
BY InitInv, NextInv, PTL DEF Spec

-----------------------------------------------------------------------------
(* What a scrape shows of a series that is being written. *)

\* The recorders that have written to the series of m and are not through.
Touching(m) ==
    {t \in Recorders : /\ MethodOf(t) = m
                       /\ \/ pc[t] \in {"load", "exchange"}
                          \/ pc[t] = "bucket" /\ bucket[t] > 1}

\* Those whose writing the scraper has not noted as overlapping.
Apart(m) == (Counted(m) \cup Touching(m)) \ overlap

\* What makes TearIsBounded inductive: a bucket that was read is not above what it is now, a
\* recorder that makes two buckets or a bucket and the count differ is noted, and what is not
\* noted was there when the count was read.
TearInv ==
    /\ scan \in {"count", "bucket", "shown"} => Touching(method) \subseteq overlap
    /\ scan \in {"bucket", "shown"} =>
          /\ Len(shown.buckets) <= Buckets
          /\ \A i \in 1..Len(shown.buckets) :
                /\ shown.buckets[i] <= Cardinality(Passed(method, i))
                /\ shown.buckets[i] <= shown.count + Cardinality(overlap)
          /\ \A i, j \in 1..Len(shown.buckets) :
                i < j => shown.buckets[i] <= shown.buckets[j] + Cardinality(overlap)
          /\ Cardinality(Apart(method)) <= shown.count
    /\ scan = "shown" => Len(shown.buckets) = Buckets

LEMMA OverlapFinite ==
    ASSUME IInv
    PROVE  /\ IsFiniteSet(overlap) /\ Cardinality(overlap) \in Nat
           /\ \A m : IsFiniteSet(Apart(m)) /\ Cardinality(Apart(m)) \in Nat
           /\ \A m, i : Cardinality(Passed(m, i)) \in Nat
<1>1. overlap \in SUBSET Recorders /\ \A m : Apart(m) \in SUBSET Recorders
  BY DEF IInv, Control, TypeOK, Apart, Counted, Touching
<1>2. IsFiniteSet(overlap) /\ \A m : IsFiniteSet(Apart(m))
  BY <1>1, FS_Subset, RecordersAssumption DEF RecordersAssumption
<1> QED BY <1>2, FS_CardinalityType, RecordersFinite

\* A recorder that is past bucket i but not past bucket j, or not counted, is at work.
LEMMA PassedOrAtWork ==
    ASSUME IInv, NEW m, NEW i \in 1..Buckets
    PROVE  /\ Passed(m, i) \subseteq Counted(m) \cup Touching(m)
           /\ \A j \in 1..Buckets : i < j => Passed(m, i) \subseteq Passed(m, j) \cup Touching(m)
<1> USE BoundAssumption DEF BoundAssumption
<1> SUFFICES ASSUME NEW t \in Passed(m, i)
             PROVE  /\ t \in Counted(m) \cup Touching(m)
                    /\ \A j \in 1..Buckets : i < j => t \in Passed(m, j) \cup Touching(m)
  OBVIOUS
<1>1. /\ t \in Recorders /\ MethodOf(t) = m /\ (Inside(t) \/ pc[t] = "done")
      /\ dur[t] <= i /\ i < bucket[t] /\ bucket[t] \in 1..Buckets + 1 /\ dur[t] \in Nat
  BY DEF Passed, IInv, Control, BucketInv, TypeOK, Durations
<1>2. CASE pc[t] = "done"
  <2>1. bucket[t] = Buckets + 1
    BY <1>1, <1>2 DEF IInv, Control, BucketInv, Past
  <2> QED BY <1>1, <1>2, <2>1 DEF Counted, Passed
<1>3. CASE Inside(t)
  BY <1>1, <1>3 DEF Inside, Touching
<1> QED BY <1>1, <1>2, <1>3

\* So much can a bucket be above a later one, and above the count.
LEMMA TearOfNow ==
    ASSUME IInv, NEW m, Touching(m) \subseteq overlap, NEW i \in 1..Buckets
    PROVE  /\ Cardinality(Passed(m, i)) <= Cardinality(Apart(m)) + Cardinality(overlap)
           /\ \A j \in 1..Buckets : i < j =>
                 Cardinality(Passed(m, i)) <= Cardinality(Passed(m, j)) + Cardinality(overlap)
<1>1. ASSUME NEW S, IsFiniteSet(S), Passed(m, i) \subseteq S \cup overlap
      PROVE  Cardinality(Passed(m, i)) <= Cardinality(S) + Cardinality(overlap)
  <2>1. /\ IsFiniteSet(S \cup overlap)
        /\ Cardinality(S \cup overlap) =
              Cardinality(S) + Cardinality(overlap) - Cardinality(S \cap overlap)
    BY <1>1, OverlapFinite, FS_Union
  <2>2. Cardinality(Passed(m, i)) <= Cardinality(S \cup overlap)
    BY <1>1, <2>1, FS_Subset
  <2>3. /\ Cardinality(S) \in Nat /\ Cardinality(S \cap overlap) \in Nat
    BY <1>1, FS_CardinalityType, FS_Intersection
  <2> QED BY <2>1, <2>2, <2>3, OverlapFinite
<1>2. Passed(m, i) \subseteq Apart(m) \cup overlap
  BY PassedOrAtWork DEF Apart
<1>3. \A j \in 1..Buckets : i < j => Passed(m, i) \subseteq Passed(m, j) \cup overlap
  BY PassedOrAtWork
<1> QED BY <1>1, <1>2, <1>3, OverlapFinite, RecordersFinite

LEMMA TearInit == Init => TearInv
BY DEF Init, TearInv

\* What the scraper reads is what the map shows at that moment.
LEMMA ReadsNow ==
    ASSUME IInv, scan \in {"count", "bucket"}
    PROVE  /\ method \in Methods
           /\ series[method][durations[method]] = Shown(method)
           /\ Shown(method).count = Cardinality(Counted(method))
           /\ \A i \in 1..Buckets : Shown(method).buckets[i] = Cardinality(Passed(method, i))
<1>1. durations[method] # None /\ method \in Methods
  BY DEF IInv, Control, ScanInv, TypeOK
<1> QED BY <1>1 DEF IInv, SeriesAreExact, Shown

LEMMA TearRender == ASSUME IInv, TearInv, LockRequests \/ Render PROVE TearInv'
<1> USE BoundAssumption DEF BoundAssumption
<1>0. UNCHANGED <<pc, prog, bucket, dur>>
  BY DEF LockRequests, Render, LockValidation, LockDurations, NextSeries, ReadCount,
         ReadBucket, ReadSum, Rendered, Unlock, mine
<1>1. CASE LockRequests \/ LockValidation \/ LockDurations \/ Rendered \/ Unlock
  BY <1>1 DEF TearInv, LockRequests, LockValidation, LockDurations, Rendered, Unlock, Step
<1>2. CASE NextSeries
  <2>1. PICK m \in left : method' = m /\ overlap' = {t \in Recorders : Inside(t) /\ MethodOf(t) = m}
    BY <1>2 DEF NextSeries
  <2>2. Touching(m) \subseteq overlap'
    BY <2>1 DEF Touching, Inside
  <2>3. scan' = "count" /\ Touching(method)' = Touching(m)
    BY <1>0, <1>2, <2>1 DEF NextSeries, Step, Touching, MethodOf
  <2> QED BY <2>2, <2>3 DEF TearInv
<1>3. CASE ReadCount
  <2>1. /\ scan = "count" /\ scan' = "bucket" /\ method' = method /\ overlap' = overlap
        /\ shown'.buckets = <<>> /\ shown'.count = Cardinality(Counted(method))
    BY <1>3, ReadsNow DEF ReadCount, Step
  <2>2. Touching(method) \subseteq overlap
    BY <2>1 DEF TearInv
  <2>3. Cardinality(Apart(method)) <= Cardinality(Counted(method))
    BY <2>2, RecordersFinite, FS_Subset DEF Apart
  <2>4. Touching(method)' = Touching(method) /\ Apart(method)' = Apart(method)
    BY <1>0, <2>1 DEF Touching, Apart, Counted, MethodOf
  <2> QED BY <2>1, <2>2, <2>3, <2>4 DEF TearInv
<1>4. CASE ReadBucket
  <2> DEFINE b == shown.buckets
             i == Len(b) + 1
  <2>1. /\ scan = "bucket" /\ scan' = "bucket" /\ method' = method /\ overlap' = overlap
        /\ i <= Buckets /\ shown \in [buckets : Seq(Nat), count : Nat, sum : Nat]
        /\ shown' = [shown EXCEPT !.buckets = Append(b, Cardinality(Passed(method, i)))]
    <3>1. shown \in [buckets : Seq(Nat), count : Nat, sum : Nat]
      BY DEF IInv, Control, TypeOK
    <3>2. scan = "bucket" /\ scan' = scan /\ method' = method /\ overlap' = overlap /\ i <= Buckets
      BY <1>4 DEF ReadBucket
    <3>3. i \in 1..Buckets
      BY <3>1, <3>2
    <3>4. series[method][durations[method]].buckets[i] = Cardinality(Passed(method, i))
      BY <3>2, <3>3, ReadsNow
    <3>5. shown' = [shown EXCEPT !.buckets = Append(b, series[method][durations[method]].buckets[i])]
      BY <1>4 DEF ReadBucket
    <3> QED BY <3>1, <3>2, <3>4, <3>5
  <2>2. /\ b \in Seq(Nat) /\ Len(b) \in Nat /\ i \in 1..Buckets
        /\ shown'.count = shown.count
        /\ shown'.buckets = Append(b, Cardinality(Passed(method, i)))
    BY <2>1
  <2>3. /\ Len(shown'.buckets) = i
        /\ shown'.buckets[i] = Cardinality(Passed(method, i))
        /\ \A k \in 1..Len(b) : shown'.buckets[k] = b[k] /\ b[k] \in Nat
    BY <2>2
  <2>4. Touching(method) \subseteq overlap /\ Cardinality(Apart(method)) <= shown.count
    BY <2>1 DEF TearInv
  <2>5. \A k \in 1..Len(b) : /\ b[k] <= Cardinality(Passed(method, k))
                             /\ b[k] <= shown.count + Cardinality(overlap)
    BY <2>1 DEF TearInv
  <2>6. \A k, l \in 1..Len(b) : k < l => b[k] <= b[l] + Cardinality(overlap)
    BY <2>1 DEF TearInv
  <2>7. shown'.buckets[i] <= shown.count + Cardinality(overlap)
    <3>1. Cardinality(Passed(method, i)) <= Cardinality(Apart(method)) + Cardinality(overlap)
      BY <2>2, <2>4, TearOfNow
    <3>2. /\ Cardinality(overlap) \in Nat /\ Cardinality(Apart(method)) \in Nat
          /\ Cardinality(Passed(method, i)) \in Nat /\ shown.count \in Nat
      BY OverlapFinite DEF IInv, Control, TypeOK
    <3> QED BY <2>3, <2>4, <3>1, <3>2
  <2>8. \A k \in 1..Len(b) : b[k] <= shown'.buckets[i] + Cardinality(overlap)
    <3> TAKE k \in 1..Len(b)
    <3>1. k \in 1..Buckets /\ k < i
      BY <2>2
    <3>2. Cardinality(Passed(method, k)) <= Cardinality(Passed(method, i)) + Cardinality(overlap)
      BY <2>2, <2>4, <3>1, TearOfNow
    <3>3. /\ Cardinality(overlap) \in Nat /\ Cardinality(Passed(method, i)) \in Nat
          /\ Cardinality(Passed(method, k)) \in Nat
      BY OverlapFinite
    <3>4. b[k] \in Nat /\ b[k] <= Cardinality(Passed(method, k))
      BY <2>3, <2>5
    <3> QED BY <2>3, <3>2, <3>3, <3>4
  <2>9. \A k \in 1..i : /\ shown'.buckets[k] <= Cardinality(Passed(method, k))
                        /\ shown'.buckets[k] <= shown.count + Cardinality(overlap)
    <3> TAKE k \in 1..i
    <3>1. CASE k = i
      BY <3>1, <2>3, <2>7, OverlapFinite
    <3>2. CASE k # i
      BY <3>2, <2>2, <2>3, <2>5
    <3> QED BY <3>1, <3>2
  <2>10. \A k, l \in 1..i : k < l => shown'.buckets[k] <= shown'.buckets[l] + Cardinality(overlap)
    <3> TAKE k, l \in 1..i
    <3>1. CASE l = i
      BY <3>1, <2>2, <2>3, <2>8
    <3>2. CASE l # i
      BY <3>2, <2>2, <2>3, <2>6
    <3> QED BY <3>1, <3>2
  <2>11. /\ Touching(method)' = Touching(method) /\ Apart(method)' = Apart(method)
         /\ \A k : Passed(method, k)' = Passed(method, k)
    BY <1>0, <2>1 DEF Touching, Apart, Counted, Passed, Inside, MethodOf
  <2>12. Len(shown'.buckets) <= Buckets /\ scan' # "shown"
    BY <2>1, <2>3
  <2> QED BY <2>1, <2>2, <2>3, <2>4, <2>9, <2>10, <2>11, <2>12 DEF TearInv
<1>5. CASE ReadSum
  <2>1. /\ scan = "bucket" /\ scan' = "shown" /\ method' = method /\ overlap' = overlap
        /\ shown'.buckets = shown.buckets /\ shown'.count = shown.count
        /\ Len(shown.buckets) = Buckets
    BY <1>5 DEF ReadSum, Step, IInv, Control, TypeOK
  <2>2. /\ Touching(method)' = Touching(method) /\ Apart(method)' = Apart(method)
        /\ \A k : Passed(method, k)' = Passed(method, k)
    BY <1>0, <2>1 DEF Touching, Apart, Counted, Passed, Inside, MethodOf
  <2> QED BY <2>1, <2>2 DEF TearInv
<1> QED BY <1>1, <1>2, <1>3, <1>4, <1>5 DEF Render

\* A recorder leaves what was read alone.  It may get past buckets, and it is noted before
\* its writing could tell.
LEMMA TearFrame ==
    ASSUME IInv, IInv', TearInv, UNCHANGED scraper, overlap \subseteq overlap',
           Touching(method)' \subseteq Touching(method) \cup overlap',
           \A i \in 1..Buckets : Passed(method, i) \subseteq Passed(method, i)',
           Apart(method)' \subseteq Apart(method)
    PROVE  TearInv'
<1> USE BoundAssumption DEF BoundAssumption
<1>1. UNCHANGED <<scan, method, shown>> /\ shown.buckets \in Seq(Nat) /\ shown.count \in Nat
  BY DEF scraper, IInv, Control, TypeOK
<1>2. /\ IsFiniteSet(overlap') /\ Cardinality(overlap) <= Cardinality(overlap')
      /\ Cardinality(overlap) \in Nat /\ Cardinality(overlap') \in Nat
  <2>1. IsFiniteSet(overlap') /\ Cardinality(overlap') \in Nat
    <3>1. overlap' \in SUBSET Recorders
      BY DEF IInv, Control, TypeOK
    <3> QED BY <3>1, FS_Subset, FS_CardinalityType, RecordersAssumption DEF RecordersAssumption
  <2> QED BY <2>1, FS_Subset, OverlapFinite
<1>3. /\ Cardinality(Apart(method)') <= Cardinality(Apart(method))
      /\ Cardinality(Apart(method)') \in Nat /\ Cardinality(Apart(method)) \in Nat
  BY FS_Subset, FS_CardinalityType, OverlapFinite
<1>4. \A i \in 1..Buckets : /\ Cardinality(Passed(method, i)) <= Cardinality(Passed(method, i)')
                            /\ Cardinality(Passed(method, i)) \in Nat
                            /\ Cardinality(Passed(method, i)') \in Nat
  <2> TAKE i \in 1..Buckets
  <2>1. Passed(method, i)' \in SUBSET Recorders
    BY DEF Passed
  <2>2. IsFiniteSet(Passed(method, i)')
    BY <2>1, FS_Subset, RecordersAssumption DEF RecordersAssumption
  <2> QED BY <2>2, FS_Subset, FS_CardinalityType, OverlapFinite
<1>5. scan \in {"count", "bucket", "shown"} => Touching(method)' \subseteq overlap'
  BY DEF TearInv
<1>6. ASSUME scan \in {"bucket", "shown"}
      PROVE  /\ Len(shown.buckets) <= Buckets
             /\ \A i \in 1..Len(shown.buckets) :
                   /\ shown.buckets[i] <= Cardinality(Passed(method, i)')
                   /\ shown.buckets[i] <= shown.count + Cardinality(overlap')
             /\ \A i, j \in 1..Len(shown.buckets) :
                   i < j => shown.buckets[i] <= shown.buckets[j] + Cardinality(overlap')
             /\ Cardinality(Apart(method)') <= shown.count
  <2>1. Len(shown.buckets) <= Buckets /\ Len(shown.buckets) \in Nat
    BY <1>1, <1>6 DEF TearInv
  <2>2. \A i \in 1..Len(shown.buckets) : i \in 1..Buckets /\ shown.buckets[i] \in Nat
    BY <1>1, <2>1
  <2>3. \A i \in 1..Len(shown.buckets) :
            /\ shown.buckets[i] <= Cardinality(Passed(method, i))
            /\ shown.buckets[i] <= shown.count + Cardinality(overlap)
    BY <1>6 DEF TearInv
  <2>4. \A i, j \in 1..Len(shown.buckets) :
            i < j => shown.buckets[i] <= shown.buckets[j] + Cardinality(overlap)
    BY <1>6 DEF TearInv
  <2>5. Cardinality(Apart(method)) <= shown.count
    BY <1>6 DEF TearInv
  <2>6. ASSUME NEW i \in 1..Len(shown.buckets)
        PROVE  /\ shown.buckets[i] <= Cardinality(Passed(method, i)')
               /\ shown.buckets[i] <= shown.count + Cardinality(overlap')
    <3>1. /\ shown.buckets[i] \in Nat
          /\ shown.buckets[i] <= Cardinality(Passed(method, i))
          /\ shown.buckets[i] <= shown.count + Cardinality(overlap)
      BY <2>2, <2>3
    <3>2. shown.buckets[i] <= Cardinality(Passed(method, i)')
      <4>1. i \in 1..Buckets
        BY <2>2
      <4>2. /\ Cardinality(Passed(method, i)) <= Cardinality(Passed(method, i)')
            /\ Cardinality(Passed(method, i)) \in Nat /\ Cardinality(Passed(method, i)') \in Nat
        BY <1>4, <4>1
      <4> QED BY <3>1, <4>2
    <3>3. shown.buckets[i] <= shown.count + Cardinality(overlap')
      BY <1>1, <1>2, <3>1
    <3> QED BY <3>2, <3>3
  <2>7. ASSUME NEW i \in 1..Len(shown.buckets), NEW j \in 1..Len(shown.buckets), i < j
        PROVE  shown.buckets[i] <= shown.buckets[j] + Cardinality(overlap')
    BY <1>2, <2>2, <2>4, <2>7
  <2>8. Cardinality(Apart(method)') <= shown.count
    BY <1>1, <1>3, <2>5
  <2> QED BY <2>1, <2>6, <2>7, <2>8
<1>7. scan = "shown" => Len(shown.buckets) = Buckets
  BY DEF TearInv
<1>8. method' = method
  BY <1>1
<1> QED BY <1>1, <1>5, <1>6, <1>7, <1>8 DEF TearInv

\* Before a recorder gets to its series it has touched none.
LEMMA TearBefore ==
    ASSUME IInv, IInv', TearInv, NEW t \in Recorders,
           Begin(t) \/ LookupHit(t) \/ LookupMiss(t) \/ Register(t) \/ Add(t) \/ Find(t) \/ Create(t)
    PROVE  TearInv'
<1>1. /\ UNCHANGED <<scraper, overlap, bucket>>
      /\ pc[t] \notin Past \cup {"bucket"} /\ pc'[t] \notin Past
      /\ \A u \in Recorders \ {t} : pc'[u] = pc[u] /\ prog'[u] = prog[u] /\ dur'[u] = dur[u]
  <2> USE DEF Goto, mine, Past
  <2>0. DOMAIN pc = Recorders /\ DOMAIN prog = Recorders /\ DOMAIN dur = Recorders
    BY DEF IInv, Control, TypeOK
  <2>1. CASE Begin(t)
    BY <2>0, <2>1 DEF Begin
  <2>2. CASE LookupHit(t) \/ LookupMiss(t)
    BY <2>0, <2>2 DEF LookupHit, LookupMiss
  <2>3. CASE Register(t)
    BY <2>0, <2>3 DEF Register
  <2>4. CASE Add(t)
    BY <2>0, <2>4 DEF Add
  <2>5. CASE Find(t) \/ Create(t)
    BY <2>0, <2>5 DEF Find, Create
  <2> QED BY <2>1, <2>2, <2>3, <2>4, <2>5
<1>2. bucket[t] = 1 /\ bucket'[t] = 1 /\ dur'[t] \in Durations
  BY <1>1 DEF IInv, Control, BucketInv, TypeOK
<1>3. Touching(method)' = Touching(method) /\ Counted(method)' = Counted(method)
  BY <1>1, <1>2 DEF Touching, Counted, MethodOf, Past, scraper
<1>4. \A i \in 1..Buckets : Passed(method, i) \subseteq Passed(method, i)'
  BY <1>1, <1>2 DEF Passed, Inside, MethodOf, Past, scraper
<1>5. Apart(method)' = Apart(method)
  BY <1>1, <1>3 DEF Apart
<1> QED BY <1>1, <1>3, <1>4, <1>5, TearFrame

\* Within its series it is noted with every write, if that is the one being read.
LEMMA TearWithin ==
    ASSUME IInv, IInv', TearInv, NEW t \in Recorders,
           Bump(t) \/ Count(t) \/ Load(t) \/ Exchange(t) \/ ExchangeFails(t)
    PROVE  TearInv'
<1> USE BoundAssumption DEF BoundAssumption
<1>1. /\ UNCHANGED <<scraper, prog, dur>>
      /\ Inside(t) /\ (Inside(t)' \/ pc'[t] = "done")
      /\ bucket[t] \in Nat /\ bucket'[t] \in {bucket[t], bucket[t] + 1}
      /\ \A u \in Recorders \ {t} : pc'[u] = pc[u] /\ bucket'[u] = bucket[u]
  <2> USE DEF Goto, mine, Inside
  <2>0. DOMAIN pc = Recorders /\ bucket \in [Recorders -> Nat]
    BY DEF IInv, Control, TypeOK
  <2>1. CASE Bump(t)
    BY <2>0, <2>1 DEF Bump
  <2>2. CASE Count(t)
    BY <2>0, <2>2 DEF Count
  <2>3. CASE Load(t)
    BY <2>0, <2>3 DEF Load
  <2>4. CASE Exchange(t)
    BY <2>0, <2>4 DEF Exchange
  <2>5. CASE ExchangeFails(t)
    BY <2>0, <2>5 DEF ExchangeFails
  <2> QED BY <2>1, <2>2, <2>3, <2>4, <2>5
<1>2. \/ overlap' = IF MethodOf(t) = method THEN overlap \cup {t} ELSE overlap
      \/ /\ overlap' = overlap /\ bucket' = bucket
         /\ pc[t] \in {"load", "exchange"} /\ pc'[t] \in {"load", "exchange"}
  BY DEF IInv, Control, TypeOK, Bump, Count, Load, Exchange, ExchangeFails, Goto, mine, Enters
<1>3. overlap \subseteq overlap'
  BY <1>2
<1>4. method' = method /\ \A u \in Recorders : MethodOf(u)' = MethodOf(u)
  BY <1>1 DEF scraper, MethodOf
<1>5. Touching(method)' \subseteq Touching(method) \cup overlap'
  BY <1>1, <1>2, <1>4 DEF Touching
<1>6. \A i \in 1..Buckets : Passed(method, i) \subseteq Passed(method, i)'
  BY <1>1, <1>4 DEF Passed, Inside
<1>7. Apart(method)' \subseteq Apart(method)
  BY <1>1, <1>2, <1>3, <1>4 DEF Apart, Counted, Touching
<1> QED BY <1>1, <1>3, <1>5, <1>6, <1>7, TearFrame

LEMMA TearNext == IInv /\ IInv' /\ TearInv /\ [Next]_vars => TearInv'
<1> SUFFICES ASSUME IInv, IInv', TearInv, [Next]_vars PROVE TearInv'
  OBVIOUS
<1>1. CASE LockRequests \/ Render
  BY <1>1, TearRender
<1>2. ASSUME NEW t \in Recorders, Begin(t) \/ Recorder(t) PROVE TearInv'
  BY <1>2, TearBefore, TearWithin DEF Recorder
<1>3. CASE UNCHANGED vars
  <2>1. UNCHANGED <<scraper, overlap, pc, prog, bucket, dur>>
    BY <1>3 DEF vars, mine
  <2>2. /\ Touching(method)' = Touching(method) /\ Apart(method)' = Apart(method)
        /\ \A i : Passed(method, i)' = Passed(method, i)
    BY <2>1 DEF scraper, Touching, Apart, Counted, Passed, Inside, MethodOf
  <2> QED BY <2>1, <2>2, TearFrame
<1> QED BY <1>1, <1>2, <1>3 DEF Next

-----------------------------------------------------------------------------
(* The sum of a histogram.                                                 *)

\* The recorders that have put their duration into the sum of m.
Done(m) == {t \in Recorders : pc[t] = "done" /\ MethodOf(t) = m}

\* The property, in terms of SumOf.
LEMMA SumsByRecorder == SumIsExact <=> \A m \in Methods : Shown(m).sum = SumOf(dur, Done(m))
BY DEF SumIsExact, SumOf, Done, MapThenSumSet, MapThenFoldSet

LEMMA DoneFinite ==
    ASSUME IInv, NEW m
    PROVE  IsFiniteSet(Done(m)) /\ \A t \in Recorders : dur[t] \in Nat
<1>1. Done(m) \in SUBSET Recorders
  BY DEF Done
<1>2. IsFiniteSet(Done(m))
  BY <1>1, FS_Subset, RecordersAssumption DEF RecordersAssumption
<1> QED BY <1>2, BoundAssumption DEF IInv, Control, TypeOK, Durations, BoundAssumption

LEMMA SumInit == Init => SumIsExact
<1> SUFFICES ASSUME Init PROVE SumIsExact
  OBVIOUS
<1>1. ASSUME NEW m \in Methods PROVE Shown(m).sum = 0 /\ Done(m) = {}
  BY DEF Init, Shown, Done, NewSeries
<1> QED BY <1>1, SumOfEmpty, SumsByRecorder

\* A step that touches no sum, and no duration that is in one.
LEMMA SumFrame ==
    ASSUME IInv, IInv', SumIsExact,
           \A m \in Methods : /\ Shown(m)'.sum = Shown(m).sum
                              /\ Done(m)' = Done(m)
                              /\ \A t \in Done(m) : dur'[t] = dur[t]
    PROVE  SumIsExact'
<1>1. ASSUME NEW m \in Methods PROVE Shown(m)'.sum = SumOf(dur', Done(m)')
  <2>1. IsFiniteSet(Done(m)) /\ \A t \in Done(m) : dur[t] \in Nat /\ dur'[t] = dur[t]
    BY DoneFinite DEF Done
  <2>2. SumOf(dur', Done(m)) = SumOf(dur, Done(m))
    BY <2>1, SumOfSame
  <2> QED BY <2>2, SumsByRecorder
<1>2. SumIsExact' <=> \A m \in Methods : Shown(m)'.sum = SumOf(dur', Done(m)')
  BY DEF SumIsExact, SumOf, Done, MapThenSumSet, MapThenFoldSet
<1> QED BY <1>1, <1>2

\* What lies outside its series a recorder does without touching sums.
LEMMA SumOutside ==
    ASSUME IInv, IInv', SumIsExact, NEW t \in Recorders,
           Begin(t) \/ LookupHit(t) \/ LookupMiss(t) \/ Register(t) \/ Add(t) \/ Find(t)
    PROVE  SumIsExact'
<1>1. /\ UNCHANGED <<durations, series>>
      /\ pc[t] \in {"idle", "lookup", "guarded", "register", "add", "find"} /\ pc'[t] # "done"
      /\ \A u \in Recorders \ {t} : pc'[u] = pc[u] /\ prog'[u] = prog[u] /\ dur'[u] = dur[u]
  <2> USE DEF Goto, mine
  <2>0. DOMAIN pc = Recorders /\ DOMAIN prog = Recorders /\ DOMAIN dur = Recorders
    BY DEF IInv, Control, TypeOK
  <2>1. CASE Begin(t)
    BY <2>0, <2>1 DEF Begin, registry
  <2>2. CASE LookupHit(t) \/ LookupMiss(t)
    BY <2>0, <2>2 DEF LookupHit, LookupMiss, registry
  <2>3. CASE Register(t)
    BY <2>0, <2>3 DEF Register
  <2>4. CASE Add(t)
    BY <2>0, <2>4 DEF Add
  <2>5. CASE Find(t)
    BY <2>0, <2>5 DEF Find, registry
  <2> QED BY <2>1, <2>2, <2>3, <2>4, <2>5
<1>2. \A m \in Methods : Shown(m)' = Shown(m)
  BY <1>1 DEF Shown
<1>3. \A m \in Methods : Done(m)' = Done(m) /\ t \notin Done(m)
  BY <1>1 DEF Done, MethodOf
<1>4. \A m \in Methods : \A u \in Done(m) : dur'[u] = dur[u]
  BY <1>1, <1>3 DEF Done
<1> QED BY <1>2, <1>3, <1>4, SumFrame

\* A series that enters the map has an empty sum, as no series had.
LEMMA SumCreate == ASSUME IInv, IInv', SumIsExact, NEW t \in Recorders, Create(t) PROVE SumIsExact'
<1>1. /\ pc[t] = "create" /\ pc' = [pc EXCEPT ![t] = "bucket"]
      /\ UNCHANGED <<series, prog, dur>> /\ DOMAIN pc = Recorders
      /\ durations \in [Methods -> Recorders \cup {None}]
      /\ \E s \in Recorders : durations' = [durations EXCEPT ![MethodOf(t)] = s]
      /\ durations[MethodOf(t)] # None => durations' = durations
  BY Labelled DEF Create, Goto, IInv, Control, TypeOK
<1>2. \A m \in Methods : Shown(m)'.sum = Shown(m).sum
  <2> SUFFICES ASSUME NEW m \in Methods PROVE Shown(m)'.sum = Shown(m).sum
    OBVIOUS
  <2>1. CASE durations'[m] = durations[m]
    BY <1>1, <2>1 DEF Shown
  <2>2. CASE durations'[m] # durations[m]
    <3>1. durations[m] = None /\ durations'[m] \in Recorders /\ durations'[m] # None
      BY <1>1, <2>2, RecordersAssumption DEF RecordersAssumption
    <3>2. series[m][durations'[m]] = NewSeries
      BY <3>1 DEF IInv, Control, FreshInv
    <3> QED BY <1>1, <3>1, <3>2 DEF Shown
  <2> QED BY <2>1, <2>2
<1>3. \A m \in Methods : Done(m)' = Done(m)
  BY <1>1 DEF Done, MethodOf
<1> QED BY <1>1, <1>2, <1>3, SumFrame

\* Buckets and counts are apart from the sum; what was read of it is not written back yet.
LEMMA SumInside ==
    ASSUME IInv, IInv', SumIsExact, NEW t \in Recorders,
           Bump(t) \/ Count(t) \/ Load(t) \/ ExchangeFails(t)
    PROVE  SumIsExact'
<1>1. /\ pc[t] \in {"bucket", "load", "exchange"} /\ pc'[t] # "done"
      /\ \A u \in Recorders \ {t} : pc'[u] = pc[u]
      /\ UNCHANGED <<durations, prog, dur>>
  <2>0. DOMAIN pc = Recorders
    BY DEF IInv, Control, TypeOK
  <2> QED BY <2>0 DEF Bump, Count, Load, ExchangeFails, Goto, mine, registry
<1>2. \A m \in Methods : Shown(m)'.sum = Shown(m).sum
  <2> DEFINE old == series[MethodOf(t)][held[t]]
  <2>1. /\ MethodOf(t) \in Methods /\ held[t] \in Recorders
        /\ durations[MethodOf(t)] = held[t] /\ held[t] # None /\ old \in Series
        /\ series \in [Methods -> [Recorders -> Series]]
    BY <1>1, HeldSeries DEF IInv, Control, TypeOK
  <2>2. \/ series' = series
        \/ series' = [series EXCEPT ![MethodOf(t)][held[t]].buckets[bucket[t]] = @ + 1]
        \/ series' = [series EXCEPT ![MethodOf(t)][held[t]].count = @ + 1]
    BY DEF Bump, Count, Load, ExchangeFails, registry
  <2> HIDE DEF old
  <2>3. \E new : /\ new.sum = old.sum
                 /\ \/ series' = series
                    \/ series' = [series EXCEPT ![MethodOf(t)] =
                                      [series[MethodOf(t)] EXCEPT ![held[t]] = new]]
    <3>1. CASE series' = [series EXCEPT ![MethodOf(t)][held[t]].buckets[bucket[t]] = @ + 1]
      <4> DEFINE new == [old EXCEPT !.buckets[bucket[t]] = @ + 1]
      <4>1. new.sum = old.sum
        BY <2>1 DEF Series
      <4>2. series' = [series EXCEPT ![MethodOf(t)] =
                           [series[MethodOf(t)] EXCEPT ![held[t]] = new]]
        BY <3>1 DEF old
      <4> HIDE DEF new
      <4> QED BY <4>1, <4>2
    <3>2. CASE series' = [series EXCEPT ![MethodOf(t)][held[t]].count = @ + 1]
      <4> DEFINE new == [old EXCEPT !.count = @ + 1]
      <4>1. new.sum = old.sum
        BY <2>1 DEF Series
      <4>2. series' = [series EXCEPT ![MethodOf(t)] =
                           [series[MethodOf(t)] EXCEPT ![held[t]] = new]]
        BY <3>2 DEF old
      <4> HIDE DEF new
      <4> QED BY <4>1, <4>2
    <3>3. CASE series' = series
      BY <3>3
    <3> QED BY <2>2, <3>1, <3>2, <3>3
  <2>4. \A m \in Methods, u \in Recorders : series'[m][u].sum = series[m][u].sum
    BY <2>1, <2>3 DEF old
  <2> QED BY <1>1, <2>1, <2>4 DEF Shown, IInv, Control, TypeOK
<1>3. \A m \in Methods : Done(m)' = Done(m)
  BY <1>1 DEF Done, MethodOf
<1> QED BY <1>1, <1>2, <1>3, SumFrame

\* The exchange adds its duration to what it found, which nobody has changed since.
LEMMA SumExchange ==
    ASSUME IInv, IInv', SumIsExact, NEW t \in Recorders, Exchange(t) PROVE SumIsExact'
<1>0. PICK k \in Methods : k = MethodOf(t)
  BY HeldSeries DEF Exchange, Goto
<1> DEFINE old == series[k][held[t]]
           new == [old EXCEPT !.sum = current[t] + dur[t]]
<1>1. /\ pc[t] = "exchange" /\ pc' = [pc EXCEPT ![t] = "done"] /\ DOMAIN pc = Recorders
      /\ old.sum = current[t]
      /\ series' = [series EXCEPT ![k] = [series[k] EXCEPT ![held[t]] = new]]
      /\ UNCHANGED <<durations, prog, dur>>
      /\ dur[t] \in Nat /\ current[t] \in Nat
  <2>1. DOMAIN pc = Recorders /\ dur[t] \in Nat /\ current[t] \in Nat
    BY BoundAssumption DEF IInv, Control, TypeOK, Durations, BoundAssumption
  <2>2. series' = [series EXCEPT ![k] = [series[k] EXCEPT ![held[t]] = new]]
    BY <1>0 DEF Exchange
  <2>3. pc[t] = "exchange" /\ pc' = [pc EXCEPT ![t] = "done"] /\ old.sum = current[t]
    BY <1>0 DEF Exchange, Goto
  <2>4. UNCHANGED <<durations, prog, dur>>
    BY DEF Exchange, mine
  <2> QED BY <2>1, <2>2, <2>3, <2>4
<1>2. held[t] \in Recorders /\ old \in Series
  BY <1>0, <1>1, HeldSeries
<1>3. new \in Series /\ new.sum = old.sum + dur[t]
  BY <1>1, <1>2 DEF Series
<1>4. /\ Shown(k)' = new /\ Shown(k) = old
      /\ \A m \in Methods \ {k} : Shown(m)' = Shown(m)
  <2> HIDE DEF new
  <2>1. \A m \in Methods :
            /\ m = MethodOf(t) => Shown(m)' = new /\ Shown(m) = series[m][held[t]]
            /\ m # MethodOf(t) => Shown(m)' = Shown(m)
    BY <1>0, <1>1, <1>3, SeriesUpdate
  <2>2. Shown(k)' = new /\ Shown(k) = old
    BY <1>0, <2>1
  <2>3. \A m \in Methods \ {k} : Shown(m)' = Shown(m)
    BY <1>0, <2>1
  <2> QED BY <2>2, <2>3
<1>5. /\ Done(k)' = Done(k) \cup {t} /\ t \notin Done(k)
      /\ \A m \in Methods \ {k} : Done(m)' = Done(m)
  BY <1>0, <1>1 DEF Done, MethodOf
<1>6. ASSUME NEW m \in Methods PROVE Shown(m)'.sum = SumOf(dur, Done(m)')
  <2>1. Shown(m).sum = SumOf(dur, Done(m))
    BY SumsByRecorder
  <2>2. CASE m = k
    <3>1. /\ IsFiniteSet(Done(k)) /\ t \notin Done(k)
          /\ \A u \in Done(k) \cup {t} : dur[u] \in Nat
      BY <1>5, DoneFinite DEF Done
    <3>2. SumOf(dur, Done(k) \cup {t}) = SumOf(dur, Done(k)) + dur[t]
      BY <3>1, SumOfAdd
    <3>3. Shown(k)'.sum = Shown(k).sum + dur[t]
      <4> HIDE DEF new, old
      <4> QED BY <1>3, <1>4
    <3>4. SumOf(dur, Done(k)') = SumOf(dur, Done(k)) + dur[t]
      BY <1>5, <3>2
    <3>5. Shown(k)'.sum = SumOf(dur, Done(k)')
      BY <2>1, <2>2, <3>3, <3>4
    <3> QED BY <2>2, <3>5
  <2>3. CASE m # k
    BY <1>4, <1>5, <2>1, <2>3
  <2> QED BY <2>2, <2>3
<1>7. SumIsExact' <=> \A m \in Methods : Shown(m)'.sum = SumOf(dur', Done(m)')
  BY DEF SumIsExact, SumOf, Done, MapThenSumSet, MapThenFoldSet
<1> QED BY <1>1, <1>6, <1>7

LEMMA SumNext == IInv /\ IInv' /\ SumIsExact /\ [Next]_vars => SumIsExact'
<1> SUFFICES ASSUME IInv, IInv', SumIsExact, [Next]_vars PROVE SumIsExact'
  OBVIOUS
<1>1. CASE LockRequests \/ Render \/ UNCHANGED vars
  <2>1. UNCHANGED <<durations, series, pc, prog, dur>>
    BY <1>1 DEF LockRequests, Render, LockValidation, LockDurations, NextSeries, ReadCount,
                ReadBucket, ReadSum, Rendered, Unlock, registry, mine, vars
  <2>2. \A m \in Methods : Shown(m)' = Shown(m) /\ Done(m)' = Done(m)
    BY <2>1 DEF Shown, Done, MethodOf
  <2> QED BY <2>1, <2>2, SumFrame
<1>2. ASSUME NEW t \in Recorders, Begin(t) \/ Recorder(t) PROVE SumIsExact'
  BY <1>2, SumOutside, SumCreate, SumInside, SumExchange DEF Recorder
<1> QED BY <1>1, <1>2 DEF Next

-----------------------------------------------------------------------------
\* Every variable keeps its type; in particular nobody reads or bumps what a
\* map does not hold (read_metrics and write_metrics in Metrics).
THEOREM TypeCorrect == Spec => []TypeOK
<1>1. IInv => TypeOK
  BY DEF IInv, Control
<1> QED BY <1>1, Invariance, PTL

\* No increment of a counter is lost or counted twice, for any number of
\* responses and any labels (record_request and the loop over validation
\* errors).
THEOREM CountersAreExactHolds == Spec => []CountersAreExact
<1>1. IInv => CountersAreExact
  BY DEF IInv
<1> QED BY <1>1, Invariance, PTL

\* Every bucket and the count of a histogram are exact, for any number of
\* responses, methods and buckets (record_duration).
THEOREM SeriesAreExactHolds == Spec => []SeriesAreExact
<1>1. IInv => SeriesAreExact
  BY DEF IInv
<1> QED BY <1>1, Invariance, PTL

\* A scrape is off by at most one per recording that overlaps the reading of its series, for
\* any number of responses and buckets (render against record_duration).
THEOREM TearIsBoundedHolds == Spec => []TearIsBounded
<1>1. IInv /\ TearInv => TearIsBounded
  <2> SUFFICES ASSUME IInv, TearInv, scan = "shown"
               PROVE  /\ \A i, j \in 1..Buckets :
                            i < j => shown.buckets[i] <= shown.buckets[j] + Cardinality(overlap)
                      /\ shown.buckets[Buckets] <= shown.count + Cardinality(overlap)
    BY DEF TearIsBounded
  <2>1. Len(shown.buckets) = Buckets /\ Buckets \in 1..Buckets
    BY BoundAssumption DEF TearInv, BoundAssumption
  <2> QED BY <2>1 DEF TearInv
<1> QED BY <1>1, TearInit, TearNext, Invariance, PTL DEF Spec

\* The sum of a histogram is the sum of the durations whose exchange succeeded, however the
\* loads and exchanges of any number of responses interleave (the compare-and-exchange loop
\* of record_duration).
THEOREM SumIsExactHolds == Spec => []SumIsExact
<1> QED BY SumInit, SumNext, Invariance, PTL DEF Spec
===============================================================================
