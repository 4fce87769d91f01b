------------------------ MODULE RequestLifecycle_proofs ------------------------
(***************************************************************************)
(* Proofs about RequestLifecycle, for every finite set of requests and      *)
(* every limit: permits and the gauge survive every way a request can be    *)
(* dropped, and what is counted is what was answered.                       *)
(***************************************************************************)
EXTENDS RequestLifecycle, FiniteSetTheorems, SequenceTheorems, TLAPS

Stages == {"new", "queued", "granted", "body", "delay", "answered", "gone"}

Permitted(e) == {r \in At(e) : HasPermit(r)}
Handled == {r \in Requests : InHandler(r)}
Answered(s) == {r \in Requests : seen[r] = s}

\* The queue of an endpoint holds requests of it that wait, each of them once.
QueueInv ==
    \A e \in Endpoints :
        /\ \A i \in 1..Len(queue[e]) : pc[queue[e][i]] = "queued" /\ queue[e][i] \in At(e)
        /\ \A i, j \in 1..Len(queue[e]) : i < j => queue[e][i] # queue[e][j]

\* Only a request that was answered has an answer, and the handler knows what
\* to answer when it sleeps.
AnswerInv ==
    \A r \in Requests :
        /\ seen[r] # None => pc[r] = "answered"
        /\ pc[r] = "delay" => status[r] \in Codes

IInv == /\ TypeOK /\ QueueInv /\ AnswerInv
        /\ PermitsConserved /\ GaugeIsExact /\ CountsMatchAnswers

LEMMA Finite ==
    /\ \A e : IsFiniteSet(Permitted(e))
    /\ IsFiniteSet(Handled)
    /\ \A s : IsFiniteSet(Answered(s))
<1>1. /\ \A e : Permitted(e) \in SUBSET Requests
      /\ Handled \in SUBSET Requests
      /\ \A s : Answered(s) \in SUBSET Requests
  BY DEF Permitted, At, Handled, Answered
<1> QED BY <1>1, FS_Subset, RequestsAssumption DEF RequestsAssumption

\* Removing an element keeps the others, in order.
LEMMA Removal ==
    ASSUME NEW s \in Seq(Requests), NEW i \in 1..Len(s)
    PROVE  /\ RemoveAt(s, i) \in Seq(Requests)
           /\ Len(RemoveAt(s, i)) = Len(s) - 1
           /\ \A j \in 1..Len(s) - 1 :
                 RemoveAt(s, i)[j] = IF j < i THEN s[j] ELSE s[j + 1]
<1>1. /\ SubSeq(s, 1, i - 1) \in Seq(Requests) /\ Len(SubSeq(s, 1, i - 1)) = i - 1
      /\ \A j \in 1..i - 1 : SubSeq(s, 1, i - 1)[j] = s[j]
  OBVIOUS
<1>2. /\ SubSeq(s, i + 1, Len(s)) \in Seq(Requests)
      /\ Len(SubSeq(s, i + 1, Len(s))) = Len(s) - i
      /\ \A j \in 1..Len(s) - i : SubSeq(s, i + 1, Len(s))[j] = s[i + j]
  OBVIOUS
<1>3. Len(s) \in Nat
  OBVIOUS
<1> DEFINE u == SubSeq(s, 1, i - 1)
           v == SubSeq(s, i + 1, Len(s))
<1> HIDE DEF u, v
<1>4. /\ u \in Seq(Requests) /\ Len(u) = i - 1 /\ \A j \in 1..i - 1 : u[j] = s[j]
      /\ v \in Seq(Requests) /\ Len(v) = Len(s) - i
      /\ \A j \in 1..Len(s) - i : v[j] = s[i + j]
  BY <1>1, <1>2 DEF u, v
<1>5. /\ u \o v \in Seq(Requests)
      /\ Len(u \o v) = Len(u) + Len(v)
      /\ \A j \in 1..Len(u) + Len(v) :
            (u \o v)[j] = IF j <= Len(u) THEN u[j] ELSE v[j - Len(u)]
  BY <1>4, ConcatProperties, Zenon
<1>6. Len(u \o v) = Len(s) - 1
  BY <1>3, <1>4, <1>5
<1>7. ASSUME NEW j \in 1..Len(s) - 1
      PROVE  (u \o v)[j] = IF j < i THEN s[j] ELSE s[j + 1]
  <2>1. (u \o v)[j] = IF j <= i - 1 THEN u[j] ELSE v[j - (i - 1)]
    BY <1>3, <1>4, <1>5
  <2>2. CASE j < i
    BY <1>3, <1>4, <2>1, <2>2
  <2>3. CASE ~(j < i)
    <3>1. j - (i - 1) \in 1..Len(s) - i /\ i + (j - (i - 1)) = j + 1
      BY <1>3, <2>3
    <3> QED BY <1>3, <1>4, <2>1, <2>3, <3>1
  <2> QED BY <2>2, <2>3
<1>8. RemoveAt(s, i) = u \o v
  BY DEF RemoveAt, u, v
<1> QED BY <1>5, <1>6, <1>7, <1>8
-----------------------------------------------------------------------------
LEMMA InitInv == Init => IInv
<1> SUFFICES ASSUME Init PROVE IInv
  OBVIOUS
<1>0. MaxConnections \in Nat /\ MaxConnections \in 0..MaxConnections
  BY LimitAssumption DEF LimitAssumption
<1>1. TypeOK
  <2>1. /\ queue \in [Endpoints -> Seq(Requests)]
        /\ permits \in [Endpoints -> 0..MaxConnections]
    BY <1>0 DEF Init
  <2> QED BY <1>0, <2>1 DEF Init, TypeOK, Stages
<1>2. QueueInv /\ AnswerInv
  BY DEF Init, QueueInv, AnswerInv
<1>3. (\A e : Permitted(e) = {}) /\ {r \in Requests : InHandler(r)} = {}
  BY DEF Init, Permitted, At, HasPermit, InHandler
<1>4. PermitsConserved /\ GaugeIsExact
  <2>1. inflight = 0 /\ \A e \in Endpoints : permits[e] = MaxConnections /\ queue[e] = <<>>
    BY DEF Init
  <2>2. Cardinality({}) = 0 /\ MaxConnections + 0 = MaxConnections
    BY <1>0, FS_EmptySet
  <2>3. \A e \in Endpoints : permits[e] + Cardinality(Permitted(e)) = MaxConnections
    BY <1>3, <2>1, <2>2
  <2> QED BY <1>3, <2>1, <2>2, <2>3 DEF PermitsConserved, Permitted, GaugeIsExact
<1>5. \A s \in Codes : {r \in Requests : seen[r] = s} = {} /\ counted[s] = 0
  BY NoneAssumption DEF Init, Codes, NoneAssumption
<1>6. CountsMatchAnswers
  BY <1>5, FS_EmptySet DEF CountsMatchAnswers
<1> QED BY <1>1, <1>2, <1>4, <1>6 DEF IInv

LEMMA AtEndpoint ==
    ASSUME NEW r \in Requests
    PROVE  EndpointOf(r) \in Endpoints /\ \A e : r \in At(e) <=> e = EndpointOf(r)
BY DEF EndpointOf, Endpoints, At

\* A request that leaves with its permit frees it or hands it to one that waits at the same
\* endpoint; the other requests stay where they are.
LEMMA ReleaseSem ==
    ASSUME IInv, NEW r \in Requests, NEW to \in {"answered", "gone"},
           HasPermit(r), Release(r, to)
    PROVE  /\ permits' \in [Endpoints -> 0..MaxConnections]
           /\ queue' \in [Endpoints -> Seq(Requests)]
           /\ pc' \in [Requests -> Stages] /\ pc'[r] = to
           /\ \A q \in Requests \ {r} :
                 pc'[q] # pc[q] => pc[q] = "queued" /\ pc'[q] = "granted"
           /\ QueueInv' /\ PermitsConserved'
<1> USE DEF IInv
<1> DEFINE e == EndpointOf(r)
           P == Permitted(e)
<1>0. /\ permits \in [Endpoints -> 0..MaxConnections] /\ queue \in [Endpoints -> Seq(Requests)]
      /\ pc \in [Requests -> Stages] /\ MaxConnections \in Nat
  BY LimitAssumption DEF TypeOK, Stages, LimitAssumption
<1>1. /\ e \in Endpoints /\ permits[e] \in Nat /\ permits[e] <= MaxConnections
      /\ queue[e] \in Seq(Requests)
      /\ IsFiniteSet(P) /\ Cardinality(P) \in Nat
      /\ permits[e] + Cardinality(P) = MaxConnections
      /\ queue[e] # <<>> => permits[e] = 0
  <2>1. e \in Endpoints
    BY AtEndpoint
  <2> HIDE DEF e
  <2>2. /\ permits[e] + Cardinality(P) = MaxConnections
        /\ queue[e] # <<>> => permits[e] = 0
    BY <2>1 DEF PermitsConserved, Permitted
  <2>3. IsFiniteSet(P) /\ Cardinality(P) \in Nat
    BY Finite, FS_CardinalityType
  <2>4. permits[e] \in 0..MaxConnections /\ queue[e] \in Seq(Requests)
    BY <1>0, <2>1
  <2> QED BY <1>0, <2>1, <2>2, <2>3, <2>4
<1>2. r \in P /\ pc[r] # "queued"
  BY AtEndpoint DEF Permitted, HasPermit
<1> HIDE DEF e
<1>3. /\ IsFiniteSet(P \ {r})
      /\ Cardinality(P \ {r}) = Cardinality(P) - 1
      /\ Cardinality(P \ {r}) \in Nat
  BY <1>1, <1>2, FS_RemoveElement, FS_CardinalityType
<1>4. CASE queue[e] = <<>>
  <2>1. /\ permits' = [permits EXCEPT ![e] = permits[e] + 1]
        /\ pc' = [pc EXCEPT ![r] = to] /\ queue' = queue
    BY <1>4 DEF Release, e
  <2>2. pc' \in [Requests -> Stages] /\ pc'[r] = to
        /\ \A q \in Requests \ {r} : pc'[q] = pc[q]
    BY <1>0, <2>1 DEF Stages
  <2>3. /\ Permitted(e)' = P \ {r}
        /\ \A f \in Endpoints \ {e} : Permitted(f)' = Permitted(f)
    BY <2>2, AtEndpoint DEF Permitted, HasPermit, At, e
  <2>4. permits'[e] + Cardinality(Permitted(e)') = MaxConnections
    <3>1. permits'[e] = permits[e] + 1
      BY <1>0, <1>1, <2>1
    <3> QED BY <1>0, <1>1, <1>3, <2>3, <3>1
  <2>5. permits' \in [Endpoints -> 0..MaxConnections]
    <3>1. permits[e] + 1 \in 0..MaxConnections
      BY <1>0, <1>1, <1>3
    <3> QED BY <1>0, <2>1, <3>1
  <2>6. PermitsConserved'
    <3> SUFFICES ASSUME NEW f \in Endpoints
                 PROVE  /\ permits'[f] + Cardinality(Permitted(f)') = MaxConnections
                        /\ queue'[f] # <<>> => permits'[f] = 0
      BY DEF PermitsConserved, Permitted
    <3>1. CASE f = e
      BY <1>4, <2>1, <2>4, <3>1
    <3>2. CASE f # e
      <4>1. permits'[f] = permits[f]
        BY <1>0, <2>1, <3>2
      <4> QED BY <2>1, <2>3, <3>2, <4>1 DEF PermitsConserved, Permitted
    <3> QED BY <3>1, <3>2
  <2>7. QueueInv'
    <3> SUFFICES ASSUME NEW f \in Endpoints
                 PROVE  /\ \A i \in 1..Len(queue[f]) :
                              pc'[queue[f][i]] = "queued" /\ queue[f][i] \in At(f)
                        /\ \A i, j \in 1..Len(queue[f]) : i < j => queue[f][i] # queue[f][j]
      BY <2>1 DEF QueueInv
    <3>1. \A i \in 1..Len(queue[f]) : queue[f][i] \in Requests /\ queue[f][i] # r
      BY <1>2 DEF QueueInv, At
    <3> QED BY <2>2, <3>1 DEF QueueInv
  <2> QED BY <1>0, <2>1, <2>2, <2>5, <2>6, <2>7
<1>5. CASE queue[e] # <<>>
  <2> DEFINE q0 == queue[e]
             h == Head(q0)
  <2>1. /\ pc' = [pc EXCEPT ![r] = to, ![h] = "granted"]
        /\ queue' = [queue EXCEPT ![e] = Tail(q0)] /\ permits' = permits
    BY <1>5 DEF Release, e
  <2>2. /\ Len(q0) \in Nat /\ Len(q0) >= 1 /\ h = q0[1] /\ h \in Requests
        /\ Tail(q0) \in Seq(Requests) /\ Len(Tail(q0)) = Len(q0) - 1
        /\ \A i \in 1..Len(q0) - 1 : Tail(q0)[i] = q0[i + 1]
    BY <1>1, <1>5, HeadTailProperties
  <2>3. pc[h] = "queued" /\ h # r /\ h \notin P /\ h \in At(e)
    BY <1>1, <1>2, <2>2 DEF QueueInv, Permitted, HasPermit
  <2>4. /\ pc' \in [Requests -> Stages] /\ pc'[r] = to /\ pc'[h] = "granted"
        /\ \A q \in Requests \ {r, h} : pc'[q] = pc[q]
    BY <1>0, <2>1, <2>2, <2>3 DEF Stages
  <2>5. /\ queue'[e] = Tail(q0)
        /\ \A f \in Endpoints \ {e} : queue'[f] = queue[f]
        /\ queue' \in [Endpoints -> Seq(Requests)]
    BY <1>0, <1>1, <2>1, <2>2
  <2> HIDE DEF q0, h
  <2>6. /\ Permitted(e)' = (P \ {r}) \cup {h}
        /\ \A f \in Endpoints \ {e} : Permitted(f)' = Permitted(f)
    <3>1. \A f \in Endpoints \ {e} : r \notin At(f) /\ h \notin At(f)
      BY <2>2, <2>3, AtEndpoint DEF e
    <3> QED BY <2>2, <2>3, <2>4, <3>1, AtEndpoint DEF Permitted, HasPermit, At, e
  <2>7. Cardinality(Permitted(e)') = Cardinality(P)
    <3>1. h \notin P \ {r}
      BY <2>3
    <3>2. Cardinality((P \ {r}) \cup {h}) = Cardinality(P \ {r}) + 1
      BY <1>3, <3>1, FS_AddElement
    <3> QED BY <1>1, <1>3, <2>6, <3>2
  <2>8. PermitsConserved'
    <3> SUFFICES ASSUME NEW f \in Endpoints
                 PROVE  /\ permits'[f] + Cardinality(Permitted(f)') = MaxConnections
                        /\ queue'[f] # <<>> => permits'[f] = 0
      BY DEF PermitsConserved, Permitted
    <3>1. CASE f = e
      BY <1>1, <1>5, <2>1, <2>7, <3>1
    <3>2. CASE f # e
      BY <2>1, <2>5, <2>6, <3>2 DEF PermitsConserved, Permitted
    <3> QED BY <3>1, <3>2
  <2>9. ASSUME NEW i \in 1..Len(queue'[e])
        PROVE  /\ i + 1 \in 1..Len(q0) /\ queue'[e][i] = q0[i + 1]
               /\ queue'[e][i] # h /\ queue'[e][i] # r /\ queue'[e][i] \in At(e)
               /\ pc'[queue'[e][i]] = "queued"
    <3>1. /\ i + 1 \in 1..Len(q0) /\ queue'[e][i] = q0[i + 1]
          /\ 1 \in 1..Len(q0) /\ 1 < i + 1
      BY <2>2, <2>5
    <3>2. /\ q0[i + 1] # q0[1] /\ pc[q0[i + 1]] = "queued"
          /\ q0[i + 1] \in At(e) /\ q0[i + 1] \in Requests
      BY <1>1, <3>1 DEF QueueInv, q0, At
    <3> QED BY <1>2, <2>2, <2>4, <3>1, <3>2
  <2>10. QueueInv'
    <3> SUFFICES ASSUME NEW f \in Endpoints
                 PROVE  /\ \A i \in 1..Len(queue'[f]) :
                              pc'[queue'[f][i]] = "queued" /\ queue'[f][i] \in At(f)
                        /\ \A i, j \in 1..Len(queue'[f]) : i < j => queue'[f][i] # queue'[f][j]
      BY DEF QueueInv
    <3>1. CASE f = e
      <4>1. \A i, j \in 1..Len(queue'[e]) : i < j => queue'[e][i] # queue'[e][j]
        <5> SUFFICES ASSUME NEW i \in 1..Len(queue'[e]), NEW j \in 1..Len(queue'[e]), i < j
                     PROVE  queue'[e][i] # queue'[e][j]
          OBVIOUS
        <5>1. i + 1 < j + 1 /\ i + 1 \in 1..Len(q0) /\ j + 1 \in 1..Len(q0)
          BY <2>9
        <5>2. q0[i + 1] # q0[j + 1]
          BY <1>1, <5>1 DEF QueueInv, q0
        <5> QED BY <2>9, <5>2
      <4> QED BY <2>9, <3>1, <4>1
    <3>2. CASE f # e
      <4>1. \A i \in 1..Len(queue[f]) :
                queue[f][i] \in Requests /\ queue[f][i] # r /\ queue[f][i] # h
        <5>1. r \notin At(f) /\ h \notin At(f)
          BY <2>2, <2>3, <3>2, AtEndpoint DEF e
        <5> QED BY <5>1 DEF QueueInv, At
      <4>2. /\ queue'[f] = queue[f]
            /\ \A q \in Requests \ {r, h} : pc'[q] = pc[q]
        BY <2>4, <2>5, <3>2
      <4> QED BY <4>1, <4>2 DEF QueueInv
    <3> QED BY <3>1, <3>2
  <2>11. \A q \in Requests \ {r} :
                 pc'[q] # pc[q] => pc[q] = "queued" /\ pc'[q] = "granted"
    BY <2>3, <2>4
  <2>12. permits' \in [Endpoints -> 0..MaxConnections]
    BY <1>0, <2>1
  <2> QED BY <2>4, <2>5, <2>8, <2>10, <2>11, <2>12
<1> QED BY <1>4, <1>5

LEMMA OneMore ==
    ASSUME NEW S, IsFiniteSet(S), NEW x, x \notin S
    PROVE  Cardinality(S \cup {x}) = Cardinality(S) + 1
BY FS_AddElement

\* One answer more with status s: counted by the handler, or a 408 that is
\* not.
LEMMA AnswerCounts ==
    ASSUME IInv, NEW r \in Requests, NEW s \in Codes, pc[r] # "answered",
           seen' = [seen EXCEPT ![r] = s],
           \/ counted' = [counted EXCEPT ![s] = @ + 1]
           \/ s = 408 /\ counted' = counted
    PROVE  CountsMatchAnswers'
<1> USE DEF IInv
<1>1. seen[r] = None /\ None \notin Codes /\ 408 \in Codes
  BY NoneAssumption DEF AnswerInv, Codes, NoneAssumption
<1>2. seen \in [Requests -> Codes \cup {None}] /\ counted \in [Codes -> Nat]
  BY DEF TypeOK
<1> SUFFICES ASSUME NEW c \in Codes
             PROVE  IF c = 408 THEN counted'[c] <= Cardinality(Answered(c)')
                               ELSE counted'[c] = Cardinality(Answered(c)')
  BY DEF CountsMatchAnswers, Answered
<1>3. IsFiniteSet(Answered(c)) /\ Cardinality(Answered(c)) \in Nat
  BY Finite, FS_CardinalityType
<1>4. IF c = 408 THEN counted[c] <= Cardinality(Answered(c))
                 ELSE counted[c] = Cardinality(Answered(c))
  BY DEF CountsMatchAnswers, Answered
<1>5. CASE c = s
  <2>1. Answered(c)' = Answered(c) \cup {r} /\ r \notin Answered(c)
    BY <1>1, <1>2, <1>5 DEF Answered
  <2>2. Cardinality(Answered(c)') = Cardinality(Answered(c)) + 1
    <3> DEFINE A == Answered(c)
    <3>1. IsFiniteSet(A) /\ r \notin A /\ Answered(c)' = A \cup {r}
      BY <1>3, <2>1
    <3> HIDE DEF A
    <3>2. Cardinality(A \cup {r}) = Cardinality(A) + 1
      BY <3>1, OneMore
    <3> QED BY <3>1, <3>2 DEF A
  <2>3. counted[c] \in Nat
    BY <1>2
  <2>4. counted'[c] = counted[c] + 1 \/ (c = 408 /\ counted'[c] = counted[c])
    BY <1>2, <1>5
  <2> QED BY <1>3, <1>4, <2>2, <2>3, <2>4
<1>6. CASE c # s
  <2>1. Answered(c)' = Answered(c)
    BY <1>1, <1>2, <1>6 DEF Answered
  <2>2. counted'[c] = counted[c]
    BY <1>2, <1>6
  <2> QED BY <1>4, <2>1, <2>2
<1> QED BY <1>5, <1>6

LEMMA FinishStep ==
    ASSUME IInv, NEW r \in Requests, NEW s \in Codes, InHandler(r), Finish(r, s)
    PROVE  IInv'
<1> USE DEF IInv
<1>1. /\ Release(r, "answered") /\ inflight' = inflight - 1
      /\ counted' = [counted EXCEPT ![s] = @ + 1]
      /\ seen' = [seen EXCEPT ![r] = s]
      /\ status' = [status EXCEPT ![r] = None]
      /\ UNCHANGED <<config, phase>>
  BY DEF Finish
<1>2. HasPermit(r) /\ pc[r] # "answered"
  BY DEF InHandler, HasPermit
<1>3. /\ permits' \in [Endpoints -> 0..MaxConnections]
      /\ queue' \in [Endpoints -> Seq(Requests)]
      /\ pc' \in [Requests -> Stages] /\ pc'[r] = "answered"
      /\ \A q \in Requests \ {r} :
             pc'[q] # pc[q] => pc[q] = "queued" /\ pc'[q] = "granted"
      /\ QueueInv' /\ PermitsConserved'
  BY <1>1, <1>2, ReleaseSem
<1>4. /\ Handled' = Handled \ {r} /\ r \in Handled
  BY <1>3 DEF Handled, InHandler
<1>5. inflight = Cardinality(Handled) /\ IsFiniteSet(Handled)
  BY Finite DEF GaugeIsExact, Handled
<1>6. /\ Cardinality(Handled') = Cardinality(Handled) - 1
      /\ Cardinality(Handled') \in Nat
  BY <1>4, <1>5, FS_RemoveElement, FS_CardinalityType
<1>7. GaugeIsExact' /\ inflight' \in Nat
  BY <1>1, <1>5, <1>6 DEF GaugeIsExact, Handled
<1>8. CountsMatchAnswers'
  BY <1>1, <1>2, AnswerCounts
<1>9. TypeOK'
  <2>1. /\ seen' \in [Requests -> Codes \cup {None}]
        /\ status' \in [Requests -> Codes \cup {None}]
    BY <1>1 DEF TypeOK
  <2>2. counted' \in [Codes -> Nat]
    BY <1>1 DEF TypeOK
  <2>3. /\ timeout' \in {"on", "off"} /\ tls' \in {"on", "off"}
        /\ phase' \in {"serving", "draining", "exited"}
    BY <1>1 DEF TypeOK, config
  <2>4. pc' \in [Requests -> {"new", "queued", "granted", "body", "delay",
                              "answered", "gone"}]
    BY <1>3 DEF Stages
  <2> QED BY <1>3, <1>7, <2>1, <2>2, <2>3, <2>4 DEF TypeOK
<1>10. AnswerInv'
  BY <1>1, <1>3 DEF AnswerInv, TypeOK
<1> QED BY <1>3, <1>7, <1>8, <1>9, <1>10

\* A request takes the free permit and starts, or starts with the permit it
\* was handed.
LEMMA EnterHandler ==
    ASSUME IInv, NEW r \in Requests, pc[r] \in {"new", "granted"},
           pc' = [pc EXCEPT ![r] = "body"], inflight' = inflight + 1
    PROVE  GaugeIsExact' /\ inflight' \in Nat
<1>1. inflight = Cardinality(Handled) /\ IsFiniteSet(Handled) /\ inflight \in Nat
  BY Finite DEF IInv, GaugeIsExact, Handled, TypeOK
<1>2. Handled' = Handled \cup {r} /\ r \notin Handled
  BY DEF IInv, TypeOK, Handled, InHandler
<1>3. Cardinality(Handled') = Cardinality(Handled) + 1
  BY <1>1, <1>2, FS_AddElement
<1> QED BY <1>1, <1>3 DEF GaugeIsExact, Handled

LEMMA ArriveStartStep == ASSUME IInv, NEW r \in Requests, ArriveStart(r) PROVE IInv'
<1> USE DEF IInv
<1> DEFINE e == EndpointOf(r)
<1>0. e \in Endpoints /\ \A f : r \in At(f) <=> f = e
  BY AtEndpoint
<1> HIDE DEF e
<1>1. /\ pc[r] = "new" /\ permits[e] > 0 /\ permits' = [permits EXCEPT ![e] = permits[e] - 1]
      /\ pc' = [pc EXCEPT ![r] = "body"] /\ inflight' = inflight + 1
      /\ UNCHANGED <<config, phase, queue, counted, status, seen>>
  BY DEF ArriveStart, e
<1>2. /\ permits \in [Endpoints -> 0..MaxConnections] /\ MaxConnections \in Nat
      /\ permits[e] \in Nat /\ permits[e] <= MaxConnections
  BY <1>0, LimitAssumption DEF TypeOK, LimitAssumption
<1>3. pc'[r] = "body" /\ \A q \in Requests \ {r} : pc'[q] = pc[q]
  BY <1>1 DEF TypeOK
<1>4. GaugeIsExact' /\ inflight' \in Nat
  BY <1>1, EnterHandler
<1>5. TypeOK'
  <2>1. permits[e] - 1 \in 0..MaxConnections
    BY <1>1, <1>2
  <2>2. permits' \in [Endpoints -> 0..MaxConnections]
    BY <1>1, <1>2, <2>1
  <2> QED BY <1>1, <1>4, <2>2 DEF TypeOK, config
<1>6. PermitsConserved'
  <2>1. /\ Permitted(e)' = Permitted(e) \cup {r} /\ r \notin Permitted(e)
        /\ \A f \in Endpoints \ {e} : Permitted(f)' = Permitted(f)
    BY <1>0, <1>1, <1>3 DEF Permitted, HasPermit, At
  <2>2. /\ IsFiniteSet(Permitted(e)) /\ Cardinality(Permitted(e)) \in Nat
    BY Finite, FS_CardinalityType
  <2>3. Cardinality(Permitted(e)') = Cardinality(Permitted(e)) + 1
    <3> DEFINE P == Permitted(e)
    <3>1. IsFiniteSet(P) /\ r \notin P /\ Permitted(e)' = P \cup {r}
      BY <2>1, <2>2
    <3> HIDE DEF P
    <3>2. Cardinality(P \cup {r}) = Cardinality(P) + 1
      BY <3>1, FS_AddElement
    <3> QED BY <3>1, <3>2 DEF P
  <2> SUFFICES ASSUME NEW f \in Endpoints
               PROVE  /\ permits'[f] + Cardinality(Permitted(f)') = MaxConnections
                      /\ queue'[f] # <<>> => permits'[f] = 0
    BY DEF PermitsConserved, Permitted
  <2>4. /\ permits[f] + Cardinality(Permitted(f)) = MaxConnections
        /\ queue[f] # <<>> => permits[f] = 0
    BY DEF PermitsConserved, Permitted
  <2>5. CASE f = e
    <3>1. permits'[e] = permits[e] - 1
      BY <1>0, <1>1, <1>2
    <3>2. permits'[e] + Cardinality(Permitted(e)') = MaxConnections
      BY <1>2, <2>2, <2>3, <2>4, <2>5, <3>1
    <3> QED BY <1>1, <1>2, <2>4, <2>5, <3>2
  <2>6. CASE f # e
    BY <1>1, <1>2, <2>1, <2>4, <2>6
  <2> QED BY <2>5, <2>6
<1>7. QueueInv'
  <2>1. \A f \in Endpoints : \A i \in 1..Len(queue[f]) :
            queue[f][i] \in Requests /\ queue[f][i] # r
    BY <1>1 DEF QueueInv, At
  <2> QED BY <1>1, <1>3, <2>1 DEF QueueInv
<1>8. AnswerInv'
  BY <1>1, <1>3 DEF AnswerInv
<1>9. CountsMatchAnswers'
  BY <1>1 DEF CountsMatchAnswers
<1> QED BY <1>4, <1>5, <1>6, <1>7, <1>8, <1>9

LEMMA ArriveQueueStep == ASSUME IInv, NEW r \in Requests, ArriveQueue(r) PROVE IInv'
<1> USE DEF IInv
<1> DEFINE e == EndpointOf(r)
<1>0. e \in Endpoints /\ \A f : r \in At(f) <=> f = e
  BY AtEndpoint
<1> HIDE DEF e
<1>1. /\ pc[r] = "new" /\ permits[e] = 0
      /\ pc' = [pc EXCEPT ![r] = "queued"]
      /\ queue' = [queue EXCEPT ![e] = Append(queue[e], r)]
      /\ UNCHANGED <<config, phase, permits, inflight, counted, status, seen>>
  BY DEF ArriveQueue, e
<1>2. pc'[r] = "queued" /\ \A q \in Requests \ {r} : pc'[q] = pc[q]
  BY <1>1 DEF TypeOK
<1> DEFINE q0 == queue[e]
           q1 == Append(q0, r)
<1>3. /\ q0 \in Seq(Requests) /\ Len(q0) \in Nat /\ q1 \in Seq(Requests)
      /\ Len(q1) = Len(q0) + 1 /\ q1[Len(q0) + 1] = r
      /\ \A i \in 1..Len(q0) : q1[i] = q0[i]
  <2>1. q0 \in Seq(Requests)
    BY <1>0 DEF TypeOK
  <2> HIDE DEF q0
  <2> QED BY <2>1
<1>4. /\ queue'[e] = q1 /\ \A f \in Endpoints \ {e} : queue'[f] = queue[f]
      /\ queue' \in [Endpoints -> Seq(Requests)]
  BY <1>0, <1>1, <1>3 DEF TypeOK
<1> HIDE DEF q0, q1
<1>5. TypeOK'
  BY <1>1, <1>4 DEF TypeOK, config
<1>6. (\A f : Permitted(f)' = Permitted(f)) /\ Handled' = Handled
  BY <1>1, <1>2 DEF Permitted, At, HasPermit, Handled, InHandler
<1>7. PermitsConserved' /\ GaugeIsExact'
  <2>1. PermitsConserved'
    BY <1>1, <1>4, <1>6 DEF PermitsConserved, Permitted
  <2> QED BY <1>1, <1>6, <2>1 DEF GaugeIsExact, Handled
<1>8. QueueInv'
  <2> SUFFICES ASSUME NEW f \in Endpoints
               PROVE  /\ \A i \in 1..Len(queue'[f]) :
                            pc'[queue'[f][i]] = "queued" /\ queue'[f][i] \in At(f)
                      /\ \A i, j \in 1..Len(queue'[f]) : i < j => queue'[f][i] # queue'[f][j]
    BY DEF QueueInv
  <2>1. \A i \in 1..Len(queue[f]) :
            pc[queue[f][i]] = "queued" /\ queue[f][i] \in Requests /\ queue[f][i] # r
            /\ queue[f][i] \in At(f)
    BY <1>1 DEF QueueInv, At
  <2>2. CASE f # e
    BY <1>2, <1>4, <2>1, <2>2 DEF QueueInv
  <2>3. CASE f = e
    <3>1. \A i \in 1..Len(q1) : i \in 1..Len(q0) \/ i = Len(q0) + 1
      BY <1>3
    <3>2. \A i \in 1..Len(q1) : pc'[q1[i]] = "queued" /\ q1[i] \in At(e)
      BY <1>0, <1>2, <1>3, <2>1, <2>3, <3>1 DEF q0
    <3>3. \A i, j \in 1..Len(q1) : i < j => q1[i] # q1[j]
      <4> SUFFICES ASSUME NEW i \in 1..Len(q1), NEW j \in 1..Len(q1), i < j
                   PROVE  q1[i] # q1[j]
        OBVIOUS
      <4>1. i \in 1..Len(q0)
        BY <1>3
      <4>2. CASE j \in 1..Len(q0)
        BY <1>0, <1>3, <4>1, <4>2 DEF QueueInv, q0
      <4>3. CASE j = Len(q0) + 1
        BY <1>3, <2>1, <2>3, <4>1, <4>3 DEF q0
      <4> QED BY <3>1, <4>2, <4>3
    <3> QED BY <1>4, <2>3, <3>2, <3>3
  <2> QED BY <2>2, <2>3
<1>9. AnswerInv'
  BY <1>1, <1>2 DEF AnswerInv
<1>10. CountsMatchAnswers'
  BY <1>1 DEF CountsMatchAnswers
<1> QED BY <1>5, <1>7, <1>8, <1>9, <1>10

LEMMA StartStep == ASSUME IInv, NEW r \in Requests, Start(r) PROVE IInv'
<1> USE DEF IInv
<1>1. /\ pc[r] = "granted" /\ pc' = [pc EXCEPT ![r] = "body"]
      /\ inflight' = inflight + 1
      /\ UNCHANGED <<config, phase, permits, queue, counted, status, seen>>
  BY DEF Start
<1>2. pc'[r] = "body" /\ \A q \in Requests \ {r} : pc'[q] = pc[q]
  BY <1>1 DEF TypeOK
<1>3. GaugeIsExact' /\ inflight' \in Nat
  BY <1>1, EnterHandler
<1>4. TypeOK'
  BY <1>1, <1>3 DEF TypeOK, config
<1>5. \A e : Permitted(e)' = Permitted(e)
  BY <1>1, <1>2 DEF Permitted, At, HasPermit
<1>6. PermitsConserved'
  BY <1>1, <1>5 DEF PermitsConserved, Permitted
<1>7. QueueInv'
  BY <1>1, <1>2 DEF QueueInv, At, TypeOK
<1>8. AnswerInv'
  BY <1>1, <1>2 DEF AnswerInv
<1>9. CountsMatchAnswers'
  BY <1>1 DEF CountsMatchAnswers
<1> QED BY <1>3, <1>4, <1>6, <1>7, <1>8, <1>9

LEMMA DelayStep == ASSUME IInv, NEW r \in Requests, Delay(r) PROVE IInv'
<1> USE DEF IInv
<1>1. PICK s \in Statuses : status' = [status EXCEPT ![r] = s]
  BY DEF Delay
<1>2. /\ pc[r] = "body" /\ pc' = [pc EXCEPT ![r] = "delay"]
      /\ UNCHANGED <<config, phase, permits, queue, inflight, counted, seen>>
  BY DEF Delay
<1>3. /\ pc'[r] = "delay" /\ \A q \in Requests \ {r} : pc'[q] = pc[q]
      /\ s \in Codes
  BY <1>2 DEF TypeOK, Codes
<1>4. TypeOK'
  <2>1. status' \in [Requests -> Codes \cup {None}]
    BY <1>1, <1>3 DEF TypeOK
  <2> QED BY <1>2, <2>1 DEF TypeOK, config
<1>5. (\A e : Permitted(e)' = Permitted(e)) /\ Handled' = Handled
  BY <1>2, <1>3 DEF Permitted, At, HasPermit, Handled, InHandler
<1>6. PermitsConserved' /\ GaugeIsExact'
  BY <1>2, <1>5 DEF PermitsConserved, Permitted, GaugeIsExact, Handled
<1>7. QueueInv'
  BY <1>2, <1>3 DEF QueueInv, At, TypeOK
<1>8. AnswerInv'
  BY <1>1, <1>2, <1>3 DEF AnswerInv, TypeOK
<1>9. CountsMatchAnswers'
  BY <1>2 DEF CountsMatchAnswers
<1> QED BY <1>4, <1>6, <1>7, <1>8, <1>9

\* What a dropped request leaves behind, whoever drops it.
LEMMA DropSem ==
    ASSUME IInv, NEW r \in Requests, NEW to \in {"answered", "gone"}, Drop(r, to)
    PROVE  /\ permits' \in [Endpoints -> 0..MaxConnections]
           /\ queue' \in [Endpoints -> Seq(Requests)]
           /\ pc' \in [Requests -> Stages] /\ pc'[r] = to
           /\ \A q \in Requests \ {r} :
                 pc'[q] # pc[q] => pc[q] = "queued" /\ pc'[q] = "granted"
           /\ inflight' \in Nat
           /\ QueueInv' /\ PermitsConserved' /\ GaugeIsExact'
           /\ pc[r] # "answered"
<1> USE DEF IInv
<1>0. /\ permits \in [Endpoints -> 0..MaxConnections] /\ queue \in [Endpoints -> Seq(Requests)]
      /\ pc \in [Requests -> Stages] /\ inflight \in Nat
  BY DEF TypeOK, Stages
<1>1. /\ permits' \in [Endpoints -> 0..MaxConnections]
      /\ queue' \in [Endpoints -> Seq(Requests)]
      /\ pc' \in [Requests -> Stages] /\ pc'[r] = to
      /\ \A q \in Requests \ {r} :
             pc'[q] # pc[q] => pc[q] = "queued" /\ pc'[q] = "granted"
      /\ QueueInv' /\ PermitsConserved' /\ pc[r] # "answered"
  <2>1. CASE HasPermit(r) /\ Release(r, to)
    <3>1. pc[r] # "answered"
      BY <2>1 DEF HasPermit
    <3> QED BY <2>1, <3>1, ReleaseSem
  <2>2. CASE pc[r] = "queued" /\ LeaveQueue(r, to)
    <3> DEFINE e == EndpointOf(r)
               q0 == queue[e]
               q1 == queue'[e]
    <3>0. e \in Endpoints /\ (\A f : r \in At(f) <=> f = e) /\ q0 \in Seq(Requests)
      BY <1>0, AtEndpoint
    <3>1. PICK i \in 1..Len(q0) : q0[i] = r /\ queue' = [queue EXCEPT ![e] = RemoveAt(q0, i)]
      BY <2>2 DEF LeaveQueue
    <3>2. pc' = [pc EXCEPT ![r] = to] /\ permits' = permits
      BY <2>2 DEF LeaveQueue
    <3> HIDE DEF e
    <3>3. /\ RemoveAt(q0, i) \in Seq(Requests) /\ Len(RemoveAt(q0, i)) = Len(q0) - 1
          /\ Len(q0) \in Nat
          /\ \A j \in 1..Len(q0) - 1 :
                RemoveAt(q0, i)[j] = IF j < i THEN q0[j] ELSE q0[j + 1]
      <4> HIDE DEF q0
      <4>1. i \in 1..Len(q0) /\ q0 \in Seq(Requests) /\ Len(q0) \in Nat
        BY <3>0, <3>1
      <4> QED BY <4>1, Removal
    <3>4. /\ q1 = RemoveAt(q0, i) /\ \A f \in Endpoints \ {e} : queue'[f] = queue[f]
          /\ queue' \in [Endpoints -> Seq(Requests)]
      BY <1>0, <3>0, <3>1, <3>3
    <3>5. /\ pc' \in [Requests -> Stages] /\ pc'[r] = to
          /\ \A q \in Requests \ {r} : pc'[q] = pc[q]
      BY <1>0, <3>2 DEF Stages
    <3>6. /\ \A j \in 1..Len(q0) : pc[q0[j]] = "queued" /\ q0[j] \in At(e) /\ q0[j] \in Requests
          /\ \A j, k \in 1..Len(q0) : j < k => q0[j] # q0[k]
      BY <3>0 DEF QueueInv, At
    <3> HIDE DEF q0, q1
    <3>7. \A j \in 1..Len(q1) : q1[j] # r /\ pc'[q1[j]] = "queued" /\ q1[j] \in At(e)
      <4> SUFFICES ASSUME NEW j \in 1..Len(q1)
                   PROVE  q1[j] # r /\ pc'[q1[j]] = "queued" /\ q1[j] \in At(e)
        OBVIOUS
      <4> DEFINE k == IF j < i THEN j ELSE j + 1
      <4>1. k \in 1..Len(q0) /\ k # i /\ q1[j] = q0[k]
        BY <3>1, <3>3, <3>4
      <4> HIDE DEF k
      <4>2. q0[k] # q0[i]
        <5>1. k < i \/ i < k
          BY <3>1, <3>3, <4>1
        <5> QED BY <3>1, <3>6, <4>1, <5>1
      <4> QED BY <3>1, <3>5, <3>6, <4>1, <4>2
    <3>8. \A j, k \in 1..Len(q1) : j < k => q1[j] # q1[k]
      <4> SUFFICES ASSUME NEW j \in 1..Len(q1), NEW k \in 1..Len(q1), j < k
                   PROVE  q1[j] # q1[k]
        OBVIOUS
      <4> DEFINE a == IF j < i THEN j ELSE j + 1
                 b == IF k < i THEN k ELSE k + 1
      <4>1. /\ a \in 1..Len(q0) /\ b \in 1..Len(q0) /\ a < b
            /\ q1[j] = q0[a] /\ q1[k] = q0[b]
        BY <3>1, <3>3, <3>4
      <4> HIDE DEF a, b
      <4> QED BY <3>6, <4>1
    <3>9. QueueInv'
      <4> SUFFICES ASSUME NEW f \in Endpoints
                   PROVE  /\ \A j \in 1..Len(queue'[f]) :
                                pc'[queue'[f][j]] = "queued" /\ queue'[f][j] \in At(f)
                          /\ \A j, k \in 1..Len(queue'[f]) :
                                j < k => queue'[f][j] # queue'[f][k]
        BY DEF QueueInv
      <4>1. CASE f = e
        BY <3>7, <3>8, <4>1 DEF q1
      <4>2. CASE f # e
        <5>1. \A j \in 1..Len(queue[f]) : queue[f][j] \in Requests /\ queue[f][j] # r
          BY <3>0, <4>2 DEF QueueInv, At
        <5> QED BY <3>4, <3>5, <4>2, <5>1 DEF QueueInv
      <4> QED BY <4>1, <4>2
    <3>10. \A f : Permitted(f)' = Permitted(f)
      BY <2>2, <3>5 DEF Permitted, At, HasPermit
    <3>11. PermitsConserved'
      <4>1. q0 # <<>>
        BY <3>1, <3>3
      <4>2. \A f \in Endpoints : queue'[f] # <<>> => queue[f] # <<>>
        BY <3>4, <4>1 DEF q0
      <4> QED BY <3>2, <3>10, <4>2 DEF PermitsConserved, Permitted
    <3> QED BY <1>0, <2>2, <3>2, <3>4, <3>5, <3>9, <3>11
  <2> QED BY <2>1, <2>2 DEF Drop
<1>2. inflight' = IF InHandler(r) THEN inflight - 1 ELSE inflight
  BY DEF Drop
<1>3. inflight = Cardinality(Handled) /\ IsFiniteSet(Handled)
  BY Finite DEF GaugeIsExact, Handled
<1>4. CASE InHandler(r)
  <2>1. Handled' = Handled \ {r} /\ r \in Handled
    BY <1>1, <1>4 DEF Handled, InHandler
  <2>2. /\ Cardinality(Handled \ {r}) = Cardinality(Handled) - 1
        /\ Cardinality(Handled \ {r}) \in Nat
    BY <1>3, <2>1, FS_RemoveElement, FS_CardinalityType
  <2>3. inflight' = Cardinality(Handled') /\ inflight' \in Nat
    BY <1>2, <1>3, <1>4, <2>1, <2>2
  <2> QED BY <1>1, <2>3 DEF GaugeIsExact, Handled
<1>5. CASE ~InHandler(r)
  <2>1. Handled' = Handled
    BY <1>1, <1>5 DEF Handled, InHandler
  <2> QED BY <1>0, <1>1, <1>2, <1>3, <1>5, <2>1 DEF GaugeIsExact, Handled
<1> QED BY <1>4, <1>5

LEMMA ExpireStep == ASSUME IInv, NEW r \in Requests, Expire(r) PROVE IInv'
<1> USE DEF IInv
<1>1. Drop(r, "answered") /\ seen' = [seen EXCEPT ![r] = 408] /\ 408 \in Codes
  BY DEF Expire, Codes
<1>2. /\ status' = [status EXCEPT ![r] = None]
      /\ UNCHANGED <<config, phase, counted>>
  BY <1>1 DEF Drop
<1>3. /\ permits' \in [Endpoints -> 0..MaxConnections]
      /\ queue' \in [Endpoints -> Seq(Requests)]
      /\ pc' \in [Requests -> Stages] /\ pc'[r] = "answered"
      /\ \A q \in Requests \ {r} :
             pc'[q] # pc[q] => pc[q] = "queued" /\ pc'[q] = "granted"
      /\ inflight' \in Nat
      /\ QueueInv' /\ PermitsConserved' /\ GaugeIsExact'
      /\ pc[r] # "answered"
  BY <1>1, DropSem
<1>4. CountsMatchAnswers'
  BY <1>1, <1>2, <1>3, AnswerCounts
<1>5. TypeOK'
  <2>1. /\ seen' \in [Requests -> Codes \cup {None}]
        /\ status' \in [Requests -> Codes \cup {None}]
        /\ counted' \in [Codes -> Nat]
    BY <1>1, <1>2 DEF TypeOK
  <2> QED BY <1>2, <1>3, <2>1 DEF TypeOK, config, Stages
<1>6. AnswerInv'
  BY <1>1, <1>2, <1>3 DEF AnswerInv, TypeOK
<1> QED BY <1>3, <1>4, <1>5, <1>6

LEMMA HangupStep == ASSUME IInv, NEW r \in Requests, Hangup(r) PROVE IInv'
<1> USE DEF IInv
<1>1. Drop(r, "gone") /\ seen' = seen
  BY DEF Hangup
<1>2. /\ status' = [status EXCEPT ![r] = None]
      /\ UNCHANGED <<config, phase, counted>>
  BY <1>1 DEF Drop
<1>3. /\ permits' \in [Endpoints -> 0..MaxConnections]
      /\ queue' \in [Endpoints -> Seq(Requests)]
      /\ pc' \in [Requests -> Stages] /\ pc'[r] = "gone"
      /\ \A q \in Requests \ {r} :
             pc'[q] # pc[q] => pc[q] = "queued" /\ pc'[q] = "granted"
      /\ inflight' \in Nat
      /\ QueueInv' /\ PermitsConserved' /\ GaugeIsExact'
      /\ pc[r] # "answered"
  BY <1>1, DropSem
<1>4. CountsMatchAnswers'
  BY <1>1, <1>2 DEF CountsMatchAnswers
<1>5. TypeOK'
  <2>1. status' \in [Requests -> Codes \cup {None}]
    BY <1>2 DEF TypeOK
  <2> QED BY <1>1, <1>2, <1>3, <2>1 DEF TypeOK, config, Stages
<1>6. AnswerInv'
  BY <1>1, <1>2, <1>3 DEF AnswerInv, TypeOK
<1> QED BY <1>3, <1>4, <1>5, <1>6
-----------------------------------------------------------------------------
LEMMA NextInv == IInv /\ [Next]_vars => IInv'
<1> SUFFICES ASSUME IInv, [Next]_vars PROVE IInv'
  OBVIOUS
<1>1. ASSUME UNCHANGED <<config, pc, permits, queue, inflight, counted, status, seen>>,
             phase' \in {"serving", "draining", "exited"}
      PROVE  IInv'
  <2>1. TypeOK'
    BY <1>1 DEF IInv, TypeOK, config
  <2>2. QueueInv' /\ AnswerInv'
    BY <1>1 DEF IInv, QueueInv, AnswerInv
  <2>3. PermitsConserved' /\ GaugeIsExact'
    BY <1>1 DEF IInv, PermitsConserved, GaugeIsExact, HasPermit, InHandler
  <2>4. CountsMatchAnswers'
    BY <1>1 DEF IInv, CountsMatchAnswers
  <2> QED BY <2>1, <2>2, <2>3, <2>4 DEF IInv
<1>2. CASE Signal \/ Exit \/ Deadline
  BY <1>1, <1>2 DEF Signal, Exit, Deadline
<1>3. ASSUME NEW r \in Requests, Client(r) PROVE IInv'
  <2>1. CASE BodyFails(r)
    <3>1. InHandler(r) /\ Finish(r, 413) /\ 413 \in Codes
      BY <2>1 DEF BodyFails, InHandler, Codes
    <3> QED BY <3>1, FinishStep
  <2>2. CASE Answer(r)
    <3>1. PICK s \in Statuses : Finish(r, s)
      BY <2>2 DEF Answer
    <3>2. InHandler(r) /\ s \in Codes
      BY <2>2 DEF Answer, InHandler, Codes
    <3> QED BY <3>1, <3>2, FinishStep
  <2> QED BY <1>3, <2>1, <2>2, ArriveStartStep, ArriveQueueStep, DelayStep, HangupStep
          DEF Client
<1>4. ASSUME NEW r \in Requests, Server(r) PROVE IInv'
  <2>1. CASE EndDelay(r)
    <3>1. pc[r] = "delay" /\ Finish(r, status[r])
      BY <2>1 DEF EndDelay
    <3>2. InHandler(r) /\ status[r] \in Codes
      BY <3>1 DEF IInv, AnswerInv, InHandler
    <3> QED BY <3>1, <3>2, FinishStep
  <2> QED BY <1>4, <2>1, StartStep, ExpireStep DEF Server
<1>5. CASE UNCHANGED vars
  BY <1>1, <1>5 DEF vars, IInv, TypeOK
<1> QED BY <1>2, <1>3, <1>4, <1>5 DEF Next

LEMMA Invariance == Spec => []IInv
BY InitInv, NextInv, PTL DEF Spec
-----------------------------------------------------------------------------
\* The variables keep their types (the state behind run_mock's layers).
THEOREM TypeCorrect == Spec => []TypeOK
<1>1. IInv => TypeOK
  BY DEF IInv
<1> QED BY <1>1, Invariance, PTL

\* No way of dropping a request loses or doubles a permit, and no permit is
\* idle while a request waits (ConcurrencyLimitLayer in run_mock).
THEOREM PermitsConservedHolds == Spec => []PermitsConserved
<1>1. IInv => PermitsConserved
  BY DEF IInv
<1> QED BY <1>1, Invariance, PTL

\* The in-flight gauge counts the requests in the handler, whichever way the
\* others left it (InflightGuard).
THEOREM GaugeIsExactHolds == Spec => []GaugeIsExact
<1>1. IInv => GaugeIsExact
  BY DEF IInv
<1> QED BY <1>1, Invariance, PTL

\* --max-connections limits each endpoint of the fallback, so that twice as many requests
\* can be in flight, and no more (Router::layer in run_mock).
THEOREM LimitIsPerEndpoint == Spec => []GaugeIsBounded
<1>1. IInv => GaugeIsBounded
  <2> SUFFICES ASSUME IInv PROVE GaugeIsBounded
    OBVIOUS
  <2> DEFINE P == Permitted("/")
             Q == Permitted("/{*}")
             a == permits["/"]
             b == permits["/{*}"]
  <2> HIDE DEF P, Q, a, b
  <2>1. "/" \in Endpoints /\ "/{*}" \in Endpoints
    BY DEF Endpoints
  <2>2. Handled \subseteq P \cup Q
    <3> SUFFICES ASSUME NEW r \in Handled PROVE r \in P \cup Q
      OBVIOUS
    <3>1. r \in Requests /\ HasPermit(r)
      BY DEF Handled, InHandler, HasPermit
    <3>2. r \in At("/") \/ r \in At("/{*}")
      BY <3>1 DEF At, EndpointOf
    <3> QED BY <3>1, <3>2 DEF Permitted, P, Q
  <2>3. /\ IsFiniteSet(P) /\ Cardinality(P) \in Nat
        /\ IsFiniteSet(Q) /\ Cardinality(Q) \in Nat
    BY Finite, FS_CardinalityType DEF P, Q
  <2>4. /\ a \in 0..MaxConnections /\ b \in 0..MaxConnections
        /\ MaxConnections \in Nat
    BY <2>1, LimitAssumption DEF IInv, TypeOK, LimitAssumption, a, b
  <2>5. /\ a + Cardinality(P) = MaxConnections
        /\ b + Cardinality(Q) = MaxConnections
    BY <2>1 DEF IInv, PermitsConserved, Permitted, P, Q, a, b
  <2>6. inflight = Cardinality(Handled)
    BY DEF IInv, GaugeIsExact, Handled
  <2>7. /\ IsFiniteSet(P \cup Q) /\ IsFiniteSet(P \cap Q)
        /\ Cardinality(P \cup Q) = Cardinality(P) + Cardinality(Q) - Cardinality(P \cap Q)
        /\ Cardinality(P \cap Q) \in Nat /\ Cardinality(P \cup Q) \in Nat
    BY <2>3, FS_Union, FS_Intersection, FS_CardinalityType
  <2>8. Cardinality(Handled) <= Cardinality(P \cup Q) /\ Cardinality(Handled) \in Nat
    <3>1. IsFiniteSet(Handled)
      BY Finite
    <3> QED BY <2>2, <2>7, <3>1, FS_Subset, FS_CardinalityType
  <2>9. Cardinality(P) <= MaxConnections /\ Cardinality(Q) <= MaxConnections
    BY <2>3, <2>4, <2>5
  <2>10. Cardinality(P \cup Q) <= 2 * MaxConnections
    BY <2>3, <2>4, <2>7, <2>9
  <2>11. Cardinality(Handled) <= 2 * MaxConnections
    BY <2>4, <2>7, <2>8, <2>10
  <2> QED BY <2>6, <2>11 DEF GaugeIsBounded
<1> QED BY <1>1, Invariance, PTL

\* What the handler counts under a status is what clients got with it
\* (finalize_response).
THEOREM CountsMatchAnswersHolds == Spec => []CountsMatchAnswers
<1>1. IInv => CountsMatchAnswers
  BY DEF IInv
<1> QED BY <1>1, Invariance, PTL
===============================================================================
