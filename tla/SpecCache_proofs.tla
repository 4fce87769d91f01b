--------------------------- MODULE SpecCache_proofs ---------------------------
(***************************************************************************)
(* Proofs about SpecCache, for every number of threads, requests, addresses *)
(* and reloads: what the address and the fingerprint of the cache key are   *)
(* worth.                                                                   *)
(***************************************************************************)
EXTENDS SpecCache, TLAPS

USE DEF Live

\* Types without the promise that what a request holds is allocated.
Shape ==
    /\ heap \in [Addrs -> Loaded \cup {None}]
    /\ cell \in Addrs
    /\ reloads \in Nat
    /\ snap \in [Requests -> Addrs \cup {None}]
    /\ worker \in [Requests -> Threads \cup {None}]
    /\ cache \in [Threads -> Entry \cup {None}]
    /\ defs \in [Requests -> Loaded \cup {None}]

\* The Arcs in the cell and in the requests keep what they point to alive,
\* and a request that is being worked on holds one.
Held ==
    /\ heap[cell] # None
    /\ \A r \in Requests :
          /\ snap[r] # None => heap[snap[r]] # None
          /\ worker[r] # None \/ defs[r] # None => snap[r] # None

\* The cell holds the youngest specification, and nothing else does.
Youngest ==
    /\ heap[cell].gen = reloads
    /\ \A a \in Addrs : heap[a] # None =>
          heap[a].gen <= reloads /\ (heap[a].gen = reloads => a = cell)

\* What makes StaleTakesTwoReloads inductive: an entry made from the youngest
\* specification is keyed by the address in the cell, which the allocator
\* cannot hand out, so an entry that disagrees with what lives at its address
\* was two reloads old when that was put there.
CacheAge ==
    \A t \in Threads : cache[t] # None =>
        /\ cache[t].json.gen <= reloads
        /\ cache[t].json.gen = reloads => cache[t].addr = cell
        /\ cache[t].print = cache[t].json.shape
        /\ heap[cache[t].addr] # None =>
               FreshOrOlderThanOne(cache[t].json, heap[cache[t].addr])

DefsAge == StaleTakesTwoReloads /\ DefsHaveTheShape

IInv == Shape /\ Held /\ Youngest /\ CacheAge /\ DefsAge

\* The first specification is loaded once, held by the cell alone.
LEMMA InitInv == Init => IInv
<1> SUFFICES ASSUME Init PROVE IInv
  OBVIOUS
<1>1. PICK a \in Addrs, sh \in Shapes, sc \in Schemas :
          /\ cell = a
          /\ heap = [x \in Addrs |->
                        IF x = a THEN [gen |-> 0, shape |-> sh, schemas |-> sc]
                                 ELSE None]
  BY DEF Init
<1>2. [gen |-> 0, shape |-> sh, schemas |-> sc] \in Loaded
  BY DEF Loaded
<1>3. Shape
  BY <1>1, <1>2 DEF Init, Shape
<1>4. Held /\ Youngest
  BY <1>1, <1>2, NoneAssumption DEF Init, Held, Youngest, NoneAssumption
<1>5. CacheAge /\ DefsAge
  BY DEF Init, CacheAge, DefsAge, StaleTakesTwoReloads, DefsHaveTheShape
<1> QED BY <1>3, <1>4, <1>5 DEF IInv

\* A reload puts the next generation at an address nobody can have cached the
\* last one under.
LEMMA ReloadStep == IInv /\ Reload => IInv'
<1> SUFFICES ASSUME IInv, NEW a \in Addrs, NEW sh \in Shapes, NEW sc \in Schemas,
                    heap[a] = None, Install(a, sh, sc)
             PROVE  IInv'
  BY DEF Reload
<1> DEFINE new == [gen |-> reloads + 1, shape |-> sh, schemas |-> sc]
<1>1. new \in Loaded /\ new # None /\ new.gen = reloads + 1
  BY NoneAssumption DEF IInv, Shape, Loaded, NoneAssumption
<1>2. /\ cell' = a /\ reloads' = reloads + 1 /\ a # cell
      /\ heap' = [x \in Addrs |->
                     IF x = a \/ \E r \in Requests : snap[r] = x
                     THEN [heap EXCEPT ![a] = new][x] ELSE None]
      /\ UNCHANGED <<snap, worker, cache, defs>>
  BY DEF Install, Drop, IInv, Held
<1>3. /\ heap'[a] = new
      /\ \A x \in Addrs : x # a /\ heap'[x] # None => heap'[x] = heap[x]
      /\ \A r \in Requests : snap[r] # None => snap[r] # a /\ heap'[snap[r]] = heap[snap[r]]
  BY <1>2 DEF IInv, Shape, Held
<1>4. Shape'
  BY <1>1, <1>2 DEF IInv, Shape
<1>5. Held'
  BY <1>1, <1>2, <1>3 DEF IInv, Held
<1>6. Youngest'
  BY <1>1, <1>2, <1>3 DEF IInv, Shape, Youngest, Loaded
<1>7. CacheAge'
  <2> SUFFICES ASSUME NEW t \in Threads, cache[t] # None
               PROVE  /\ cache[t].json.gen <= reloads + 1
                      /\ cache[t].json.gen # reloads + 1
                      /\ cache[t].print = cache[t].json.shape
                      /\ heap'[cache[t].addr] # None =>
                            FreshOrOlderThanOne(cache[t].json, heap'[cache[t].addr])
    BY <1>2 DEF CacheAge, FreshOrOlderThanOne
  <2>1. cache[t] \in Entry /\ cache[t].addr \in Addrs /\ cache[t].json.gen \in Nat
    BY DEF IInv, Shape, Entry, Loaded
  <2>2. /\ cache[t].json.gen <= reloads
        /\ cache[t].json.gen = reloads => cache[t].addr = cell
        /\ cache[t].print = cache[t].json.shape
        /\ heap[cache[t].addr] # None =>
               FreshOrOlderThanOne(cache[t].json, heap[cache[t].addr])
    BY DEF IInv, CacheAge
  <2>3. CASE cache[t].addr = a
    BY <1>1, <1>2, <1>3, <2>1, <2>2, <2>3 DEF IInv, Shape, FreshOrOlderThanOne
  <2>4. CASE cache[t].addr # a
    BY <1>3, <2>1, <2>2, <2>4 DEF IInv, Shape, FreshOrOlderThanOne
  <2> QED BY <2>3, <2>4
<1>8. DefsAge'
  BY <1>2, <1>3 DEF IInv, Held, DefsAge, StaleTakesTwoReloads, DefsHaveTheShape,
                    FreshOrOlderThanOne
<1> QED BY <1>4, <1>5, <1>6, <1>7, <1>8 DEF IInv

\* A request takes the Arc in the cell, or hands its thread back.
LEMMA SnapshotStep ==
    ASSUME IInv, NEW r \in Requests, NEW t \in Threads, Snapshot(r, t)
    PROVE  IInv'
<1>1. Shape'
  BY DEF IInv, Shape, Snapshot
<1>2. Held'
  BY NoneAssumption DEF IInv, Shape, Held, Snapshot, NoneAssumption
<1>3. Youngest' /\ CacheAge'
  BY DEF IInv, Youngest, CacheAge, Snapshot, FreshOrOlderThanOne
<1>4. defs[r] = None
  BY DEF IInv, Held, Snapshot
<1>5. DefsAge'
  BY <1>4 DEF IInv, Shape, DefsAge, StaleTakesTwoReloads, DefsHaveTheShape,
              FreshOrOlderThanOne, Snapshot
<1> QED BY <1>1, <1>2, <1>3, <1>5 DEF IInv

LEMMA EndMockStep ==
    ASSUME IInv, NEW r \in Requests, EndMock(r)
    PROVE  IInv'
<1>1. Shape' /\ Held'
  BY DEF IInv, Shape, Held, EndMock
<1>2. Youngest' /\ CacheAge' /\ DefsAge'
  BY DEF IInv, Youngest, CacheAge, DefsAge, StaleTakesTwoReloads,
         DefsHaveTheShape, FreshOrOlderThanOne, EndMock
<1> QED BY <1>1, <1>2 DEF IInv

\* A hit is as old as its entry; a miss is fresh and makes a fresh entry.
LEMMA ResolveStep ==
    ASSUME IInv, NEW r \in Requests, ResolveHit(r) \/ ResolveMiss(r)
    PROVE  IInv'
<1> DEFINE t == worker[r]
           a == snap[r]
<1>1. /\ t \in Threads /\ a \in Addrs /\ a # None
      /\ heap[a] # None /\ heap[a] \in Loaded
      /\ UNCHANGED <<heap, cell, reloads, snap, worker>>
  BY DEF IInv, Shape, Held, ResolveHit, ResolveMiss
<1>2. CASE ResolveHit(r)
  <2>1. /\ cache[t] \in Entry /\ cache[t].addr = a
        /\ cache[t].print = heap[a].shape
        /\ defs' = [defs EXCEPT ![r] = cache[t].json] /\ cache' = cache
        /\ cache[t].json \in Loaded
    BY <1>1, <1>2 DEF IInv, Shape, ResolveHit, Hit, Fingerprint, Entry
  <2>2. /\ cache[t].print = cache[t].json.shape
        /\ FreshOrOlderThanOne(cache[t].json, heap[a])
    BY <1>1, <1>2, <2>1 DEF IInv, CacheAge, ResolveHit, Hit
  <2>3. Shape'
    BY <1>1, <2>1 DEF IInv, Shape
  <2>7. Held'
    BY <1>1, <2>1 DEF IInv, Shape, Held
  <2>4. Youngest' /\ CacheAge'
    BY <1>1, <2>1 DEF IInv, Youngest, CacheAge, FreshOrOlderThanOne
  <2>5. DefsAge'
    BY <1>1, <2>1, <2>2 DEF IInv, Shape, DefsAge, StaleTakesTwoReloads,
                            DefsHaveTheShape, FreshOrOlderThanOne
  <2> QED BY <2>3, <2>4, <2>5, <2>7 DEF IInv
<1>3. CASE ResolveMiss(r)
  <2> DEFINE e == [addr |-> a, print |-> heap[a].shape, json |-> heap[a]]
  <2>1. /\ defs' = [defs EXCEPT ![r] = heap[a]]
        /\ cache' = [cache EXCEPT ![t] = e]
    BY <1>3 DEF ResolveMiss, Fingerprint
  <2>2. e \in Entry /\ heap[a].gen \in Nat
    BY <1>1 DEF Entry, Loaded
  <2>3. Shape'
    BY <1>1, <2>1, <2>2 DEF IInv, Shape
  <2>7. Held'
    BY <1>1, <2>1 DEF IInv, Shape, Held
  <2>4. Youngest'
    BY <1>1 DEF IInv, Youngest
  <2>5. CacheAge'
    <3> SUFFICES ASSUME NEW u \in Threads, cache'[u] # None
                 PROVE  /\ cache'[u].json.gen <= reloads
                        /\ cache'[u].json.gen = reloads => cache'[u].addr = cell
                        /\ cache'[u].print = cache'[u].json.shape
                        /\ heap[cache'[u].addr] # None =>
                               FreshOrOlderThanOne(cache'[u].json,
                                                   heap[cache'[u].addr])
      BY <1>1 DEF CacheAge, FreshOrOlderThanOne
    <3>1. CASE u = t
      <4>1. cache'[u] = e
        BY <1>1, <2>1, <3>1 DEF IInv, Shape
      <4> QED BY <1>1, <4>1 DEF IInv, Youngest, FreshOrOlderThanOne
    <3>2. CASE u # t
      <4>1. cache'[u] = cache[u]
        BY <2>1, <3>2 DEF IInv, Shape
      <4> QED BY <4>1 DEF IInv, CacheAge
    <3> QED BY <3>1, <3>2
  <2>6. DefsAge'
    BY <1>1, <2>1 DEF IInv, Shape, DefsAge, StaleTakesTwoReloads,
                      DefsHaveTheShape, FreshOrOlderThanOne
  <2> QED BY <2>3, <2>4, <2>5, <2>6, <2>7 DEF IInv
<1> QED BY <1>2, <1>3

\* Only what nobody holds is freed.
LEMMA FinishStep ==
    ASSUME IInv, NEW r \in Requests, Finish(r)
    PROVE  IInv'
<1>1. /\ snap' = [snap EXCEPT ![r] = None] /\ defs' = [defs EXCEPT ![r] = None]
      /\ worker[r] = None
      /\ UNCHANGED <<cell, reloads, worker, cache>>
      /\ heap' = [x \in Addrs |->
                     IF x = cell \/ \E q \in Requests : snap'[q] = x
                     THEN heap[x] ELSE None]
  BY DEF Finish, Drop
<1>2. /\ heap'[cell] = heap[cell]
      /\ \A x \in Addrs : heap'[x] # None => heap'[x] = heap[x]
      /\ \A q \in Requests : snap'[q] # None =>
            q # r /\ snap'[q] = snap[q] /\ heap'[snap'[q]] = heap[snap[q]]
  BY <1>1 DEF IInv, Shape
<1>3. Shape'
  BY <1>1 DEF IInv, Shape
<1>4. Held'
  BY <1>1, <1>2 DEF IInv, Shape, Held
<1>5. Youngest'
  BY <1>1, <1>2 DEF IInv, Youngest
<1>6. CacheAge'
  BY <1>1, <1>2 DEF IInv, Shape, Entry, CacheAge, FreshOrOlderThanOne
<1>7. DefsAge'
  <2> SUFFICES ASSUME NEW q \in Requests, defs'[q] # None
               PROVE  /\ FreshOrOlderThanOne(defs'[q], heap'[snap'[q]])
                      /\ defs'[q].shape = heap'[snap'[q]].shape
    BY DEF DefsAge, StaleTakesTwoReloads, DefsHaveTheShape, FreshOrOlderThanOne
  <2>1. q # r /\ defs'[q] = defs[q] /\ snap'[q] = snap[q]
    BY <1>1 DEF IInv, Shape
  <2>2. snap'[q] # None
    BY <2>1 DEF IInv, Held
  <2> QED BY <1>2, <2>1, <2>2 DEF IInv, DefsAge, StaleTakesTwoReloads,
                                  DefsHaveTheShape
<1> QED BY <1>3, <1>4, <1>5, <1>6, <1>7 DEF IInv

LEMMA NextInv == IInv /\ [Next]_vars => IInv'
<1> SUFFICES ASSUME IInv, [Next]_vars PROVE IInv'
  OBVIOUS
<1>1. CASE UNCHANGED vars
  BY <1>1 DEF vars, IInv, Shape, Held, Youngest, CacheAge, DefsAge,
              StaleTakesTwoReloads, DefsHaveTheShape, FreshOrOlderThanOne
<1>2. CASE Next
  BY <1>2, ReloadStep, SnapshotStep, ResolveStep, EndMockStep, FinishStep DEF Next
<1> QED BY <1>1, <1>2

LEMMA Invariance == Spec => []IInv
BY InitInv, NextInv, PTL DEF Spec

\* Types, and that no request or cell points to a freed specification
\* (snapshot_spec: the Arc is cloned under the read lock).
THEOREM TypeCorrect == Spec => []TypeOK
<1>1. IInv => TypeOK
  BY DEF IInv, Shape, Held, TypeOK
<1> QED BY <1>1, Invariance, PTL

\* A stale cache hit takes two reloads (debouncer_loop allocates the new
\* specification before it drops the old one; SPEC_JSON_CACHE).
THEOREM StaleTakesTwoReloadsHolds == Spec => []StaleTakesTwoReloads
<1>1. IInv => StaleTakesTwoReloads
  BY DEF IInv, DefsAge
<1> QED BY <1>1, Invariance, PTL

\* The fingerprint rules out $defs of a specification of another shape
\* (spec_fingerprint, cached_spec_root_and_defs).
THEOREM DefsHaveTheShapeHolds == Spec => []DefsHaveTheShape
<1>1. IInv => DefsHaveTheShape
  BY DEF IInv, DefsAge
<1> QED BY <1>1, Invariance, PTL
=============================================================================
