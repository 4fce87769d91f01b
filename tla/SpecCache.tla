------------------------------ MODULE SpecCache ------------------------------
(***************************************************************************)
(* The hot-swapped specification and the per-thread cache of its JSON.     *)
(*                                                                         *)
(* Every request clones the Arc in the cell and keeps it until it is       *)
(* answered; a reload installs a new Arc (crates/chasm-server/src/main.rs, *)
(* snapshot_spec, handle_request_inner, debouncer_loop).  Each worker      *)
(* thread remembers the `$defs` of the last specification it serialised,   *)
(* under the address of that specification and a fingerprint of a few of   *)
(* its fields (crates/chasm-engine/src/engine.rs,                          *)
(* cached_spec_root_and_defs).  Addresses are the allocator's: once the    *)
(* last Arc is gone, the next specification may live at the same place.    *)
(***************************************************************************)
EXTENDS Naturals

CONSTANTS
    Threads,     \* worker threads of the runtime
    Requests,    \* request slots
    Addrs,       \* addresses the allocator may place a specification at
    Shapes,      \* what the fingerprint sees: title, version, number of
                 \* paths, first and last path
    Schemas,     \* components.schemas, which the fingerprint does not see
    None,        \* no address, no thread, no entry, nothing allocated
    MaxReloads   \* bound: reloads

VARIABLES
    heap,     \* what lives at an address: a loaded specification or None
    cell,     \* the address in spec_cell
    reloads,  \* number of reloads so far: the generation of the cell
    snap,     \* the address of the Arc a request holds
    worker,   \* the thread that is executing mock() for a request
    cache,    \* SPEC_JSON_CACHE of each thread
    defs      \* the specification whose $defs a request's body was built with

vars == <<heap, cell, reloads, snap, worker, cache, defs>>

\* A loaded specification: its content and, to tell two loads of the same
\* file apart, its generation.
Loaded == [gen : Nat, shape : Shapes, schemas : Schemas]

Fingerprint(spec) == spec.shape

Entry == [addr : Addrs, print : Shapes, json : Loaded]

ASSUME NoneAssumption ==
    None \notin Addrs /\ None \notin Threads /\ None \notin Loaded /\ None \notin Entry
ASSUME MaxReloadsAssumption == MaxReloads \in Nat

Live == {a \in Addrs : heap[a] # None}

TypeOK ==
    /\ heap \in [Addrs -> Loaded \cup {None}]
    /\ cell \in Live
    /\ reloads \in Nat
    /\ snap \in [Requests -> Live \cup {None}]
    /\ worker \in [Requests -> Threads \cup {None}]
    /\ cache \in [Threads -> Entry \cup {None}]
    /\ defs \in [Requests -> Loaded \cup {None}]

Init ==
    /\ \E a \in Addrs, sh \in Shapes, sc \in Schemas :
          /\ cell = a
          /\ heap = [x \in Addrs |->
                        IF x = a THEN [gen |-> 0, shape |-> sh, schemas |-> sc]
                                 ELSE None]
    /\ reloads = 0
    /\ snap = [r \in Requests |-> None]
    /\ worker = [r \in Requests |-> None]
    /\ cache = [t \in Threads |-> None]
    /\ defs = [r \in Requests |-> None]
-----------------------------------------------------------------------------
\* Mutant: a request does not count as an owner.
FreeUnlessInstalled(h, installed, held) ==
    [a \in Addrs |-> IF a = installed THEN h[a] ELSE None]

\* The last Arc to go frees its specification: nothing is left at addresses
\* that neither the cell nor a request holds.
Drop(h, installed, held) ==
    [a \in Addrs |-> IF a = installed \/ \E r \in Requests : held[r] = a
                     THEN h[a] ELSE None]

Install(a, sh, sc) ==
    LET new == [gen |-> reloads + 1, shape |-> sh, schemas |-> sc] IN
    /\ reloads < MaxReloads
    /\ reloads' = reloads + 1
    /\ cell' = a
    /\ heap' = Drop([heap EXCEPT ![a] = new], a, snap)
    /\ UNCHANGED <<snap, worker, cache, defs>>

\* Mutant: the old specification is dropped before the new one is allocated.
DropThenInstall ==
    \E a \in Addrs, sh \in Shapes, sc \in Schemas :
        (a = cell \/ heap[a] = None) /\ (\A r \in Requests : snap[r] # a)
        /\ Install(a, sh, sc)

\* *guard = Arc::new(new_spec): the new specification is allocated while the
\* old one is still there, and then the cell lets go of the old one.
Reload ==
    \E a \in Addrs, sh \in Shapes, sc \in Schemas :
        heap[a] = None /\ Install(a, sh, sc)
-----------------------------------------------------------------------------
\* A request clones the Arc and calls mock() on the same thread, without
\* awaiting in between.
Snapshot(r, t) ==
    /\ snap[r] = None
    /\ \A q \in Requests : worker[q] # t
    /\ snap' = [snap EXCEPT ![r] = cell]
    /\ worker' = [worker EXCEPT ![r] = t]
    /\ UNCHANGED <<heap, cell, reloads, cache, defs>>

\* Mutant: the address alone decides.
SameAddress(entry, a) == entry # None /\ entry.addr = a

\* The cached JSON is that of the specification at address a, as far as the
\* cache can tell.
Hit(entry, a) ==
    entry # None /\ entry.addr = a /\ entry.print = Fingerprint(heap[a])

\* cached_spec_root_and_defs, once per schema mock() has to serialise.
ResolveHit(r) ==
    /\ worker[r] # None
    /\ Hit(cache[worker[r]], snap[r])
    /\ defs' = [defs EXCEPT ![r] = cache[worker[r]].json]
    /\ UNCHANGED <<heap, cell, reloads, snap, worker, cache>>

ResolveMiss(r) ==
    /\ worker[r] # None
    /\ ~Hit(cache[worker[r]], snap[r])
    /\ LET spec == heap[snap[r]] IN
          /\ defs' = [defs EXCEPT ![r] = spec]
          /\ cache' = [cache EXCEPT ![worker[r]] =
                [addr |-> snap[r], print |-> Fingerprint(spec), json |-> spec]]
    /\ UNCHANGED <<heap, cell, reloads, snap, worker>>

\* mock() returns; the request may now sleep for the delay of its operation,
\* and the thread runs other requests.
EndMock(r) ==
    /\ worker[r] # None
    /\ worker' = [worker EXCEPT ![r] = None]
    /\ UNCHANGED <<heap, cell, reloads, snap, cache, defs>>

\* The request is answered, times out or loses its client: its Arc is
\* dropped, and the specification with it if it was the last.
Finish(r) ==
    /\ snap[r] # None
    /\ worker[r] = None
    /\ snap' = [snap EXCEPT ![r] = None]
    /\ defs' = [defs EXCEPT ![r] = None]
    /\ heap' = Drop(heap, cell, snap')
    /\ UNCHANGED <<cell, reloads, worker, cache>>

Next ==
    \/ Reload
    \/ \E r \in Requests :
          \/ \E t \in Threads : Snapshot(r, t)
          \/ ResolveHit(r) \/ ResolveMiss(r) \/ EndMock(r) \/ Finish(r)

Spec == Init /\ [][Next]_vars
-----------------------------------------------------------------------------
(* Properties. *)

\* The generations a request may see when it holds the specification now.
FreshOrOlderThanOne(json, now) == json.gen = now.gen \/ json.gen + 2 <= now.gen

\* A stale cache entry takes two reloads: the specification just replaced
\* still occupies its address when the new one is allocated, so the first
\* request after a reload cannot be built with the $defs of the specification
\* before (Arc::new in debouncer_loop, pointer key in SPEC_JSON_CACHE).
StaleTakesTwoReloads ==
    \A r \in Requests :
        defs[r] # None => FreshOrOlderThanOne(defs[r], heap[snap[r]])

\* A body is built with the $defs of a specification that has the title,
\* version, and paths of the one the request holds (spec_fingerprint).
DefsHaveTheShape ==
    \A r \in Requests : defs[r] # None => defs[r].shape = heap[snap[r]].shape

\* "the fingerprint guards against allocator reuse handing back a stale entry
\* for a different spec at the same address" (engine.rs, SPEC_JSON_CACHE).
NoStaleDefs ==
    \A r \in Requests :
        defs[r] # None => defs[r].schemas = heap[snap[r]].schemas
=============================================================================
