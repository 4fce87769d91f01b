------------------------------- MODULE Metrics -------------------------------
(***************************************************************************)
(* The metrics registry shared by all requests and by /metrics             *)
(* (crates/chasm-server/src/main.rs: Metrics, HistogramSeries, the loop    *)
(* over validation errors in handle_request_inner, finalize_response).     *)
(*                                                                         *)
(* The registry is three maps behind read-write locks, from labels to      *)
(* shared counters or histogram series.  A recorder is one response on its *)
(* way out: it bumps the counter of each validation error, then that of    *)
(* the request, then its method's histogram.  The scraper is /metrics.     *)
(* Between any two operations on a lock or an atomic the others may run.   *)
(* Time is measured in buckets: a duration d is within the bounds d and up.*)
(***************************************************************************)
EXTENDS Naturals, Sequences, FiniteSets, FiniteSetsExt

CONSTANTS
    Recorders,   \* responses, each recorded once
    Methods,     \* upper-cased request methods
    Routes,      \* route and status of a response
    Errors,      \* location and code of a validation error
    Buckets,     \* number of bounds in HISTOGRAM_BUCKETS
    MaxErrors,   \* bound: validation errors of one request
    None         \* not registered, no counter held

Keys == Methods \X Routes
Labels == Keys \cup Errors

ASSUME RecordersAssumption == IsFiniteSet(Recorders) /\ None \notin Recorders
ASSUME LabelsAssumption == Keys \cap Errors = {}
ASSUME BoundAssumption == Buckets \in Nat \ {0} /\ MaxErrors \in Nat

VARIABLES
    counters,  \* requests_total and validation_errors_total: the counter of
               \* each label, named after the recorder that allocated it
    value,     \* the AtomicU64s, of each label and allocating recorder
    durations, \* duration_buckets: the series of each method, likewise
    series,    \* the HistogramSeries
    pc,        \* where a recorder is
    prog,      \* the labels a recorder has to bump, in order
    at,        \* how many of them it has bumped
    held,      \* the counter or series whose Arc it holds
    dur,       \* its duration
    bucket,    \* the next bucket of its series to look at
    current,   \* the sum it has loaded
    scan,      \* where the scraper is
    method,    \* the method whose series the scraper reads
    left,      \* the methods whose series it has yet to read
    shown,     \* what it has read of the series
    overlap    \* history: recorders that were inside that series meanwhile

registry == <<counters, value, durations, series>>
mine == <<prog, at, held, dur, bucket, current>>
scraper == <<scan, method, left, shown>>
vars == <<registry, pc, mine, scraper, overlap>>

Durations == 1..Buckets + 1
Series == [buckets : [1..Buckets -> Nat], count : Nat, sum : Nat]
NewSeries == [buckets |-> [i \in 1..Buckets |-> 0], count |-> 0, sum |-> 0]

TypeOK ==
    /\ counters \in [Labels -> Recorders \cup {None}]
    /\ value \in [Labels -> [Recorders -> Nat]]
    /\ durations \in [Methods -> Recorders \cup {None}]
    /\ series \in [Methods -> [Recorders -> Series]]
    /\ pc \in [Recorders -> {"idle", "lookup", "guarded", "register", "add",
                             "find", "create", "bucket", "count", "load",
                             "exchange", "done"}]
    /\ prog \in [Recorders -> Seq(Labels)]
    /\ at \in [Recorders -> Nat]
    /\ held \in [Recorders -> Recorders \cup {None}]
    /\ dur \in [Recorders -> Durations]
    /\ bucket \in [Recorders -> Nat]
    /\ current \in [Recorders -> Nat]
    /\ scan \in {"idle", "requests", "validation", "durations",
                 "count", "bucket", "sum", "shown"}
    /\ method \in Methods
    /\ left \in SUBSET Methods
    /\ shown \in [buckets : Seq(Nat), count : Nat, sum : Nat]
    /\ overlap \in SUBSET Recorders

Init ==
    /\ counters = [l \in Labels |-> None]
    /\ value = [l \in Labels |-> [t \in Recorders |-> 0]]
    /\ durations = [m \in Methods |-> None]
    /\ series = [m \in Methods |-> [t \in Recorders |-> NewSeries]]
    /\ pc = [t \in Recorders |-> "idle"]
    /\ prog = [t \in Recorders |-> <<>>]
    /\ at = [t \in Recorders |-> 0]
    /\ held = [t \in Recorders |-> None]
    /\ dur = [t \in Recorders |-> 1]
    /\ bucket = [t \in Recorders |-> 1]
    /\ current = [t \in Recorders |-> 0]
    /\ scan = "idle"
    /\ method \in Methods
    /\ left = {}
    /\ shown = [buckets |-> <<>>, count |-> 0, sum |-> 0]
    /\ overlap = {}
-----------------------------------------------------------------------------
(* Recording the counters: record_request and, for each validation error,  *)
(* the same sequence of operations on its own map.                         *)

Goto(t, from, to) == pc[t] = from /\ pc' = [pc EXCEPT ![t] = to]

Label(t) == prog[t][at[t] + 1]
MethodOf(t) == prog[t][Len(prog[t])][1]

\* Somebody holds the read lock of the map the label belongs to.
ReadLocked(l) ==
    \/ \E t \in Recorders : pc[t] = "guarded" /\ (Label(t) \in Keys <=> l \in Keys)
    \/ scan = (IF l \in Keys THEN "requests" ELSE "validation")

\* A response with its validation errors, if any, is about to be recorded.
Begin(t) ==
    /\ Goto(t, "idle", "lookup")
    /\ \E n \in 0..MaxErrors : \E errors \in [1..n -> Errors], key \in Keys :
          prog' = [prog EXCEPT ![t] = Append(errors, key)]
    /\ UNCHANGED <<registry, at, held, dur, bucket, current, scraper, overlap>>

\* The label is known: the counter is bumped under the read lock.
LookupHit(t) ==
    /\ Goto(t, "lookup", "guarded")
    /\ counters[Label(t)] # None
    /\ held' = [held EXCEPT ![t] = counters[Label(t)]]
    /\ UNCHANGED <<registry, prog, at, dur, bucket, current, scraper, overlap>>

LookupMiss(t) ==
    /\ Goto(t, "lookup", "register")
    /\ counters[Label(t)] = None
    /\ UNCHANGED <<registry, mine, scraper, overlap>>

\* Mutant: insert instead of entry().or_insert_with().
RegisterAnew(t) ==
    /\ Goto(t, "register", "add")
    /\ ~ReadLocked(Label(t))
    /\ counters' = [counters EXCEPT ![Label(t)] = t]
    /\ held' = [held EXCEPT ![t] = t]
    /\ UNCHANGED <<value, durations, series, prog, at, dur, bucket, current,
                   scraper, overlap>>

\* The write lock is taken, the counter looked up again, allocated if it is
\* still missing, cloned, and the lock released.
Register(t) ==
    LET l == Label(t)
        counter == IF counters[l] = None THEN t ELSE counters[l] IN
    /\ Goto(t, "register", "add")
    /\ ~ReadLocked(l)
    /\ counters' = [counters EXCEPT ![l] = counter]
    /\ held' = [held EXCEPT ![t] = counter]
    /\ UNCHANGED <<value, durations, series, prog, at, dur, bucket, current,
                   scraper, overlap>>

\* Mutant: fetch_sub.
Subtract(t) ==
    /\ pc[t] \in {"guarded", "add"}
    /\ value' = [value EXCEPT ![Label(t)][held[t]] = @ - 1]
    /\ at' = [at EXCEPT ![t] = @ + 1]
    /\ held' = [held EXCEPT ![t] = None]
    /\ pc' = [pc EXCEPT ![t] = IF at[t] + 1 < Len(prog[t]) THEN "lookup" ELSE "find"]
    /\ UNCHANGED <<counters, durations, series, prog, dur, bucket, current,
                   scraper, overlap>>

\* counter.fetch_add(1), and on to the next label or to the histogram.
Add(t) ==
    /\ pc[t] \in {"guarded", "add"}
    /\ value' = [value EXCEPT ![Label(t)][held[t]] = @ + 1]
    /\ at' = [at EXCEPT ![t] = @ + 1]
    /\ held' = [held EXCEPT ![t] = None]
    /\ pc' = [pc EXCEPT ![t] = IF at[t] + 1 < Len(prog[t]) THEN "lookup" ELSE "find"]
    /\ UNCHANGED <<counters, durations, series, prog, dur, bucket, current,
                   scraper, overlap>>
-----------------------------------------------------------------------------
(* Recording the histogram: record_duration. *)

\* The scraper holds the read lock for as long as it renders the map; the
\* recorders clone the Arc and release it at once.
DurationsLocked == scan \in {"durations", "count", "bucket", "sum", "shown"}

Find(t) ==
    /\ pc[t] = "find"
    /\ \E d \in Durations : dur' = [dur EXCEPT ![t] = d]
    /\ \/ /\ durations[MethodOf(t)] # None
          /\ pc' = [pc EXCEPT ![t] = "bucket"]
          /\ held' = [held EXCEPT ![t] = durations[MethodOf(t)]]
       \/ /\ durations[MethodOf(t)] = None
          /\ pc' = [pc EXCEPT ![t] = "create"]
          /\ UNCHANGED held
    /\ UNCHANGED <<registry, prog, at, bucket, current, scraper, overlap>>

\* Mutant: the read guard is still held when the write lock is requested.
CreateUnderGuard(t) ==
    /\ Goto(t, "create", "bucket")
    /\ ~DurationsLocked
    /\ \A q \in Recorders : pc[q] # "create"
    /\ durations' = [durations EXCEPT ![MethodOf(t)] = t]
    /\ held' = [held EXCEPT ![t] = t]
    /\ UNCHANGED <<counters, value, series, prog, at, dur, bucket, current,
                   scraper, overlap>>

\* Mutant: insert instead of entry().or_insert_with().
CreateAnew(t) ==
    /\ Goto(t, "create", "bucket")
    /\ ~DurationsLocked
    /\ durations' = [durations EXCEPT ![MethodOf(t)] = t]
    /\ held' = [held EXCEPT ![t] = t]
    /\ UNCHANGED <<counters, value, series, prog, at, dur, bucket, current,
                   scraper, overlap>>

Create(t) ==
    LET m == MethodOf(t)
        s == IF durations[m] = None THEN t ELSE durations[m] IN
    /\ Goto(t, "create", "bucket")
    /\ ~DurationsLocked
    /\ durations' = [durations EXCEPT ![m] = s]
    /\ held' = [held EXCEPT ![t] = s]
    /\ UNCHANGED <<counters, value, series, prog, at, dur, bucket, current,
                   scraper, overlap>>

\* A recorder that enters the series the scraper is reading is noted.
Enters(t) ==
    overlap' = IF MethodOf(t) = method THEN overlap \cup {t} ELSE overlap

\* Mutant: only the smallest bucket that fits is bumped.
BumpOne(t) ==
    /\ pc[t] = "bucket"
    /\ bucket[t] <= Buckets
    /\ series' = IF bucket[t] = dur[t]
                 THEN [series EXCEPT ![MethodOf(t)][held[t]].buckets[bucket[t]] = @ + 1]
                 ELSE series
    /\ bucket' = [bucket EXCEPT ![t] = @ + 1]
    /\ Enters(t)
    /\ UNCHANGED <<counters, value, durations, pc, prog, at, held, dur, current,
                   scraper>>

\* Every bucket whose bound the duration is within is bumped, in ascending
\* order of the bounds.
Bump(t) ==
    /\ pc[t] = "bucket"
    /\ bucket[t] <= Buckets
    /\ series' = IF dur[t] <= bucket[t]
                 THEN [series EXCEPT ![MethodOf(t)][held[t]].buckets[bucket[t]] = @ + 1]
                 ELSE series
    /\ bucket' = [bucket EXCEPT ![t] = @ + 1]
    /\ Enters(t)
    /\ UNCHANGED <<counters, value, durations, pc, prog, at, held, dur, current,
                   scraper>>

Count(t) ==
    /\ Goto(t, "bucket", "load")
    /\ bucket[t] > Buckets
    /\ series' = [series EXCEPT ![MethodOf(t)][held[t]].count = @ + 1]
    /\ Enters(t)
    /\ UNCHANGED <<counters, value, durations, mine, scraper>>

Load(t) ==
    /\ Goto(t, "load", "exchange")
    /\ current' = [current EXCEPT ![t] = series[MethodOf(t)][held[t]].sum]
    /\ UNCHANGED <<registry, prog, at, held, dur, bucket, scraper, overlap>>

\* Mutant: store instead of compare_exchange.
StoreSum(t) ==
    /\ Goto(t, "exchange", "done")
    /\ series' = [series EXCEPT ![MethodOf(t)][held[t]].sum = current[t] + dur[t]]
    /\ Enters(t)
    /\ UNCHANGED <<counters, value, durations, mine, scraper>>

Exchange(t) ==
    /\ Goto(t, "exchange", "done")
    /\ series[MethodOf(t)][held[t]].sum = current[t]
    /\ series' = [series EXCEPT ![MethodOf(t)][held[t]].sum = current[t] + dur[t]]
    /\ Enters(t)
    /\ UNCHANGED <<counters, value, durations, mine, scraper>>

\* compare_exchange_weak fails and yields the sum it has seen.  A spurious
\* failure yields the sum already loaded: it is a stuttering step.
ExchangeFails(t) ==
    /\ pc[t] = "exchange"
    /\ series[MethodOf(t)][held[t]].sum # current[t]
    /\ current' = [current EXCEPT ![t] = series[MethodOf(t)][held[t]].sum]
    /\ UNCHANGED <<registry, pc, prog, at, held, dur, bucket, scraper, overlap>>
-----------------------------------------------------------------------------
(* Rendering.  The counters of the first two maps are read one by one too, *)
(* but each is printed by itself, so that only the locks matter here.      *)

Step(from, to) == scan = from /\ scan' = to

Inside(t) == pc[t] \in {"bucket", "load", "exchange"}

LockRequests ==
    /\ Step("idle", "requests")
    /\ UNCHANGED <<registry, pc, mine, method, left, shown, overlap>>

LockValidation ==
    /\ Step("requests", "validation")
    /\ UNCHANGED <<registry, pc, mine, method, left, shown, overlap>>

\* Under the lock the map keeps the series it has.
LockDurations ==
    /\ Step("validation", "durations")
    /\ left' = {m \in Methods : durations[m] # None}
    /\ UNCHANGED <<registry, pc, mine, method, shown, overlap>>

\* The next series of the map: whoever is half-way through it is noted.
NextSeries ==
    /\ Step("durations", "count")
    /\ \E m \in left :
          /\ method' = m
          /\ left' = left \ {m}
          /\ overlap' = {t \in Recorders : Inside(t) /\ MethodOf(t) = m}
    /\ UNCHANGED <<registry, pc, mine, shown>>

\* The count, which is the +Inf bucket too, is read before the buckets.
ReadCount ==
    /\ Step("count", "bucket")
    /\ shown' = [buckets |-> <<>>, sum |-> 0,
                 count |-> series[method][durations[method]].count]
    /\ UNCHANGED <<registry, pc, mine, method, left, overlap>>

ReadBucket ==
    LET i == Len(shown.buckets) + 1 IN
    /\ scan = "bucket"
    /\ i <= Buckets
    /\ shown' = [shown EXCEPT !.buckets =
                    Append(@, series[method][durations[method]].buckets[i])]
    /\ UNCHANGED <<registry, pc, mine, scan, method, left, overlap>>

ReadSum ==
    /\ Step("bucket", "shown")
    /\ Len(shown.buckets) = Buckets
    /\ shown' = [shown EXCEPT !.sum = series[method][durations[method]].sum]
    /\ UNCHANGED <<registry, pc, mine, method, left, overlap>>

Rendered ==
    /\ Step("shown", "durations")
    /\ shown' = [buckets |-> <<>>, count |-> 0, sum |-> 0]
    /\ overlap' = {}
    /\ UNCHANGED <<registry, pc, mine, method, left>>

Unlock ==
    /\ Step("durations", "idle")
    /\ left = {}
    /\ UNCHANGED <<registry, pc, mine, method, left, shown, overlap>>
-----------------------------------------------------------------------------
Recorder(t) ==
    \/ LookupHit(t) \/ LookupMiss(t) \/ Register(t) \/ Add(t)
    \/ Find(t) \/ Create(t) \/ Bump(t) \/ Count(t)
    \/ Load(t) \/ Exchange(t) \/ ExchangeFails(t)

Render ==
    \/ LockValidation \/ LockDurations
    \/ NextSeries \/ ReadCount \/ ReadBucket \/ ReadSum \/ Rendered \/ Unlock

Next == LockRequests \/ Render \/ \E t \in Recorders : Begin(t) \/ Recorder(t)

Spec == Init /\ [][Next]_vars

\* The runtime runs every task, compare_exchange_weak does not fail
\* spuriously forever, and the locks prefer a waiting writer to new readers:
\* strong fairness, because scrapes close the way to Register and Create
\* again and again.  Nobody owes the server a request or a scrape.
Fairness == WF_vars(Render) /\ \A t \in Recorders : SF_vars(Recorder(t))
FairSpec == Spec /\ Fairness
-----------------------------------------------------------------------------
(* Properties. *)

\* What /metrics would show of a label, and of a method, now.
Total(l) == IF counters[l] = None THEN 0 ELSE value[l][counters[l]]
Shown(m) == IF durations[m] = None THEN NewSeries ELSE series[m][durations[m]]

\* The increments of a label so far, as pairs of recorder and position.
Bumps(l) == {b \in Recorders \X (1..MaxErrors + 1) :
                b[2] <= at[b[1]] /\ prog[b[1]][b[2]] = l}

\* No increment is lost or counted twice, whatever the order in which
\* recorders look up, register and bump a label: the registration looks the
\* label up again under the write lock (record_request and the loop over
\* validation errors in handle_request_inner).
CountersAreExact == \A l \in Labels : Total(l) = Cardinality(Bumps(l))

\* The recorders of a method that are past a bucket, or past the count.
Passed(m, i) == {t \in Recorders : /\ Inside(t) \/ pc[t] = "done"
                                   /\ MethodOf(t) = m
                                   /\ dur[t] <= i /\ i < bucket[t]}
Counted(m) == {t \in Recorders : /\ pc[t] \in {"load", "exchange", "done"}
                                 /\ MethodOf(t) = m}

\* Each bucket counts the recorded durations within its bound, and the count
\* counts them all, also when recorders race to create the series
\* (record_duration; HistogramSeries.buckets).
SeriesAreExact ==
    \A m \in Methods :
        /\ \A i \in 1..Buckets : Shown(m).buckets[i] = Cardinality(Passed(m, i))
        /\ Shown(m).count = Cardinality(Counted(m))

\* The sum is that of the durations recorded: no exchange overwrites another
\* (record_duration, the compare_exchange_weak loop).
SumIsExact ==
    \A m \in Methods :
        Shown(m).sum = MapThenSumSet(LAMBDA t : dur[t],
                           {t \in Recorders : pc[t] = "done" /\ MethodOf(t) = m})

\* A scrape is a cumulative histogram but for the recordings that were under
\* way while it read the series: each of them can be off by one
\* (render against record_duration, which share no lock).
TearIsBounded ==
    scan = "shown" =>
        /\ \A i, j \in 1..Buckets :
              i < j => shown.buckets[i] <= shown.buckets[j] + Cardinality(overlap)
        /\ shown.buckets[Buckets] <= shown.count + Cardinality(overlap)

\* Every response is recorded: no recorder waits forever for a lock it holds
\* itself, or retries its exchange forever (record_request, record_duration).
AllRecorded == \A t \in Recorders : pc[t] = "lookup" ~> pc[t] = "done"

\* "Cumulative bucket counts ... Each bucket counts observations with duration
\* <= bucket_bound", count is the +Inf bucket (HistogramSeries): what
\* /metrics renders is a cumulative histogram.
ScrapeIsCumulative ==
    scan = "shown" =>
        /\ \A i, j \in 1..Buckets : i < j => shown.buckets[i] <= shown.buckets[j]
        /\ shown.buckets[Buckets] <= shown.count
=============================================================================
