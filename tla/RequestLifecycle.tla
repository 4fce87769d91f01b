--------------------------- MODULE RequestLifecycle ---------------------------
(***************************************************************************)
(* What happens to a request between its arrival and its answer: the       *)
(* connection limit, the request timeout, the two awaits of the handler,   *)
(* the in-flight gauge, the request counter, and the shutdown              *)
(* (crates/chasm-server/src/main.rs: run_mock, apply_timeout_layer,        *)
(* rewrite_timeout_response, handle_request_inner, finalize_response,      *)
(* InflightGuard, shutdown_signal).                                        *)
(*                                                                         *)
(* From the outside in, a request passes the timeout, the limit and the    *)
(* handler, which runs to its next await in one step.  Router::layer wraps *)
(* every endpoint of the router by itself, and the fallback is two of      *)
(* them: each has a limit of its own, while the gauge is one.  The         *)
(* timeout, a client that hangs up, or the end of the process drop the     *)
(* whole future at the await it is suspended in: the queue of the limit,   *)
(* the body, or the delay of the operation.                                *)
(***************************************************************************)
EXTENDS Naturals, Sequences, FiniteSets, SequencesExt

CONSTANTS
    Requests,         \* requests for the mock fallback
    Roots,            \* those of them for the path "/"
    Statuses,         \* what mock() may answer; may contain 408 and 413
    MaxConnections,   \* --max-connections
    None              \* no answer, no status yet

ASSUME RequestsAssumption == IsFiniteSet(Requests) /\ Roots \subseteq Requests
ASSUME LimitAssumption == MaxConnections \in Nat
ASSUME NoneAssumption == None \notin Statuses \cup {408, 413}

VARIABLES
    timeout,   \* "on" unless --request-timeout is zero
    tls,       \* "on" if the server also serves HTTPS
    phase,     \* "serving", "draining" after a signal, "exited"
    pc,        \* where a request is
    permits,   \* free permits of each ConcurrencyLimit's semaphore
    queue,     \* requests waiting for one, in order, by endpoint
    inflight,  \* metrics.inflight
    counted,   \* metrics.requests_total, by status
    status,    \* status of the answer while the handler sleeps
    seen       \* status of the answer the client got

config == <<timeout, tls>>
vars == <<config, phase, pc, permits, queue, inflight, counted, status, seen>>

Codes == Statuses \cup {408, 413}

\* Router::fallback registers the handler for the root and for all other paths.
Endpoints == {"/", "/{*}"}
EndpointOf(r) == IF r \in Roots THEN "/" ELSE "/{*}"
At(e) == {r \in Requests : EndpointOf(r) = e}

TypeOK ==
    /\ timeout \in {"on", "off"}
    /\ tls \in {"on", "off"}
    /\ phase \in {"serving", "draining", "exited"}
    /\ pc \in [Requests -> {"new", "queued", "granted", "body", "delay",
                            "answered", "gone"}]
    /\ permits \in [Endpoints -> 0..MaxConnections]
    /\ queue \in [Endpoints -> Seq(Requests)]
    /\ inflight \in Nat
    /\ counted \in [Codes -> Nat]
    /\ status \in [Requests -> Codes \cup {None}]
    /\ seen \in [Requests -> Codes \cup {None}]

Init ==
    /\ timeout \in {"on", "off"}
    /\ tls \in {"on", "off"}
    /\ phase = "serving"
    /\ pc = [r \in Requests |-> "new"]
    /\ permits = [e \in Endpoints |-> MaxConnections]
    /\ queue = [e \in Endpoints |-> <<>>]
    /\ inflight = 0
    /\ counted = [s \in Codes |-> 0]
    /\ status = [r \in Requests |-> None]
    /\ seen = [r \in Requests |-> None]

InHandler(r) == pc[r] \in {"body", "delay"}
HasPermit(r) == pc[r] \in {"granted", "body", "delay"}
-----------------------------------------------------------------------------
(* The limit. *)

\* A free permit: the handler starts at once, counts itself in and awaits
\* the body.
ArriveStart(r) ==
    /\ phase = "serving"
    /\ pc[r] = "new"
    /\ permits[EndpointOf(r)] > 0
    /\ permits' = [permits EXCEPT ![EndpointOf(r)] = @ - 1]
    /\ pc' = [pc EXCEPT ![r] = "body"]
    /\ inflight' = inflight + 1
    /\ UNCHANGED <<config, phase, queue, counted, status, seen>>

\* None: the request queues up, with its timeout running.
ArriveQueue(r) ==
    /\ phase = "serving"
    /\ pc[r] = "new"
    /\ permits[EndpointOf(r)] = 0
    /\ pc' = [pc EXCEPT ![r] = "queued"]
    /\ queue' = [queue EXCEPT ![EndpointOf(r)] = Append(@, r)]
    /\ UNCHANGED <<config, phase, permits, inflight, counted, status, seen>>

\* The task of a request that was handed a permit runs again.
Start(r) ==
    /\ phase # "exited"
    /\ pc[r] = "granted"
    /\ pc' = [pc EXCEPT ![r] = "body"]
    /\ inflight' = inflight + 1
    /\ UNCHANGED <<config, phase, permits, queue, counted, status, seen>>

\* Mutant: the permit goes to the longest queue, whichever endpoint it is of.
ReleaseToAny(r, to) ==
    IF \A e \in Endpoints : queue[e] = <<>>
    THEN /\ permits' = [permits EXCEPT ![EndpointOf(r)] = @ + 1]
         /\ pc' = [pc EXCEPT ![r] = to]
         /\ UNCHANGED queue
    ELSE \E e \in Endpoints :
            /\ queue[e] # <<>>
            /\ \A f \in Endpoints : Len(queue[f]) <= Len(queue[e])
            /\ pc' = [pc EXCEPT ![r] = to, ![Head(queue[e])] = "granted"]
            /\ queue' = [queue EXCEPT ![e] = Tail(@)]
            /\ UNCHANGED permits

\* Mutant: the permit is handed on and put back as well.
ReleaseTwice(r, to) ==
    LET e == EndpointOf(r) IN
    /\ permits' = [permits EXCEPT ![e] = @ + 1]
    /\ IF queue[e] = <<>>
       THEN /\ pc' = [pc EXCEPT ![r] = to]
            /\ UNCHANGED queue
       ELSE /\ pc' = [pc EXCEPT ![r] = to, ![Head(queue[e])] = "granted"]
            /\ queue' = [queue EXCEPT ![e] = Tail(@)]

\* Mutant: the permit goes back, and nobody is woken.
ReleaseToPool(r, to) ==
    /\ permits' = [permits EXCEPT ![EndpointOf(r)] = @ + 1]
    /\ pc' = [pc EXCEPT ![r] = to]
    /\ UNCHANGED queue

\* A request leaves with its permit, which goes to the first in the queue of the
\* same endpoint.
Release(r, to) ==
    LET e == EndpointOf(r) IN
    IF queue[e] = <<>>
    THEN /\ permits' = [permits EXCEPT ![e] = @ + 1]
         /\ pc' = [pc EXCEPT ![r] = to]
         /\ UNCHANGED queue
    ELSE /\ pc' = [pc EXCEPT ![r] = to, ![Head(queue[e])] = "granted"]
         /\ queue' = [queue EXCEPT ![e] = Tail(@)]
         /\ UNCHANGED permits
-----------------------------------------------------------------------------
(* The handler. *)

\* finalize_response counts the answer in the same step that returns it, and
\* the guard of the gauge and the permit go with the future.
Finish(r, s) ==
    /\ Release(r, "answered")
    /\ inflight' = inflight - 1
    /\ counted' = [counted EXCEPT ![s] = @ + 1]
    /\ seen' = [seen EXCEPT ![r] = s]
    /\ status' = [status EXCEPT ![r] = None]
    /\ UNCHANGED <<config, phase>>

\* The body is too large or breaks off.
BodyFails(r) ==
    /\ phase # "exited"
    /\ pc[r] = "body"
    /\ Finish(r, 413)

\* The body is there: mock() decides on the answer, which is sent at once ...
Answer(r) ==
    /\ phase # "exited"
    /\ pc[r] = "body"
    /\ \E s \in Statuses : Finish(r, s)

\* Mutant: the answer is counted when it is known, before the delay.
CountThenDelay(r) ==
    /\ phase # "exited"
    /\ pc[r] = "body"
    /\ pc' = [pc EXCEPT ![r] = "delay"]
    /\ \E s \in Statuses : /\ status' = [status EXCEPT ![r] = s]
                           /\ counted' = [counted EXCEPT ![s] = @ + 1]
    /\ UNCHANGED <<config, phase, permits, queue, inflight, seen>>

\* ... or after the delay the operation asks for.
Delay(r) ==
    /\ phase # "exited"
    /\ pc[r] = "body"
    /\ pc' = [pc EXCEPT ![r] = "delay"]
    /\ \E s \in Statuses : status' = [status EXCEPT ![r] = s]
    /\ UNCHANGED <<config, phase, permits, queue, inflight, counted, seen>>

EndDelay(r) ==
    /\ phase # "exited"
    /\ pc[r] = "delay"
    /\ Finish(r, status[r])
-----------------------------------------------------------------------------
(* Dropping the future. *)

\* A request gives up its place in the queue of its endpoint.
LeaveQueue(r, to) ==
    LET e == EndpointOf(r) IN
    /\ pc' = [pc EXCEPT ![r] = to]
    /\ \E i \in 1..Len(queue[e]) :
          queue[e][i] = r /\ queue' = [queue EXCEPT ![e] = RemoveAt(@, i)]
    /\ UNCHANGED permits

\* Mutant: a permit on its way to a request that leaves is lost.
DropGranted(r, to) ==
    /\ inflight' = IF InHandler(r) THEN inflight - 1 ELSE inflight
    /\ \/ /\ InHandler(r)
          /\ Release(r, to)
       \/ /\ pc[r] = "queued"
          /\ LeaveQueue(r, to)
       \/ /\ pc[r] = "granted"
          /\ pc' = [pc EXCEPT ![r] = to]
          /\ UNCHANGED <<permits, queue>>
    /\ status' = [status EXCEPT ![r] = None]
    /\ UNCHANGED <<config, phase, counted>>

\* Mutant: the gauge is only decremented on the way out of the handler.
DropWithoutGuard(r, to) ==
    /\ \/ /\ HasPermit(r)
          /\ Release(r, to)
       \/ /\ pc[r] = "queued"
          /\ LeaveQueue(r, to)
    /\ status' = [status EXCEPT ![r] = None]
    /\ UNCHANGED <<config, phase, counted, inflight>>

\* The future is dropped where it is suspended: the guard takes it off the
\* gauge, the permit is released, a place in the queue is given up.
Drop(r, to) ==
    /\ inflight' = IF InHandler(r) THEN inflight - 1 ELSE inflight
    /\ \/ /\ HasPermit(r)
          /\ Release(r, to)
       \/ /\ pc[r] = "queued"
          /\ LeaveQueue(r, to)
    /\ status' = [status EXCEPT ![r] = None]
    /\ UNCHANGED <<config, phase, counted>>

\* Mutant: the clock stops when the request gets its permit.
ExpireQueued(r) ==
    /\ phase # "exited"
    /\ timeout = "on"
    /\ pc[r] = "queued"
    /\ Drop(r, "answered")
    /\ seen' = [seen EXCEPT ![r] = 408]

\* The timeout answers 408, which rewrite_timeout_response dresses up.
Expire(r) ==
    /\ phase # "exited"
    /\ timeout = "on"
    /\ Drop(r, "answered")
    /\ seen' = [seen EXCEPT ![r] = 408]

Hangup(r) ==
    /\ phase # "exited"
    /\ Drop(r, "gone")
    /\ UNCHANGED seen
-----------------------------------------------------------------------------
(* The shutdown. *)

\* SIGINT or SIGTERM: no more requests are accepted.
Signal ==
    /\ phase = "serving"
    /\ phase' = "draining"
    /\ UNCHANGED <<config, pc, permits, queue, inflight, counted, status, seen>>

Drained == \A r \in Requests : pc[r] \in {"new", "answered", "gone"}

Exit ==
    /\ phase = "draining"
    /\ Drained
    /\ phase' = "exited"
    /\ UNCHANGED <<config, pc, permits, queue, inflight, counted, status, seen>>

\* Only the two servers of the TLS mode have a deadline; it cuts off whoever
\* is left.
Deadline ==
    /\ phase = "draining"
    /\ tls = "on"
    /\ phase' = "exited"
    /\ UNCHANGED <<config, pc, permits, queue, inflight, counted, status, seen>>
-----------------------------------------------------------------------------
Client(r) == ArriveStart(r) \/ ArriveQueue(r) \/ BodyFails(r) \/ Answer(r)
             \/ Delay(r) \/ Hangup(r)
Server(r) == Start(r) \/ EndDelay(r) \/ Expire(r)

Next ==
    \/ Signal \/ Exit \/ Deadline
    \/ \E r \in Requests : Client(r) \/ Server(r)

Spec == Init /\ [][Next]_vars

\* Tasks that were woken run, sleeps and timers end.  Nobody owes the server
\* a request, a body or a signal.
Fairness ==
    /\ WF_vars(Exit) /\ WF_vars(Deadline)
    /\ \A r \in Requests : WF_vars(Start(r)) /\ WF_vars(EndDelay(r)) /\ WF_vars(Expire(r))
FairSpec == Spec /\ Fairness
-----------------------------------------------------------------------------
(* Properties. *)

\* Every permit of an endpoint is free or with a request of that endpoint, wherever
\* requests are dropped, and none is free while one waits for it
\* (ConcurrencyLimitLayer in run_mock, under the timeout that drops its futures).
PermitsConserved ==
    \A e \in Endpoints :
        /\ permits[e] + Cardinality({r \in At(e) : HasPermit(r)}) = MaxConnections
        /\ queue[e] # <<>> => permits[e] = 0

\* The gauge counts the requests in the handler: none that were dropped are
\* left on it (track_inflight, InflightGuard).
GaugeIsExact == inflight = Cardinality({r \in Requests : InHandler(r)})

\* A status is counted as often as clients of the handler got it, unless it
\* is 408: timeouts look like it and are not counted (finalize_response is
\* not reached by a future that is dropped).
CountsMatchAnswers ==
    \A s \in Codes :
        LET answers == Cardinality({r \in Requests : seen[r] = s}) IN
        IF s = 408 THEN counted[s] <= answers ELSE counted[s] = answers

\* No client sends part of a body and then neither the rest nor a hang-up.
NoStalledBody == \A r \in Requests : []<>(pc[r] # "body")

\* A request in the queue is answered, or its client leaves, or the server
\* ends, if the timeout is on or clients do not stall (run_mock, the order of
\* its layers).
QueuedAreAnswered ==
    NoStalledBody \/ [](timeout = "on") =>
        \A r \in Requests :
            pc[r] = "queued" ~> (pc[r] \in {"answered", "gone"} \/ phase = "exited")

\* A shutdown ends, unless the timeout is off, the server is not in TLS mode
\* and a client stalls (shutdown_signal, with_graceful_shutdown and
\* graceful_shutdown in run_mock).
ShutdownCompletes ==
    NoStalledBody \/ [](timeout = "on" \/ tls = "on") =>
        (phase = "draining" ~> phase = "exited")

\* "Caps in-flight HTTP requests; excess clients receive `503 Service Unavailable`"
\* (MockArgs.max_connections): what the gauge shows stays within the limit.
InFlightIsCapped == inflight <= MaxConnections

\* ... and nobody has to wait.
NobodyQueues == \A e \in Endpoints : queue[e] = <<>>

\* What the limits of the two endpoints do cap.
GaugeIsBounded == inflight <= 2 * MaxConnections
=============================================================================
