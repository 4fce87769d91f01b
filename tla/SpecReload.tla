----------------------------- MODULE SpecReload -----------------------------
(***************************************************************************)
(* `chasm mock --watch`: the file on disk, the event queues of the file    *)
(* system watcher, and the debouncer thread that coalesces events and      *)
(* swaps the served specification (crates/chasm-server/src/main.rs,        *)
(* run_mock, install_spec_watcher, debouncer_loop, event_path_matches).    *)
(*                                                                         *)
(* Editors and the kernel are the environment.  The debouncer is one       *)
(* thread with one action between two operations on shared state: the      *)
(* channel, the file, the reload error that /readyz reads, the failure     *)
(* counter that /metrics reads, and the cell requests read.                *)
(***************************************************************************)
EXTENDS Naturals, Sequences

CONSTANTS
    Content,       \* what the spec file can hold
    Good,          \* the contents load_spec accepts
    NoFile,        \* the file does not exist
    MaxEdits,      \* bound: edits of the spec file
    MaxQueue       \* bound: events under way when a new one is recorded

ASSUME ContentAssumption == Good \subseteq Content /\ NoFile \notin Content
ASSUME BoundAssumption == MaxEdits \in Nat /\ MaxQueue \in Nat

VARIABLES
    spelling,  \* "absolute": the command line named the spec the way events
               \* do; "relative": events spell the path otherwise, and only
               \* canonicalize can tell that they are about the spec
    disk,      \* the spec file: a content or NoFile
    kernel,    \* events notify has not handed to the watcher callback
    rx,        \* the mpsc channel between the callback and the debouncer
    watch,     \* "starting"; "attached" or "failed" (watcher.watch); or
               \* "dropped", and with it the sending half of the channel
    canonical, \* canonical_target: "Some" if the file existed at thread start
    pc,        \* where the debouncer thread is
    pending,   \* the burst being collected, as the set of its events: the
               \* code only asks whether there is one with some property
    loaded,    \* new_spec, the result of the last load_spec that succeeded
    cell,      \* spec_cell: the specification requests are answered from
    err,       \* last_reload_error: "None" or "Some"
    failures,  \* metrics.spec_reload_failures_total
    missed,    \* history: how often the file changed while nobody was
               \* watching, since the last attempt that looked at it
    edits      \* number of edits of the spec file so far

env == <<spelling, disk, kernel, watch, edits>>
queues == <<kernel, rx, pending>>
outcome == <<loaded, cell, err, failures>>
vars == <<spelling, disk, kernel, rx, watch, canonical, pc, pending,
          loaded, cell, err, failures, missed, edits>>

Kind == {"modify", "create", "remove"}
Event == [kind : Kind, about : {"spec", "sibling"}]

TypeOK ==
    /\ spelling \in {"absolute", "relative"}
    /\ disk \in Content \cup {NoFile}
    /\ kernel \in Seq(Event)
    /\ rx \in Seq(Event)
    /\ watch \in {"starting", "attached", "failed", "dropped"}
    /\ canonical \in {"None", "Some"}
    /\ pc \in {"none", "start", "idle", "collect", "decide", "removed", "load",
               "loadfailed", "seterr", "clear", "swap", "done"}
    /\ pending \in SUBSET Event
    /\ loaded \in Good
    /\ cell \in Good
    /\ err \in {"None", "Some"}
    /\ failures \in Nat
    /\ missed \in Nat
    /\ edits \in Nat

\* run_mock has loaded the specification and is about to start the watcher.
Init ==
    /\ spelling \in {"absolute", "relative"}
    /\ disk \in Good
    /\ kernel = <<>>
    /\ rx = <<>>
    /\ watch = "starting"
    /\ canonical = "None"
    /\ pc = "none"
    /\ pending = {}
    /\ loaded = disk
    /\ cell = disk
    /\ err = "None"
    /\ failures = 0
    /\ missed = 0
    /\ edits = 0
-----------------------------------------------------------------------------
(* The file system.  Every change in the watched directory is one event;   *)
(* nothing is recorded unless the watch is attached.  What happens to the  *)
(* file after the guard is dropped concerns no one: the process is ending. *)

\* The kernel holds finitely many events, and so does the model.
Room == Len(kernel) + Len(rx) < MaxQueue

Edited(new, kind) ==
    /\ edits < MaxEdits
    /\ Room
    /\ watch # "dropped"
    /\ edits' = edits + 1
    /\ disk' = new
    /\ \/ /\ watch = "attached"
          /\ kernel' = Append(kernel, [kind |-> kind, about |-> "spec"])
          /\ UNCHANGED missed
       \/ /\ watch # "attached"
          /\ missed' = missed + 1
          /\ UNCHANGED kernel
    /\ UNCHANGED <<spelling, rx, watch, canonical, pc, pending, outcome>>

\* The file is written, or another file is renamed onto it.
Write == disk # NoFile /\ \E c \in Content : Edited(c, "modify")

\* Another file is renamed to it, while it does not exist.
RenameTo == disk = NoFile /\ \E c \in Content : Edited(c, "modify")

Create == disk = NoFile /\ \E c \in Content : Edited(c, "create")

Remove == disk # NoFile /\ Edited(NoFile, "remove")

\* A rename away from the name is reported as a modification.
RenameAway == disk # NoFile /\ Edited(NoFile, "modify")

\* Another file of the directory is created, written or removed.
TouchSibling ==
    /\ watch = "attached"
    /\ Room
    /\ \E k \in Kind : kernel' = Append(kernel, [kind |-> k, about |-> "sibling"])
    /\ UNCHANGED <<spelling, disk, rx, watch, canonical, pc, pending,
                   missed, edits, outcome>>
-----------------------------------------------------------------------------
(* The watcher. *)

\* watcher.watch succeeds and the debouncer thread is spawned.
Attach ==
    /\ watch = "starting"
    /\ watch' = "attached"
    /\ pc' = "start"
    /\ UNCHANGED <<spelling, disk, queues, canonical, outcome, missed, edits>>

\* The watcher cannot be created or attached: no thread, no reloads.
AttachFails ==
    /\ watch = "starting"
    /\ watch' = "failed"
    /\ UNCHANGED <<spelling, disk, queues, canonical, pc, outcome,
                   missed, edits>>

\* The callback forwards an event to the channel.
Deliver ==
    /\ kernel # <<>>
    /\ watch = "attached"
    /\ rx' = Append(rx, Head(kernel))
    /\ kernel' = Tail(kernel)
    /\ UNCHANGED <<spelling, disk, watch, canonical, pc, pending,
                   outcome, missed, edits>>

\* run_mock ends: the guard, the watcher and the sender are dropped.
DropGuard ==
    /\ watch = "attached"
    /\ watch' = "dropped"
    /\ UNCHANGED <<spelling, disk, queues, canonical, pc, outcome, missed,
                   edits>>
-----------------------------------------------------------------------------
(* The debouncer thread. *)

Goto(from, to) == pc = from /\ pc' = to

\* The thread resolves the target's path, once and for all.
Start ==
    /\ Goto("start", "idle")
    /\ canonical' = IF disk = NoFile THEN "None" ELSE "Some"
    /\ UNCHANGED <<env, rx, pending, outcome, missed>>

\* rx.recv() returns the first event of a burst.
Recv ==
    /\ Goto("idle", "collect")
    /\ rx # <<>>
    /\ pending' = {Head(rx)}
    /\ rx' = Tail(rx)
    /\ UNCHANGED <<env, canonical, outcome, missed>>

\* rx.recv() fails once the channel is closed and drained.
RecvClosed ==
    /\ Goto("idle", "done")
    /\ rx = <<>>
    /\ watch = "dropped"
    /\ UNCHANGED <<env, rx, canonical, pending, outcome, missed>>

\* recv_timeout returns another event: the burst, whatever file it is about,
\* goes on for another WATCH_DEBOUNCE.
Collect ==
    /\ Goto("collect", "collect")
    /\ rx # <<>>
    /\ pending' = pending \cup {Head(rx)}
    /\ rx' = Tail(rx)
    /\ UNCHANGED <<env, canonical, outcome, missed>>

\* recv_timeout times out, or finds the channel closed and drained.
EndOfBurst ==
    /\ Goto("collect", "decide")
    /\ rx = <<>>
    /\ UNCHANGED <<env, rx, canonical, pending, outcome, missed>>

\* event_path_matches: the paths are equal, or the event's path resolves now
\* to what the target's resolved to when the thread started.
Matches(e) ==
    /\ e.about = "spec"
    /\ spelling = "absolute" \/ (canonical = "Some" /\ disk # NoFile)

TouchesTarget == \E e \in pending : Matches(e)
AnyRemove == \E e \in pending : e.kind = "remove"

\* Mutant: a burst is reloaded only if it holds a modification.
AnyModification == \E e \in pending : e.kind = "modify"

AnyReloadTrigger == \E e \in pending : e.kind \in {"modify", "create"}

Ignore ==
    /\ Goto("decide", "idle")
    /\ ~TouchesTarget
    /\ pending' = {}
    /\ UNCHANGED <<env, rx, canonical, outcome, missed>>

\* Mutant: a removal wins over whatever else happened in the burst.
NoteAnyRemoval ==
    /\ Goto("decide", "removed")
    /\ TouchesTarget
    /\ AnyRemove
    /\ pending' = {}
    /\ missed' = 0
    /\ UNCHANGED <<env, rx, canonical, outcome>>

NoteRemoval ==
    /\ Goto("decide", "removed")
    /\ TouchesTarget
    /\ AnyRemove /\ ~AnyReloadTrigger
    /\ pending' = {}
    /\ missed' = 0
    /\ UNCHANGED <<env, rx, canonical, outcome>>

StartReload ==
    /\ Goto("decide", "load")
    /\ TouchesTarget
    /\ AnyReloadTrigger
    /\ pending' = {}
    /\ UNCHANGED <<env, rx, canonical, outcome, missed>>

\* load_spec reads and parses the file.
LoadOk ==
    /\ Goto("load", "clear")
    /\ disk \in Good
    /\ loaded' = disk
    /\ missed' = 0
    /\ UNCHANGED <<env, rx, pending, canonical, cell, err, failures>>

\* Mutant: new_spec is assigned before the file is known to be valid.
LoadFailsLate ==
    /\ Goto("load", "loadfailed")
    /\ disk \notin Good
    /\ loaded' = disk
    /\ missed' = 0
    /\ UNCHANGED <<env, rx, pending, canonical, cell, err, failures>>

LoadFails ==
    /\ Goto("load", "loadfailed")
    /\ disk \notin Good
    /\ missed' = 0
    /\ UNCHANGED <<env, rx, pending, canonical, outcome>>

\* Mutant: a successful reload leaves the old error in place.
KeepError ==
    /\ Goto("clear", "swap")
    /\ UNCHANGED <<env, rx, canonical, pending, outcome, missed>>

\* The error is cleared before the new specification is installed.
ClearError ==
    /\ Goto("clear", "swap")
    /\ err' = "None"
    /\ UNCHANGED <<env, rx, canonical, pending, loaded, cell,
                   failures, missed>>

\* Mutant: the reload discards the events that queued up meanwhile.
SwapAndDrain ==
    /\ Goto("swap", "idle")
    /\ cell' = loaded
    /\ rx' = <<>>
    /\ UNCHANGED <<env, canonical, pending, loaded, err, failures,
                   missed>>

Swap ==
    /\ Goto("swap", "idle")
    /\ cell' = loaded
    /\ UNCHANGED <<env, rx, canonical, pending, loaded, err,
                   failures, missed>>

\* A failure is counted before it is published, on both failing paths.
CountFailure ==
    /\ pc \in {"removed", "loadfailed"}
    /\ pc' = "seterr"
    /\ failures' = failures + 1
    /\ UNCHANGED <<env, rx, canonical, pending, loaded, cell, err,
                   missed>>

SetError ==
    /\ Goto("seterr", "idle")
    /\ err' = "Some"
    /\ UNCHANGED <<env, rx, canonical, pending, loaded, cell,
                   failures, missed>>
-----------------------------------------------------------------------------
Editor == Write \/ RenameTo \/ Create \/ Remove \/ RenameAway \/ TouchSibling
Watcher == Attach \/ AttachFails \/ Deliver \/ DropGuard
Debouncer ==
    \/ Start \/ Recv \/ RecvClosed \/ Collect \/ EndOfBurst
    \/ Ignore \/ NoteRemoval \/ StartReload
    \/ LoadOk \/ LoadFails \/ ClearError \/ Swap
    \/ CountFailure \/ SetError

Next == Editor \/ Watcher \/ Debouncer

Spec == Init /\ [][Next]_vars

\* The operating system runs the two threads and delivers events; it owes
\* nobody an edit, a successful attach or a shutdown.
Fairness == WF_vars(Deliver) /\ WF_vars(Debouncer)
FairSpec == Spec /\ Fairness
-----------------------------------------------------------------------------
(* Properties. *)

\* No event of a queue is about the file.
NoTarget(s) == \A i \in 1..Len(s) : s[i].about # "spec"

\* An event about the file has not been judged yet.
Owed == (\E e \in pending : e.about = "spec") \/ ~NoTarget(rx) \/ ~NoTarget(kernel)

\* With a relative path a file that is gone cannot be recognised, and no file
\* ever if there was none when the thread started.
CanSee ==
    \/ spelling = "absolute"
    \/ disk # NoFile /\ (canonical = "Some" \/ pc \in {"none", "start"})

\* The server has answered the last change of the file it could know of.
CaughtUp == ~Owed /\ missed = 0 /\ CanSee

\* What /readyz and the served specification say about the file is true.
Agree == /\ err = "Some" <=> disk \notin Good
         /\ err = "None" => cell = disk

\* When the debouncer waits for work and no event about the file is under
\* way, /readyz answers 200 exactly if the file is a valid specification, and
\* then that is the one served: no edit falls between two steps of the
\* debouncer (debouncer_loop; readyz_handler; AppState.last_reload_error).
QuiescentAgreement == pc = "idle" /\ CaughtUp => Agree

\* A removal that is the youngest event about the file is the truth about
\* it, in the queues as in a burst that holds nothing but removals: that is
\* what lets the debouncer report a removal without looking at the file
\* (debouncer_loop, any_remove && !any_reload_trigger).
YoungestIsRemoval(s) ==
    \E i \in 1..Len(s) : /\ s[i].about = "spec" /\ s[i].kind = "remove"
                         /\ \A j \in i + 1..Len(s) : s[j].about # "spec"

RemovalIsTruth ==
    /\ YoungestIsRemoval(kernel) => disk = NoFile
    /\ YoungestIsRemoval(rx) /\ NoTarget(kernel) => disk = NoFile
    /\ /\ NoTarget(kernel) /\ NoTarget(rx)
       /\ \E e \in pending : e.about = "spec"
       /\ ~AnyReloadTrigger
       => disk = NoFile

\* An attempt has read the file (or a removal was noted) and its effects on
\* the error, the counter and the cell are not complete yet.
Succeeding == pc \in {"clear", "swap"}
Failing == pc \in {"removed", "loadfailed", "seterr"}

\* Seen from outside, an attempt is one step: it is settled as soon as the
\* file has been read, whatever edits and events come in before it is over.
Served == IF Succeeding THEN loaded ELSE cell
Ready == IF Succeeding \/ Failing THEN Succeeding ELSE err = "None"
Counted == IF pc \in {"removed", "loadfailed"} THEN failures + 1 ELSE failures
Behind == ~CaughtUp \/ pc = "load"

LKG == INSTANCE LastKnownGood WITH
    served <- Served, ready <- Ready, failures <- Counted, behind <- Behind

\* The reload thread implements the promise of LastKnownGood
\* (debouncer_loop against the documentation of AppState and /readyz).
Implements == LKG!Spec

\* Bursts end: other files of the directory are not touched forever at
\* intervals shorter than WATCH_DEBOUNCE.
BurstsEnd == []<>(pc # "collect")

\* Unless bursts go on forever, every change of the file that the server can
\* see is answered: it comes to a state that agrees with the file, or it
\* shuts down (debouncer_loop, recv and recv_timeout).
EditsAreAnswered ==
    BurstsEnd =>
        [](watch = "attached" /\ Owed =>
            <>(watch = "dropped" \/ ~CanSee \/ (pc = "idle" /\ CaughtUp /\ Agree)))

\* A file that was removed is reported: the doc of readyz_handler promises
\* 503 "when --watch has observed a deletion".
RemovalIsReported ==
    pc = "idle" /\ disk = NoFile /\ ~Owed /\ missed = 0 => err = "Some"
=============================================================================
