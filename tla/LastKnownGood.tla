---------------------------- MODULE LastKnownGood ----------------------------
(***************************************************************************)
(* What `chasm mock --watch` promises about the specification it serves,   *)
(* without saying how it is kept (crates/chasm-server/src/main.rs: the     *)
(* AppState fields `spec` and `last_reload_error`, /readyz and the counter *)
(* spec_reload_failures_total).                                            *)
(*                                                                         *)
(* An editor changes the file.  From then on the server is `behind` until  *)
(* one of its attempts saw the last edit.  An attempt is atomic: it reads  *)
(* the file and either serves what it read and is ready, or keeps what it  *)
(* served, is not ready and counts one failure.                            *)
(***************************************************************************)
EXTENDS Naturals

CONSTANTS
    Content,   \* what the file can hold
    Good,      \* the contents that load as a specification
    NoFile     \* the file does not exist

VARIABLES
    disk,      \* the file: a content or NoFile
    served,    \* the specification requests are answered from
    ready,     \* whether /readyz answers 200
    failures,  \* chasm_spec_reload_failures_total
    behind     \* some edit has not been accounted for by an attempt

vars == <<disk, served, ready, failures, behind>>

TypeOK ==
    /\ disk \in Content \cup {NoFile}
    /\ served \in Good
    /\ ready \in BOOLEAN
    /\ failures \in Nat
    /\ behind \in BOOLEAN

Init ==
    /\ disk \in Good
    /\ served = disk
    /\ ready = TRUE
    /\ failures = 0
    /\ behind = FALSE

\* Somebody writes, creates, replaces or removes the file.
Edit ==
    /\ disk' \in Content \cup {NoFile}
    /\ behind' = TRUE
    /\ UNCHANGED <<served, ready, failures>>

\* An attempt that finds a specification.  Edits may have happened since the
\* one that caused it, so it may or may not be the last one owed.
Succeed ==
    /\ behind
    /\ disk \in Good
    /\ served' = disk
    /\ ready' = TRUE
    /\ behind' \in BOOLEAN
    /\ UNCHANGED <<disk, failures>>

\* An attempt that fails: the file does not load, or it was seen to vanish.
\* In the second case the file may be back already, but then the server
\* still owes an attempt.
Fail ==
    /\ behind
    /\ ready' = FALSE
    /\ failures' = failures + 1
    /\ behind' \in BOOLEAN
    /\ disk \in Good => behind'
    /\ UNCHANGED <<disk, served>>

Next == Edit \/ Succeed \/ Fail

Spec == Init /\ [][Next]_vars

\* Once the server is not behind, /readyz tells whether the file on disk is
\* a specification, and if it is, that is the one served.
Agreement ==
    ~behind => /\ ready <=> disk \in Good
               /\ ready => served = disk
=============================================================================
