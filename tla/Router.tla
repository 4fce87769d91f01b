------------------------------- MODULE Router -------------------------------
(***************************************************************************)
(* Finding the operation for a method and a path                           *)
(* (crates/chasm-engine/src/router.rs): one pass over spec.paths in        *)
(* document order that keeps the best match so far and the first path that *)
(* matched without declaring the method.                                   *)
(*                                                                         *)
(* A path, a template and the path component of a server URL are sequences *)
(* of segments, the root is <<"">>; the trailing slash the code removes and *)
(* the percent decoding are below this level.  A server list, a path item  *)
(* and an operation keep the fields the pass reads.                        *)
(***************************************************************************)
EXTENDS Naturals, Sequences, FiniteSets, SequencesExt

CONSTANTS
    Captures,   \* a template segment with braces -> the segments it matches
    Braced,     \* the template segments that begin with a brace
    TextRest    \* <<b, s>> -> the rest of segment s after its beginning b

VARIABLES
    api,        \* the OpenAPI document of the request: servers, paths, ...
    cfg,        \* the server's MockConfig
    req,        \* the MockRequest
    scan,       \* the entry of api.paths the pass is at; 0 between requests
    best,       \* the entry the pass would answer from; 0 if none
    rejected    \* the first entry that matches without the method; 0 if none

-----------------------------------------------------------------------------
(* One template against one path. *)

SegmentMatches(t, s) == IF t \in DOMAIN Captures THEN s \in Captures[t] ELSE s = t

TemplateMatches(template, path) ==
    /\ Len(template) = Len(path)
    /\ \A k \in DOMAIN template : SegmentMatches(template[k], path[k])

\* count_literal_segments looks at the first character only.
Literals(template) ==
    Cardinality({k \in 1..Len(template) : template[k] \notin Braced})

-----------------------------------------------------------------------------
(* The paths a template is tried against. *)

Root == <<"">>

\* A base is cut off the text of the path, also in the middle of a segment.
Strip(base, path) ==
    LET n == Len(base)
        under == n \in 1..Len(path) /\ \A k \in 1..(n - 1) : path[k] = base[k]
        rest == SubSeq(path, n + 1, Len(path))
    IN  IF under /\ path[n] = base[n] THEN IF rest = <<>> THEN Root ELSE rest
        ELSE IF under /\ <<base[n], path[n]>> \in DOMAIN TextRest
             THEN <<TextRest[<<base[n], path[n]>>]>> \o rest
             ELSE path

\* The innermost list that is not empty.
Servers(item, m) ==
    IF m \in DOMAIN item.ops /\ item.ops[m].servers # <<>>
    THEN item.ops[m].servers
    ELSE IF item.servers # <<>> THEN item.servers ELSE api.servers

Candidates(item, m, path) ==
    LET servers == Servers(item, m) IN
    IF servers = <<>> THEN {path} ELSE {Strip(b, path) : b \in ToSet(servers)}

Matches(item, m, path) ==
    \E p \in Candidates(item, m, path) : TemplateMatches(item.template, p)

\* HEAD is answered by GET unless --strict-method-matching.
Serves(item, m) ==
    \/ m \in DOMAIN item.ops
    \/ m = "HEAD" /\ ~cfg.strict /\ "GET" \in DOMAIN item.ops

OperationFor(item, m) == IF m \in DOMAIN item.ops THEN item.ops[m] ELSE item.ops["GET"]

\* Mutant: HEAD is advertised although strict matching refuses it.
AllowWithHead(item) ==
    DOMAIN item.ops \cup (IF "GET" \in DOMAIN item.ops THEN {"HEAD"} ELSE {})

Allow(item) ==
    DOMAIN item.ops
      \cup (IF ~cfg.strict /\ "GET" \in DOMAIN item.ops THEN {"HEAD"} ELSE {})

-----------------------------------------------------------------------------
(* The pass. *)

Entry == api.paths[scan]

EntryMatches == Matches(Entry, req.method, req.path)

ScanMiss ==
    /\ scan \in DOMAIN api.paths
    /\ ~EntryMatches
    /\ scan' = scan + 1
    /\ UNCHANGED <<best, rejected>>

ScanReject ==
    /\ scan \in DOMAIN api.paths
    /\ EntryMatches
    /\ ~Serves(Entry, req.method)
    /\ rejected' = IF rejected = 0 THEN scan ELSE rejected
    /\ scan' = scan + 1
    /\ UNCHANGED best

\* Mutant: of two equally specific templates the later one wins.
LaterWins ==
    \/ best = 0
    \/ Literals(Entry.template) >= Literals(api.paths[best].template)

IsBetter ==
    \/ best = 0
    \/ Literals(Entry.template) > Literals(api.paths[best].template)

ScanServe ==
    /\ scan \in DOMAIN api.paths
    /\ EntryMatches
    /\ Serves(Entry, req.method)
    /\ best' = IF IsBetter THEN scan ELSE best
    /\ scan' = scan + 1
    /\ UNCHANGED rejected

Scan == (ScanMiss \/ ScanReject \/ ScanServe) /\ UNCHANGED <<api, cfg, req>>

Scanned == scan = Len(api.paths) + 1

-----------------------------------------------------------------------------
(* What the pass is for, by the paths alone. *)

\* The entries before the n-th that match, and those that can answer.
MatchingBefore(n) ==
    {i \in DOMAIN api.paths : i < n /\ Matches(api.paths[i], req.method, req.path)}

ServingBefore(n) == {i \in MatchingBefore(n) : Serves(api.paths[i], req.method)}

Outranks(i, j) ==
    LET li == Literals(api.paths[i].template)
        lj == Literals(api.paths[j].template)
    IN  li > lj \/ (li = lj /\ i <= j)

BestOf(i, S) == IF S = {} THEN i = 0 ELSE i \in S /\ \A j \in S : Outranks(i, j)

FirstOf(i, S) == IF S = {} THEN i = 0 ELSE i \in S /\ \A j \in S : i <= j

\* Whether method m of the current path reaches an operation.
Routes(m) ==
    \E i \in DOMAIN api.paths :
        Matches(api.paths[i], m, req.path) /\ Serves(api.paths[i], m)
=============================================================================
