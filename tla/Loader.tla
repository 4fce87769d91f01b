------------------------------- MODULE Loader -------------------------------
(***************************************************************************)
(* load_spec and load_spec_with_remote_refs (chasm-engine, loader.rs): how *)
(* a text becomes a specification or an error.                             *)
(*                                                                         *)
(* The file can change while it is loaded, a callback reference can bring  *)
(* back the operation it is in, and a remote reference is answered by a    *)
(* network that fails, takes time, and changes its mind.                   *)
(***************************************************************************)
EXTENDS Document

CONSTANTS
    Texts,      \* what can be loaded: records [size, format, version, swagger, doc]
    Inputs,     \* how it can be given, and what: records [source, disk]
    EditedTo,   \* bound: texts that may take the place of each other during a load
    MaxBytes,   \* MAX_SPEC_BYTES
    MaxI64,     \* the largest signed integer of 64 bits; the smallest is -MaxI64 - 1
    StackLimit, \* how deep a walk can call itself
    MaxFetches, \* REMOTE_REF_MAX_FETCHES
    FetchTime,  \* REMOTE_REF_FETCH_TIMEOUT
    MaxReads,   \* REMOTE_REF_MAX_BODY_BYTES + 1: reads of a body that comes byte by byte
    LookupTime, \* how long the resolver may look for a host, which the code does not limit
    WallTime,   \* REMOTE_REF_WALL_TIMEOUT
    MaxEdits    \* bound: edits of the file while it is loaded

Missing == [none |-> "file"]
NoText == [none |-> "text"]

\* The schema {type: string} that headers get is a new node, which all of them share.
Fallback == "type: string"

\* There is a whole and finite document in every text, no text is too long to be counted,
\* and a file is only missing where a path was given.
ASSUME TextsAssumption ==
    /\ EditedTo \subseteq Texts
    /\ \A i \in Inputs : /\ i.disk \in Texts \cup {Missing}
                         /\ i.source.given = "text" => i.disk \in Texts
    /\ \A t \in Texts :
          /\ t.size \in Nat /\ IsFiniteSet(DOMAIN t.doc)
          /\ Root \in DOMAIN t.doc /\ Fallback \notin DOMAIN t.doc
          /\ \A n \in DOMAIN t.doc : t.doc[n] \in NodeOf(DOMAIN t.doc)

ASSUME BoundsAssumption ==
    /\ {MaxBytes, MaxI64, StackLimit, MaxFetches, FetchTime, MaxReads, LookupTime,
        WallTime, MaxEdits} \subseteq Nat
    /\ MaxFetches > 0

VARIABLES
    source,   \* the entry point, and how the document was given
    disk,     \* what the file holds, or "missing"
    edits,    \* bound: edits so far
    pc,       \* where the loader is
    text,     \* `content`, once it has been read
    doc,      \* `value`, the tree being rewritten
    before,   \* the `snapshot` of inline_callback_refs_yaml
    todo,     \* what a walk has yet to visit: [node, depth] in the order of the calls
    cache,    \* `cache`: URLs and the bodies they were answered with
    inlined,  \* nodes replaced by a body
    clock,    \* time since `start`
    sent,     \* requests sent, by URL
    verdict   \* what the call returned: "none", "ok", "io" or "parse"

vars == <<source, disk, edits, pc, text, doc, before, todo, cache, inlined, clock, sent, verdict>>

IsRemote(ref) == ref # << >> /\ ref[1] = "http"   \* is_remote_ref
Urls == UNION {{t.doc[n].ref[2] : n \in {m \in DOMAIN t.doc : IsRemote(t.doc[m].ref)}} : t \in Texts}

-----------------------------------------------------------------------------
(* Reading.  A source that starts with "{" or "openapi" is the document.   *)

\* `src.trim_start().starts_with(..)`: not whether it was meant as a path.
LooksInline == source.starts \in {"{", "openapi"}

\* Mutant of Fail: the caller gets no error.
FailSilently(kind) ==
    /\ pc' = "done"
    /\ UNCHANGED <<source, text, doc, before, todo, cache, inlined, clock, sent, verdict>>

Fail(kind) ==
    /\ pc' = "done"
    /\ verdict' = kind
    /\ UNCHANGED <<source, text, doc, before, todo, cache, inlined, clock, sent>>

\* The document itself: its length is checked, nothing is read.  A path that looks like a
\* document is taken for one, and parses as a text without any of its keys.
TakeInline ==
    /\ pc = "start"
    /\ LooksInline
    /\ IF source.given = "text"
       THEN /\ text' = disk
            /\ pc' = IF disk.size > MaxBytes THEN "oversized" ELSE "parse"
       ELSE /\ text' = NoText
            /\ pc' = "parse"
    /\ UNCHANGED <<source, disk, edits, doc, before, todo, cache, inlined, clock, sent, verdict>>

\* fs::metadata: a file that is too long is not read.  An error is left to the read.
Stat ==
    /\ pc = "start"
    /\ ~LooksInline
    /\ pc' = IF source.given = "path" /\ disk # Missing /\ disk.size > MaxBytes
             THEN "oversized" ELSE "read"
    /\ UNCHANGED <<source, disk, edits, text, doc, before, todo, cache, inlined, clock, sent,
                   verdict>>

\* Mutant of Read: the length that was asked for before is trusted.
ReadUnchecked ==
    /\ pc = "read"
    /\ UNCHANGED <<disk, edits>>
    /\ IF source.given = "text" \/ disk = Missing
       THEN Fail("io")
       ELSE /\ text' = disk
            /\ pc' = "parse"
            /\ UNCHANGED <<source, doc, before, todo, cache, inlined, clock, sent, verdict>>

\* read_to_string, of the path or of a text that was taken for one.
Read ==
    /\ pc = "read"
    /\ UNCHANGED <<disk, edits>>
    /\ IF source.given = "text" \/ disk = Missing
       THEN Fail("io")
       ELSE /\ text' = disk
            /\ pc' = IF disk.size > MaxBytes THEN "oversized" ELSE "parse"
            /\ UNCHANGED <<source, doc, before, todo, cache, inlined, clock, sent, verdict>>

RejectOversized ==
    /\ pc = "oversized"
    /\ UNCHANGED <<disk, edits>>
    /\ Fail("parse")

-----------------------------------------------------------------------------
(* The rewrites of normalize_oas31_nullable, each on all nodes at once.    *)

AllBounds == {"min", "max", "xmin", "xmax"}
IsNumber(v) == v.is = "number"
Nearest(h, lo, hi) == IF h < lo THEN lo ELSE IF h > hi THEN hi ELSE h
InI64(h) == -2 * (MaxI64 + 1) <= h /\ h <= 2 * MaxI64
Clamped(h) == Nearest(h, -2 * (MaxI64 + 1), 2 * MaxI64)

\* clamp_integer_bounds_textual: whole `minimum` and `maximum` in lines of YAML.
ClampInteger(v) ==
    IF IsNumber(v) THEN IF v.form = "int" THEN [v EXCEPT !.halves = Clamped(@)] ELSE v ELSE v

ClampIntegers(t) ==
    IF t.format = "json" THEN t.doc
    ELSE [n \in DOMAIN t.doc |-> [t.doc[n] EXCEPT !.min = ClampInteger(@),
                                                  !.max = ClampInteger(@)]]

\* What the YAML parser refuses: an integer that fits neither i64 nor u64.
Parses(d) ==
    \A n \in DOMAIN d : \A k \in AllBounds :
        IsNumber(d[n][k]) => \/ d[n][k].form # "int"
                             \/ /\ d[n][k].halves >= -2 * (MaxI64 + 1)
                                /\ d[n][k].halves <= 2 * (2 * MaxI64 + 1)

\* rewrite_nullable_type_arrays_yaml: ["X", "null"] in either order.
NullPair(type) == Len(type) = 2 /\ Cardinality(Range(type) \cap {"null"}) = 1 /\ type[1] # type[2]

RewriteNullable(rec) ==
    IF NullPair(rec.type)
    THEN [rec EXCEPT !.type = <<IF @[1] = "null" THEN @[2] ELSE @[1]>>,
                     !.nullable = IF @ = "absent" THEN "true" ELSE @]
    ELSE rec

\* inject_header_schema_fallback_yaml: responses.<code>.headers.<name> anywhere below the
\* entries of the root, whatever these keys mean there.
HeaderPlaces(d) ==
    Entries(d, Under(d, Entries(d, Under(d, Reach(d) \ {Root}, "responses")), "headers"))

\* Every header of `lacking` gets the schema.
GiveSchema(d, lacking) ==
    LET fallback == [Bare EXCEPT !.role = "schema", !.type = <<"string">>]
        entry == [key |-> "schema", node |-> Fallback]
    IN  [n \in DOMAIN d \cup {x \in {Fallback} : lacking # {}} |->
            IF n = Fallback THEN fallback
            ELSE IF n \in lacking THEN [d[n] EXCEPT !.kids = Append(@, entry)]
            ELSE d[n]]

\* Mutant of InjectSchemas: a header with a schema gets another one.
InjectAlways(d) ==
    GiveSchema(d, {n \in HeaderPlaces(d) : d[n].ref = << >> /\ "content" \notin Keys(d, n)})

InjectSchemas(d) ==
    GiveSchema(d, {n \in HeaderPlaces(d) : /\ d[n].ref = << >>
                                           /\ Keys(d, n) \cap {"schema", "content"} = {}})

\* coerce_float_bounds_yaml: `as i64` cuts a fraction off, and so does it for a number
\* that need not be whole.
Truncate(h) == IF h % 2 = 0 THEN h ELSE IF h > 0 THEN h - 1 ELSE h + 1
CoerceBound(v) ==
    IF ~IsNumber(v) THEN v
    ELSE IF v.form = "int" /\ InI64(v.halves) THEN v
    ELSE Number(Truncate(Clamped(v.halves)), "int")

CoerceFloats(rec) == [rec EXCEPT !.min = CoerceBound(@), !.max = CoerceBound(@)]

\* Mutant of RewriteExclusive: the bound moves and is no longer exclusive.
RewriteInclusive(rec) ==
    LET moves(x, b) == IsNumber(rec[x]) /\ ~IsNumber(rec[b]) IN
    [rec EXCEPT !.min  = IF moves("xmin", "min") THEN rec.xmin ELSE @,
                !.xmin = IF moves("xmin", "min") THEN Absent ELSE @,
                !.max  = IF moves("xmax", "max") THEN rec.xmax ELSE @,
                !.xmax = IF moves("xmax", "max") THEN Absent ELSE @]

\* rewrite_exclusive_bound_pair: a number next to a number is left as it is.
RewriteExclusive(rec) ==
    LET moves(x, b) == IsNumber(rec[x]) /\ ~IsNumber(rec[b]) IN
    [rec EXCEPT !.min  = IF moves("xmin", "min") THEN rec.xmin ELSE @,
                !.xmin = IF moves("xmin", "min") THEN Flag(TRUE) ELSE @,
                !.max  = IF moves("xmax", "max") THEN rec.xmax ELSE @,
                !.xmax = IF moves("xmax", "max") THEN Flag(TRUE) ELSE @]

\* drop_invalid_items_yaml
DropItems(d, n) ==
    [d[n] EXCEPT !.boolItems = @ /\ "prefixItems" \notin Keys(d, n)]

\* inline_path_item_refs_yaml: the entry of a path that is nothing but a reference becomes
\* what the reference resolves to, once, and stays if it resolves to nothing.
Inlined(d, k) ==
    LET target == Resolve(d, d[k.node].ref) IN
    IF d[k.node].ref # << >> /\ d[k.node].alone /\ target # NoNode
    THEN [k EXCEPT !.node = target]
    ELSE k

InlineEntries(d, m) == [d[m] EXCEPT !.kids = [i \in DOMAIN @ |-> Inlined(d, @[i])]]

InlinePaths(d) ==
    LET paths == Kid(d, Root, "paths") IN
    IF paths = NoNode THEN d ELSE [d EXCEPT ![paths] = InlineEntries(d, paths)]

\* All of them, but for the walk over the callbacks.  Headers, items and paths are judged
\* by keys and references alone, so that their place among the other passes is free.
RewriteNode(d, n) == RewriteExclusive(CoerceFloats(RewriteNullable(DropItems(d, n))))

RewriteNodes(d) == [n \in DOMAIN d |-> RewriteNode(d, n)]
Rewritten(d) == InlinePaths(RewriteNodes(InjectSchemas(d)))

-----------------------------------------------------------------------------
(* What the parser and the checks behind it accept.                        *)

\* from_str::<OpenAPI> (the library openapiv3, as the rewrites describe it).
WellFormed(rec) ==
    CASE rec.role = "schema" /\ rec.ref = << >> ->
            /\ ~IsNumber(rec.xmin) /\ ~IsNumber(rec.xmax)
            /\ ~rec.boolItems
            /\ rec.type = <<"integer">> =>
                  \A k \in {"min", "max"} :
                      IsNumber(rec[k]) => rec[k].form = "int" /\ InI64(rec[k].halves)
      [] rec.role = "header" -> \/ rec.ref # << >>
                                \/ \E k \in Range(rec.kids) : k.key \in {"schema", "content"}
      [] rec.role = "callback" -> rec.ref = << >>
      [] OTHER -> TRUE

Deserialises(d) == \A n \in Reach(d) : WellFormed(d[n])

Bags == {"schemas", "parameters", "responses", "requestBodies", "headers", "securitySchemes",
         "callbacks", "pathItems"}

\* Mutant of Dangling: what goes deeper into an entry is not looked at.
DanglingAtTop(d, ref) ==
    /\ Len(ref) = 4 /\ ref[1] = "#" /\ ref[2] = "components" /\ ref[3] \in Bags
    /\ Resolve(d, ref) = NoNode

\* check_dangling_refs: a reference into a bag names an entry of it; what goes deeper
\* into an entry is taken for a name.
Dangling(d, ref) ==
    /\ Len(ref) > 3 /\ ref[1] = "#" /\ ref[2] = "components" /\ ref[3] \in Bags
    /\ Len(ref) > 4 \/ Resolve(d, ref) = NoNode

Methods == {"get", "put", "post", "delete", "options", "head", "patch", "trace"}

\* check_duplicate_operation_ids: entries of paths that are still references are passed over.
OperationsAt(d) ==
    {<<p.key, m>> : p \in {k \in KidSet(d, Kid(d, Root, "paths")) : d[k.node].ref = << >>},
                    m \in Methods}
OpIdAt(d, at) ==
    LET op == Kid(d, Kid(d, Kid(d, Root, "paths"), at[1]), at[2]) IN
    IF op = NoNode THEN "" ELSE d[op].opid
DuplicateIds(d) ==
    /\ Kid(d, Root, "paths") # NoNode
    /\ \E a, b \in OperationsAt(d) : a # b /\ OpIdAt(d, a) # "" /\ OpIdAt(d, a) = OpIdAt(d, b)

\* walk_schema: from a schema to the schemas right inside it.
Inner(d, ns) ==
    LET open == {n \in ns : d[n].ref = << >>} IN
    (UNION {Entries(d, Under(d, open, k)) :
               k \in {"properties", "allOf", "anyOf", "oneOf", "prefixItems"}})
    \cup (UNION {Under(d, open, k) : k \in {"additionalProperties", "items", "not"}})

\* visit_schemas: the schemas of components.schemas, and those of the operations.
Visited(d) ==
    LET ops       == UNION {Under(d, Entries(d, Under(d, {Root}, "paths")), m) : m \in Methods}
        responses == Entries(d, Under(d, ops, "responses"))
        single    == Entries(d, Under(d, ops, "parameters"))
                     \cup Entries(d, Under(d, responses, "headers"))
        holders   == single \cup responses \cup Under(d, ops, "requestBody")
        first     == Entries(d, Under(d, Under(d, {Root}, "components"), "schemas"))
                     \cup Under(d, single, "schema")
                     \cup Under(d, Entries(d, Under(d, holders, "content")), "schema")
        within[k \in 0 .. Cardinality(DOMAIN d)] ==
            IF k = 0 THEN first ELSE UNION {{n} \cup Inner(d, {n}) : n \in within[k - 1]}
    IN  within[Cardinality(DOMAIN d)]

KnownTypes == {"null", "boolean", "integer", "number", "string", "array", "object"}

\* check_invalid_schema_types
InvalidTypes(d) == \E n \in Visited(d) : ~(Range(d[n].type) \subseteq KnownTypes)

\* validate_spec_semantics
SoundSemantics(d) ==
    /\ \A n \in Reach(d) : ~Dangling(d, d[n].ref)
    /\ ~DuplicateIds(d)
    /\ ~InvalidTypes(d)

-----------------------------------------------------------------------------
(* load_spec                                                               *)

\* reject_unsupported_openapi_version and reject_swagger_two; a text that is no mapping
\* is refused by the parser in the end.
Unsupported(t) ==
    t # NoText => t.version = "other" \/ t.swagger = "2.0"

RejectVersion ==
    /\ pc = "parse" /\ source.entry = "load_spec"
    /\ Unsupported(text)
    /\ UNCHANGED <<disk, edits>>
    /\ Fail("parse")

\* normalize_oas31_nullable, up to the walk over the callbacks.
Normalise ==
    /\ pc = "parse" /\ source.entry = "load_spec"
    /\ ~Unsupported(text)
    /\ UNCHANGED <<disk, edits>>
    /\ IF ~Parses(ClampIntegers(text)) THEN Fail("parse")
       ELSE /\ \E filled \in {InjectSchemas(ClampIntegers(text))} :
                \E nodes \in {RewriteNodes(filled)} :
                    \E rewritten \in {InlinePaths(nodes)} : doc' = rewritten /\ before' = rewritten
            /\ todo' = <<[node |-> Root, depth |-> 1]>>
            /\ pc' = "callbacks"
            /\ UNCHANGED <<source, text, cache, inlined, clock, sent, verdict>>

Calls(d, n, depth) == [i \in DOMAIN d[n].kids |-> [node |-> d[n].kids[i].node, depth |-> depth + 1]]

\* One call of inline_callback_refs_walker: the entries of `callbacks` are replaced by what
\* they refer to in the snapshot, and then walked like everything else.
WalkCallbacks ==
    /\ pc = "callbacks" /\ todo # << >>
    /\ Head(todo).depth <= StackLimit
    /\ LET n == Head(todo).node
           c == Kid(doc, n, "callbacks")
           new == IF c = NoNode THEN doc ELSE [doc EXCEPT ![c] = InlineEntries(before, c)]
       IN  /\ doc' = new
           /\ todo' = Calls(new, n, Head(todo).depth) \o Tail(todo)
    /\ UNCHANGED <<source, disk, edits, pc, text, before, cache, inlined, clock, sent, verdict>>

\* The stack of a thread is finite, and its end the end of the process.
Overflow ==
    /\ pc = "callbacks" /\ todo # << >>
    /\ Head(todo).depth > StackLimit
    /\ pc' = "crashed"
    /\ UNCHANGED <<source, disk, edits, text, doc, before, todo, cache, inlined, clock, sent,
                   verdict>>

Check ==
    /\ pc = "callbacks" /\ todo = << >>
    /\ pc' = "done"
    /\ verdict' = IF Deserialises(doc) /\ SoundSemantics(doc) THEN "ok" ELSE "parse"
    /\ UNCHANGED <<source, disk, edits, text, doc, before, todo, cache, inlined, clock, sent>>

-----------------------------------------------------------------------------
(* load_spec_with_remote_refs                                              *)

ParseTree ==
    /\ pc = "parse" /\ source.entry = "remote"
    /\ UNCHANGED <<disk, edits>>
    /\ IF text = NoText \/ (text.format = "yaml" /\ ~Parses(text.doc))
       THEN Fail("parse")
       ELSE /\ doc' = text.doc
            /\ todo' = <<[node |-> Root, depth |-> 1]>>
            /\ pc' = "inline"
            /\ UNCHANGED <<source, text, before, cache, inlined, clock, sent, verdict>>

Here == Head(todo).node
Url == doc[Here].ref[2]
AtRemote == pc = "inline" /\ todo # << >> /\ IsRemote(doc[Here].ref)

\* Mutant of MayFetch: the time is not looked at.
MayFetchAnyTime == Cardinality(DOMAIN cache) < MaxFetches

\* The timeout of the blocking client is one of the request and of each read of the body;
\* read_capped reads on as long as something comes and does not look at the clock.
LongestFetch == LookupTime + FetchTime * (1 + MaxReads)

\* fetch_remote_ref asks the network: not twice for what it has, not after its time, and
\* not when it has enough.
MayFetch == clock <= WallTime /\ Cardinality(DOMAIN cache) < MaxFetches

\* The node becomes the body, which is not walked.
Replace(n, body) ==
    /\ doc' = [doc EXCEPT ![n] = [Bare EXCEPT !.role = "body"]]
    /\ inlined' = [m \in DOMAIN inlined \cup {n} |-> IF m = n THEN body ELSE inlined[m]]
    /\ todo' = Tail(todo)

\* Mutant of Descend: a node without entries is not taken off the list.
DescendAgain(n) ==
    /\ todo' = IF doc[n].kids = << >> THEN todo ELSE Calls(doc, n, Head(todo).depth) \o Tail(todo)
    /\ UNCHANGED <<doc, inlined>>

\* The node stays as it is, and so do the references inside it until the walk gets there.
Descend(n) ==
    /\ todo' = Calls(doc, n, Head(todo).depth) \o Tail(todo)
    /\ UNCHANGED <<doc, inlined>>

UseCached ==
    /\ AtRemote /\ Url \in DOMAIN cache
    /\ Replace(Here, cache[Url])
    /\ UNCHANGED <<source, disk, edits, pc, text, before, cache, clock, sent, verdict>>

\* Mutant of FetchBody: the body is used and forgotten.
FetchUncached(d) ==
    /\ AtRemote /\ Url \notin DOMAIN cache /\ MayFetch
    /\ clock' = clock + d
    /\ sent' = [sent EXCEPT ![Url] = @ + 1]
    /\ Replace(Here, <<Url, sent[Url]>>)
    /\ UNCHANGED <<source, disk, edits, pc, text, before, cache, verdict>>

\* The answer is the edition of the body that is served at that moment.
FetchBody(d) ==
    /\ AtRemote /\ Url \notin DOMAIN cache /\ MayFetch
    /\ clock' = clock + d
    /\ sent' = [sent EXCEPT ![Url] = @ + 1]
    /\ LET body == <<Url, sent[Url]>> IN
       /\ cache' = [u \in DOMAIN cache \cup {Url} |-> IF u = Url THEN body ELSE cache[u]]
       /\ Replace(Here, body)
    /\ UNCHANGED <<source, disk, edits, pc, text, before, verdict>>

\* No connection, a status that is not 2xx, more than REMOTE_REF_MAX_BODY_BYTES declared or
\* read, not UTF-8, neither JSON nor YAML: nothing is remembered.
FetchFails(d) ==
    /\ AtRemote /\ Url \notin DOMAIN cache /\ MayFetch
    /\ clock' = clock + d
    /\ sent' = [sent EXCEPT ![Url] = @ + 1]
    /\ Descend(Here)
    /\ UNCHANGED <<source, disk, edits, pc, text, before, cache, verdict>>

\* validate_remote_url: the host does not resolve, or to an address that is not public.  It
\* is asked again the next time.
RefuseUrl(d) ==
    /\ AtRemote /\ Url \notin DOMAIN cache /\ MayFetch
    /\ clock' = clock + d
    /\ Descend(Here)
    /\ UNCHANGED <<source, disk, edits, pc, text, before, cache, sent, verdict>>

SkipRemote ==
    /\ AtRemote /\ Url \notin DOMAIN cache /\ ~MayFetch
    /\ Descend(Here)
    /\ UNCHANGED <<source, disk, edits, pc, text, before, cache, clock, sent, verdict>>

WalkLocal ==
    /\ pc = "inline" /\ todo # << >> /\ ~AtRemote
    /\ Descend(Here)
    /\ UNCHANGED <<source, disk, edits, pc, text, before, cache, clock, sent, verdict>>

\* Only the nullable types are rewritten, and nothing is checked.
FinishRemote ==
    /\ pc = "inline" /\ todo = << >>
    /\ pc' = "done"
    /\ LET new == [n \in DOMAIN doc |-> RewriteNullable(doc[n])] IN
       /\ doc' = new
       /\ verdict' = IF Deserialises(new) THEN "ok" ELSE "parse"
    /\ UNCHANGED <<source, disk, edits, text, before, todo, cache, inlined, clock, sent>>

-----------------------------------------------------------------------------
(* The file may change while it is loaded.                                 *)

Edit ==
    /\ source.given = "path" /\ pc # "done"
    /\ edits < MaxEdits /\ disk \in EditedTo \cup {Missing}
    /\ edits' = edits + 1
    /\ disk' \in (EditedTo \cup {Missing}) \ {disk}
    /\ UNCHANGED <<source, pc, text, doc, before, todo, cache, inlined, clock, sent, verdict>>

Init ==
    /\ \E i \in Inputs : source = i.source /\ disk = i.disk
    /\ edits = 0
    /\ pc = "start" /\ text = NoText /\ verdict = "none"
    /\ doc = [n \in {Root} |-> Bare] /\ before = doc
    /\ todo = << >> /\ cache = << >> /\ inlined = << >>
    /\ clock = 0 /\ sent = [u \in Urls |-> 0]

Fetch ==
    \/ \E d \in 0 .. LongestFetch : FetchBody(d) \/ FetchFails(d)
    \/ \E d \in 0 .. LookupTime : RefuseUrl(d)

Step ==
    \/ TakeInline \/ Stat \/ Read \/ RejectOversized
    \/ RejectVersion \/ Normalise \/ WalkCallbacks \/ Overflow \/ Check
    \/ ParseTree \/ UseCached \/ Fetch \/ SkipRemote \/ WalkLocal \/ FinishRemote

Next == Step \/ Edit

\* The loader is a sequential program; the network answers or the request times out.
Spec == Init /\ [][Next]_vars /\ WF_vars(Step)

-----------------------------------------------------------------------------
TypeOK ==
    /\ disk # Missing => disk.size \in Nat
    /\ text # NoText => text.size \in Nat /\ Root \in DOMAIN text.doc
    /\ edits \in 0 .. MaxEdits
    /\ pc \in {"start", "read", "oversized", "parse", "callbacks", "inline", "done", "crashed"}
    /\ Root \in DOMAIN doc
    /\ DOMAIN cache \subseteq Urls /\ DOMAIN inlined \subseteq DOMAIN doc
    /\ clock \in Nat /\ sent \in [Urls -> Nat]
    /\ verdict \in {"none", "ok", "io", "parse"}
    /\ (verdict = "none") <=> (pc # "done")

Accepted == verdict = "ok" /\ source.entry = "load_spec"

\* What a schema says of a number, in the words of 3.1 (a bound of its own) and of 3.0
\* (a flag on the other bound).
AboveMin(x, rec) ==
    /\ IsNumber(rec.min) =>
           IF rec.xmin = Flag(TRUE) THEN x > rec.min.halves ELSE x >= rec.min.halves
    /\ IsNumber(rec.xmin) => x > rec.xmin.halves
BelowMax(x, rec) ==
    /\ IsNumber(rec.max) =>
           IF rec.xmax = Flag(TRUE) THEN x < rec.max.halves ELSE x <= rec.max.halves
    /\ IsNumber(rec.xmax) => x < rec.xmax.halves
\* Bounds without a fraction; one that 64 bits cannot hold is an upper or lower bound that
\* nothing reaches, unless it is exclusive, when the bound it is clamped to gets lost.
Tame(rec) ==
    \A k \in AllBounds : IsNumber(rec[k]) =>
        /\ rec[k].halves % 2 = 0
        /\ InI64(rec[k].halves) \/ (rec.xmin = Absent /\ rec.xmax = Absent)

\* The rewrites of the bounds come one after the other and on the text as well as on the
\* tree (loader.rs, normalize_oas31_nullable); together they change no schema that they let
\* through, for the numbers strictly within 64 bits and bounds that are tame.
BoundsKeepTheirMeaning ==
    Accepted =>
        \A n \in DOMAIN text.doc \cap Reach(doc) : Tame(text.doc[n]) =>
            \A x \in -2 * MaxI64 .. 2 * MaxI64 - 1 :
                /\ AboveMin(x, text.doc[n]) <=> AboveMin(x, doc[n])
                /\ BelowMax(x, text.doc[n]) <=> BelowMax(x, doc[n])

\* A text is judged by one reading of it, however often the file changes in the meantime,
\* and is never longer than MAX_SPEC_BYTES (load_spec checks the length twice).
NothingOversized == pc \in {"parse", "callbacks", "inline"} /\ text # NoText => text.size <= MaxBytes

Plain(v) == IF IsNumber(v) THEN [v EXCEPT !.form = "int"] ELSE v
PlainBounds(d) ==
    [n \in DOMAIN d |-> [d[n] EXCEPT !.min = Plain(@), !.max = Plain(@)]]
HeadersAreHeaders(d) == \A n \in HeaderPlaces(d) : d[n].role = "header"

\* What /openapi.json shows is the normalised specification: the rewrites of a second load
\* (normalize_oas31_nullable) change nothing in it but the way a number is written (2.0).
\* There are two exceptions.  A path that refers to a reference: one of them is resolved by
\* each load.  And a callback that is inlined under the name "responses": what its paths
\* have under "headers" then stands where headers are looked for, and is none to the parser.
AgainTheSame ==
    LET settled == /\ \A n \in DOMAIN text.doc : Tame(text.doc[n])
                   /\ \A n \in Entries(doc, Under(doc, {Root}, "paths")) : doc[n].ref = << >>
                   /\ HeadersAreHeaders(doc)
    IN  Accepted /\ settled => PlainBounds(Rewritten(doc)) = PlainBounds(doc)

\* Behind an accepted reference to a component there is a component, after everything
\* that inlining and rewriting have moved (check_dangling_refs runs on the result).
AcceptedRefsResolve ==
    Accepted =>
        \A n \in Reach(doc) :
            LET r == doc[n].ref IN
            Len(r) > 3 /\ r[1] = "#" /\ r[2] = "components" /\ r[3] \in Bags
                => Resolve(doc, r) \in Reach(doc)

\* All places of a URL that were filled got one and the same answer, even if the network
\* had several to give (fetch_remote_ref caches what it got).
SameUrlSameBody ==
    \A m, n \in DOMAIN inlined : inlined[m][1] = inlined[n][1] => inlined[m] = inlined[n]

\* The budgets (fetch_remote_ref, read_capped): of all fetches, failed ones included, only
\* the last can go beyond the time, by what a body that comes byte by byte takes, which is
\* far more than a timeout; the number of bodies is never exceeded.
BudgetsHold ==
    /\ clock <= WallTime + LongestFetch
    /\ Cardinality(DOMAIN cache) <= MaxFetches

\* "Total wall-clock budget for all remote `$ref` fetches per `load_spec_with_remote_refs`
\* call" (REMOTE_REF_WALL_TIMEOUT, loader.rs:27).
TotalTimeIsBudgeted == clock <= WallTime

\* "Each unique URL is fetched at most once per call" (load_spec_with_remote_refs,
\* loader.rs:1274).
FetchedOnce == \A u \in Urls : sent[u] <= 1

\* Loading ends: with a verdict, or with the stack.
LoadEnds == <>(pc \in {"done", "crashed"})

\* docs/SCOPE.md:259-264 on callbacks: "referenced callback definitions no longer break the
\* spec parse".
CallbacksDoNotBreakTheLoad == pc # "crashed"

=============================================================================
