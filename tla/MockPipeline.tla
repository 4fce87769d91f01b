---------------------------- MODULE MockPipeline ----------------------------
(***************************************************************************)
(* One client and the mock: routing, security, validation, choice of the   *)
(* response, negotiation and body (crates/chasm-engine/src/engine.rs,      *)
(* prefer.rs, security.rs), then the assembly of the HTTP answer           *)
(* (crates/chasm-server/src/main.rs, handle_request_inner).  The client    *)
(* does what an error tells it to, asks once more for what it got, and the *)
(* specification may be reloaded in between.                               *)
(*                                                                         *)
(* A media type is its sequence of parts, <<"text", "plain", "v=1">>; a    *)
(* response key below 10 is a range such as 2XX, and nobody forces such a  *)
(* code; an Accept header is its ranges with q > 0 by falling quality; a   *)
(* body is where it came from.                                             *)
(***************************************************************************)
EXTENDS Router, FiniteSetsExt

CONSTANTS
    Apis,       \* OpenAPI documents that load
    Configs,    \* MockConfigs the command line can produce
    Asks,       \* requests a client begins with
    Draws,      \* values an unseeded generation may produce
    None

\* No Authorization header is not one of the basic scheme, no schema is not one
\* that nothing conforms to, and no document is not a document.
ASSUME NoneAssumption == None \notin {"basic", "impossible"} /\ None \notin Apis

\* What the client sends, and what it prefers about the generation of values.
AskFields == {"method", "path", "authorization", "keys", "given", "accept", "tag",
              "header", "query"}

IsAsk(ask) ==
    /\ DOMAIN ask = AskFields
    /\ \A directives \in {ask.header, ask.query} :
          /\ {"dynamic", "seed"} \subseteq DOMAIN directives
          /\ directives.dynamic \in BOOLEAN \cup {None}

ASSUME AsksAssumption == \A ask \in Asks : IsAsk(ask)

ASSUME ConfigsAssumption ==
    \A config \in Configs :
        {"dynamic", "seed"} \subseteq DOMAIN config /\ config.dynamic \in BOOLEAN

\* How a client shows who it is: by a key of its own for each scheme, or in the
\* Authorization header.
SchemeKinds == {"apiKey", "bearer", "basic", "http", "oauth2"}

\* None: not declared.  Names of schemes, all of one and one of all.
Securities == {None} \cup Seq(Seq(STRING))

\* Paths and the segments of a template have an order.
ASSUME ApisAssumption ==
    \A a \in Apis :
        /\ a.paths \in Seq(ToSet(a.paths))
        /\ a.security \in Securities
        /\ \A s \in DOMAIN a.schemes : a.schemes[s] \in SchemeKinds
        /\ \A item \in ToSet(a.paths) :
              /\ item.template \in Seq(STRING)
              /\ \A m \in DOMAIN item.ops : item.ops[m].security \in Securities

VARIABLES
    stage,      \* how far the request is
    picked,     \* status and response that were chosen
    media,      \* media type object of the response, or None
    reply,      \* the MockResponse or MockError, then the answer
    prior,      \* what the same request got before, and from which document
    retries     \* whether the client has asked once more

pass == <<scan, best, rejected>>
input == <<api, cfg, req>>
session == <<prior, retries>>
vars == <<input, pass, stage, picked, media, reply, session>>

Stages == {"route", "secure", "validate", "respond", "content", "body",
           "assemble", "done"}

Kinds == {"Response", "NotModified", "NoRoute", "MethodNotAllowed",
          "Unauthorized", "ValidationFailed", "NoResponseForCode",
          "NoResponseDefined", "NotAcceptable", "ExampleNotFound", "Generation"}

Blank == [kind |-> None, status |-> 0, type |-> None, body |-> None,
          encoded |-> FALSE, tag |-> None, allow |-> {}, scheme |-> None,
          faults |-> {}, types |-> {}]

NoAnswer == [api |-> None, reply |-> Blank]

Init ==
    /\ api \in Apis
    /\ cfg \in Configs
    /\ req \in Asks
    /\ scan = 1 /\ best = 0 /\ rejected = 0
    /\ stage = "route"
    /\ picked = None /\ media = None
    /\ reply = Blank
    /\ prior = NoAnswer /\ retries = 0

Otherwise(a, b) == IF a # None THEN a ELSE b

Goto(s) == stage' = s /\ UNCHANGED <<input, pass, session>>
Finish(r) == Goto("done") /\ reply' = r /\ UNCHANGED <<picked, media>>
Fail(kind) == Finish([Blank EXCEPT !.kind = kind])

\* mock's Ok: handed to the server.
Return(r) == Goto("assemble") /\ reply' = r /\ UNCHANGED picked

-----------------------------------------------------------------------------
(* Per-request overrides. *)

Directives ==
    [d \in DOMAIN req.header |->
        Otherwise(req.query[d], req.header[d])]

Effective ==
    [f \in DOMAIN cfg |->
        IF f \in DOMAIN Directives /\ Directives[f] # None
        THEN Directives[f] ELSE cfg[f]]

-----------------------------------------------------------------------------
(* Routing. *)

Route == stage = "route" /\ Scan /\ UNCHANGED <<stage, picked, media, reply, session>>

Chosen == api.paths[best]
Operation == OperationFor(Chosen, req.method)

\* Mutant: a path without the method counts as found.
RouteAnyway ==
    /\ stage = "route" /\ Scanned /\ (best # 0 \/ rejected # 0)
    /\ Goto("secure")
    /\ UNCHANGED <<picked, media, reply>>

RouteFound ==
    /\ stage = "route" /\ Scanned /\ best # 0
    /\ Goto("secure")
    /\ UNCHANGED <<picked, media, reply>>

\* An answer without content type, so the server sends no body.
SynthesiseOptions ==
    /\ stage = "route" /\ Scanned /\ best = 0 /\ rejected # 0
    /\ req.method = "OPTIONS" /\ ~cfg.strict
    /\ Return([Blank EXCEPT !.kind = "Response", !.status = 200,
                            !.allow = Allow(api.paths[rejected])])
    /\ UNCHANGED media

RefuseMethod ==
    /\ stage = "route" /\ Scanned /\ best = 0 /\ rejected # 0
    /\ req.method # "OPTIONS" \/ cfg.strict
    /\ Finish([Blank EXCEPT !.kind = "MethodNotAllowed",
                            !.allow = Allow(api.paths[rejected])])

RefusePath ==
    /\ stage = "route" /\ Scanned /\ best = 0 /\ rejected = 0
    /\ Fail("NoRoute")

-----------------------------------------------------------------------------
(* Security: one alternative must hold, all of its schemes at once. *)

Requirements(op) == Otherwise(Otherwise(op.security, api.security), <<>>)

\* Schemes of the http family and OAuth2 share the Authorization header.
Satisfied(s) ==
    LET kind == api.schemes[s] IN
    \/ kind \in {"bearer", "oauth2"} /\ req.authorization = "bearer"
    \/ kind = "basic" /\ req.authorization = "basic"
    \/ kind = "http" /\ req.authorization # None
    \/ kind = "apiKey" /\ s \in req.keys

Holds(requirement) ==
    \A s \in ToSet(requirement) : s \in DOMAIN api.schemes /\ Satisfied(s)

Authorised(op) ==
    \/ Requirements(op) = <<>>
    \/ \E requirement \in ToSet(Requirements(op)) : Holds(requirement)

\* Mutant: the first scheme, defined or not.
FirstNamed(op) == Head(FlattenSeq(Requirements(op)))

\* The first scheme that resolves, whether or not it was the one to fail.
Challenged(op) ==
    LET named == FlattenSeq(Requirements(op))
        known == {i \in DOMAIN named : named[i] \in DOMAIN api.schemes}
    IN  named[IF known = {} THEN 1 ELSE Min(known)]

\* Reads the server's configuration, not the effective one.
Authorise ==
    /\ stage = "secure"
    /\ cfg.security => Authorised(Operation)
    /\ Goto("validate")
    /\ UNCHANGED <<picked, media, reply>>

Challenge ==
    /\ stage = "secure"
    /\ cfg.security /\ ~Authorised(Operation)
    /\ Finish([Blank EXCEPT !.kind = "Unauthorized", !.scheme = Challenged(Operation)])

-----------------------------------------------------------------------------
(* Validation: what validation.rs reports, as the inputs that are missing. *)

Faults(item, op) == (op.required \cup item.required) \ req.given

Accept ==
    /\ stage = "validate"
    /\ cfg.errors => Faults(Chosen, Operation) = {}
    /\ Goto("respond")
    /\ UNCHANGED <<picked, media, reply>>

Reject ==
    /\ stage = "validate"
    /\ cfg.errors /\ Faults(Chosen, Operation) # {}
    /\ Finish([Blank EXCEPT !.kind = "ValidationFailed",
                            !.faults = Faults(Chosen, Operation)])

-----------------------------------------------------------------------------
(* Status and response.  A response that is None did not resolve. *)

Keys(op) == {entry.key : entry \in ToSet(op.responses)}

At(op, key) ==
    IF key \in Keys(op)
    THEN (CHOOSE entry \in ToSet(op.responses) : entry.key = key).response
    ELSE None

ForCode(op, code) == Otherwise(At(op, code), At(op, code \div 100))

Successes(op) == {key \in Keys(op) : key \in 200..299}

LowestSuccess(op) ==
    IF Successes(op) = {} THEN None ELSE At(op, Min(Successes(op)))

Resolvable(op) == SelectSeq(op.responses, LAMBDA entry : entry.response # None)

Pick(status, response) ==
    /\ response # None
    /\ picked' = [status |-> status, response |-> response]
    /\ Goto("content")
    /\ UNCHANGED <<media, reply>>

PickForced ==
    /\ stage = "respond" /\ Effective.code # None
    /\ Pick(Effective.code,
            Otherwise(ForCode(Operation, Effective.code), Operation.default))

RefuseCode ==
    /\ stage = "respond" /\ Effective.code # None
    /\ ForCode(Operation, Effective.code) = None /\ Operation.default = None
    /\ Fail("NoResponseForCode")

PickSuccess ==
    /\ stage = "respond" /\ Effective.code = None
    /\ \/ Pick(Min(Successes(Operation)), LowestSuccess(Operation))
       \/ LowestSuccess(Operation) = None /\ Pick(200, At(Operation, 2))

\* None of 200 to 299, and no 2XX.
NoSuccess ==
    /\ stage = "respond" /\ Effective.code = None
    /\ LowestSuccess(Operation) = None /\ At(Operation, 2) = None

PickDefault == NoSuccess /\ Pick(200, Operation.default)

PickFirst ==
    /\ NoSuccess /\ Operation.default = None
    /\ Resolvable(Operation) # <<>>
    /\ LET first == Head(Resolvable(Operation)) IN
       Pick(IF first.key < 100 THEN first.key * 100 ELSE first.key, first.response)

NoResponse ==
    /\ NoSuccess /\ Operation.default = None
    /\ Resolvable(Operation) = <<>>
    /\ Fail("NoResponseDefined")

-----------------------------------------------------------------------------
(* Content type. *)

Json == <<"application", "json">>

Essence(type) == IF Len(type) > 2 THEN SubSeq(type, 1, 2) ELSE type

RangeMatches(range, type) ==
    \/ range = <<"*", "*">>
    \/ range = Essence(type)
    \/ range = <<type[1], "*">>

\* Keys that are not type/subtype are passed over.
IsPlausible(m) == Len(m.type) > 1

Plausible(content) == SelectSeq(content, IsPlausible)

\* With no Accept header any type will do.
Ranges == IF req.accept = None THEN <<<<"*", "*">>>> ELSE req.accept

Offered(content, range) ==
    SelectSeq(Plausible(content), LAMBDA m : RangeMatches(range, m.type))

Usable(content, ranges) ==
    SelectSeq(ranges, LAMBDA range : Offered(content, range) # <<>>)

\* Mutant: the keys that are passed over are offered as well.
OfferAll(content) == {m.type : m \in ToSet(content)}

\* What a 406 says is there.
Offers(content) == {m.type : m \in {n \in ToSet(content) : IsPlausible(n)}}

\* The envelope the server builds holds every header of the request, also
\* If-None-Match.
Echo ==
    /\ stage = "content" /\ Operation.echo
    /\ Return([Blank EXCEPT !.kind = "Response", !.status = picked.status,
                            !.type = Json, !.body = <<"echo", req.tag>>,
                            !.encoded = picked.response.encoded])
    /\ UNCHANGED media

NoContent ==
    /\ stage = "content" /\ ~Operation.echo
    /\ picked.response.content = <<>>
    /\ Return([Blank EXCEPT !.kind = "Response", !.status = picked.status,
                            !.encoded = picked.response.encoded])
    /\ UNCHANGED media

Negotiate ==
    /\ stage = "content" /\ ~Operation.echo
    /\ picked.response.content # <<>>
    /\ LET content == picked.response.content
           usable == Usable(content, Ranges)
       IN  \/ usable # <<>> /\ media' = Head(Offered(content, Head(usable)))
           \/ usable = <<>> /\ Offers(content) = {} /\ media' = None
    /\ Goto("body")
    /\ UNCHANGED <<picked, reply>>

NotAcceptable ==
    /\ stage = "content" /\ ~Operation.echo
    /\ LET content == picked.response.content IN
       /\ Usable(content, Ranges) = <<>> /\ Offers(content) # {}
       /\ Finish([Blank EXCEPT !.kind = "NotAcceptable", !.types = Offers(content)])

-----------------------------------------------------------------------------
(* Body. *)

UsesExamples == ~Effective.ignore /\ ~Effective.dynamic

Examples(m) == IF m = None THEN <<>> ELSE m.examples

\* The entry of that name, if it has one that resolves.
Named(m, name) ==
    SelectSeq(Examples(m), LAMBDA example : example.name = name /\ example.resolves)

Values(examples) == IF examples = <<>> THEN <<>> ELSE <<Head(examples).value>>

\* The named value, the first value, the inline one, that of the schema.
ExampleValues(m, name) ==
    IF m = None THEN <<>>
    ELSE SelectSeq(Values(Named(m, name)) \o Values(Examples(m))
                     \o <<m.inline, m.schemaExample>>,
                   LAMBDA value : value # None)

\* The example the request asks for is there, if it asks for one.
HasExample(m) == Effective.example # None => Named(m, Effective.example) # <<>>

\* The spec's own seed has the last word.
Seed == Otherwise(api.random, Effective.seed)

Respond(body) ==
    Return([Blank EXCEPT !.kind = "Response", !.status = picked.status,
                         !.type = IF media = None THEN Json ELSE media.type,
                         !.body = body, !.encoded = picked.response.encoded])
    /\ UNCHANGED media

RefuseExample ==
    /\ stage = "body" /\ UsesExamples
    /\ ~HasExample(media)
    /\ Fail("ExampleNotFound")

GiveExample ==
    /\ stage = "body" /\ UsesExamples
    /\ HasExample(media)
    /\ ExampleValues(media, Effective.example) # <<>>
    /\ Respond(<<"example", Head(ExampleValues(media, Effective.example))>>)

\* No example, or none wanted.
Generates ==
    /\ stage = "body"
    /\ UsesExamples =>
         HasExample(media) /\ ExampleValues(media, Effective.example) = <<>>

Schema(m) == IF m = None THEN None ELSE m.schema

GiveNothing == Generates /\ Schema(media) = None /\ Respond(<<"null">>)

\* Only the faker can fail; generate_static always has a value.
GenerationFails ==
    /\ Generates /\ Schema(media) = "impossible" /\ Effective.dynamic
    /\ Fail("Generation")

GiveStatic ==
    /\ Generates /\ Schema(media) # None /\ ~Effective.dynamic
    /\ Respond(<<"static", Schema(media)>>)

GiveDynamic ==
    /\ Generates /\ Schema(media) \notin {None, "impossible"} /\ Effective.dynamic
    /\ IF Seed # None THEN Respond(<<"dynamic", Schema(media), Seed>>)
       ELSE \E draw \in Draws : Respond(<<"dynamic", Schema(media), draw>>)

-----------------------------------------------------------------------------
(* Assembly. *)

Bodyless(status) == status \in 100..199 \cup {204, 205, 304}

\* The status goes out as it is if HTTP has it.
Valid(status) == IF status \in 100..999 THEN status ELSE 500

Suppressed ==
    \/ Bodyless(reply.status)
    \/ req.method \in {"HEAD", "OPTIONS"}
    \/ reply.type = None

Bytes == IF Suppressed THEN <<>> ELSE reply.body

\* Reads the server's configuration, not the effective one.
BodyIsStable == ~cfg.dynamic \/ cfg.seed # None

\* Mutant: every body counts as stable.
TagAlways ==
    IF /\ Valid(reply.status) \in 200..299 /\ reply.type # None
       /\ ~(reply.encoded /\ ~Suppressed)
    THEN Bytes ELSE None

\* The ETag: a hash of what is sent.
Tag ==
    IF /\ BodyIsStable
       /\ Valid(reply.status) \in 200..299 /\ reply.type # None
       /\ ~(reply.encoded /\ ~Suppressed)
    THEN Bytes ELSE None

\* Mutant: any tag will do.
AnyTag == Tag # None /\ req.tag # None

Unmodified == Tag # None /\ req.tag = Tag

NotModified ==
    /\ stage = "assemble" /\ Unmodified
    /\ Finish([reply EXCEPT !.kind = "NotModified", !.status = 304, !.tag = Tag])

Complete ==
    /\ stage = "assemble" /\ ~Unmodified
    /\ Finish([reply EXCEPT !.status = Valid(reply.status), !.tag = Tag])

Server ==
    \/ Route \/ RouteFound \/ SynthesiseOptions \/ RefuseMethod \/ RefusePath
    \/ Authorise \/ Challenge \/ Accept \/ Reject
    \/ PickForced \/ RefuseCode \/ PickSuccess \/ PickDefault \/ PickFirst
    \/ NoResponse
    \/ Echo \/ NoContent \/ Negotiate \/ NotAcceptable
    \/ RefuseExample \/ GiveExample \/ GiveNothing \/ GenerationFails
    \/ GiveStatic \/ GiveDynamic
    \/ NotModified \/ Complete

-----------------------------------------------------------------------------
(* The client does what the error says.  (Of a 401 only callers of mock learn *)
(* the name of an apiKey scheme; over HTTP there is WWW-Authenticate.)       *)

Send(r) ==
    /\ req' = r
    /\ scan' = 1 /\ best' = 0 /\ rejected' = 0
    /\ stage' = "route"
    /\ picked' = None /\ media' = None /\ reply' = Blank
    /\ UNCHANGED <<api, cfg>>

Supply(s) ==
    IF s \notin DOMAIN api.schemes THEN req
    ELSE LET kind == api.schemes[s] IN
         IF kind = "apiKey" THEN [req EXCEPT !.keys = @ \cup {s}]
         ELSE [req EXCEPT !.authorization =
                 IF kind \in {"basic", "http"} THEN "basic" ELSE "bearer"]

\* The requests the error of the reply asks for.
Amended ==
    CASE reply.kind = "MethodNotAllowed" ->
            {[req EXCEPT !.method = m] : m \in reply.allow}
      [] reply.kind = "Unauthorized" -> {Supply(reply.scheme)} \ {req}
      [] reply.kind = "ValidationFailed" ->
            {[req EXCEPT !.given = @ \cup {f}] : f \in reply.faults}
      [] reply.kind = "NoResponseForCode" ->
            {[req EXCEPT !.header.code = None, !.query.code = None]}
      [] reply.kind = "NotAcceptable" ->
            {[req EXCEPT !.accept = <<Essence(t)>>] : t \in reply.types}
      [] reply.kind = "ExampleNotFound" ->
            {[req EXCEPT !.header.example = None, !.query.example = None]}
      [] OTHER -> {}

Amend ==
    /\ stage = "done"
    /\ \E r \in Amended : Send(r)
    /\ prior' = NoAnswer
    /\ UNCHANGED retries

\* The same request again, conditional on the tag of the answer.
AskAgain ==
    /\ stage = "done" /\ reply.kind = "Response" /\ retries = 0
    /\ Send([req EXCEPT !.tag = reply.tag])
    /\ prior' = IF prior.api # None THEN prior ELSE [api |-> api, reply |-> reply]
    /\ retries' = 1

\* The specification is replaced while the client has its answer.
Reload ==
    /\ stage = "done" /\ reply.kind = "Response" /\ retries = 0
    /\ prior.api = None
    /\ \E a \in Apis \ {api} : api' = a
    /\ prior' = [api |-> api, reply |-> reply]
    /\ scan' = 0 /\ best' = 0 /\ rejected' = 0
    /\ UNCHANGED <<cfg, req, stage, picked, media, reply, retries>>

Client == Amend \/ AskAgain

Next == Server \/ Client \/ Reload

Spec == Init /\ [][Next]_vars

\* A request is worked on to its end and the client does not give up.
FairSpec == Spec /\ WF_vars(Server) /\ WF_vars(Client)

-----------------------------------------------------------------------------
(* Properties. *)

\* The variables keep their types, and no stage is entered without what it
\* reads (mock's locals).
TypeOK ==
    /\ api \in Apis /\ cfg \in Configs
    /\ scan \in 0..(Len(api.paths) + 1)
    /\ best \in 0..Len(api.paths) /\ rejected \in 0..Len(api.paths)
    /\ stage \in Stages
    /\ stage \in {"secure", "validate", "respond", "content", "body"} => best # 0
    /\ stage \in {"content", "body"} => picked.response # None
    /\ stage = "assemble" => reply.kind = "Response"
    /\ stage = "done" => reply.kind \in Kinds
    /\ retries \in {0, 1}

\* The pass stops at the most specific of the paths that match and can answer,
\* the first of them in document order, and remembers the first that matches
\* but cannot (router.rs, route_request_inner).
RouteIsBest ==
    Scanned =>
        /\ BestOf(best, ServingBefore(scan))
        /\ FirstOf(rejected, MatchingBefore(scan) \ ServingBefore(scan))

OwnServers(item, m) == m \in DOMAIN item.ops /\ item.ops[m].servers # <<>>

\* Each method of the Allow header of a 405, or of the answer to OPTIONS,
\* reaches an operation if the client sends it to the same path; all but
\* those an operation serves under servers of its own (router.rs,
\* allow_header_for_path_item_with_strict and candidate_paths_for_operation).
AllowIsUsable ==
    stage = "done" /\ rejected # 0 /\ best = 0 =>
        \A m \in reply.allow : OwnServers(api.paths[rejected], m) \/ Routes(m)

\* A client that does what each error says ends with an answer, or with an
\* error that is not the request's fault.  The exceptions: a path without
\* methods, and a 401 that cannot say what else an alternative of several
\* schemes needs, or that names a scheme nobody defined.
NoDeadEnds ==
    stage = "done" /\ Amended = {} =>
        \/ reply.kind \in {"Response", "NotModified", "NoRoute",
                           "NoResponseDefined", "Generation"}
        \/ reply.kind = "MethodNotAllowed" /\ reply.allow = {}
        \/ /\ reply.kind = "Unauthorized"
           /\ \/ \E r \in ToSet(Requirements(Operation)) : Len(r) > 1
              \/ \A r \in ToSet(Requirements(Operation)) :
                    ToSet(r) \cap DOMAIN api.schemes = {}

\* It does not go round in circles: every session settles (the Allow, scheme,
\* media type and diagnostics of problem_for_error's problems).
SessionSettles == <>[](stage = "done" /\ Amended = {})

Again == stage = "done" /\ retries = 1 /\ prior.api # None

\* A 304 is true also across a reload: what the client holds is what the
\* server would send now (handle_request_inner).  Where the server never
\* sends a body the tag says nothing of the response.
NotModifiedIsTrue ==
    Again /\ reply.kind = "NotModified" /\ reply.tag # <<>> =>
        reply.body = prior.reply.body

\* A client that asks again with the tag it got, of the same document, is told
\* that nothing changed, unless the request itself turned unseeded generation
\* on or is echoed (response_body_is_stable).
TagsRepeat ==
    Again /\ prior.api = api /\ prior.reply.tag # None
          /\ (Directives.dynamic = TRUE => Seed # None)
          /\ ~Operation.echo
        => reply.kind = "NotModified" /\ reply.body = prior.reply.body

\* Any non-deterministic body must remain ETag-less, as the comment on
\* response_body_is_stable has it: a tagged answer repeats.
TaggedIsStable ==
    Again /\ prior.api = api /\ prior.reply.tag # None
        => reply.kind = "NotModified"

\* `Prefer: security=false` lets a request through that would be 401, and
\* `validate=false` one that would be 422 (docs/PREFER_HEADER.md).
PreferIsObeyed ==
    stage = "done" =>
        /\ Effective.security = FALSE => reply.kind # "Unauthorized"
        /\ Effective.errors = FALSE => reply.kind # "ValidationFailed"
=============================================================================
