------------------------ MODULE MockPipeline_proofs ------------------------
(***************************************************************************)
(* Proofs about MockPipeline, for all documents, configurations, requests  *)
(* and rules of matching a segment: which path is chosen, what a client    *)
(* may conclude from an Allow header and from a 304.                       *)
(***************************************************************************)
EXTENDS MockPipeline, Induction_proofs

\* What the pass asks of the i-th path.
Fits(i) == Matches(api.paths[i], req.method, req.path)
Answers(i) == Serves(api.paths[i], req.method)
Weight(i) == Literals(api.paths[i].template)

Numbers == /\ scan \in 0..(Len(api.paths) + 1)
           /\ best \in 0..Len(api.paths)
           /\ rejected \in 0..Len(api.paths)
           /\ scan = 0 => best = 0 /\ rejected = 0

\* What the pass has found out so far.
BestSoFar ==
    IF best = 0
    THEN \A i \in 1..Len(api.paths) : i < scan => ~(Fits(i) /\ Answers(i))
    ELSE /\ best < scan /\ Fits(best) /\ Answers(best)
         /\ \A i \in 1..Len(api.paths) : i < scan /\ Fits(i) /\ Answers(i) =>
                Weight(best) > Weight(i) \/ (Weight(best) = Weight(i) /\ best <= i)

FirstSoFar ==
    IF rejected = 0
    THEN \A i \in 1..Len(api.paths) : i < scan => ~Fits(i) \/ Answers(i)
    ELSE /\ rejected < scan /\ Fits(rejected) /\ ~Answers(rejected)
         /\ \A i \in 1..Len(api.paths) : i < scan /\ Fits(i) /\ ~Answers(i) =>
                rejected <= i

PassInv == scan # 0 => BestSoFar /\ FirstSoFar

-----------------------------------------------------------------------------

LEMMA Paths ==
    ASSUME api \in Apis
    PROVE  /\ Len(api.paths) \in Nat
           /\ DOMAIN api.paths = 1..Len(api.paths)
           /\ \A i \in 1..Len(api.paths) : Weight(i) \in Nat
<1>1. /\ api.paths \in Seq(ToSet(api.paths))
      /\ \A item \in ToSet(api.paths) : item.template \in Seq(STRING)
  BY ApisAssumption DEF ApisAssumption
<1>2. Len(api.paths) \in Nat /\ DOMAIN api.paths = 1..Len(api.paths)
  BY <1>1
<1>3. ASSUME NEW i \in 1..Len(api.paths) PROVE Weight(i) \in Nat
  <2> DEFINE template == api.paths[i].template
  <2>1. template \in Seq(STRING)
    BY <1>1, <1>2 DEF ToSet
  <2>2. Len(template) \in Nat
    BY <2>1
  <2> HIDE DEF template
  <2>3. IsFiniteSet(1..Len(template))
    BY <2>2, FS_Interval, 1 \in Int
  <2>4. IsFiniteSet({k \in 1..Len(template) : template[k] \notin Braced})
    BY <2>3, FS_Subset
  <2> QED
    BY <2>4, FS_CardinalityType DEF Weight, Literals, template
<1> QED
  BY <1>2, <1>3

\* The questions of the pass have the same answers while document,
\* configuration and request stay.
LEMMA Same ==
    ASSUME UNCHANGED <<api, cfg, req>>, NEW i
    PROVE  (Fits(i)' <=> Fits(i)) /\ (Answers(i)' <=> Answers(i)) /\ Weight(i)' = Weight(i)
BY DEF Fits, Answers, Weight, Matches, Candidates, Servers, Serves

\* One turn of the loop.
LEMMA ScanStep ==
    ASSUME api \in Apis, Numbers, PassInv, Scan
    PROVE  Numbers' /\ PassInv'
<1> USE DEF Numbers
<1>1. /\ Len(api.paths) \in Nat
      /\ DOMAIN api.paths = 1..Len(api.paths)
      /\ \A i \in 1..Len(api.paths) : Weight(i) \in Nat
  BY Paths
<1>2. UNCHANGED <<api, cfg, req>> /\ scan' = scan + 1 /\ scan \in 1..Len(api.paths)
  BY <1>1 DEF Scan, ScanMiss, ScanReject, ScanServe
<1>3. Numbers'
  BY <1>1, <1>2 DEF Scan, ScanMiss, ScanReject, ScanServe
<1>4. \A i : (Fits(i)' <=> Fits(i)) /\ (Answers(i)' <=> Answers(i)) /\ Weight(i)' = Weight(i)
  BY <1>2, Same
<1>5. BestSoFar /\ FirstSoFar
  BY <1>2 DEF PassInv
<1>6. CASE ScanMiss
  <2>1. ~Fits(scan) /\ best' = best /\ rejected' = rejected
    BY <1>6 DEF ScanMiss, Fits, EntryMatches, Entry
  <2>2. BestSoFar'
    BY <1>1, <1>2, <1>4, <1>5, <2>1 DEF BestSoFar
  <2>3. FirstSoFar'
    BY <1>1, <1>2, <1>4, <1>5, <2>1 DEF FirstSoFar
  <2> QED
    BY <1>3, <2>2, <2>3 DEF PassInv
<1>7. CASE ScanReject
  <2>1. /\ Fits(scan) /\ ~Answers(scan) /\ best' = best
        /\ rejected' = IF rejected = 0 THEN scan ELSE rejected
    BY <1>7 DEF ScanReject, Fits, Answers, EntryMatches, Entry
  <2>2. BestSoFar'
    BY <1>1, <1>2, <1>4, <1>5, <2>1 DEF BestSoFar
  <2>3. FirstSoFar'
    BY <1>1, <1>2, <1>4, <1>5, <2>1 DEF FirstSoFar
  <2> QED
    BY <1>3, <2>2, <2>3 DEF PassInv
<1>8. CASE ScanServe
  <2>1. /\ Fits(scan) /\ Answers(scan) /\ rejected' = rejected
        /\ best' = IF best = 0 \/ Weight(scan) > Weight(best) THEN scan ELSE best
    BY <1>8 DEF ScanServe, Fits, Answers, Weight, EntryMatches, Entry, IsBetter
  <2>2. BestSoFar'
    <3>1. CASE best = 0
      BY <1>1, <1>2, <1>4, <1>5, <2>1, <3>1 DEF BestSoFar
    <3>2. CASE best # 0 /\ Weight(scan) > Weight(best)
      BY <1>1, <1>2, <1>4, <1>5, <2>1, <3>2 DEF BestSoFar
    <3>3. CASE best # 0 /\ ~(Weight(scan) > Weight(best))
      BY <1>1, <1>2, <1>4, <1>5, <2>1, <3>3 DEF BestSoFar
    <3> QED
      BY <3>1, <3>2, <3>3
  <2>3. FirstSoFar'
    BY <1>1, <1>2, <1>4, <1>5, <2>1 DEF FirstSoFar
  <2> QED
    BY <1>3, <2>2, <2>3 DEF PassInv
<1> QED
  BY <1>6, <1>7, <1>8 DEF Scan

\* What the pass has found out at its end is what it is for.
LEMMA PassIsRight ==
    ASSUME api \in Apis, Numbers, PassInv PROVE RouteIsBest
<1> SUFFICES ASSUME Scanned
             PROVE  /\ BestOf(best, ServingBefore(scan))
                    /\ FirstOf(rejected, MatchingBefore(scan) \ ServingBefore(scan))
  BY DEF RouteIsBest
<1>1. /\ Len(api.paths) \in Nat
      /\ DOMAIN api.paths = 1..Len(api.paths)
      /\ \A i \in 1..Len(api.paths) : Weight(i) \in Nat
  BY Paths
<1>2. scan # 0 /\ BestSoFar /\ FirstSoFar
  BY <1>1 DEF Scanned, PassInv
<1>3. \A i : i \in ServingBefore(scan) <=>
           i \in 1..Len(api.paths) /\ i < scan /\ Fits(i) /\ Answers(i)
  BY <1>1 DEF ServingBefore, MatchingBefore, Fits, Answers
<1>4. \A i : i \in MatchingBefore(scan) \ ServingBefore(scan) <=>
           i \in 1..Len(api.paths) /\ i < scan /\ Fits(i) /\ ~Answers(i)
  BY <1>1 DEF ServingBefore, MatchingBefore, Fits, Answers
<1>5. \A i, j \in 1..Len(api.paths) :
          Outranks(i, j) <=> Weight(i) > Weight(j) \/ (Weight(i) = Weight(j) /\ i <= j)
  BY DEF Outranks, Weight
<1>6. BestOf(best, ServingBefore(scan))
  BY <1>1, <1>2, <1>3, <1>5 DEF BestSoFar, BestOf, Numbers
<1>7. FirstOf(rejected, MatchingBefore(scan) \ ServingBefore(scan))
  BY <1>1, <1>2, <1>4 DEF FirstSoFar, FirstOf, Numbers
<1> QED
  BY <1>6, <1>7

-----------------------------------------------------------------------------

IsReply(r) ==
    r = [kind |-> r.kind, status |-> r.status, type |-> r.type, body |-> r.body,
         encoded |-> r.encoded, tag |-> r.tag, allow |-> r.allow,
         scheme |-> r.scheme, faults |-> r.faults, types |-> r.types]

Records == IsReply(reply) /\ IsAsk(req)

Busy == {"secure", "validate", "respond", "content", "body"}

\* An answer without an operation carries the methods of the path that was
\* remembered.
AllowInv ==
    stage \in {"assemble", "done"} /\ best = 0 /\ rejected # 0 =>
        Scanned /\ reply.allow = Allow(api.paths[rejected])

Tagged(r) == r.tag \in {None, <<>>, r.body}

TagInv == stage = "done" => Tagged(reply)

\* What the client holds, and the tag it asks with.
PriorInv ==
    prior.api # None =>
        /\ Tagged(prior.reply)
        /\ retries = 1 => req.tag = prior.reply.tag
        /\ retries = 0 => stage = "done" /\ prior.reply = reply

IInv ==
    /\ TypeOK /\ Records /\ Numbers /\ PassInv
    /\ AllowInv /\ TagInv /\ PriorInv /\ NotModifiedIsTrue

\* Nothing was asked yet, and the pass has seen no path.
LEMMA InitInv == Init => IInv
<1> SUFFICES ASSUME Init PROVE IInv
  OBVIOUS
<1>1. Len(api.paths) \in Nat
  BY Paths DEF Init
<1>2. TypeOK /\ Numbers
  BY <1>1 DEF Init, TypeOK, Numbers, Stages
<1>3. Records
  BY AsksAssumption DEF AsksAssumption, Init, Records, IsReply, Blank
<1>4. PassInv
  BY <1>1 DEF Init, PassInv, BestSoFar, FirstSoFar
<1> QED
  BY <1>2, <1>3, <1>4 DEF Init, NoAnswer, IInv, AllowInv, TagInv, PriorInv,
     NotModifiedIsTrue, Again

\* While document, configuration, request and pass stay, so does what was
\* found out.
LEMMA PassKept ==
    ASSUME IInv, UNCHANGED <<input, pass>>
    PROVE  /\ Numbers' /\ PassInv'
           /\ Scanned' <=> Scanned
           /\ Allow(api.paths[rejected])' = Allow(api.paths[rejected])
<1>1. UNCHANGED <<api, cfg, req, scan, best, rejected>>
  BY DEF input, pass
<1>2. \A i : (Fits(i)' <=> Fits(i)) /\ (Answers(i)' <=> Answers(i)) /\ Weight(i)' = Weight(i)
  BY <1>1, Same
<1>3. PassInv'
  BY <1>1, <1>2 DEF IInv, PassInv, BestSoFar, FirstSoFar
<1> QED
  BY <1>1, <1>3 DEF IInv, Numbers, Scanned, Allow

LEMMA RouteStep == ASSUME IInv, Route PROVE IInv'
<1>1. /\ stage = "route" /\ Scan
      /\ UNCHANGED <<api, cfg, req, stage, picked, media, reply, prior, retries>>
  BY DEF Route, session, Scan
<1>2. Numbers' /\ PassInv'
  BY <1>1, ScanStep DEF IInv, TypeOK
<1>3. TypeOK'
  BY <1>1, <1>2 DEF IInv, TypeOK, Numbers
<1> QED
  BY <1>1, <1>2, <1>3 DEF IInv, Records, AllowInv, TagInv, PriorInv, Tagged,
     NotModifiedIsTrue, Again

\* The stages between route and reply.
LEMMA AdvanceStep ==
    ASSUME IInv,
           \/ RouteFound \/ Authorise \/ Accept \/ PickForced \/ PickSuccess
           \/ PickDefault \/ PickFirst \/ Negotiate
    PROVE  IInv'
<1>1. /\ UNCHANGED <<input, pass, session, reply>>
      /\ stage # "done" /\ stage' \in Busy /\ best # 0
      /\ stage' \in {"content", "body"} => picked'.response # None
  BY DEF RouteFound, Authorise, Accept, PickForced, PickSuccess, PickDefault,
     PickFirst, NoSuccess, Negotiate, Pick, Goto, IInv, TypeOK, Busy
<1>2. UNCHANGED <<api, cfg, req, scan, best, rejected, prior, retries, reply>>
  BY <1>1 DEF input, pass, session
<1>3. TypeOK'
  BY <1>1, <1>2 DEF IInv, TypeOK, Stages, Busy
<1>4. Numbers' /\ PassInv'
  BY <1>1, PassKept
<1> QED
  BY <1>1, <1>2, <1>3, <1>4 DEF IInv, Records, AllowInv, TagInv, PriorInv, Busy,
     NotModifiedIsTrue, Again

\* A MockResponse is handed over.
LEMMA ReturnStep ==
    ASSUME IInv,
           \/ SynthesiseOptions \/ Echo \/ NoContent \/ GiveExample
           \/ GiveNothing \/ GiveStatic \/ GiveDynamic
    PROVE  IInv'
<1>1. /\ UNCHANGED <<input, pass, session>>
      /\ stage # "done" /\ stage' = "assemble"
      /\ best = 0 => SynthesiseOptions
  BY DEF SynthesiseOptions, Echo, NoContent, GiveExample, GiveNothing, GiveStatic,
     GiveDynamic, Respond, Return, Goto, Generates, IInv, TypeOK
<1>2. UNCHANGED <<api, cfg, req, scan, best, rejected, prior, retries>>
  BY <1>1 DEF input, pass, session
<1>3. IsReply(reply') /\ reply'.kind = "Response"
  <2>1. CASE SynthesiseOptions \/ Echo \/ NoContent
    BY <2>1 DEF SynthesiseOptions, Echo, NoContent, Return, IsReply, Blank
  <2>2. ASSUME NEW body, Respond(body) PROVE IsReply(reply') /\ reply'.kind = "Response"
    BY <2>2 DEF Respond, Return, IsReply, Blank
  <2> QED
    BY <2>1, <2>2 DEF GiveExample, GiveNothing, GiveStatic, GiveDynamic
<1>4. SynthesiseOptions => Scanned /\ reply'.allow = Allow(api.paths[rejected])
  BY DEF SynthesiseOptions, Return, Blank
<1>5. TypeOK'
  BY <1>1, <1>2, <1>3 DEF IInv, TypeOK, Stages
<1>6. /\ Numbers' /\ PassInv' /\ (Scanned' <=> Scanned)
      /\ Allow(api.paths[rejected])' = Allow(api.paths[rejected])
  BY <1>1, PassKept
<1>7. AllowInv'
  BY <1>1, <1>2, <1>4, <1>6 DEF AllowInv
<1> QED
  BY <1>1, <1>2, <1>3, <1>5, <1>6, <1>7 DEF IInv, Records, TagInv, PriorInv,
     NotModifiedIsTrue, Again

\* A MockError becomes a problem document.
LEMMA ErrorStep ==
    ASSUME IInv,
           \/ RefuseMethod \/ RefusePath \/ Challenge \/ Reject \/ RefuseCode
           \/ NoResponse \/ NotAcceptable \/ RefuseExample \/ GenerationFails
    PROVE  IInv'
<1>1. /\ UNCHANGED <<input, pass, session>>
      /\ stage # "done" /\ stage' = "done"
      /\ best = 0 /\ rejected # 0 => RefuseMethod
  BY DEF RefuseMethod, RefusePath, Challenge, Reject, RefuseCode, NoResponse,
     NotAcceptable, RefuseExample, GenerationFails, Generates, NoSuccess, Fail,
     Finish, Goto, IInv, TypeOK
<1>2. UNCHANGED <<api, cfg, req, scan, best, rejected, prior, retries>>
  BY <1>1 DEF input, pass, session
<1>3. /\ IsReply(reply') /\ reply'.tag = None
      /\ reply'.kind \in Kinds \ {"NotModified"}
  <2>1. CASE RefuseMethod
    BY <2>1 DEF RefuseMethod, Finish, IsReply, Blank, Kinds
  <2>2. CASE Challenge
    BY <2>2 DEF Challenge, Finish, IsReply, Blank, Kinds
  <2>3. CASE Reject
    BY <2>3 DEF Reject, Finish, IsReply, Blank, Kinds
  <2>4. CASE NotAcceptable
    BY <2>4 DEF NotAcceptable, Finish, IsReply, Blank, Kinds
  <2>5. ASSUME NEW kind \in Kinds \ {"NotModified"}, Fail(kind)
        PROVE  /\ IsReply(reply') /\ reply'.tag = None
               /\ reply'.kind \in Kinds \ {"NotModified"}
    BY <2>5 DEF Fail, Finish, IsReply, Blank
  <2>6. CASE RefusePath \/ RefuseCode \/ NoResponse \/ RefuseExample \/ GenerationFails
    BY <2>5, <2>6 DEF RefusePath, RefuseCode, NoResponse, RefuseExample,
       GenerationFails, Kinds
  <2> QED
    BY <2>1, <2>2, <2>3, <2>4, <2>6
<1>4. RefuseMethod => Scanned /\ reply'.allow = Allow(api.paths[rejected])
  BY DEF RefuseMethod, Finish, Blank
<1>5. TypeOK'
  BY <1>1, <1>2, <1>3 DEF IInv, TypeOK, Stages
<1>6. /\ Numbers' /\ PassInv' /\ (Scanned' <=> Scanned)
      /\ Allow(api.paths[rejected])' = Allow(api.paths[rejected])
  BY <1>1, PassKept
<1>7. AllowInv'
  BY <1>1, <1>2, <1>4, <1>6 DEF AllowInv
<1>8. PriorInv'
  BY <1>1, <1>2 DEF IInv, TypeOK, PriorInv
<1> QED
  BY <1>1, <1>2, <1>3, <1>5, <1>6, <1>7, <1>8 DEF IInv, Records, TagInv, Tagged,
     NotModifiedIsTrue, Again

\* The HTTP answer goes out, with a tag that is a hash of its body.
LEMMA AssembleStep == ASSUME IInv, NotModified \/ Complete PROVE IInv'
<1>1. /\ UNCHANGED <<input, pass, session>>
      /\ stage = "assemble" /\ stage' = "done" /\ reply.kind = "Response"
  BY DEF NotModified, Complete, Finish, Goto, IInv, TypeOK
<1>2. UNCHANGED <<api, cfg, req, scan, best, rejected, prior, retries>>
  BY <1>1 DEF input, pass, session
<1>3. Tag \in {None, <<>>, reply.body}
  BY DEF Tag, Bytes
<1>4. /\ IsReply(reply') /\ reply'.tag = Tag
      /\ reply'.body = reply.body /\ reply'.allow = reply.allow
      /\ reply'.kind \in {"Response", "NotModified"}
      /\ reply'.kind = "NotModified" => req.tag = Tag /\ Tag # None
  <2>1. CASE NotModified
    BY <2>1 DEF NotModified, Unmodified, Finish, IInv, Records, IsReply
  <2>2. CASE Complete
    BY <1>1, <2>2 DEF Complete, Finish, IInv, Records, IsReply
  <2> QED
    BY <2>1, <2>2
<1>5. TypeOK'
  BY <1>1, <1>2, <1>4 DEF IInv, TypeOK, Stages, Kinds
<1>6. /\ Numbers' /\ PassInv' /\ (Scanned' <=> Scanned)
      /\ Allow(api.paths[rejected])' = Allow(api.paths[rejected])
  BY <1>1, PassKept
<1>7. AllowInv'
  BY <1>1, <1>2, <1>4, <1>6 DEF IInv, AllowInv
<1>8. PriorInv'
  BY <1>1, <1>2 DEF IInv, TypeOK, PriorInv
<1>9. TagInv'
  BY <1>3, <1>4 DEF TagInv, Tagged
<1>10. NotModifiedIsTrue'
  <2> SUFFICES ASSUME retries = 1, prior.api # None, reply'.kind = "NotModified",
                      reply'.tag # <<>>
               PROVE  reply'.body = prior.reply.body
    BY <1>2 DEF NotModifiedIsTrue, Again
  <2>1. prior.reply.tag = Tag
    BY <1>4 DEF IInv, PriorInv
  <2> QED
    BY <1>3, <1>4, <2>1 DEF IInv, PriorInv, Tagged
<1> QED
  BY <1>1, <1>2, <1>4, <1>5, <1>6, <1>7, <1>8, <1>9, <1>10 DEF IInv, Records

\* A request arrives at a server that has looked at no path yet.
LEMMA SendStep ==
    ASSUME IInv, NEW r, IsAsk(r), Send(r)
    PROVE  /\ api' = api /\ cfg' = cfg /\ req' = r
           /\ stage' = "route" /\ Numbers' /\ PassInv' /\ Records'
           /\ retries' \in {0, 1} => TypeOK'
<1>1. Len(api.paths) \in Nat
  BY Paths DEF IInv, TypeOK
<1>2. Numbers'
  BY <1>1 DEF Send, Numbers
<1>3. PassInv'
  BY <1>1 DEF Send, PassInv, BestSoFar, FirstSoFar
<1>4. Records'
  BY DEF Send, Records, IsReply, Blank
<1>5. retries' \in {0, 1} => TypeOK'
  BY <1>2 DEF IInv, TypeOK, Numbers, Send, Stages
<1> QED
  BY <1>2, <1>3, <1>4, <1>5 DEF Send

\* What an error asks for is a request again.
LEMMA AmendedAsks == ASSUME IsAsk(req), NEW r \in Amended PROVE IsAsk(r)
<1> USE DEF IsAsk, AskFields
<1>1. ASSUME NEW m, r = [req EXCEPT !.method = m] PROVE IsAsk(r)
  BY <1>1
<1>2. CASE r = Supply(reply.scheme)
  BY <1>2 DEF Supply
<1>3. ASSUME NEW f, r = [req EXCEPT !.given = @ \cup {f}] PROVE IsAsk(r)
  BY <1>3
<1>4. ASSUME NEW t, r = [req EXCEPT !.accept = t] PROVE IsAsk(r)
  BY <1>4
<1>5. CASE r = [req EXCEPT !.header.code = None, !.query.code = None]
  BY <1>5
<1>6. CASE r = [req EXCEPT !.header.example = None, !.query.example = None]
  BY <1>6
<1> QED
  BY <1>1, <1>2, <1>3, <1>4, <1>5, <1>6 DEF Amended

LEMMA AmendStep == ASSUME IInv, Amend PROVE IInv'
<1>1. PICK r \in Amended : Send(r)
  BY DEF Amend
<1>2. IsAsk(r)
  BY <1>1, AmendedAsks DEF IInv, Records
<1>3. /\ prior'.api = None /\ retries' = retries /\ retries \in {0, 1}
  BY DEF Amend, NoAnswer, IInv, TypeOK
<1>4. stage' = "route" /\ Numbers' /\ PassInv' /\ Records' /\ TypeOK'
  BY <1>1, <1>2, <1>3, SendStep
<1> QED
  BY <1>3, <1>4 DEF IInv, AllowInv, TagInv, PriorInv, NotModifiedIsTrue, Again

LEMMA AskAgainStep == ASSUME IInv, AskAgain PROVE IInv'
<1> DEFINE r == [req EXCEPT !.tag = reply.tag]
<1>1. IsAsk(r) /\ r.tag = reply.tag
  BY DEF IInv, Records, IsAsk, AskFields
<1>2. /\ Send(r) /\ stage = "done" /\ retries = 0 /\ retries' = 1
      /\ prior' = IF prior.api # None THEN prior ELSE [api |-> api, reply |-> reply]
  BY DEF AskAgain
<1> HIDE DEF r
<1>3. /\ stage' = "route" /\ Numbers' /\ PassInv' /\ Records' /\ TypeOK' /\ req' = r
  BY <1>1, <1>2, SendStep
<1>4. Tagged(reply)
  BY <1>2 DEF IInv, TagInv
<1>5. prior'.reply = reply
  BY <1>2 DEF IInv, PriorInv
<1>6. PriorInv'
  BY <1>1, <1>2, <1>3, <1>4, <1>5 DEF PriorInv
<1> QED
  BY <1>3, <1>6 DEF IInv, AllowInv, TagInv, NotModifiedIsTrue, Again

LEMMA ReloadStep == ASSUME IInv, Reload PROVE IInv'
<1>1. /\ api' \in Apis /\ prior' = [api |-> api, reply |-> reply]
      /\ scan' = 0 /\ best' = 0 /\ rejected' = 0
      /\ stage = "done" /\ retries = 0 /\ reply.kind = "Response"
      /\ UNCHANGED <<cfg, req, stage, picked, media, reply, retries>>
  BY DEF Reload
<1>2. Len(api'.paths) \in Nat
  BY <1>1, ApisAssumption DEF ApisAssumption
<1>3. Numbers' /\ PassInv' /\ TypeOK'
  BY <1>1, <1>2 DEF IInv, TypeOK, Numbers, PassInv
<1>4. PriorInv'
  BY <1>1 DEF IInv, PriorInv, TagInv
<1> QED
  BY <1>1, <1>3, <1>4 DEF IInv, Records, AllowInv, TagInv, Tagged,
     NotModifiedIsTrue, Again

LEMMA Inductive == ASSUME IInv, [Next]_vars PROVE IInv'
<1>1. CASE UNCHANGED vars
  <2>1. UNCHANGED <<input, pass>>
    BY <1>1 DEF vars
  <2>2. UNCHANGED <<api, cfg, req, scan, best, rejected, stage, picked, media, reply,
                    prior, retries>>
    BY <1>1 DEF vars, input, pass, session
  <2>3. Numbers' /\ PassInv' /\ (Scanned' <=> Scanned)
        /\ Allow(api.paths[rejected])' = Allow(api.paths[rejected])
    BY <2>1, PassKept
  <2> QED
    BY <2>2, <2>3 DEF IInv, TypeOK, Records, AllowInv, TagInv, PriorInv, Tagged,
       NotModifiedIsTrue, Again
<1>2. CASE Server
  BY <1>2, RouteStep, AdvanceStep, ReturnStep, ErrorStep, AssembleStep DEF Server
<1>3. CASE Client \/ Reload
  BY <1>3, AmendStep, AskAgainStep, ReloadStep DEF Client
<1> QED
  BY <1>1, <1>2, <1>3 DEF Next

-----------------------------------------------------------------------------
(* Sequences of sequences.                                                 *)

\* The least of a set of numbers is one of them.
LEMMA LeastIsIn == ASSUME NEW K \in SUBSET Nat, K # {} PROVE Min(K) \in K
<1> DEFINE T == {n \in Nat : \A m \in 0..n : m \notin K}
<1>1. ASSUME \A x \in K : \E y \in K : y < x PROVE FALSE
  <2>1. 0 \in T
    BY <1>1
  <2>2. ASSUME NEW n \in T PROVE n + 1 \in T
    <3>1. \A m \in 0..n + 1 : m \in 0..n \/ m = n + 1
      OBVIOUS
    <3>2. n + 1 \notin K
      <4> SUFFICES ASSUME n + 1 \in K PROVE FALSE
        OBVIOUS
      <4>1. PICK y \in K : y < n + 1
        BY <1>1
      <4>2. y \in 0..n
        BY <4>1
      <4> QED BY <4>2
    <3> QED BY <3>1, <3>2
  <2>3. T = Nat
    <3>1. T \in SUBSET Nat
      OBVIOUS
    <3> HIDE DEF T
    <3> QED BY <2>1, <2>2, <3>1, NatInduct
  <2>4. \A n \in Nat : n \notin K
    BY <2>3
  <2> QED BY <2>4
<1>2. \E x \in K : \A y \in K : x <= y
  BY <1>1
<1> QED BY <1>2 DEF Min

\* f joins the first members of s.
Joins(s, f) == f = [i \in 1..Len(s) |-> IF i = 1 THEN s[i] ELSE f[i - 1] \o s[i]]

LEMMA FlattenUnfolds ==
    ASSUME NEW s, Len(s) # 0
    PROVE  FlattenSeq(s) = (CHOOSE f : Joins(s, f))[Len(s)]
BY Zenon DEF FlattenSeq, Joins

LEMMA JoinsExist ==
    ASSUME NEW S, NEW s \in Seq(Seq(S)), s # <<>>
    PROVE  Joins(s, CHOOSE f : Joins(s, f))
<1> DEFINE N == Len(s)
           A == Seq(S)
           G == [k \in Nat |-> [x \in A |-> IF k + 1 \in 1..N THEN x \o s[k + 1] ELSE x]]
<1>1. /\ N \in Nat \ {0} /\ N - 1 \in Nat
      /\ \A i \in 1..N : s[i] \in A
  OBVIOUS
<1>2. \A x, y \in A : x \o y \in A
  OBVIOUS
<1> HIDE DEF A
<1>3. G \in [Nat -> [A -> A]]
  <2> SUFFICES ASSUME NEW k \in Nat, NEW x \in A
               PROVE  (IF k + 1 \in 1..N THEN x \o s[k + 1] ELSE x) \in A
    OBVIOUS
  <2> QED BY <1>1, <1>2
<1>4. s[1] \in A
  BY <1>1
<1>5. PICK f \in [0..N - 1 -> A] : Iterates(f, s[1], G, N - 1)
  <2> HIDE DEF G, N
  <2> QED BY <1>1, <1>3, <1>4, Iteration
<1> DEFINE g == [i \in 1..N |-> f[i - 1]]
<1>6. ASSUME NEW i \in 1..N PROVE g[i] = IF i = 1 THEN s[i] ELSE g[i - 1] \o s[i]
  <2>1. CASE i = 1
    BY <1>1, <1>5, <2>1 DEF Iterates
  <2>2. CASE i # 1
    <3>1. i - 1 \in 1..N - 1 /\ i - 1 \in 1..N /\ (i - 1) + 1 = i /\ i - 1 \in Nat
      BY <1>1, <2>2
    <3>2. f[i - 1] = G[i - 1][f[(i - 1) - 1]]
      BY <1>5, <3>1 DEF Iterates
    <3>3. f[(i - 1) - 1] \in A
      <4>1. (i - 1) - 1 \in 0..N - 1
        BY <3>1, <1>1
      <4> QED BY <4>1
    <3>4. G[i - 1][f[(i - 1) - 1]] = f[(i - 1) - 1] \o s[i]
      BY <3>1, <3>3
    <3> QED BY <2>2, <3>1, <3>2, <3>4
  <2> QED BY <2>1, <2>2
<1>7. Joins(s, g)
  BY <1>6 DEF Joins
<1> QED BY <1>7

\* What is in the joined sequence is what is in one of its parts.
LEMMA FlattenHolds ==
    ASSUME NEW S, NEW s \in Seq(Seq(S)), s # <<>>
    PROVE  /\ FlattenSeq(s) \in Seq(S)
           /\ ToSet(FlattenSeq(s)) = UNION {ToSet(s[j]) : j \in 1..Len(s)}
<1> DEFINE N == Len(s)
           A == Seq(S)
           f == CHOOSE g : Joins(s, g)
           Good(n) == /\ f[n] \in A
                      /\ ToSet(f[n]) = UNION {ToSet(s[j]) : j \in 1..n}
           T == {n \in Nat : n + 1 <= N => Good(n + 1)}
<1>1. /\ N \in Nat \ {0} /\ N - 1 \in Nat
      /\ \A i \in 1..N : s[i] \in A
  OBVIOUS
<1>2. ASSUME NEW x \in A, NEW y \in A
      PROVE  x \o y \in A /\ ToSet(x \o y) = ToSet(x) \cup ToSet(y)
  <2>1. /\ Len(x) \in Nat /\ Len(y) \in Nat
        /\ DOMAIN x = 1..Len(x) /\ DOMAIN y = 1..Len(y)
        /\ x \o y \in A /\ DOMAIN (x \o y) = 1..Len(x) + Len(y)
    OBVIOUS
  <2>2. \A i \in 1..Len(x) : (x \o y)[i] = x[i]
    OBVIOUS
  <2>3. \A i \in 1..Len(y) : (x \o y)[Len(x) + i] = y[i]
    OBVIOUS
  <2>4. \A i \in 1..Len(x) + Len(y) :
            i \in 1..Len(x) \/ (i - Len(x) \in 1..Len(y) /\ i = Len(x) + (i - Len(x)))
    BY <2>1
  <2>5. \A i \in 1..Len(x) : i \in 1..Len(x) + Len(y)
    BY <2>1
  <2>6. \A i \in 1..Len(y) : Len(x) + i \in 1..Len(x) + Len(y)
    BY <2>1
  <2>7. ToSet(x) \cup ToSet(y) \subseteq ToSet(x \o y)
    BY <2>1, <2>2, <2>3, <2>5, <2>6 DEF ToSet
  <2>8. ToSet(x \o y) \subseteq ToSet(x) \cup ToSet(y)
    BY <2>1, <2>2, <2>3, <2>4 DEF ToSet
  <2> QED BY <2>1, <2>7, <2>8
<1>3. FlattenSeq(s) = f[N]
  BY <1>1, FlattenUnfolds
<1>4. \A i \in 1..N : f[i] = IF i = 1 THEN s[i] ELSE f[i - 1] \o s[i]
  <2>1. Joins(s, f)
    BY JoinsExist
  <2> HIDE DEF f
  <2> QED BY <2>1 DEF Joins
<1> HIDE DEF f, A, N
<1>5. 0 \in T
  <2>1. f[1] = s[1] /\ s[1] \in A
    BY <1>1, <1>4
  <2>2. UNION {ToSet(s[j]) : j \in 1..1} = ToSet(s[1])
    OBVIOUS
  <2> QED BY <2>1, <2>2
<1>6. ASSUME NEW n \in T PROVE n + 1 \in T
  <2>0. n \in Nat /\ n + 1 \in Nat /\ (n + 1) + 1 = n + 2
    OBVIOUS
  <2> SUFFICES ASSUME n + 2 <= N PROVE Good(n + 2)
    BY <2>0
  <2>1. n + 1 <= N /\ n \in Nat /\ n + 2 \in 1..N /\ n + 2 # 1 /\ (n + 2) - 1 = n + 1
    BY <1>1
  <2>2. Good(n + 1)
    BY <2>1
  <2>3. f[n + 2] = f[n + 1] \o s[n + 2]
    BY <1>4, <2>1
  <2>4. s[n + 2] \in A
    BY <1>1, <2>1
  <2>5. f[n + 2] \in A /\ ToSet(f[n + 2]) = ToSet(f[n + 1]) \cup ToSet(s[n + 2])
    BY <1>2, <2>2, <2>3, <2>4
  <2>6. \A j : j \in 1..n + 2 <=> j \in 1..n + 1 \/ j = n + 2
    BY <2>1
  <2>7. UNION {ToSet(s[j]) : j \in 1..n + 2}
          = (UNION {ToSet(s[j]) : j \in 1..n + 1}) \cup ToSet(s[n + 2])
    BY <2>6
  <2> QED BY <2>2, <2>5, <2>7
<1>7. T = Nat
  <2>1. T \in SUBSET Nat
    OBVIOUS
  <2> HIDE DEF T
  <2> QED BY <1>5, <1>6, <2>1, NatInduct
<1>8. Good(N)
  <2>1. (N - 1) + 1 = N /\ N <= N
    BY <1>1
  <2>2. N - 1 \in T
    <3> HIDE DEF T
    <3> QED BY <1>1, <1>7
  <2>3. (N - 1) + 1 <= N => Good((N - 1) + 1)
    BY <2>2
  <2> HIDE DEF T, Good
  <2> QED BY <2>1, <2>3
<1> QED BY <1>3, <1>8 DEF A, N

-----------------------------------------------------------------------------
(* What an error says is what was missing.                                 *)

Refused ==
    /\ best # 0 /\ ~Authorised(Operation)
    /\ reply.scheme = Challenged(Operation)

ReasonInv ==
    stage = "done" =>
        /\ reply.kind = "Unauthorized" => Refused
        /\ reply.kind = "ValidationFailed" => reply.faults # {}
        /\ reply.kind = "NotAcceptable" => reply.types # {}

LEMMA InitReason == Init => ReasonInv
BY DEF Init, ReasonInv

\* What is demanded depends on the document and the request alone.
LEMMA SameDemands ==
    ASSUME UNCHANGED <<api, req, best>>
    PROVE  /\ Authorised(Operation)' <=> Authorised(Operation)
           /\ Challenged(Operation)' = Challenged(Operation)
<1>1. Requirements(Operation)' = Requirements(Operation)
  BY DEF Requirements, Operation, OperationFor, Chosen, Otherwise
<1>2. \A s : Satisfied(s)' <=> Satisfied(s)
  BY DEF Satisfied
<1>3. \A r : Holds(r)' <=> Holds(r)
  BY <1>2 DEF Holds
<1>4. Authorised(Operation)' <=> Authorised(Operation)
  BY <1>1, <1>3 DEF Authorised
<1>5. Challenged(Operation)' = Challenged(Operation)
  BY <1>1 DEF Challenged
<1> QED
  BY <1>4, <1>5

LEMMA ReasonError ==
    ASSUME IInv, ReasonInv,
           \/ RefuseMethod \/ RefusePath \/ Challenge \/ Reject \/ RefuseCode
           \/ NoResponse \/ NotAcceptable \/ RefuseExample \/ GenerationFails
    PROVE  ReasonInv'
<1>1. UNCHANGED <<input, pass>>
  BY DEF RefuseMethod, RefusePath, Challenge, Reject, RefuseCode, NoResponse,
     NotAcceptable, RefuseExample, GenerationFails, Generates, Fail, Finish, Goto
<1>2. UNCHANGED <<api, req, best>>
  BY <1>1 DEF input, pass
<1>3. CASE Challenge
  <2>1. reply'.kind = "Unauthorized" /\ reply'.scheme = Challenged(Operation)
    BY <1>3 DEF Challenge, Finish, Blank
  <2>2. best # 0 /\ ~Authorised(Operation)
    BY <1>3 DEF Challenge, IInv, TypeOK
  <2>3. Refused'
    BY <1>2, <2>1, <2>2, SameDemands DEF Refused
  <2> QED
    BY <1>2, <2>1, <2>3 DEF ReasonInv
<1>4. CASE Reject
  <2>1. reply'.kind = "ValidationFailed" /\ reply'.faults # {}
    BY <1>4 DEF Reject, Finish, Blank
  <2> QED
    BY <1>2, <2>1 DEF ReasonInv
<1>5. CASE NotAcceptable
  <2>1. reply'.kind = "NotAcceptable" /\ reply'.types # {}
    BY <1>5 DEF NotAcceptable, Finish, Blank
  <2> QED
    BY <1>2, <2>1 DEF ReasonInv
<1>6. CASE RefuseMethod \/ RefusePath \/ RefuseCode \/ NoResponse \/ RefuseExample
           \/ GenerationFails
  <2>1. reply'.kind \in {"MethodNotAllowed", "NoRoute", "NoResponseForCode",
                         "NoResponseDefined", "ExampleNotFound", "Generation"}
    BY <1>6 DEF RefuseMethod, RefusePath, RefuseCode, NoResponse, RefuseExample,
       GenerationFails, Fail, Finish, Blank
  <2> QED
    BY <1>2, <2>1 DEF ReasonInv
<1> QED
  BY <1>3, <1>4, <1>5, <1>6

LEMMA ReasonInductive == ASSUME IInv, ReasonInv, [Next]_vars PROVE ReasonInv'
<1>1. CASE UNCHANGED vars
  <2>1. UNCHANGED <<api, req, best, stage, reply>>
    BY <1>1 DEF vars, input, pass
  <2> QED
    BY <2>1, SameDemands DEF ReasonInv, Refused
<1>2. CASE \/ Route \/ RouteFound \/ Authorise \/ Accept \/ PickForced \/ PickSuccess
           \/ PickDefault \/ PickFirst \/ Negotiate \/ SynthesiseOptions \/ Echo
           \/ NoContent \/ GiveExample \/ GiveNothing \/ GiveStatic \/ GiveDynamic
  <2>1. CASE Route
    BY <2>1 DEF Route, Scan, ReasonInv
  <2>2. CASE ~Route
    <3>1. stage' # "done" /\ UNCHANGED input
      BY <1>2, <2>2 DEF RouteFound, Authorise, Accept, PickForced, PickSuccess,
         PickDefault, PickFirst, Pick, Negotiate, SynthesiseOptions, Echo, NoContent,
         GiveExample, GiveNothing, GiveStatic, GiveDynamic, Respond, Return, Goto
    <3> QED
      BY <3>1 DEF ReasonInv, input
  <2> QED
    BY <2>1, <2>2
<1>3. CASE \/ RefuseMethod \/ RefusePath \/ Challenge \/ Reject \/ RefuseCode
           \/ NoResponse \/ NotAcceptable \/ RefuseExample \/ GenerationFails
  BY <1>3, ReasonError
<1>4. CASE NotModified \/ Complete
  <2>1. UNCHANGED input /\ IsReply(reply) /\ reply.kind = "Response"
    BY <1>4 DEF NotModified, Complete, Finish, Goto, IInv, TypeOK, Records
  <2>2. reply'.kind \in {"Response", "NotModified"}
    BY <1>4, <2>1 DEF NotModified, Complete, Finish, IsReply
  <2> QED
    BY <2>1, <2>2 DEF ReasonInv, input
<1>5. CASE Amend
  BY <1>5 DEF Amend, Send, ReasonInv
<1>6. CASE AskAgain
  BY <1>6 DEF AskAgain, Send, ReasonInv
<1>7. CASE Reload
  BY <1>7 DEF Reload, ReasonInv
<1> QED
  BY <1>1, <1>2, <1>3, <1>4, <1>5, <1>6, <1>7 DEF Next, Server, Client

\* What an operation demands is a sequence of sequences of names.
LEMMA Demands ==
    ASSUME IInv, best # 0
    PROVE  Requirements(Operation) \in Seq(Seq(STRING))
<1>1. best \in 1..Len(api.paths) /\ Answers(best)
  <2>1. scan # 0 /\ best \in 1..Len(api.paths)
    BY Paths DEF IInv, TypeOK, Numbers
  <2> QED
    BY <2>1 DEF IInv, PassInv, BestSoFar
<1>2. Chosen \in ToSet(api.paths)
  BY <1>1, Paths DEF Chosen, ToSet, IInv, TypeOK
<1>3. Operation.security \in Securities
  <2>1. \E m \in DOMAIN Chosen.ops : Operation = Chosen.ops[m]
    BY <1>1 DEF Answers, Serves, Chosen, Operation, OperationFor
  <2> QED
    BY <1>2, <2>1, ApisAssumption DEF ApisAssumption, IInv, TypeOK
<1>4. api.security \in Securities
  BY ApisAssumption DEF ApisAssumption, IInv, TypeOK
<1>5. <<>> \in Seq(Seq(STRING))
  OBVIOUS
<1> QED
  BY <1>3, <1>4, <1>5 DEF Requirements, Otherwise, Securities

\* Where one scheme is enough, the scheme a 401 names is one that was missing.
LEMMA NamedIsMissing ==
    ASSUME IInv, best # 0, ~Authorised(Operation),
           \A r \in ToSet(Requirements(Operation)) : ~(Len(r) > 1),
           NEW q \in ToSet(Requirements(Operation)), ToSet(q) \cap DOMAIN api.schemes # {}
    PROVE  Challenged(Operation) \in DOMAIN api.schemes /\ ~Satisfied(Challenged(Operation))
<1> DEFINE R == Requirements(Operation)
           named == FlattenSeq(R)
           known == {i \in DOMAIN named : named[i] \in DOMAIN api.schemes}
<1>1. R \in Seq(Seq(STRING)) /\ R # <<>>
  BY Demands DEF Authorised
<1>2. named \in Seq(STRING) /\ ToSet(named) = UNION {ToSet(R[j]) : j \in 1..Len(R)}
  <2> HIDE DEF R
  <2> QED BY <1>1, FlattenHolds
<1>3. ToSet(R) = {R[j] : j \in 1..Len(R)}
  <2> HIDE DEF R
  <2>1. DOMAIN R = 1..Len(R)
    BY <1>1
  <2> QED BY <2>1 DEF ToSet
<1>4. known \in SUBSET Nat
  BY <1>2
<1>5. known # {}
  <2>1. PICK s \in ToSet(q) : s \in DOMAIN api.schemes
    OBVIOUS
  <2>2. s \in ToSet(named)
    BY <1>2, <1>3
  <2> QED
    BY <2>1, <2>2 DEF ToSet
<1>6. Min(known) \in known /\ Challenged(Operation) = named[Min(known)]
  <2>1. Min(known) \in known
    <3> HIDE DEF known
    <3> QED BY <1>4, <1>5, LeastIsIn
  <2> QED BY <1>5, <2>1 DEF Challenged
<1>7. Challenged(Operation) \in DOMAIN api.schemes /\ Challenged(Operation) \in ToSet(named)
  BY <1>6 DEF ToSet
<1>8. PICK r \in ToSet(R) : Challenged(Operation) \in ToSet(r)
  BY <1>2, <1>3, <1>7
<1>9. r \in Seq(STRING) /\ ~(Len(r) > 1)
  BY <1>1, <1>3, <1>8
<1>10. ToSet(r) = {Challenged(Operation)}
  <2>1. PICK i \in DOMAIN r : Challenged(Operation) = r[i]
    BY <1>8 DEF ToSet
  <2>2. Len(r) \in Nat /\ DOMAIN r = 1..Len(r)
    BY <1>9
  <2>3. DOMAIN r = {i}
    BY <1>9, <2>1, <2>2
  <2> QED BY <2>1, <2>3 DEF ToSet
<1>11. ~Holds(r)
  BY <1>8 DEF Authorised
<1> QED
  BY <1>7, <1>10, <1>11 DEF Holds

\* Supplying a scheme that was missing makes another request.
LEMMA SupplyingChanges ==
    ASSUME IInv, NEW s \in DOMAIN api.schemes, ~Satisfied(s)
    PROVE  Supply(s) # req
<1>1. api.schemes[s] \in SchemeKinds
  BY ApisAssumption DEF ApisAssumption, IInv, TypeOK
<1>2. "keys" \in DOMAIN req /\ "authorization" \in DOMAIN req
  BY DEF IInv, Records, IsAsk, AskFields
<1>3. CASE api.schemes[s] = "apiKey"
  <2>1. s \notin req.keys
    BY <1>3 DEF Satisfied
  <2>2. Supply(s).keys = req.keys \cup {s}
    BY <1>2, <1>3 DEF Supply
  <2> QED
    BY <2>1, <2>2
<1>4. CASE api.schemes[s] \in {"basic", "http"}
  <2>1. req.authorization # "basic"
    BY <1>4, NoneAssumption DEF Satisfied, NoneAssumption
  <2>2. Supply(s).authorization = "basic"
    BY <1>2, <1>4 DEF Supply
  <2> QED
    BY <2>1, <2>2
<1>5. CASE api.schemes[s] \in {"bearer", "oauth2"}
  <2>1. req.authorization # "bearer"
    BY <1>5 DEF Satisfied
  <2>2. Supply(s).authorization = "bearer"
    BY <1>2, <1>5 DEF Supply
  <2> QED
    BY <2>1, <2>2
<1> QED
  BY <1>1, <1>3, <1>4, <1>5 DEF SchemeKinds
-----------------------------------------------------------------------------
(* One request, answered twice.                                            *)

\* The request but for its tag.
Asked == <<req.method, req.path, req.authorization, req.keys, req.given, req.accept,
           req.header, req.query>>

\* What comes of document, configuration and request, stage by stage.
TheBest ==
    CHOOSE b \in 0..Len(api.paths) : BestOf(b, ServingBefore(Len(api.paths) + 1))

ThePath == api.paths[TheBest]
TheOp == OperationFor(ThePath, req.method)

FirstStatus(op) ==
    LET key == Head(Resolvable(op)).key IN IF key < 100 THEN key * 100 ELSE key

PickOf(op) ==
    IF Effective.code # None
    THEN [status |-> Effective.code,
          response |-> Otherwise(ForCode(op, Effective.code), op.default)]
    ELSE IF LowestSuccess(op) # None
    THEN [status |-> Min(Successes(op)), response |-> LowestSuccess(op)]
    ELSE IF At(op, 2) # None THEN [status |-> 200, response |-> At(op, 2)]
    ELSE IF op.default # None THEN [status |-> 200, response |-> op.default]
    ELSE IF Resolvable(op) # <<>>
    THEN [status |-> FirstStatus(op), response |-> Head(Resolvable(op)).response]
    ELSE [status |-> 0, response |-> None]

ThePick == PickOf(TheOp)
TheContent == ThePick.response.content
TheUsable == Usable(TheContent, Ranges)
TheMedia == IF TheUsable # <<>> THEN Head(Offered(TheContent, Head(TheUsable))) ELSE None

\* The body of a media type is made, not given; it cannot be made; it is drawn.
Makes(m) == UsesExamples => HasExample(m) /\ ExampleValues(m, Effective.example) = <<>>
Lacks(m) == \/ UsesExamples /\ ~HasExample(m)
            \/ Makes(m) /\ Schema(m) = "impossible" /\ Effective.dynamic
Loose(m) == Makes(m) /\ Schema(m) # None /\ Effective.dynamic /\ Seed = None

BodyOf(m) ==
    IF ~Makes(m) THEN <<"example", Head(ExampleValues(m, Effective.example))>>
    ELSE IF Schema(m) = None THEN <<"null">>
    ELSE IF ~Effective.dynamic THEN <<"static", Schema(m)>>
    ELSE <<"dynamic", Schema(m), Seed>>

ReplyOf(pick, m, body) ==
    [Blank EXCEPT !.kind = "Response", !.status = pick.status,
                  !.type = IF m = None THEN Json ELSE m.type,
                  !.body = body, !.encoded = pick.response.encoded]

TheReply == ReplyOf(ThePick, TheMedia, BodyOf(TheMedia))

\* Each stage lets the request through.
Secured == cfg.security => Authorised(TheOp)
Validated == cfg.errors => Faults(ThePath, TheOp) = {}
Negotiated == /\ ~TheOp.echo /\ TheContent # <<>>
              /\ TheUsable # <<>> \/ Offers(TheContent) = {}
Produced == ~Lacks(TheMedia) /\ ~Loose(TheMedia)

Ready == /\ TheBest # 0 /\ Secured /\ Validated /\ ThePick.response # None
         /\ Negotiated /\ Produced

\* The request did not turn on the generation of values that nobody can repeat.
Calm == Directives.dynamic = TRUE => Seed # None

\* The tag of an answer (Tag is that of reply).
TagFor(r) ==
    LET suppressed == \/ Bodyless(r.status)
                      \/ req.method \in {"HEAD", "OPTIONS"}
                      \/ r.type = None
    IN  IF /\ BodyIsStable
           /\ Valid(r.status) \in 200..299 /\ r.type # None
           /\ ~(r.encoded /\ ~suppressed)
        THEN IF suppressed THEN <<>> ELSE r.body
        ELSE None

\* What is known at each stage of what will come of the request.
PassedInv ==
    /\ stage \notin {"route", "done"} => Scanned
    /\ stage = "done" => Scanned \/ scan = 0
    /\ stage \in {"validate", "respond", "content", "body"} => Secured
    /\ stage \in {"respond", "content", "body"} => Validated
    /\ stage \in {"content", "body"} => picked = ThePick
    /\ stage = "body" => Negotiated /\ media = TheMedia

\* A request that can be answered is, and it is the same answer each time.
AnswerInv ==
    /\ stage = "assemble" =>
         /\ Ready => reply = TheReply
         /\ reply.type # None /\ ~TheOp.echo /\ ~Loose(TheMedia) => Ready
    /\ stage = "done" /\ scan # 0 =>
         /\ Ready => /\ reply.tag = TagFor(TheReply) /\ reply.body = TheReply.body
                     /\ reply.kind = IF TagFor(TheReply) # None
                                        /\ req.tag = TagFor(TheReply)
                                     THEN "NotModified" ELSE "Response"
         /\ reply.tag # None /\ ~TheOp.echo /\ Calm => Ready

\* What the client holds of the document is what it would be sent again.
RepeatInv ==
    /\ scan = 0 => retries = 0 /\ prior.api # None
    /\ prior.api # None /\ prior.api = api =>
         /\ retries = 1
         /\ prior.reply.tag # None /\ ~TheOp.echo /\ Calm =>
              /\ Ready
              /\ prior.reply.tag = TagFor(TheReply)
              /\ prior.reply.body = TheReply.body

DetInv == PassedInv /\ AnswerInv /\ RepeatInv

\* Two best paths are one.
LEMMA BestFound == ASSUME IInv, Scanned PROVE best = TheBest
<1>1. /\ Len(api.paths) \in Nat /\ DOMAIN api.paths = 1..Len(api.paths)
      /\ \A i \in 1..Len(api.paths) : Weight(i) \in Nat
  BY Paths DEF IInv, TypeOK
<1> DEFINE S == ServingBefore(Len(api.paths) + 1)
<1>2. BestOf(best, S) /\ best \in 0..Len(api.paths)
  BY PassIsRight DEF RouteIsBest, Scanned, IInv, TypeOK
<1>3. S \subseteq 1..Len(api.paths)
  BY <1>1 DEF ServingBefore, MatchingBefore
<1>4. \A i, j \in S : Outranks(i, j) /\ Outranks(j, i) => i = j
  BY <1>1, <1>3 DEF Outranks, Weight
<1> HIDE DEF S
<1>5. \A b : BestOf(b, S) => b = best
  BY <1>2, <1>4 DEF BestOf
<1>6. BestOf(TheBest, S)
  BY <1>2 DEF TheBest, S
<1> QED
  BY <1>5, <1>6

\* At a stage after the routing, what was chosen is what will be chosen again.
LEMMA Placed ==
    ASSUME IInv, PassedInv, stage \notin {"route", "done"}
    PROVE  best = TheBest /\ Chosen = ThePath /\ Operation = TheOp
<1>1. best = TheBest
  BY BestFound DEF PassedInv
<1> QED
  BY <1>1 DEF Chosen, ThePath, Operation, TheOp

LEMMA SameDirectives ==
    ASSUME UNCHANGED <<cfg, Asked>>
    PROVE  UNCHANGED <<Directives, Effective>>
<1>1. req'.header = req.header /\ req'.query = req.query /\ cfg' = cfg
  BY DEF Asked
<1>2. Directives' = Directives
  BY <1>1 DEF Directives
<1> QED
  BY <1>1, <1>2 DEF Effective

LEMMA SameRoute ==
    ASSUME UNCHANGED <<api, cfg, Asked>>
    PROVE  UNCHANGED <<TheBest, ThePath, TheOp>>
<1>1. req'.method = req.method /\ req'.path = req.path /\ api' = api /\ cfg' = cfg
  BY DEF Asked
<1>2. \A item : Matches(item, req.method, req.path)' <=> Matches(item, req.method, req.path)
  BY <1>1 DEF Matches, Candidates, Servers
<1>3. \A item : Serves(item, req.method)' <=> Serves(item, req.method)
  BY <1>1 DEF Serves
<1>4. ServingBefore(Len(api.paths) + 1)' = ServingBefore(Len(api.paths) + 1)
  BY <1>1, <1>2, <1>3 DEF ServingBefore, MatchingBefore
<1>5. \A b, S : BestOf(b, S)' <=> BestOf(b, S)
  BY <1>1 DEF BestOf, Outranks
<1>6. TheBest' = TheBest
  BY <1>1, <1>4, <1>5 DEF TheBest
<1> QED
  BY <1>1, <1>6 DEF ThePath, TheOp

LEMMA SamePick ==
    ASSUME UNCHANGED <<api, cfg, Asked>>
    PROVE  UNCHANGED <<ThePick, TheContent, TheUsable, TheMedia>>
<1>1. Effective' = Effective /\ TheOp' = TheOp /\ Ranges' = Ranges
  BY SameDirectives, SameRoute DEF Asked, Ranges
<1>2. ThePick' = ThePick
  BY <1>1 DEF ThePick, PickOf
<1>3. TheContent' = TheContent
  BY <1>2 DEF TheContent
<1>4. TheUsable' = TheUsable
  BY <1>1, <1>3 DEF TheUsable
<1>5. TheMedia' = TheMedia
  BY <1>3, <1>4 DEF TheMedia
<1> QED
  BY <1>2, <1>3, <1>4, <1>5

\* Everything that comes of a request comes of it again while document,
\* configuration and request stay, but for its tag.
Outcome == <<TheBest, ThePath, TheOp, ThePick, TheContent, TheUsable, TheMedia, TheReply>>

LEMMA SameOutcome ==
    ASSUME UNCHANGED <<api, cfg, Asked>>
    PROVE  /\ UNCHANGED Outcome
           /\ Secured' <=> Secured
           /\ Validated' <=> Validated
           /\ Negotiated' <=> Negotiated
           /\ Ready' <=> Ready
           /\ Calm' <=> Calm
           /\ Loose(TheMedia)' <=> Loose(TheMedia)
           /\ TagFor(TheReply)' = TagFor(TheReply)
<1>1. UNCHANGED <<Directives, Effective>> /\ UNCHANGED <<api, cfg>>
  BY SameDirectives
<1>2. UNCHANGED <<TheBest, ThePath, TheOp>>
  BY SameRoute
<1>3. UNCHANGED <<ThePick, TheContent, TheUsable, TheMedia>>
  BY SamePick
<1>4. Seed' = Seed
  BY <1>1 DEF Seed
<1>5. \A m : /\ Makes(m)' <=> Makes(m)
             /\ Lacks(m)' <=> Lacks(m)
             /\ Loose(m)' <=> Loose(m)
  <2>1. UsesExamples' <=> UsesExamples
    BY <1>1 DEF UsesExamples
  <2>2. \A m : HasExample(m)' <=> HasExample(m)
    BY <1>1 DEF HasExample
  <2>3. \A m : Makes(m)' <=> Makes(m)
    BY <1>1, <2>1, <2>2 DEF Makes
  <2>4. \A m : Lacks(m)' <=> Lacks(m)
    BY <1>1, <2>1, <2>2, <2>3 DEF Lacks
  <2>5. \A m : Loose(m)' <=> Loose(m)
    BY <1>1, <1>4, <2>3 DEF Loose
  <2> QED
    BY <2>3, <2>4, <2>5
<1>6. \A m : BodyOf(m)' = BodyOf(m)
  BY <1>1, <1>4, <1>5 DEF BodyOf
<1>7. TheReply' = TheReply
  BY <1>3, <1>6 DEF TheReply
<1>8. Secured' <=> Secured
  <2>1. Requirements(TheOp)' = Requirements(TheOp)
    BY <1>1, <1>2 DEF Requirements
  <2>2. \A s : Satisfied(s)' <=> Satisfied(s)
    BY <1>1 DEF Satisfied, Asked
  <2>3. \A r : Holds(r)' <=> Holds(r)
    BY <1>1, <2>2 DEF Holds
  <2> QED
    BY <1>1, <2>1, <2>3 DEF Secured, Authorised
<1>9. Validated' <=> Validated
  BY <1>1, <1>2 DEF Validated, Faults, Asked
<1>10. Negotiated' <=> Negotiated
  BY <1>2, <1>3 DEF Negotiated
<1>11. Produced' <=> Produced
  BY <1>3, <1>5 DEF Produced
<1>12. Ready' <=> Ready
  BY <1>2, <1>3, <1>8, <1>9, <1>10, <1>11 DEF Ready
<1>13. Calm' <=> Calm
  BY <1>1, <1>4 DEF Calm
<1>14. TagFor(TheReply)' = TagFor(TheReply)
  BY <1>1, <1>7 DEF TagFor, BodyIsStable, Asked
<1> QED
  BY <1>2, <1>3, <1>5, <1>7, <1>8, <1>9, <1>10, <1>12, <1>13, <1>14 DEF Outcome

-----------------------------------------------------------------------------
(* The steps of one request.                                               *)

LEMMA InitDet == Init => DetInv
BY NoneAssumption DEF NoneAssumption, Init, NoAnswer, DetInv, PassedInv, AnswerInv, RepeatInv

\* What the client holds stays true while nobody asks for anything else.
LEMMA RepeatKept ==
    ASSUME RepeatInv, UNCHANGED <<api, cfg, req, prior, retries>>, scan' = 0 => scan = 0
    PROVE  RepeatInv'
<1>1. UNCHANGED <<api, cfg, Asked>>
  BY DEF Asked
<1>2. /\ UNCHANGED Outcome /\ (Ready' <=> Ready) /\ (Calm' <=> Calm)
      /\ TagFor(TheReply)' = TagFor(TheReply)
  BY <1>1, SameOutcome
<1>3. TheOp' = TheOp /\ TheReply' = TheReply
  BY <1>2 DEF Outcome
<1> QED
  BY <1>2, <1>3 DEF RepeatInv

\* The response that is chosen is the one that will be chosen again.
LEMMA PickIsThePick ==
    ASSUME PickForced \/ PickSuccess \/ PickDefault \/ PickFirst
    PROVE  picked' = PickOf(Operation)
<1>1. CASE PickForced
  BY <1>1 DEF PickForced, Pick, PickOf
<1>2. CASE PickSuccess
  <2>1. CASE Pick(Min(Successes(Operation)), LowestSuccess(Operation))
    BY <1>2, <2>1 DEF PickSuccess, Pick, PickOf
  <2>2. CASE LowestSuccess(Operation) = None /\ Pick(200, At(Operation, 2))
    BY <1>2, <2>2 DEF PickSuccess, Pick, PickOf
  <2> QED
    BY <1>2, <2>1, <2>2 DEF PickSuccess
<1>3. CASE PickDefault
  BY <1>3 DEF PickDefault, NoSuccess, Pick, PickOf
<1>4. CASE PickFirst
  BY <1>4 DEF PickFirst, NoSuccess, Pick, PickOf, FirstStatus
<1> QED
  BY <1>1, <1>2, <1>3, <1>4

LEMMA NoPick ==
    ASSUME RefuseCode \/ NoResponse PROVE PickOf(Operation).response = None
<1>1. CASE RefuseCode
  BY <1>1 DEF RefuseCode, PickOf, Otherwise
<1>2. CASE NoResponse
  BY <1>2 DEF NoResponse, NoSuccess, PickOf
<1> QED
  BY <1>1, <1>2

\* A body is the one that will be given again, if it is not drawn.
LEMMA GivesTheBody ==
    ASSUME GiveExample \/ GiveNothing \/ GiveStatic \/ GiveDynamic
    PROVE  /\ ~Lacks(media)
           /\ \E body : Respond(body) /\ (~Loose(media) => body = BodyOf(media))
<1>1. None # "impossible"
  BY NoneAssumption DEF NoneAssumption
<1>2. CASE GiveExample
  BY <1>2 DEF GiveExample, Lacks, Makes, BodyOf
<1>3. CASE GiveNothing
  BY <1>1, <1>3 DEF GiveNothing, Generates, Lacks, Makes, BodyOf
<1>4. CASE GiveStatic
  BY <1>4 DEF GiveStatic, Generates, Lacks, Makes, BodyOf
<1>5. CASE GiveDynamic
  <2>1. Makes(media) /\ ~Lacks(media) /\ Schema(media) # None /\ Effective.dynamic
    BY <1>5 DEF GiveDynamic, Generates, Lacks, Makes
  <2>2. CASE Seed # None
    <3>1. Respond(<<"dynamic", Schema(media), Seed>>)
      BY <1>5, <2>2 DEF GiveDynamic
    <3>2. BodyOf(media) = <<"dynamic", Schema(media), Seed>>
      BY <2>1 DEF BodyOf
    <3> QED
      BY <2>1, <3>1, <3>2
  <2>3. CASE Seed = None
    <3>1. Loose(media)
      BY <2>1, <2>3 DEF Loose
    <3>2. \E draw \in Draws : Respond(<<"dynamic", Schema(media), draw>>)
      BY <1>5, <2>3 DEF GiveDynamic
    <3> QED
      BY <2>1, <3>1, <3>2
  <2> QED
    BY <2>2, <2>3
<1> QED
  BY <1>2, <1>3, <1>4, <1>5

LEMMA AdvanceDet ==
    ASSUME IInv, DetInv,
           \/ RouteFound \/ Authorise \/ Accept \/ PickForced \/ PickSuccess
           \/ PickDefault \/ PickFirst \/ Negotiate
    PROVE  DetInv'
<1>1. /\ UNCHANGED <<input, pass, session>>
      /\ stage' \in Busy
      /\ stage = "route" => RouteFound
      /\ stage # "done"
  BY DEF RouteFound, Authorise, Accept, PickForced, PickSuccess, PickDefault,
     PickFirst, NoSuccess, Negotiate, Pick, Goto, Busy
<1>2. UNCHANGED <<api, cfg, req, scan, best, rejected, prior, retries>>
  BY <1>1 DEF input, pass, session
<1>3. UNCHANGED <<api, cfg, Asked>> /\ (Scanned' <=> Scanned)
  BY <1>2 DEF Asked, Scanned
<1>4. /\ UNCHANGED Outcome /\ (Secured' <=> Secured) /\ (Validated' <=> Validated)
      /\ (Negotiated' <=> Negotiated)
  BY <1>3, SameOutcome
<1>5. RepeatInv'
  BY <1>2, RepeatKept DEF DetInv
<1>6. AnswerInv'
  BY <1>1 DEF AnswerInv, Busy
<1>7. PassedInv'
  <2>1. CASE RouteFound
    <3>1. stage' = "secure" /\ Scanned
      BY <2>1 DEF RouteFound, Goto
    <3> QED
      BY <1>3, <3>1 DEF PassedInv
  <2>2. CASE ~RouteFound
    <3>1. Chosen = ThePath /\ Operation = TheOp /\ Scanned
      BY <1>1, <2>2, Placed DEF DetInv, PassedInv
    <3>2. CASE Authorise
      <4>1. stage' = "validate" /\ Secured
        BY <3>1, <3>2 DEF Authorise, Goto, Secured
      <4> QED
        BY <1>3, <1>4, <3>1, <4>1 DEF PassedInv
    <3>3. CASE Accept
      <4>1. stage = "validate" /\ stage' = "respond" /\ Validated
        BY <3>1, <3>3 DEF Accept, Goto, Validated
      <4>2. Secured
        BY <4>1 DEF DetInv, PassedInv
      <4> QED
        BY <1>3, <1>4, <3>1, <4>1, <4>2 DEF PassedInv
    <3>4. CASE PickForced \/ PickSuccess \/ PickDefault \/ PickFirst
      <4>1. stage = "respond" /\ stage' = "content"
        BY <3>4 DEF PickForced, PickSuccess, PickDefault, PickFirst, NoSuccess, Pick,
           Goto
      <4>2. picked' = ThePick
        BY <3>1, <3>4, PickIsThePick DEF ThePick
      <4>3. ThePick' = ThePick
        BY <1>4 DEF Outcome
      <4>4. Secured /\ Validated
        BY <4>1 DEF DetInv, PassedInv
      <4> QED
        BY <1>3, <1>4, <3>1, <4>1, <4>2, <4>3, <4>4 DEF PassedInv
    <3>5. CASE Negotiate
      <4>1. /\ stage = "content" /\ stage' = "body" /\ picked' = picked
            /\ ~TheOp.echo /\ picked.response.content # <<>>
        BY <3>1, <3>5 DEF Negotiate, Goto
      <4>2. Secured /\ Validated /\ picked = ThePick
        BY <4>1 DEF DetInv, PassedInv
      <4>3. /\ media' = TheMedia
            /\ TheUsable # <<>> \/ Offers(TheContent) = {}
        BY <3>5, <4>2 DEF Negotiate, TheMedia, TheUsable, TheContent
      <4>4. Negotiated
        BY <4>1, <4>2, <4>3 DEF Negotiated, TheContent
      <4>5. ThePick' = ThePick /\ TheMedia' = TheMedia
        BY <1>4 DEF Outcome
      <4> QED
        BY <1>3, <1>4, <3>1, <4>1, <4>2, <4>3, <4>4, <4>5 DEF PassedInv
    <3> QED
      BY <2>2, <3>2, <3>3, <3>4, <3>5
  <2> QED
    BY <2>1, <2>2
<1> QED
  BY <1>5, <1>6, <1>7 DEF DetInv

LEMMA ReturnDet ==
    ASSUME IInv, DetInv,
           \/ SynthesiseOptions \/ Echo \/ NoContent \/ GiveExample
           \/ GiveNothing \/ GiveStatic \/ GiveDynamic
    PROVE  DetInv'
<1>1. UNCHANGED <<input, pass, session>> /\ stage' = "assemble" /\ stage # "done"
  BY DEF SynthesiseOptions, Echo, NoContent, GiveExample, GiveNothing, GiveStatic,
     GiveDynamic, Respond, Return, Goto, Generates
<1>2. UNCHANGED <<api, cfg, req, scan, best, rejected, prior, retries>>
  BY <1>1 DEF input, pass, session
<1>3. UNCHANGED <<api, cfg, Asked>> /\ (Scanned' <=> Scanned)
  BY <1>2 DEF Asked, Scanned
<1>4. /\ TheOp' = TheOp /\ TheReply' = TheReply /\ (Ready' <=> Ready)
      /\ Loose(TheMedia)' <=> Loose(TheMedia)
  BY <1>3, SameOutcome DEF Outcome
<1>5. RepeatInv'
  BY <1>2, RepeatKept DEF DetInv
<1>6. SynthesiseOptions \/ stage \in {"content", "body"}
  BY DEF Echo, NoContent, GiveExample, GiveNothing, GiveStatic, GiveDynamic, Generates
<1>7. Scanned
  BY <1>6 DEF SynthesiseOptions, DetInv, PassedInv
<1>8. PassedInv'
  BY <1>1, <1>3, <1>7 DEF PassedInv
<1>9. /\ Ready => reply' = TheReply
      /\ reply'.type # None /\ ~TheOp.echo /\ ~Loose(TheMedia) => Ready
  <2>1. CASE SynthesiseOptions
    <3>1. TheBest = 0
      BY <1>7, <2>1, BestFound DEF SynthesiseOptions
    <3>2. reply'.type = None
      BY <2>1 DEF SynthesiseOptions, Return, Blank
    <3> QED
      BY <3>1, <3>2 DEF Ready
  <2>2. CASE ~SynthesiseOptions
    <3>1. /\ Operation = TheOp /\ best = TheBest
          /\ picked = ThePick /\ Secured /\ Validated /\ best # 0
          /\ picked.response # None
      BY <1>6, <2>2, Placed DEF DetInv, PassedInv, IInv, TypeOK
    <3>2. CASE Echo
      BY <3>1, <3>2 DEF Echo, Ready, Negotiated
    <3>3. CASE NoContent
      <4>1. TheContent = <<>> /\ reply'.type = None
        BY <3>1, <3>3 DEF NoContent, Return, Blank, TheContent
      <4> QED
        BY <4>1 DEF Ready, Negotiated
    <3>4. CASE GiveExample \/ GiveNothing \/ GiveStatic \/ GiveDynamic
      <4>1. stage = "body"
        BY <3>4 DEF GiveExample, GiveNothing, GiveStatic, GiveDynamic, Generates
      <4>2. Negotiated /\ media = TheMedia
        BY <4>1 DEF DetInv, PassedInv
      <4>3. PICK body : Respond(body) /\ (~Loose(media) => body = BodyOf(media))
        BY <3>4, GivesTheBody
      <4>4. reply' = ReplyOf(picked, media, body)
        BY <4>3 DEF Respond, Return, ReplyOf
      <4>5. ~Loose(TheMedia) => reply' = TheReply
        BY <3>1, <4>2, <4>3, <4>4 DEF TheReply
      <4>6. ~Loose(TheMedia) <=> Ready
        <5>1. ~Lacks(TheMedia)
          BY <3>4, <4>2, GivesTheBody
        <5> QED
          BY <3>1, <4>2, <5>1 DEF Ready, Produced
      <4> QED
        BY <4>5, <4>6
    <3> QED
      BY <2>2, <3>2, <3>3, <3>4
  <2> QED
    BY <2>1, <2>2
<1>10. AnswerInv'
  BY <1>1, <1>4, <1>9 DEF AnswerInv
<1> QED
  BY <1>5, <1>8, <1>10 DEF DetInv

\* Who is refused would not be answered the next time either.
LEMMA ErrorDet ==
    ASSUME IInv, DetInv,
           \/ RefuseMethod \/ RefusePath \/ Challenge \/ Reject \/ RefuseCode
           \/ NoResponse \/ NotAcceptable \/ RefuseExample \/ GenerationFails
    PROVE  DetInv'
<1>1. UNCHANGED <<input, pass, session>> /\ stage' = "done" /\ stage # "done"
  BY DEF RefuseMethod, RefusePath, Challenge, Reject, RefuseCode, NoResponse,
     NoSuccess, NotAcceptable, RefuseExample, GenerationFails, Generates, Fail, Finish,
     Goto
<1>2. UNCHANGED <<api, cfg, req, scan, best, rejected, prior, retries>>
  BY <1>1 DEF input, pass, session
<1>3. UNCHANGED <<api, cfg, Asked>> /\ (Scanned' <=> Scanned)
  BY <1>2 DEF Asked, Scanned
<1>4. Ready' <=> Ready
  BY <1>3, SameOutcome
<1>5. RepeatInv'
  BY <1>2, RepeatKept DEF DetInv
<1>6. stage = "route" => Scanned /\ best = 0
  BY DEF RefuseMethod, RefusePath, Challenge, Reject, RefuseCode, NoResponse,
     NoSuccess, NotAcceptable, RefuseExample, GenerationFails, Generates
<1>7. Scanned
  BY <1>1, <1>6 DEF DetInv, PassedInv
<1>8. PassedInv'
  BY <1>1, <1>3, <1>7 DEF PassedInv
<1>9. reply'.tag = None
  <2>1. CASE RefuseMethod
    BY <2>1 DEF RefuseMethod, Finish, Blank
  <2>2. CASE Challenge
    BY <2>2 DEF Challenge, Finish, Blank
  <2>3. CASE Reject
    BY <2>3 DEF Reject, Finish, Blank
  <2>4. CASE NotAcceptable
    BY <2>4 DEF NotAcceptable, Finish, Blank
  <2>5. CASE RefusePath \/ RefuseCode \/ NoResponse \/ RefuseExample \/ GenerationFails
    BY <2>5 DEF RefusePath, RefuseCode, NoResponse, RefuseExample, GenerationFails,
       Fail, Finish, Blank
  <2> QED
    BY <2>1, <2>2, <2>3, <2>4, <2>5
<1>10. ~Ready
  <2>1. CASE stage = "route"
    BY <1>6, <2>1, BestFound DEF Ready
  <2>2. CASE stage # "route"
    <3>1. Chosen = ThePath /\ Operation = TheOp
      BY <1>1, <2>2, Placed DEF DetInv
    <3>2. CASE Challenge
      BY <3>1, <3>2 DEF Challenge, Ready, Secured
    <3>3. CASE Reject
      BY <3>1, <3>3 DEF Reject, Ready, Validated
    <3>4. CASE RefuseCode \/ NoResponse
      BY <3>1, <3>4, NoPick DEF ThePick, Ready
    <3>5. CASE NotAcceptable
      <4>1. picked = ThePick
        BY <3>5 DEF NotAcceptable, DetInv, PassedInv
      <4> QED
        BY <3>5, <4>1 DEF NotAcceptable, Ready, Negotiated, TheUsable, TheContent
    <3>6. CASE RefuseExample \/ GenerationFails
      <4>1. media = TheMedia
        BY <3>6 DEF RefuseExample, GenerationFails, Generates, DetInv, PassedInv
      <4>2. Lacks(media)
        BY <3>6 DEF RefuseExample, GenerationFails, Generates, Lacks, Makes
      <4> QED
        BY <4>1, <4>2 DEF Ready, Produced
    <3>7. ~RefuseMethod /\ ~RefusePath
      BY <2>2 DEF RefuseMethod, RefusePath
    <3> QED
      BY <3>2, <3>3, <3>4, <3>5, <3>6, <3>7
  <2> QED
    BY <2>1, <2>2
<1>11. AnswerInv'
  BY <1>1, <1>4, <1>9, <1>10 DEF AnswerInv
<1> QED
  BY <1>5, <1>8, <1>11 DEF DetInv

\* A tagged answer was not drawn, unless the request asked for that.
LEMMA CalmIsNotLoose ==
    ASSUME IInv, BodyIsStable, Calm, NEW m PROVE ~Loose(m)
<1> SUFFICES ASSUME Effective.dynamic, Seed = None PROVE FALSE
  BY DEF Loose
<1>1. /\ {"dynamic", "seed"} \subseteq DOMAIN cfg /\ cfg.dynamic \in BOOLEAN
  BY ConfigsAssumption DEF ConfigsAssumption, IInv, TypeOK
<1>2. /\ {"dynamic", "seed"} \subseteq DOMAIN Directives
      /\ Directives.dynamic \in BOOLEAN \cup {None}
  BY DEF IInv, Records, IsAsk, Directives, Otherwise
<1>3. Effective.dynamic = IF Directives.dynamic # None THEN Directives.dynamic
                          ELSE cfg.dynamic
  BY <1>1, <1>2 DEF Effective
<1>4. Effective.seed = IF Directives.seed # None THEN Directives.seed ELSE cfg.seed
  BY <1>1, <1>2 DEF Effective
<1>5. Directives.dynamic # TRUE
  BY DEF Calm
<1>6. Directives.dynamic = None
  BY <1>2, <1>3, <1>5
<1>7. cfg.seed # None
  BY <1>1, <1>3, <1>6 DEF BodyIsStable
<1>8. Effective.seed # None
  BY <1>4, <1>7
<1> QED
  BY <1>8 DEF Seed, Otherwise

LEMMA AssembleDet == ASSUME IInv, DetInv, NotModified \/ Complete PROVE DetInv'
<1>1. UNCHANGED <<input, pass, session>> /\ stage' = "done" /\ stage = "assemble"
  BY DEF NotModified, Complete, Finish, Goto
<1>2. UNCHANGED <<api, cfg, req, scan, best, rejected, prior, retries>>
  BY <1>1 DEF input, pass, session
<1>3. UNCHANGED <<api, cfg, Asked>> /\ (Scanned' <=> Scanned)
  BY <1>2 DEF Asked, Scanned
<1>4. /\ TheOp' = TheOp /\ TheReply' = TheReply /\ (Ready' <=> Ready)
      /\ (Calm' <=> Calm) /\ TagFor(TheReply)' = TagFor(TheReply)
  BY <1>3, SameOutcome DEF Outcome
<1>5. RepeatInv'
  BY <1>2, RepeatKept DEF DetInv
<1>6. PassedInv'
  BY <1>1, <1>3 DEF DetInv, PassedInv
<1>7. Tag = TagFor(reply)
  BY DEF Tag, TagFor, Bytes, Suppressed
<1>8. /\ reply'.tag = Tag /\ reply'.body = reply.body
      /\ reply'.kind = IF Unmodified THEN "NotModified" ELSE "Response"
  <2>1. IsReply(reply) /\ reply.kind = "Response"
    BY <1>1 DEF IInv, TypeOK, Records
  <2>2. CASE NotModified
    BY <2>1, <2>2 DEF NotModified, Finish, IsReply
  <2>3. CASE Complete
    BY <2>1, <2>3 DEF Complete, Finish, IsReply
  <2> QED
    BY <2>2, <2>3
<1>9. Ready => reply = TheReply
  BY <1>1 DEF DetInv, AnswerInv
<1>10. ASSUME Ready
       PROVE  /\ reply'.tag = TagFor(TheReply) /\ reply'.body = TheReply.body
              /\ reply'.kind = IF TagFor(TheReply) # None /\ req.tag = TagFor(TheReply)
                               THEN "NotModified" ELSE "Response"
  BY <1>7, <1>8, <1>9, <1>10 DEF Unmodified
<1>11. ASSUME reply'.tag # None, ~TheOp.echo, Calm PROVE Ready
  <2>1. BodyIsStable /\ reply.type # None
    BY <1>8, <1>11 DEF Tag
  <2>2. ~Loose(TheMedia)
    BY <1>11, <2>1, CalmIsNotLoose
  <2> QED
    BY <1>1, <1>11, <2>1, <2>2 DEF DetInv, AnswerInv
<1>12. AnswerInv'
  BY <1>1, <1>2, <1>4, <1>10, <1>11 DEF AnswerInv
<1> QED
  BY <1>5, <1>6, <1>12 DEF DetInv

LEMMA RouteDet == ASSUME IInv, DetInv, Route PROVE DetInv'
<1>1. /\ stage = "route" /\ stage' = "route"
      /\ UNCHANGED <<api, cfg, req, prior, retries>>
      /\ scan' = scan + 1 /\ scan \in DOMAIN api.paths
  BY DEF Route, Scan, ScanMiss, ScanReject, ScanServe, session
<1>2. scan' # 0
  BY <1>1, Paths DEF IInv, TypeOK
<1>3. RepeatInv'
  BY <1>1, <1>2, RepeatKept DEF DetInv
<1> QED
  BY <1>1, <1>3 DEF DetInv, PassedInv, AnswerInv

LEMMA AmendDet == ASSUME IInv, DetInv, Amend PROVE DetInv'
BY NoneAssumption DEF NoneAssumption, IInv, TypeOK, NoAnswer, Amend, Send, DetInv, PassedInv, AnswerInv, RepeatInv

\* The same request with a tag has the outcome the client holds.
LEMMA AskAgainDet == ASSUME IInv, DetInv, AskAgain PROVE DetInv'
<1>1. /\ stage = "done" /\ retries = 0 /\ retries' = 1
      /\ req' = [req EXCEPT !.tag = reply.tag]
      /\ UNCHANGED <<api, cfg>> /\ scan' = 1 /\ stage' = "route"
      /\ prior' = IF prior.api # None THEN prior ELSE [api |-> api, reply |-> reply]
  BY DEF AskAgain, Send
<1>2. UNCHANGED <<api, cfg, Asked>>
  BY <1>1 DEF IInv, Records, IsAsk, AskFields, Asked
<1>3. /\ TheOp' = TheOp /\ TheReply' = TheReply /\ (Ready' <=> Ready)
      /\ (Calm' <=> Calm) /\ TagFor(TheReply)' = TagFor(TheReply)
  BY <1>2, SameOutcome DEF Outcome
<1>4. prior.api # None => prior.api # api
  BY <1>1 DEF DetInv, RepeatInv
<1>5. scan = 0 => prior.api # None
  BY DEF DetInv, RepeatInv
<1> QED
  BY <1>1, <1>3, <1>4, <1>5 DEF DetInv, PassedInv, AnswerInv, RepeatInv

LEMMA ReloadDet == ASSUME IInv, DetInv, Reload PROVE DetInv'
<1>1. /\ api' # api /\ prior' = [api |-> api, reply |-> reply] /\ scan' = 0
      /\ stage' = "done" /\ retries' = 0 /\ api # None
  BY NoneAssumption DEF NoneAssumption, Reload, IInv, TypeOK
<1> QED
  BY <1>1 DEF DetInv, PassedInv, AnswerInv, RepeatInv

LEMMA DetInductive == ASSUME IInv, DetInv, [Next]_vars PROVE DetInv'
<1>1. CASE UNCHANGED vars
  <2>1. UNCHANGED <<api, cfg, req, scan, stage, picked, media, reply, prior, retries>>
    BY <1>1 DEF vars, input, pass, session
  <2>2. UNCHANGED <<api, cfg, Asked>> /\ (Scanned' <=> Scanned)
    BY <2>1 DEF Asked, Scanned
  <2>3. /\ UNCHANGED <<TheOp, ThePick, TheMedia, TheReply>>
        /\ (Ready' <=> Ready) /\ (Calm' <=> Calm)
        /\ (Secured' <=> Secured) /\ (Validated' <=> Validated)
        /\ (Negotiated' <=> Negotiated) /\ (Loose(TheMedia)' <=> Loose(TheMedia))
        /\ TagFor(TheReply)' = TagFor(TheReply)
    BY <2>2, SameOutcome DEF Outcome
  <2>4. PassedInv'
    BY <2>1, <2>2, <2>3 DEF DetInv, PassedInv
  <2>5. AnswerInv'
    BY <2>1, <2>3 DEF DetInv, AnswerInv
  <2>6. RepeatInv'
    BY <2>1, RepeatKept DEF DetInv
  <2> QED
    BY <2>4, <2>5, <2>6 DEF DetInv
<1>2. CASE Server
  BY <1>2, RouteDet, AdvanceDet, ReturnDet, ErrorDet, AssembleDet DEF Server
<1>3. CASE Client \/ Reload
  BY <1>3, AmendDet, AskAgainDet, ReloadDet DEF Client
<1> QED
  BY <1>1, <1>2, <1>3 DEF Next

-----------------------------------------------------------------------------

\* Each stage finds what it reads: a stage of mock is entered only with an
\* operation, that of the body only with a response (engine.rs, mock).
THEOREM TypeCorrect == Spec => []TypeOK
<1>1. IInv => TypeOK
  BY DEF IInv
<1> QED
  BY InitInv, Inductive, <1>1, PTL DEF Spec

\* The pass over the paths answers from the most specific path that matches
\* and declares the method, the first in document order of several, and
\* remembers the first that does not declare it (router.rs,
\* route_request_inner), for any paths and any rule of matching a segment.
THEOREM RouteIsBestHolds == Spec => []RouteIsBest
<1>1. IInv => RouteIsBest
  BY PassIsRight DEF IInv, TypeOK
<1> QED
  BY InitInv, Inductive, <1>1, PTL DEF Spec

\* What the Allow header of a 405 or of an answer to OPTIONS names is routed,
\* but for operations with servers of their own (router.rs,
\* allow_header_for_path_item_with_strict).
THEOREM AllowIsUsableHolds == Spec => []AllowIsUsable
<1>1. IInv => AllowIsUsable
  <2> SUFFICES ASSUME IInv, stage = "done", rejected # 0, best = 0,
                      NEW m \in reply.allow, ~OwnServers(api.paths[rejected], m)
               PROVE  Routes(m)
    BY DEF AllowIsUsable
  <2> DEFINE item == api.paths[rejected]
  <2>1. scan # 0 /\ reply.allow = Allow(item) /\ rejected \in DOMAIN api.paths
    BY Paths DEF IInv, AllowInv, Numbers, TypeOK
  <2>2. Fits(rejected) /\ ~Answers(rejected)
    BY <2>1 DEF IInv, PassInv, FirstSoFar
  <2>3. req.method \notin DOMAIN item.ops
    BY <2>2 DEF Answers, Serves
  <2>4. Servers(item, m) = Servers(item, req.method)
    BY <2>3 DEF OwnServers, Servers
  <2>5. Matches(item, m, req.path)
    BY <2>2, <2>4 DEF Fits, Matches, Candidates
  <2>6. Serves(item, m)
    BY <2>1 DEF Allow, Serves
  <2> QED
    BY <2>1, <2>5, <2>6 DEF Routes
<1> QED
  BY InitInv, Inductive, <1>1, PTL DEF Spec

\* A client that gets a 304, also after a reload of the specification, holds
\* the body it would be sent now (main.rs, handle_request_inner).
THEOREM NotModifiedIsTrueHolds == Spec => []NotModifiedIsTrue
<1>1. IInv => NotModifiedIsTrue
  BY DEF IInv
<1> QED
  BY InitInv, Inductive, <1>1, PTL DEF Spec

\* Whoever does what an error says gets further, for any document and request: the
\* scheme a 401 names is one that is missing (security.rs, evaluate_inner), a 422 names
\* an input and a 406 a media type (engine.rs, negotiate_content_type_inner).  The
\* exceptions are those of the property.
THEOREM NoDeadEndsHolds == Spec => []NoDeadEnds
<1>1. IInv /\ ReasonInv => NoDeadEnds
  <2> SUFFICES ASSUME IInv, ReasonInv, stage = "done", Amended = {},
                      reply.kind \notin {"Response", "NotModified", "NoRoute",
                                         "NoResponseDefined", "Generation"},
                      reply.kind # "MethodNotAllowed"
               PROVE  /\ reply.kind = "Unauthorized"
                      /\ \/ \E r \in ToSet(Requirements(Operation)) : Len(r) > 1
                         \/ \A r \in ToSet(Requirements(Operation)) :
                               ToSet(r) \cap DOMAIN api.schemes = {}
    BY DEF NoDeadEnds, Amended
  <2>1. reply.kind = "Unauthorized"
    <3>1. /\ reply.kind = "ValidationFailed" => reply.faults # {}
          /\ reply.kind = "NotAcceptable" => reply.types # {}
      BY DEF ReasonInv
    <3>2. reply.kind # "ValidationFailed"
      BY <3>1 DEF Amended
    <3>3. reply.kind # "NotAcceptable"
      BY <3>1 DEF Amended
    <3>4. reply.kind # "NoResponseForCode"
      BY DEF Amended
    <3>5. reply.kind # "ExampleNotFound"
      BY DEF Amended
    <3>6. reply.kind \in Kinds
      BY DEF IInv, TypeOK
    <3> QED
      BY <3>2, <3>3, <3>4, <3>5, <3>6 DEF Kinds
  <2>2. Refused /\ Supply(reply.scheme) = req
    BY <2>1 DEF ReasonInv, Amended
  <2>3. ASSUME \A r \in ToSet(Requirements(Operation)) : ~(Len(r) > 1),
               NEW q \in ToSet(Requirements(Operation)), ToSet(q) \cap DOMAIN api.schemes # {}
        PROVE  FALSE
    <3>1. /\ Challenged(Operation) \in DOMAIN api.schemes
          /\ ~Satisfied(Challenged(Operation))
      BY <2>2, <2>3, NamedIsMissing DEF Refused
    <3> QED
      BY <2>2, <3>1, SupplyingChanges DEF Refused
  <2> QED
    BY <2>1, <2>3
<1> QED
  BY InitInv, Inductive, InitReason, ReasonInductive, <1>1, PTL DEF Spec

\* A conditional request for a document that did not change is told so, and the client
\* holds what it would get: mock is a function of document, configuration and request,
\* and the tag one of its answer (engine.rs, mock; main.rs, response_body_is_stable), for
\* any document.  The exceptions are those of the property.
THEOREM TagsRepeatHolds == Spec => []TagsRepeat
<1>1. IInv /\ DetInv => TagsRepeat
  <2> SUFFICES ASSUME IInv, DetInv, Again, prior.api = api, prior.reply.tag # None, Calm,
                      ~Operation.echo
               PROVE  reply.kind = "NotModified" /\ reply.body = prior.reply.body
    BY DEF TagsRepeat, Calm
  <2>1. stage = "done" /\ scan # 0 /\ Scanned
    BY DEF Again, DetInv, PassedInv, RepeatInv
  <2>2. Operation = TheOp
    BY <2>1, BestFound DEF Operation, Chosen, TheOp, ThePath
  <2>3. /\ Ready /\ prior.reply.tag = TagFor(TheReply)
        /\ prior.reply.body = TheReply.body
    BY <2>2 DEF Again, DetInv, RepeatInv
  <2>4. req.tag = prior.reply.tag
    BY DEF Again, IInv, PriorInv
  <2> QED
    BY <2>1, <2>3, <2>4 DEF DetInv, AnswerInv
<1> QED
  BY InitInv, Inductive, InitDet, DetInductive, <1>1, PTL DEF Spec
=============================================================================
