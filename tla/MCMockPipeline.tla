--------------------------- MODULE MCMockPipeline ---------------------------
(***************************************************************************)
(* A zoo for MockPipeline: one document for routing and security, two      *)
(* versions of one for responses.  Operations are told apart by method.    *)
(***************************************************************************)
EXTENDS MockPipeline

MCBraced == {"{id}", "{any}"}
Segments == {"pets", "mine", "7", "v1", "v2", "10", "dogs"}
MCCaptures == [t \in {"{id}", "{any}", "m{rest}"} |->
                 IF t = "m{rest}" THEN {"mine"} ELSE Segments]
\* /v1 is also the beginning of /v110.
MCTextRest == [p \in {<<"v1", "v110">>} |-> "10"]

-----------------------------------------------------------------------------
Media(type, examples, inline, schema) ==
    [type |-> type, examples |-> examples, inline |-> inline,
     schemaExample |-> None, schema |-> schema]
Example(name, value) == [name |-> name, resolves |-> TRUE, value |-> value]
Gone(name) == [name |-> name, resolves |-> FALSE, value |-> None]

Of(content) == [content |-> content, encoded |-> FALSE]
When(key, response) == [key |-> key, response |-> response]

Text == <<"text", "plain", "v=1">>
Plain == Of(<<Media(Json, <<>>, "hello", "string")>>)

Op == [servers |-> <<>>, security |-> None, required |-> {},
       responses |-> <<When(200, Plain)>>, default |-> None, echo |-> FALSE]
With(responses) == [Op EXCEPT !.responses = responses]

Item(template, ops) ==
    [template |-> template, servers |-> <<>>, required |-> {}, ops |-> ops]

-----------------------------------------------------------------------------
\* Routing and security.
Nothing == [m \in {} |-> Op]
ById == [m \in {"GET", "PUT", "HEAD", "POST"} |->
    CASE m = "PUT" -> [Op EXCEPT !.servers = <<<<"v2">>>>, !.required = {"body"}]
      [] OTHER -> [Op EXCEPT !.security = <<<<>>>>]]
Mine == [m \in {"GET", "PATCH"} |->
    IF m = "GET" THEN [Op EXCEPT !.security = <<<<"ghost">>, <<"key">>, <<"token">>>>]
    ELSE [Op EXCEPT !.security = <<<<"basic", "key">>, <<"oauth">>>>]]
Anything == [m \in {"POST", "GET"} |->
    IF m = "GET" THEN Op ELSE [Op EXCEPT !.security = <<>>, !.required = {"body"}]]

Zoo == [servers |-> <<<<"v1">>>>,
        security |-> <<<<"web">>>>,
        schemes |-> [s \in {"key", "token", "basic", "oauth", "web"} |->
            CASE s = "key" -> "apiKey" [] s = "token" -> "bearer"
              [] s = "basic" -> "basic" [] s = "oauth" -> "oauth2"
              [] s = "web" -> "http"],
        random |-> None,
        paths |-> << Item(<<"{any}", "mine">>, Anything),
                     [Item(<<"pets", "{id}">>, ById) EXCEPT !.required = {"q"}],
                     Item(<<"pets", "m{rest}">>, Mine),
                     Item(<<"10", "mine">>, Nothing),
                     Item(Root, [m \in {"GET"} |-> Op]),
                     [Item(<<"dogs", "mine">>, Mine) EXCEPT
                         !.servers = <<<<"v2">>, <<"v1">>>>] >>]

\* Responses; v tells two versions apart, seed is that of x-json-schema-faker.
Menu(v, seed) == [servers |-> <<>>, security |-> None,
    schemes |-> [s \in {} |-> None], random |-> seed,
    paths |-> << Item(<<"pets">>,
        [m \in {"GET", "PUT", "POST", "DELETE", "PATCH", "OPTIONS"} |->
          CASE m = "GET" ->
                 With(<<When(404, Plain), When(201, None),
                        When(200, Of(<<Media(<<"undefined">>, <<>>, "u", None),
                            Media(Json, <<Example("fido", v), Example("rex", None),
                                          Gone("tom")>>, None, "object"),
                            Media(Text, <<Example("rex", None)>>, None, "string")>>))>>)
            [] m = "PUT" ->
                 [With(<<When(204, Of(<<Media(Json, <<>>, v, "object")>>)),
                         When(4, Plain)>>)
                    EXCEPT !.default = Of(<<>>)]
            [] m = "POST" ->
                 With(<<When(2, [content |-> <<Media(Json, <<>>, None, v)>>,
                                 encoded |-> TRUE]),
                        When(500, None)>>)
            [] m = "DELETE" -> With(<<When(201, None), When(404, Plain)>>)
            [] m = "PATCH" ->
                 With(<<When(500, None),
                        When(4, Of(<<Media(<<"undefined">>, <<>>, "u", None)>>))>>)
            [] m = "OPTIONS" -> With(<<When(200, None)>>)]),
      Item(<<"dogs">>,
        [m \in {"GET", "PUT", "POST"} |->
          CASE m = "GET" -> [Op EXCEPT !.echo = TRUE]
            [] m = "PUT" ->
                 [With(<<>>) EXCEPT
                    !.default = Of(<<Media(Json, <<>>, None, "impossible")>>)]
            [] m = "POST" -> With(<<When(200, Of(<<Media(Text, <<>>, None, None)>>))>>)])
      >>]

MCApis == {Zoo, Menu("old", None), Menu("new", None), Menu("old", 7)}

-----------------------------------------------------------------------------
Default == [dynamic |-> FALSE, seed |-> None, code |-> None, example |-> None,
            errors |-> FALSE, security |-> TRUE, ignore |-> FALSE, strict |-> FALSE]
MCConfigs == { Default,
    [Default EXCEPT !.strict = TRUE, !.errors = TRUE],
    [Default EXCEPT !.dynamic = TRUE],
    [Default EXCEPT !.dynamic = TRUE, !.seed = 1],
    [Default EXCEPT !.ignore = TRUE] }

Directive == [dynamic |-> None, seed |-> None, code |-> None, example |-> None,
              errors |-> None, security |-> None]
Ask == [method |-> "GET", path |-> <<"pets">>, authorization |-> None, keys |-> {},
        given |-> {}, accept |-> None, tag |-> None,
        header |-> Directive, query |-> Directive]

RouteAsks == { [Ask EXCEPT !.method = m, !.path = p] :
    m \in {"GET", "HEAD", "OPTIONS", "POST", "PUT", "DELETE"},
    p \in {<<"pets", "7">>, <<"pets", "mine">>, <<"v1", "pets", "mine">>,
           <<"v2", "pets", "7">>, <<"dogs", "mine">>, <<"v2", "dogs", "mine">>,
           <<"v110", "mine">>, <<"v1">>} }

SecurityAsks == { [Ask EXCEPT !.method = m, !.path = <<"pets", "mine">>,
                              !.authorization = a, !.keys = k, !.header = d] :
    m \in {"GET", "PATCH", "PUT"},
    a \in {None, "bearer", "basic", "other"}, k \in {{}, {"key"}},
    d \in {Directive, [Directive EXCEPT !.security = FALSE, !.errors = FALSE],
           [Directive EXCEPT !.errors = TRUE]} }

ContentAsks == { [Ask EXCEPT !.method = m, !.path = p, !.accept = a,
                             !.header = h, !.query = q] :
    m \in {"GET", "HEAD", "PUT", "POST", "DELETE", "PATCH", "OPTIONS"},
    p \in {<<"pets">>, <<"dogs">>},
    a \in {None, <<>>, <<<<"text", "*">>, Json>>, <<<<"image", "png">>>>},
    h \in {Directive, [Directive EXCEPT !.code = 404], [Directive EXCEPT !.code = 99],
           [Directive EXCEPT !.example = "rex"], [Directive EXCEPT !.example = "tom"],
           [Directive EXCEPT !.dynamic = TRUE]},
    q \in {Directive, [Directive EXCEPT !.dynamic = FALSE, !.code = 222],
           [Directive EXCEPT !.seed = 3]} }

MCAsks == RouteAsks \cup SecurityAsks \cup ContentAsks
MCDraws == {1001, 1002}
=============================================================================
