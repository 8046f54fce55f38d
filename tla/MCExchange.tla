----------------------------- MODULE MCExchange -----------------------------
(* Model-checking instances of Exchange: requests that exercise matching,  *)
(* configurations that exercise validation, and requests that exercise     *)
(* each step of the exchange on one route.                                 *)
EXTENDS Exchange

----------------------------------------------------------------------------
(* Patterns.                                                               *)

Expr(op, sub) == [op |-> op, sub |-> sub, runes |-> <<>>, min |-> 0, max |-> 0]
Leaf(op) == Expr(op, <<>>)
Text(runes) == [Leaf("literal") EXCEPT !.runes = runes]
Class(runes) == [Leaf("class") EXCEPT !.runes = SetToSeq(runes)]
Loop(op, e, min, max) == [Expr(op, <<e>>) EXCEPT !.min = min, !.max = max]
Whole(e) == Expr("concat", <<Leaf("begin"), e, Leaf("end")>>)

\* No value is longer, so this is as good as no upper bound.
Unbounded == 4

Atoms == {Text(<<"a">>), Text(<<"1">>), Text(<<"1", "b">>), Text(<<".">>), Class({"a", "b"}), Class({"1", "."}),
          Leaf("any"), Leaf("empty"), Leaf("none"), Leaf("folded")}
Repeated ==
    {Loop("star", e, 0, Unbounded) : e \in {Class({"a", "b"}), Leaf("any")}}
    \cup {Loop("plus", e, 1, Unbounded) : e \in {Class({"a", "b"}), Leaf("empty"), Class({"1", "."})}}
    \cup {Loop("quest", Text(<<"a">>), 0, 1)}
    \cup {Loop("repeat", e, 0, 2) : e \in {Class({"a", "b"})}}
    \cup {Loop("repeat", e, 1, 2) : e \in {Class({"a", "b"}), Loop("quest", Text(<<"a">>), 0, 1)}}
Inner ==
    Atoms \cup Repeated
    \cup {Expr("capture", <<e>>) : e \in {Text(<<"a">>), Leaf("any")}}
    \cup {Expr("alternate", <<e, f>>) :
            e \in {Text(<<"1">>), Leaf("empty"), Loop("star", Class({"a", "b"}), 0, Unbounded)},
            f \in {Text(<<"1", "b">>), Text(<<".">>)}}

\* ^1|b$: the anchors belong to the branches.
HalfAnchored ==
    Expr("alternate", <<Expr("concat", <<Leaf("begin"), Text(<<"1">>)>>),
                        Expr("concat", <<Text(<<"b">>), Leaf("end")>>)>>)
Unanchored == Text(<<"1">>)

Patterns == {Whole(e) : e \in Inner} \cup {HalfAnchored, Unanchored, Whole(Class({"1", "b"}))}

Below(E) == UNION {Range(e.sub) : e \in E}
AllExpressions ==
    Patterns \cup Below(Patterns) \cup Below(Below(Patterns)) \cup Below(Below(Below(Patterns)))

Sizes[e \in AllExpressions] ==
    1 + FoldLeft(+, 0, [k \in DOMAIN e.sub |-> Sizes[e.sub[k]] + Turns(e.sub[k])])

One == Whole(Text(<<"1">>))
OneOrB == Whole(Class({"1", "b"}))
AorB == Whole(Class({"a", "b"}))

----------------------------------------------------------------------------
(* Matching.                                                               *)

A == <<"a">>
B == <<"b">>
Two == <<"1", ".", "2">>
Braced == <<"{", "t", "}">>
AllValues == {<<>>, A, B, <<"1">>, <<"1", "b">>, <<"a", "b">>, <<".">>, Two, Braced}

\* Path segments as they arrive: %61 is an escaped "a".
Unescaped == [e \in AllValues \cup {<<"%61">>} |-> IF e = <<"%61">> THEN A ELSE e]

Tokens ==
    [v \in AllValues |->
        CASE v = Two -> <<Literal(<<"1">>), Literal(<<"2">>)>>
          [] v = <<".">> -> <<Literal(<<>>), Literal(<<>>)>>
          [] v = Braced -> <<Parameter(<<"t">>)>>
          [] OTHER -> <<Literal(v)>>]

Path(pattern) == [source |-> "path", pattern |-> pattern]
Query(pattern) == [source |-> "query", pattern |-> pattern]
OnlyId(pattern) == [n \in {<<"id">>} |-> Path(pattern)]
IdAndTerm(p, q) == [n \in {<<"id">>, <<"t">>} |-> IF n = <<"id">> THEN Path(p) ELSE Query(q)]

Response ==
    [mode |-> "json", headers |-> <<>>, contentType |-> <<"application", "json">>,
     representations |-> <<>>, negotiateAccept |-> FALSE, serviceErrorStatuses |-> <<>>]
Policy ==
    [requestHeaders |-> <<>>, timeout |-> 1, maxRequestBodyBytes |-> 1, maxReplyBytes |-> 1,
     streamMode |-> "request_reply", coreSSE |-> Absent, security |-> Absent, response |-> Response]

Route(name, methods, path, subject, parameters) ==
    [name |-> name, methods |-> methods, path |-> path, subject |-> subject,
     parameters |-> parameters, policy |-> Policy]

id == Parameter(<<"id">>)
t == Parameter(<<"t">>)
a == Literal(A)
b == Literal(B)

Routes ==
    { Route("root", {"GET"}, <<>>, <<a>>, <<>>),
      Route("a", {"GET", "POST"}, <<a>>, <<a>>, <<>>),
      Route("id", {"GET"}, <<id>>, <<a, id>>, OnlyId(One)),
      Route("ab", {"GET"}, <<a, b>>, <<a, b>>, <<>>),
      Route("ida", {"GET"}, <<id, a>>, <<id, a>>, OnlyId(OneOrB)),
      Route("any", {"GET"}, <<id, a>>, <<a, id>>, OnlyId(AorB)),
      Route("aid", {"GET"}, <<a, id>>, <<id>>, OnlyId(AorB)),
      Route("idb", {"POST"}, <<id, b>>, <<id, b, t>>, IdAndTerm(AorB, OneOrB)),
      Route("twice", {"GET"}, <<id, id>>, <<id>>, OnlyId(One)),
      Route("unused", {"GET"}, <<a>>, <<a>>, OnlyId(One)),
      Route("undeclared", {"GET"}, <<a, id>>, <<a, id>>, <<>>) }
Guarded ==
    {Route("guarded", {"GET"}, <<id>>, <<id, t>>, ps) :
        ps \in {IdAndTerm(p, One) : p \in Patterns} \cup {IdAndTerm(One, p) : p \in Patterns}}

Connection ==
    [urls |-> <<"nats://h">>, username |-> "", password |-> "", connectTimeout |-> 1,
     reconnectWait |-> 1, maxReconnects |-> -1, drainTimeout |-> 1]

Bare == [authorization |-> <<>>, nkey |-> Absent, jwt |-> Absent, tls |-> Absent]
Request(method, path, query) ==
    [method |-> method, path |-> path, query |-> query, headers |-> <<>>, presentation |-> Bare]

Paths == {<<>>} \cup {<<e>> : e \in DOMAIN Unescaped \ {<<>>}}
         \cup {<<e, f>> : e \in {A, <<"%61">>, B, <<"1">>}, f \in {A, B, Braced}}
Requests ==
    {Request(m, p, q) : m \in {"GET", "POST"}, p \in Paths, q \in {<<>>, <<<<"1">>>>, <<Two>>, <<<<"1">>, <<"1">>>>}}
Single == {Request("GET", <<e>>, <<<<"1">>>>) : e \in DOMAIN Unescaped \ {<<>>}}
          \cup {Request("GET", <<<<"1">>>>, <<v>>) : v \in AllValues}

Input(rs, q) == [connection |-> Connection, routes |-> rs, request |-> q]

MatchingInputs ==
    {Input(rs, q) : q \in Requests,
                    rs \in {<<>>} \cup {<<r>> : r \in Routes} \cup {<<r, s>> : r \in Routes, s \in Routes}}
PatternInputs == {Input(<<r>>, q) : r \in Guarded, q \in Single}

----------------------------------------------------------------------------
(* Configurations.                                                         *)

Canonical == {"Accept", "Authorization", "Content-Type", "Nats-Msg", "Vary", "X-Request", "X-User"}
Protocol == {"Authorization", "Nats-Msg"}
Asserted == {"X-User"}

json == <<"application", "json">>
vnd == <<"application", "v+json">>
png == <<"image", "png">>
token == <<"png">>
Types == {json, vnd, png, token}
JSON == {json, vnd}

Stream ==
    [bufferMessages |-> 1, bufferBytes |-> 1, maxConnections |-> 1, heartbeatInterval |-> 1, maxDuration |-> 2]
Security(mechanism, identity) ==
    [mechanism |-> mechanism, maxCredentialBytes |-> 0, maxConnections |-> 1, idleTimeout |-> 1,
     maxLifetime |-> 1, identity |-> identity]
Identity(header) == [source |-> "nats_user_id", header |-> header, maxValueBytes |-> 2]

\* r changed in one field, to each of the values.
Changed(r, field, to) == {[r EXCEPT ![field] = v] : v \in to}

BadConnections ==
    Changed(Connection, "urls", {<<>>, <<"http://h">>}) \cup Changed(Connection, "username", {"u"})
    \cup Changed(Connection, "password", {"secret"})
    \cup Changed([Connection EXCEPT !.username = "u"], "password", {"secret", "{env.P}"})
    \cup UNION {Changed(Connection, f, {0}) : f \in {"connectTimeout", "reconnectWait", "drainTimeout"}}
    \cup Changed(Connection, "maxReconnects", {-2, 0})

BadStreams ==
    {[Policy EXCEPT !.streamMode = "core_sse", !.coreSSE = s] :
        s \in {Stream} \cup UNION {Changed(Stream, f, {0}) : f \in DOMAIN Stream}
              \cup Changed(Stream, "maxDuration", {1})}
    \cup Changed(Policy, "streamMode", {"core_sse", "jetstream_sse", ""})
    \cup Changed(Policy, "coreSSE", {Stream})

BadSecurities ==
    {[Policy EXCEPT !.security = s] :
        s \in Changed(Security("tls", Absent), "mechanism", {"", "nkey"})
              \cup Changed(Security("tls", Absent), "maxCredentialBytes", {-1, 1})
              \cup UNION {Changed(Security("tls", Absent), f, {0}) : f \in {"maxConnections", "idleTimeout", "maxLifetime"}}
              \cup {Security("tls", i) : i \in Changed(Identity("X-User"), "source", {"claims"})
                                              \cup Changed(Identity("X-User"), "maxValueBytes", {0})}}
    \cup {[Policy EXCEPT !.streamMode = "core_sse", !.coreSSE = Stream, !.security = Security("tls", Identity("X-User"))]}

Codes == {<<4>>, <<0>>, <<0, 7>>, <<Malformed>>, [i \in 1 .. MaxCodeDigits + 1 |-> 1]}
Only(code, status) == [c \in {code} |-> status]
BadResponses ==
    {[Policy EXCEPT !.response = r] :
        r \in Changed(Response, "mode", {"", "binary"}) \cup Changed(Response, "contentType", {<<>>, png, vnd})
              \cup Changed(Response, "representations", {<<vnd>>}) \cup Changed(Response, "negotiateAccept", {TRUE})
              \cup {[Response EXCEPT !.negotiateAccept = TRUE, !.representations = rs] : rs \in {<<png>>, <<json>>, <<vnd, vnd>>}}
              \cup {[Response EXCEPT !.serviceErrorStatuses = Only(c, 404)] : c \in Codes}
              \cup {[Response EXCEPT !.serviceErrorStatuses = Only(<<4>>, s)] : s \in {200, 399, 599, 600}}}
    \cup UNION {Changed(Policy, f, {0}) : f \in {"timeout", "maxRequestBodyBytes", "maxReplyBytes"}}

----------------------------------------------------------------------------
(* Exchanges.                                                              *)

Sent == [n \in Canonical \ {"Accept"} |-> <<n, "again">>]
Bearer == [Bare EXCEPT !.authorization = <<[scheme |-> "Bearer", text |-> <<"u">>, comma |-> FALSE]>>]
On(p, hs, presentation) ==
    Input(<<[Route("a", {"GET"}, <<a>>, <<a>>, <<>>) EXCEPT !.policy = p]>>,
          [Request("GET", <<A>>, <<>>) EXCEPT !.headers = hs, !.presentation = presentation])

ConfigurationInputs ==
    {On(p, Sent, Bare) : p \in BadStreams \cup BadSecurities \cup BadResponses}
    \cup {[On(Policy, Sent, Bare) EXCEPT !.connection = c] : c \in BadConnections}

Negotiating == [Response EXCEPT !.mode = "binary", !.negotiateAccept = TRUE, !.representations = <<vnd, png>>]

\* Every combination of forwarded, generated and negotiated headers.
HeaderInputs ==
    {On([Policy EXCEPT !.requestHeaders = hs, !.security = s, !.response = r],
        IF accept THEN Sent @@ ("Accept" :> <<<<[range |-> png, segments |-> <<>>]>>>>) ELSE Sent, Bearer) :
        hs \in {<<>>, <<"X-Request">>, <<"Accept", "X-Request">>, <<"X-Request", "X-Request">>,
                <<"x-request">>, <<"Authorization">>, <<"X-User">>, <<"Nats-Msg">>},
        s \in {Absent, Security("bearer_token", Absent)}
              \cup {Security("bearer_token", Identity(h)) : h \in {"X-User", "X-Request", "Accept", "Authorization", "x-request"}},
        r \in {Response, Negotiating}, accept \in BOOLEAN}

AnyUser == {<<>>, <<"u">>, <<"u", "v">>, <<"u", "u", "u">>, <<NUL>>, <<Undecodable>>}

Reply == [errors |-> <<>>, codes |-> <<>>, contentTypes |-> <<>>, json |-> TRUE, headers |-> <<>>]
SomeReplies ==
    {[Reply EXCEPT !.errors = e, !.codes = c] :
        e \in {<<>>, <<"failed">>, <<"failed", "twice">>, <<"">>, <<Malformed>>},
        c \in {<<>>, <<<<4>>>>, <<<<5>>>>, <<<<0, 7>>>>, <<<<4>>, <<4>>>>}}
    \cup {[Reply EXCEPT !.contentTypes = ts, !.json = j, !.headers = hs] :
        ts \in {<<>>, <<json>>, <<vnd>>, <<vnd, vnd>>}, j \in BOOLEAN,
        hs \in {<<>>, "X-Request" :> <<"r">> @@ "Vary" :> <<"Origin">> @@ "Set-Cookie" :> <<"c">>,
                "X-Request" :> <<"r", Malformed>>}}

\* Every kind of reply on every kind of response policy.
ReplyInputs ==
    {On([Policy EXCEPT !.response = [r EXCEPT !.headers = hs, !.serviceErrorStatuses = Only(<<4>>, 404)]],
        "Accept" :> <<<<[range |-> vnd, segments |-> <<>>]>>>>, Bare) :
        r \in {Response, Negotiating, [Negotiating EXCEPT !.mode = "json", !.representations = <<vnd>>]},
        hs \in {<<>>, <<"X-Request">>, <<"Content-Type", "Vary">>}}

Item(range, segments) == [range |-> range, segments |-> segments]
Segment(name, v) == [name |-> name, value |-> v]
q(v) == Segment("q", v)
level == Segment("level", "1")

\* Items that say something about the declared types, and items a parser stops at.
PlainItems ==
    {Item(r, s) : r \in {vnd, png, <<"application", "*">>, <<"*", "*">>},
                  s \in {<<>>, <<q(0)>>, <<q(500)>>, <<level, q(1000)>>}}
OddItems ==
    {Item(r, <<>>) : r \in {token, <<"*", "png">>, <<"text", "plain">>}}
    \cup {Item(png, <<Segment("level", "")>>)}
    \cup {Item(png, s) : s \in {<<q(Malformed)>>, <<q(NoValue)>>, <<q(0), q(1000)>>, <<q(500), level>>,
                                <<q(500), Segment("level", NoValue)>>, <<q(500), Segment("level", "")>>,
                                <<Segment("level", NoValue)>>, <<level, level>>, <<level, Segment("level", "2")>>}}
    \cup {Blank}
FewItems == {Item(png, <<q(500)>>), Item(<<"*", "*">>, <<q(0)>>), Item(<<"application", "*">>, <<>>)}

AcceptFields ==
    {<<>>, <<<<>>>>, <<<<>>, <<>>>>, <<Oversized>>}
    \cup {<<<<i>>>> : i \in PlainItems \cup OddItems}
    \cup {<<<<i, j>>>> : i \in PlainItems, j \in PlainItems \cup OddItems}
    \cup {<<<<i>>, <<j>>>> : i \in FewItems, j \in FewItems}
    \cup {<<<<i, j, k>>>> : i \in FewItems, j \in PlainItems, k \in FewItems}
    \cup {<<<<i, j>>, <<i, j>>>> : i \in FewItems, j \in FewItems}

NegotiationInputs ==
    {On([Policy EXCEPT !.response = Negotiating], "Accept" :> f, Bare) : f \in AcceptFields}

Texts(characters, lengths) == UNION {[1 .. n -> characters] : n \in lengths}
Value(scheme, text) == [scheme |-> scheme, text |-> text, comma |-> FALSE]
Basics == {Value("Basic", x) : x \in Texts({"u", ":", NUL}, 0 .. 4)}
Bearers == {Value("Bearer", x) : x \in Texts({"u", NUL, " ", Undecodable}, 0 .. 2) \cup {<<"u", "u", "u", "u">>}}
Token == Value("Bearer", <<"u">>)

NKeys == {Absent} \cup [publicKey : {<<"u">>, <<>>, <<" ">>}, sign : BOOLEAN]
JWTs == {Absent} \cup [jwt : {<<"u">>, <<NUL>>, Absent}, sign : BOOLEAN]
Certificates == {Absent} \cup [chain : {<<>>, <<"c">>, <<"d", "c">>}, privateKey : BOOLEAN]
Mixed == {[Bare EXCEPT !.authorization = v, !.nkey = n, !.jwt = j, !.tls = c] :
            v \in {<<>>, <<Token>>}, n \in {Absent, [publicKey |-> <<"u">>, sign |-> TRUE]},
            j \in {Absent, [jwt |-> <<"u">>, sign |-> TRUE]}, c \in {Absent, [chain |-> <<"c">>, privateKey |-> TRUE]}}
Presentations ==
    {[Bare EXCEPT !.authorization = v] :
        v \in {<<x>> : x \in Basics \cup Bearers} \cup {<<Token, Token>>, <<[Token EXCEPT !.comma = TRUE]>>,
                                                        <<Value("Digest", <<"u">>)>>}}
    \cup {[Bare EXCEPT !.nkey = x] : x \in NKeys} \cup {[Bare EXCEPT !.jwt = x] : x \in JWTs}
    \cup {[Bare EXCEPT !.tls = x] : x \in Certificates} \cup Mixed

CredentialInputs ==
    {On([Policy EXCEPT !.security = Security(m, Absent)], Sent, p) : m \in Mechanisms, p \in Presentations}

\* A response policy that declares a type without a slash.
TokenInputs ==
    {On([Policy EXCEPT !.response = [Negotiating EXCEPT !.representations = <<png, token>>]], "Accept" :> f, Bare) :
        f \in {<<>>, <<<<Blank>>>>, <<<<Item(png, <<>>)>>>>}}

----------------------------------------------------------------------------
AllInputs ==
    MatchingInputs \cup PatternInputs \cup ConfigurationInputs \cup HeaderInputs
        \cup ReplyInputs \cup NegotiationInputs \cup CredentialInputs \cup TokenInputs
=============================================================================
