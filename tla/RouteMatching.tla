---------------------------- MODULE RouteMatching ----------------------------
(***************************************************************************)
(* Declared routes: which configurations are accepted (validateRoutes in   *)
(* config.go) and what ServeHTTP makes of a request (internal/routes).     *)
(*                                                                         *)
(* Templates are sequences of literal and parameter segments; a subject    *)
(* template's segments are the tokens between its dots.  TokensOf says     *)
(* which tokens a value turns into when it is put into a subject, Decode   *)
(* what an escaped path segment unescapes to.  The fields of a route that  *)
(* matching does not look at are its policy.                               *)
(***************************************************************************)
EXTENDS ParameterPatterns, RoutePolicy

CONSTANTS
    Inputs,    \* [connection, routes (a sequence), request]
    Decode,    \* escaped path segment -> value (url.PathUnescape; EscapedPath is well formed)
    TokensOf,  \* value -> the tokens it becomes inside a subject
    None

VARIABLES
    input,
    phase,    \* "validate", "serve", or "end"
    next,     \* the candidate the loop of ServeHTTP is at
    outcome,  \* None, "rejected", "bad request", "fallthrough" or "subject"
    result    \* the subject that was built

vars == <<input, phase, next, outcome, result>>

routes == input.routes
request == input.request

Literal(name) == [kind |-> "literal", name |-> name]
Parameter(name) == [kind |-> "parameter", name |-> name]

IsTemplate(t) ==
    IsSequence(t) /\ \A j \in DOMAIN t : t[j] \in {Literal(t[j].name), Parameter(t[j].name)}

\* Routes and the segments of a path are slices; a segment is a literal or, for
\* placeholderName, a parameter.  A value without dots and braces is one token.
ASSUME MatchingAssumption ==
    /\ None \notin {"rejected", "bad request", "fallthrough", "subject"}
    /\ \A i \in Inputs :
        /\ IsSequence(i.routes)
        /\ \A k \in DOMAIN i.routes :
            LET route == i.routes[k]
            IN  /\ IsTemplate(route.path) /\ IsTemplate(route.subject)
                /\ \A name \in DOMAIN route.parameters :
                    route.parameters[name].pattern \in Expressions
        /\ IsSequence(i.request.path) /\ i.request.query \in Seq(Values)
        /\ \A j \in DOMAIN i.request.path : Decode[i.request.path[j]] \in Values
    /\ \A v \in Values :
        v # <<>> /\ Range(v) \subseteq Safe => TokensOf[v] = <<Literal(v)>>

ParametersIn(template) ==
    {template[i].name : i \in {j \in DOMAIN template : template[j].kind = "parameter"}}

----------------------------------------------------------------------------
(* Configuration.                                                          *)

\* validateTemplate: no parameter occurs twice.
validateTemplate(template) ==
    \A i, j \in DOMAIN template :
        template[i].kind = "parameter" /\ template[i] = template[j] => i = j

\* validateParameters: the declared parameters are the used ones, exactly those
\* of the path have a path source, and each has a safe, anchored pattern.
validateParameters(route) ==
    /\ DOMAIN route.parameters = ParametersIn(route.path) \cup ParametersIn(route.subject)
    /\ \A name \in DOMAIN route.parameters :
        /\ route.parameters[name].source \in {"path", "query"}
        /\ route.parameters[name].source = "path" <=> name \in ParametersIn(route.path)
        /\ Anchored(route.parameters[name].pattern)
        /\ validateSafeParameterPattern(route.parameters[name].pattern)

\* Route.validate: the methods are a set, so that none is declared twice.
validateRoute(route) ==
    /\ validateTemplate(route.path)
    /\ route.methods # {}
    /\ route.subject # <<>> /\ validateTemplate(route.subject)
    /\ validateParameters(route)
    /\ validatePolicy(route.policy)

methodsOverlap(left, right) == left \cap right # {}

\* Mutant: a parameter overlaps only with a parameter.
pathsOverlapKinds(left, right) ==
    /\ Len(left) = Len(right)
    /\ \A i \in DOMAIN left :
        left[i].kind = right[i].kind /\ (left[i].kind = "literal" => left[i] = right[i])

\* pathsOverlap: two paths some request could match both of.
pathsOverlap(left, right) ==
    /\ Len(left) = Len(right)
    /\ \A i \in DOMAIN left :
        left[i].kind = "literal" /\ right[i].kind = "literal" => left[i] = right[i]

validateRoutes ==
    /\ routes # <<>>
    /\ \A i \in DOMAIN routes : validateRoute(routes[i])
    /\ \A i \in DOMAIN routes : \A j \in 1 .. i - 1 :
        /\ routes[i].name # routes[j].name
        /\ ~(methodsOverlap(routes[i].methods, routes[j].methods)
             /\ pathsOverlap(routes[i].path, routes[j].path))

----------------------------------------------------------------------------
(* Route.Match.                                                            *)

\* Lines 48-62: whether segment i of the path takes the decoded value.
Takes(route, i) ==
    LET value == Decode[request.path[i]]
    IN  IF route.path[i].kind = "literal"
        THEN route.path[i].name = value
        ELSE matchesEntireValue(route.parameters[route.path[i].name].pattern, value)

Fails(route) == {i \in DOMAIN route.path : ~Takes(route, i)}

QueryParameters(route) ==
    {name \in DOMAIN route.parameters : route.parameters[name].source = "query"}

\* Lines 64-73: exactly one value, and the pattern accepts it.  The values of
\* the one query name in use are request.query.
QueryTaken(route) ==
    \A name \in QueryParameters(route) :
        LET items == request.query
        IN  Len(items) = 1 /\ matchesEntireValue(route.parameters[name].pattern, items[1])

SameShape(route) ==
    request.method \in route.methods /\ Len(route.path) = Len(request.path)

\* "no": not this route; "invalid": matched, ErrInvalidParameter; "yes".  The
\* first segment that does not fit decides.
Match(route) ==
    IF ~SameShape(route) THEN "no"
    ELSE IF Fails(route) # {}
    THEN LET first == CHOOSE i \in Fails(route) : \A j \in Fails(route) : i <= j
         IN  IF route.path[first].kind = "literal" THEN "no" ELSE "invalid"
    ELSE IF QueryTaken(route) THEN "yes" ELSE "invalid"

\* The value of a parameter of a matching request.
value(route, name) ==
    IF name \in QueryParameters(route) THEN request.query[1]
    ELSE Decode[request.path[CHOOSE i \in DOMAIN route.path : route.path[i] = Parameter(name)]]

Substituted(subject, name, with) ==
    FlattenSeq([i \in DOMAIN subject |->
        IF subject[i] = Parameter(name) THEN with ELSE <<subject[i]>>])

\* Lines 74-77: the values are put in one after the other, in the order a Go
\* map is iterated in.
Subject(route, order) ==
    LET after[n \in 0 .. Len(order)] ==
            IF n = 0 THEN route.subject
            ELSE Substituted(after[n - 1], order[n], TokensOf[value(route, order[n])])
    IN  after[Len(order)]

Orders(names) == {f \in [1 .. Cardinality(names) -> names] : Range(f) = names}

----------------------------------------------------------------------------
Init ==
    /\ input \in Inputs
    /\ phase = "validate" /\ next = 1 /\ outcome = None /\ result = <<>>

End(what) == phase' = "end" /\ outcome' = what

\* Handler.Validate; the routes are resolved (RouteProfiles).
Valid == validateConnection(input.connection) /\ validateRoutes

\* Provision: an invalid configuration is never served.
Validate ==
    /\ phase = "validate"
    /\ \/ Valid /\ phase' = "serve" /\ UNCHANGED outcome
       \/ ~Valid /\ End("rejected")
    /\ UNCHANGED <<input, next, result>>

\* One turn of the loop in ServeHTTP.
TryCandidate ==
    /\ phase = "serve" /\ next <= Len(routes)
    /\ LET route == routes[next]
       IN  \/ /\ Match(route) = "no"
              /\ next' = next + 1
              /\ UNCHANGED <<phase, outcome, result>>
           \/ Match(route) = "invalid" /\ End("bad request") /\ UNCHANGED <<next, result>>
           \/ /\ Match(route) = "yes"
              /\ \E order \in Orders(DOMAIN route.parameters) : result' = Subject(route, order)
              /\ End("subject")
              /\ UNCHANGED next
    /\ UNCHANGED input

FallThrough ==
    /\ phase = "serve" /\ next > Len(routes)
    /\ End("fallthrough")
    /\ UNCHANGED <<input, next, result>>

Next == Validate \/ TryCandidate \/ FallThrough

Spec == Init /\ [][Next]_vars

----------------------------------------------------------------------------
(* Properties.                                                             *)

\* The reference.  A declared method and path match a request whatever its
\* parameters are; an accepted request has good ones too; and a bad parameter
\* counts once every earlier segment fits, the query's once the whole path does.
Matches(route) ==
    SameShape(route) /\ \A i \in DOMAIN route.path : route.path[i].kind = "literal" => Takes(route, i)

Accepts(route) == SameShape(route) /\ Fails(route) = {} /\ QueryTaken(route)

Rejects(route) ==
    /\ SameShape(route)
    /\ \/ \E i \in Fails(route) :
            route.path[i].kind = "parameter" /\ \A j \in 1 .. i - 1 : j \notin Fails(route)
       \/ Fails(route) = {} /\ ~QueryTaken(route)

\* The declared method and path of at most one route of an accepted
\* configuration match a request (validateRoutes), in whatever order they are
\* declared.  That route decides the subject; a request falls through to Caddy
\* only when no declared method and path match it (configuration.md:7-9); and a
\* 400 is for a bad parameter of a route that no matching route comes before.
\* Nothing is said of a matching route that comes after it.  "A matching path
\* with invalid input returns an error" (routes.go:36-37), but line 59 judges a
\* parameter before the literals that follow it, so that a route whose path does
\* not match may answer 400 and hide the later one that takes the request.
OneRouteAccepts ==
    phase # "validate" /\ outcome # "rejected" =>
        LET matching == {i \in DOMAIN routes : Matches(routes[i])}
        IN  /\ Cardinality(matching) <= 1
            /\ outcome = "subject" => matching = {next} /\ Accepts(routes[next])
            /\ outcome = "fallthrough" => matching = {}
            /\ outcome = "bad request" =>
                Rejects(routes[next]) /\ \A i \in matching : next <= i

\* The subject has the tokens of the declared template, each parameter replaced
\* by one token, its value, of safe characters only: no pattern that is accepted
\* (safePatternMinimumLength) and no order of substitution (lines 74-77) lets a
\* value add tokens, be empty, or be taken for another placeholder.
SubjectAsDeclared ==
    outcome = "subject" =>
        LET template == routes[next].subject
        IN  /\ Len(result) = Len(template)
            /\ \A i \in DOMAIN template :
                IF template[i].kind = "literal" THEN result[i] = template[i]
                ELSE LET taken == value(routes[next], template[i].name)
                     IN  /\ result[i] = Literal(taken)
                         /\ taken # <<>> /\ Range(taken) \subseteq Safe

=============================================================================
