---------------------------- MODULE RouteProfiles ----------------------------
(***************************************************************************)
(* Resolution of route profiles into effective routes (profiles.go).       *)
(*                                                                         *)
(* resolvedRoutes walks the extends links depth first with a cache and a   *)
(* visiting mark, starting from the profiles in an arbitrary order (a Go   *)
(* map is iterated), and merges each profile over its parent.  A route     *)
(* value keeps one field of each kind the merge treats differently: a      *)
(* scalar (timeout), a list (request_headers), a map (parameters), a flag  *)
(* (negotiate_accept) and an optional object with a scalar and a further   *)
(* optional object in it (security_context); the other fields of a kind    *)
(* are merged by the same statement under another name.                    *)
(***************************************************************************)
EXTENDS Naturals, Sequences, FiniteSets, SequencesExt, Functions

CONSTANTS
    Configurations,  \* the sets of RouteProfiles and Routes to resolve
    HeaderNames,
    ParameterNames,
    None

VARIABLES
    config,    \* [profiles |-> h.RouteProfiles, routes |-> h.Routes]
    phase,     \* "declare", "profiles", "routes", "done" or "rejected"
    pending,   \* profiles the loop of lines 66-70 has not come to
    stack,     \* names in the active calls of resolveProfile, innermost last
    visiting,
    cache,
    resolved   \* effective routes so far

vars == <<config, phase, pending, stack, visiting, cache, resolved>>

\* A Go map from parameter names; what a parameter says is left out.
Maps == UNION {[S -> {"path"}] : S \in SUBSET ParameterNames}

\* DownstreamIdentity, SecurityContext and Route, as far as they are kept.
Identities == [header : Nat]

Securities == [mechanism : Nat, downstream_identity : Identities \cup {None}]

EffectiveRoutes ==
    [timeout : Nat, request_headers : Seq(HeaderNames), parameters : Maps,
     negotiate_accept : BOOLEAN, security_context : Securities \cup {None}]

\* A Route as it is written: what is not written is zero or None.
Overrides ==
    [timeout : Nat, request_headers : Seq(HeaderNames) \cup {None}, parameters : Maps \cup {None},
     negotiate_accept : {"true", "false", "omitted"}, security_context : Securities \cup {None},
     clear : Seq(STRING), extend : [request_headers : Seq(HeaderNames), parameters : Maps]]

WrittenAs(declarations) ==
    /\ declarations \in Seq(ToSet(declarations))
    /\ \A i \in DOMAIN declarations : declarations[i].override \in Overrides

ASSUME ProfilesAssumption ==
    /\ None \notin Seq(HeaderNames) /\ None \notin Maps
    /\ None \notin Identities /\ None \notin Securities
    /\ None \notin EffectiveRoutes /\ None \notin Seq(EffectiveRoutes)
    /\ \A c \in Configurations : WrittenAs(c.profiles) /\ WrittenAs(c.routes)

----------------------------------------------------------------------------
(* mergeRoute (lines 91-314).                                              *)

Map == [x \in {} |-> x]

EmptySecurity == [mechanism |-> 0, downstream_identity |-> None]

EmptyRoute ==
    [timeout |-> 0, request_headers |-> <<>>, parameters |-> Map,
     negotiate_accept |-> FALSE, security_context |-> None]

shareableRouteFields ==
    {"timeout", "request_headers", "parameters", "response.negotiate_accept",
     "security_context", "security_context.mechanism",
     "security_context.downstream_identity", "security_context.downstream_identity.header"}

ensureSecurityContext(route) ==
    IF route.security_context = None THEN EmptySecurity ELSE route.security_context

clearRouteField(route, field) ==
    LET security == ensureSecurityContext(route)
    IN  CASE field = "timeout" -> [route EXCEPT !.timeout = 0]
          [] field = "request_headers" -> [route EXCEPT !.request_headers = <<>>]
          [] field = "parameters" -> [route EXCEPT !.parameters = Map]
          [] field = "response.negotiate_accept" -> [route EXCEPT !.negotiate_accept = FALSE]
          [] field = "security_context" -> [route EXCEPT !.security_context = None]
          [] field = "security_context.mechanism" ->
                [route EXCEPT !.security_context = [security EXCEPT !.mechanism = 0]]
          [] field = "security_context.downstream_identity" ->
                [route EXCEPT !.security_context = [security EXCEPT !.downstream_identity = None]]
          [] OTHER ->
                [route EXCEPT !.security_context =
                    [security EXCEPT !.downstream_identity = [header |-> 0]]]

\* The fields of a clear list, one after the other.
Cleared(route, fields) ==
    LET cleared[i \in 0 .. Len(fields)] ==
            IF i = 0 THEN route ELSE clearRouteField(cleared[i - 1], fields[i])
    IN  cleared[Len(fields)]

\* A zero scalar, a missing list or map and a false flag are "not written".
Overridden(base, zero, value) == IF value = zero THEN base ELSE value

\* Mutant: a written identity object replaces the inherited one.
mergeIdentityReplaced(base, override) == IF override = None THEN base ELSE override

mergeIdentity(base, override) ==
    IF override = None THEN base
    ELSE [header |-> Overridden(IF base = None THEN 0 ELSE base.header, 0, override.header)]

mergeSecurityContext(route, override) ==
    LET base == ensureSecurityContext(route)
    IN  IF override = None THEN route.security_context
        ELSE [mechanism |-> Overridden(base.mechanism, 0, override.mechanism),
              downstream_identity |-> mergeIdentity(base.downstream_identity, override.downstream_identity)]

\* JSON decoding: an explicit false is the zero value, like an omitted flag.
decoded(flag) == flag = "true"

\* The union of two maps with disjoint domains.
Joined(f, g) == [x \in DOMAIN f \cup DOMAIN g |-> IF x \in DOMAIN f THEN f[x] ELSE g[x]]

MergedFields(base, override) ==
    [timeout |-> Overridden(base.timeout, 0, override.timeout),
     request_headers |-> Overridden(base.request_headers, None, override.request_headers),
     parameters |-> Overridden(base.parameters, None, override.parameters),
     negotiate_accept |-> base.negotiate_accept \/ decoded(override.negotiate_accept),
     security_context |-> mergeSecurityContext(base, override.security_context)]

extendRoute(route, extension) ==
    [route EXCEPT !.request_headers = @ \o extension.request_headers,
                  !.parameters = Joined(@, extension.parameters)]

\* Clear, override, extend; None stands for an error.
mergeRoute(base, override) ==
    LET merged == MergedFields(Cleared(base, override.clear), override)
    IN  IF /\ \A i \in DOMAIN override.clear : override.clear[i] \in shareableRouteFields
           /\ IsInjective(override.clear)
           /\ DOMAIN merged.parameters \cap DOMAIN override.extend.parameters = {}
        THEN extendRoute(merged, override.extend)
        ELSE None

----------------------------------------------------------------------------
(* resolvedRoutes (lines 21-89).                                           *)

Init ==
    /\ config \in Configurations
    /\ phase = "declare"
    /\ pending = {} /\ stack = <<>> /\ visiting = {} /\ cache = Map /\ resolved = <<>>

Names == {config.profiles[i].name : i \in DOMAIN config.profiles}

profile(name) == CHOOSE p \in ToSet(config.profiles) : p.name = name

Reject ==
    /\ phase' = "rejected"
    /\ UNCHANGED <<config, pending, stack, visiting, cache, resolved>>

\* Lines 22-34: names are unique and valid (the empty name, None, is not), and no
\* profile holds route-specific fields.
WellDeclared ==
    /\ None \notin Names
    /\ Cardinality(Names) = Len(config.profiles)
    /\ \A i \in DOMAIN config.profiles : config.profiles[i].shareable

Declare ==
    /\ phase = "declare"
    /\ \/ /\ WellDeclared
          /\ phase' = "profiles"
          /\ pending' = Names
          /\ UNCHANGED <<config, stack, visiting, cache, resolved>>
       \/ ~WellDeclared /\ Reject

\* Lines 66-70: the next profile of the map, in any order; a cached one
\* returns at once (lines 39-41).
ResolveNext(name) ==
    /\ phase = "profiles" /\ stack = <<>> /\ name \in pending
    /\ pending' = pending \ {name}
    /\ IF name \in DOMAIN cache
       THEN UNCHANGED <<stack, visiting>>
       ELSE stack' = <<name>> /\ visiting' = visiting \cup {name}
    /\ UNCHANGED <<config, phase, cache, resolved>>

Current == profile(Last(stack))

\* The mark of a name that is being resolved.
isVisiting(name) == name \in visiting

\* Mutant: an unknown parent is taken for an empty one.
ResolveParentUnknown ==
    /\ phase = "profiles" /\ stack # <<>>
    /\ Current.extends # None /\ Current.extends \notin DOMAIN cache
    /\ \/ /\ Current.extends \in Names /\ ~isVisiting(Current.extends)
          /\ stack' = Append(stack, Current.extends)
          /\ visiting' = visiting \cup {Current.extends}
          /\ UNCHANGED <<config, phase, pending, cache, resolved>>
       \/ /\ Current.extends \notin Names
          /\ cache' = Joined([n \in {Current.extends} |-> EmptyRoute], cache)
          /\ UNCHANGED <<config, phase, pending, stack, visiting, resolved>>
       \/ isVisiting(Current.extends) /\ Reject

\* Lines 52-57: the parent first, unless it is unknown or being visited.
ResolveParent ==
    /\ phase = "profiles" /\ stack # <<>>
    /\ Current.extends # None /\ Current.extends \notin DOMAIN cache
    /\ \/ /\ Current.extends \in Names /\ ~isVisiting(Current.extends)
          /\ stack' = Append(stack, Current.extends)
          /\ visiting' = visiting \cup {Current.extends}
          /\ UNCHANGED <<config, phase, pending, cache, resolved>>
       \/ /\ Current.extends \notin Names \/ isVisiting(Current.extends)
          /\ Reject

\* Lines 58-65: merge over the parent, unmark, cache, return.
MergeProfile ==
    /\ phase = "profiles" /\ stack # <<>>
    /\ Current.extends = None \/ Current.extends \in DOMAIN cache
    /\ LET base == IF Current.extends = None THEN EmptyRoute ELSE cache[Current.extends]
           result == mergeRoute(base, Current.override)
       IN  \/ result = None /\ Reject
           \/ /\ result # None
              /\ cache' = Joined([n \in {Current.name} |-> result], cache)
              /\ visiting' = visiting \ {Current.name}
              /\ stack' = Front(stack)
              /\ UNCHANGED <<config, phase, pending, resolved>>

ProfilesDone ==
    /\ phase = "profiles" /\ stack = <<>> /\ pending = {}
    /\ phase' = "routes"
    /\ UNCHANGED <<config, pending, stack, visiting, cache, resolved>>

\* Lines 71-87: one route after the other.
ResolveRoute ==
    /\ phase = "routes" /\ Len(resolved) < Len(config.routes)
    /\ LET route == config.routes[Len(resolved) + 1]
           base == IF route.profile = None THEN EmptyRoute ELSE cache[route.profile]
           known == route.profile = None \/ route.profile \in DOMAIN cache
       IN  \/ /\ known /\ mergeRoute(base, route.override) # None
              /\ resolved' = Append(resolved, mergeRoute(base, route.override))
              /\ UNCHANGED <<config, phase, pending, stack, visiting, cache>>
           \/ (known => mergeRoute(base, route.override) = None) /\ Reject

RoutesDone ==
    /\ phase = "routes" /\ Len(resolved) = Len(config.routes)
    /\ phase' = "done"
    /\ UNCHANGED <<config, pending, stack, visiting, cache, resolved>>

Next ==
    \/ Declare
    \/ \E name \in pending : ResolveNext(name)
    \/ ResolveParent
    \/ MergeProfile
    \/ ProfilesDone
    \/ ResolveRoute
    \/ RoutesDone

Spec == Init /\ [][Next]_vars

----------------------------------------------------------------------------
(* The reference: what a chain of overrides means, field by field.  The    *)
(* overrides of the chain, ancestor first, are a history of clear, write   *)
(* and extend events; the last event that touches a field decides it.      *)

\* The profiles on the way down to name, which has no others above it.
Chains(name) ==
    {chain \in SeqOf(Names, Cardinality(Names)) :
        /\ chain = <<>> <=> name = None
        /\ chain # <<>> => profile(chain[1]).extends = None /\ Last(chain) = name
        /\ \A i \in DOMAIN chain \ {1} : profile(chain[i]).extends = chain[i - 1]}

Event(op, field, value) == <<[op |-> op, field |-> field, value |-> value]>>

Written(field, zero, value) == IF value = zero THEN <<>> ELSE Event("write", field, value)

History(override) ==
    LET security == override.security_context
        identity == IF security = None THEN None ELSE security.downstream_identity
    IN  [i \in DOMAIN override.clear |-> Event("clear", override.clear[i], None)[1]]
        \o Written("timeout", 0, override.timeout)
        \o Written("request_headers", None, override.request_headers)
        \o Written("parameters", None, override.parameters)
        \o Written("response.negotiate_accept", "omitted", override.negotiate_accept)
        \o Written("security_context", None, security)
        \o Written("security_context.mechanism", 0, IF security = None THEN 0 ELSE security.mechanism)
        \o Written("security_context.downstream_identity", None, identity)
        \o Written("security_context.downstream_identity.header", 0,
                   IF identity = None THEN 0 ELSE identity.header)
        \o Event("extend", "request_headers", override.extend.request_headers)
        \o Event("extend", "parameters", override.extend.parameters)

Events(overrides) == FlattenSeq([i \in DOMAIN overrides |-> History(overrides[i])])

\* The fields inside each object.
Inside(field) ==
    CASE field = "security_context" ->
            {"security_context.mechanism", "security_context.downstream_identity",
             "security_context.downstream_identity.header"}
      [] field = "security_context.downstream_identity" ->
            {"security_context.downstream_identity.header"}
      [] OTHER -> {}

Empties(event, field) ==
    event.op = "clear" /\ (event.field = field \/ field \in Inside(event.field))

\* The last of some positions, 0 if there is none.
LastOf(positions) == IF positions = {} THEN 0 ELSE Max(positions)

Decides(event, field) ==
    \/ event.op = "write" /\ event.field = field
    \/ Empties(event, field)

LastEmptied(events, field) == LastOf({i \in DOMAIN events : Empties(events[i], field)})

Decisive(events, field) == LastOf({i \in DOMAIN events : Decides(events[i], field)})

ValueOf(events, field, zero) ==
    LET i == Decisive(events, field)
    IN  IF i = 0 \/ events[i].op = "clear" THEN zero ELSE events[i].value

Extends(event, field) == event.op = "extend" /\ event.field = field

\* A list is what was last written, followed by every later extension.
ListOf(events, field) ==
    LET last == Decisive(events, field)
    IN  ValueOf(events, field, <<>>)
        \o FlattenSeq([i \in 1 .. Len(events) - last |->
            IF Extends(events[last + i], field) THEN events[last + i].value ELSE <<>>])

\* The keys of a map: those last written, and those of every later extension.
KeysOf(events, field) ==
    LET later == Decisive(events, field) + 1 .. Len(events)
    IN  DOMAIN ValueOf(events, field, Map)
        \cup UNION {DOMAIN events[i].value : i \in {j \in later : Extends(events[j], field)}}

\* An object is present once anything in it was written, or cleared, since it
\* was itself last cleared.
Present(events, object) ==
    \E i \in LastEmptied(events, object) + 1 .. Len(events) :
        \/ events[i].field \in Inside(object)
        \/ events[i].field = object /\ events[i].op = "write"

\* What a history means, and what a route shows of it.
Meaning(events) ==
    [timeout |-> ValueOf(events, "timeout", 0),
     request_headers |-> ListOf(events, "request_headers"),
     parameters |-> KeysOf(events, "parameters"),
     negotiate_accept |-> ValueOf(events, "response.negotiate_accept", "omitted") = "true",
     security_context |-> Present(events, "security_context"),
     mechanism |-> ValueOf(events, "security_context.mechanism", 0),
     identity |-> Present(events, "security_context.downstream_identity"),
     header |-> ValueOf(events, "security_context.downstream_identity.header", 0)]

Observed(route) ==
    LET security == ensureSecurityContext(route)
        identity == security.downstream_identity
    IN  [timeout |-> route.timeout,
         request_headers |-> route.request_headers,
         parameters |-> DOMAIN route.parameters,
         negotiate_accept |-> route.negotiate_accept,
         security_context |-> route.security_context # None,
         mechanism |-> security.mechanism,
         identity |-> identity # None,
         header |-> IF identity = None THEN 0 ELSE identity.header]

OverridesOf(chain) == [i \in DOMAIN chain |-> profile(chain[i]).override]

\* The last word on the flag is an explicit false: a written flag is "true" or
\* "false".
FalseLast(events) ==
    LET i == Decisive(events, "response.negotiate_accept")
    IN  i # 0 /\ events[i].op = "write" /\ events[i].value # "true"

----------------------------------------------------------------------------
(* Properties.                                                             *)

\* Every effective route is, field by field, what its profile's chain and its
\* own override mean, whatever order the map was iterated in: the last event
\* that touches a field decides it ("A value written by a child profile or route
\* overrides the corresponding field", configuration.md:23-24).  One case is left
\* out, because the code contradicts these lines there: a negotiate_accept whose
\* last word is an explicit false is taken for one that is not written (line
\* 236), so that an inherited true survives it, and nothing is said of the flag
\* then.  The same holds of an explicit zero or empty scalar: Overrides has none.
RoutesAgree ==
    \A i \in DOMAIN resolved : \E chain \in Chains(config.routes[i].profile) :
        LET events == Events(Append(OverridesOf(chain), config.routes[i].override))
            meant == Meaning(events)
        IN  Observed(resolved[i]) =
                IF FalseLast(events)
                THEN [meant EXCEPT !.negotiate_accept = resolved[i].negotiate_accept]
                ELSE meant

\* A configuration with a cycle or an unknown parent anywhere is rejected, also
\* when no route uses it, and wherever the iteration starts: some profile of
\* every set of profiles has no parent in the set.
BrokenChainsRejected ==
    phase \in {"routes", "done"} =>
        /\ \A name \in Names : profile(name).extends \in Names \cup {None}
        /\ \A some \in (SUBSET Names) \ {{}} :
            \E name \in some : profile(name).extends \notin some
=============================================================================
