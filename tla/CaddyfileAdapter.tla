-------------------------- MODULE CaddyfileAdapter --------------------------
(***************************************************************************)
(* From configuration text to served routes: UnmarshalCaddyfile reads one  *)
(* option after the other into the handler, resolves the profiles and      *)
(* emits the effective routes; Provision later resolves what was emitted,  *)
(* or a configuration written in JSON, (again) with RouteProfiles.         *)
(*                                                                         *)
(* A file is a sequence of blocks (route, route_profile or a handler       *)
(* option); a line of a block is an option, its value, and whether its     *)
(* arguments parse.  There is one option of each kind that unmarshalRoute  *)
(* treats differently, for the fields that RouteProfiles keeps.            *)
(***************************************************************************)
EXTENDS RouteProfiles

CONSTANT Files   \* the Caddyfiles to adapt

\* What the arguments of an option parse to.
ValuesFor(option) ==
    CASE option \in {"timeout", "credential_mechanism", "downstream_identity_header"} -> Nat
      [] option = "clear" -> Seq(STRING) \ {<<>>}
      [] option \in {"request_headers", "extend_request_headers"} -> Seq(HeaderNames)
      [] option = "negotiate_accept" -> {"true", "false"}
      [] option \in {"parameter", "extend_parameter"} -> ParameterNames

LineOptions ==
    {"clear", "timeout", "request_headers", "negotiate_accept", "credential_mechanism",
     "downstream_identity_header", "extend_request_headers", "parameter", "extend_parameter"}

ASSUME FilesAssumption ==
    \A f \in Files :
        /\ f \in Seq(ToSet(f))
        /\ \A k \in DOMAIN f :
            /\ f[k].kind \in {"route", "route_profile", "option"}
            /\ f[k].kind # "option" =>
                /\ f[k].lines \in Seq(ToSet(f[k].lines))
                /\ \A i \in DOMAIN f[k].lines :
                    f[k].lines[i].option \in LineOptions /\ f[k].lines[i].parses =>
                        f[k].lines[i].value \in ValuesFor(f[k].lines[i].option)

VARIABLES
    file,      \* the blocks; empty for a JSON configuration
    block,     \* the block being read
    line,      \* the next line of it, 0 before its name is read
    route,     \* the Route of unmarshalRoute
    seen,      \* seenOptions of unmarshalRoute
    natsSeen,  \* seenOptions of UnmarshalCaddyfile
    adapted    \* the effective routes UnmarshalCaddyfile emitted, or None

reading == <<block, line, route, seen, natsSeen>>
resolution == <<pending, stack, visiting, cache, resolved>>
adapterVars == <<vars, file, reading, adapted>>

NoOverride ==
    [timeout |-> 0, request_headers |-> None, parameters |-> None,
     negotiate_accept |-> "omitted", security_context |-> None, clear |-> <<>>,
     extend |-> [request_headers |-> <<>>, parameters |-> Map]]

\* The zero value is omitted from JSON, and a list of no arguments is nil.
Omitted(value, zero) == IF value = zero THEN None ELSE value

\* A Route before any option: link is Route.Profile, specific is set by path,
\* methods and the like.
EmptyBlock == [link |-> None, specific |-> FALSE, override |-> NoOverride]

Reading(blocks) ==
    /\ file = blocks /\ block = 1 /\ line = 0
    /\ route = EmptyBlock /\ seen = {} /\ natsSeen = {} /\ adapted = None

AdapterInit ==
    \/ Init /\ Reading(<<>>)
    \/ /\ \E f \in Files : Reading(f)
       /\ config = [profiles |-> <<>>, routes |-> <<>>]
       /\ phase = "read"
       /\ pending = {} /\ stack = <<>> /\ visiting = {} /\ cache = Map /\ resolved = <<>>

----------------------------------------------------------------------------
(* unmarshalRoute (lines 742-955).                                         *)

Block == file[block]

\* These options may be repeated; each checks its own key.
Repeatable == {"parameter", "extend_parameter"}

\* Mutant: seenOptions is not consulted.
DuplicateNever(l) == FALSE

Duplicate(l) ==
    CASE l.option = "parameter" ->
            route.override.parameters # None /\ l.value \in DOMAIN route.override.parameters
      [] l.option = "extend_parameter" -> l.value \in DOMAIN route.override.extend.parameters
      [] OTHER -> l.option \in seen

Known == {"use", "extends", "path"} \cup LineOptions

\* An option is refused when it is unknown, repeated or has bad arguments.
Acceptable(l) == l.option \in Known /\ ~Duplicate(l) /\ l.parses

ensureDownstreamIdentity(security) ==
    IF security.downstream_identity = None THEN [header |-> 0] ELSE security.downstream_identity

WithParameter(map, name) == Joined([n \in {name} |-> "path"], map)

\* The override once line l has been stored in it.
Stored(o, l) ==
    LET security == ensureSecurityContext(o)
    IN  CASE l.option = "clear" -> [o EXCEPT !.clear = l.value]
          [] l.option = "timeout" -> [o EXCEPT !.timeout = l.value]
          [] l.option = "request_headers" ->
                [o EXCEPT !.request_headers = Omitted(l.value, <<>>)]
          [] l.option = "negotiate_accept" -> [o EXCEPT !.negotiate_accept = l.value]
          [] l.option = "parameter" ->
                [o EXCEPT !.parameters =
                    WithParameter(IF o.parameters = None THEN Map ELSE o.parameters, l.value)]
          [] l.option = "credential_mechanism" ->
                [o EXCEPT !.security_context = [security EXCEPT !.mechanism = l.value]]
          [] l.option = "downstream_identity_header" ->
                [o EXCEPT !.security_context =
                    [security EXCEPT !.downstream_identity =
                        [ensureDownstreamIdentity(security) EXCEPT !.header = l.value]]]
          [] l.option = "extend_request_headers" ->
                [o EXCEPT !.extend = [o.extend EXCEPT !.request_headers = l.value]]
          [] l.option = "extend_parameter" ->
                [o EXCEPT !.extend =
                    [o.extend EXCEPT !.parameters = WithParameter(o.extend.parameters, l.value)]]
          [] OTHER -> o

\* One turn of the loop: use and extends both set Route.Profile.
ReadOption ==
    LET l == Block.lines[line]
    IN  /\ phase = "read" /\ block <= Len(file) /\ line > 0 /\ line <= Len(Block.lines)
        /\ \/ /\ Acceptable(l)
              /\ route' = [link |-> IF l.option \in {"use", "extends"} THEN l.value ELSE route.link,
                           specific |-> route.specific \/ l.option = "path",
                           override |-> Stored(route.override, l)]
              /\ seen' = seen \cup {l.option}
              /\ line' = line + 1
              /\ UNCHANGED <<vars, block, natsSeen>>
           \/ ~Acceptable(l) /\ Reject /\ UNCHANGED reading
        /\ UNCHANGED <<file, adapted>>

----------------------------------------------------------------------------
(* UnmarshalCaddyfile (lines 647-727).                                     *)

\* A route or route_profile begins: a new Route and new seenOptions.
BeginRoute ==
    /\ phase = "read" /\ block <= Len(file) /\ line = 0
    /\ Block.kind # "option"
    /\ route' = EmptyBlock /\ seen' = {} /\ line' = 1
    /\ UNCHANGED <<vars, file, block, natsSeen, adapted>>

\* An option of the handler: known, once, and with good arguments.
HandlerOption ==
    /\ phase = "read" /\ block <= Len(file) /\ line = 0
    /\ Block.kind = "option"
    /\ \/ /\ Block.parses /\ Block.name \notin natsSeen
          /\ natsSeen' = natsSeen \cup {Block.name}
          /\ block' = block + 1
          /\ UNCHANGED <<vars, line, route, seen>>
       \/ ~(Block.parses /\ Block.name \notin natsSeen) /\ Reject /\ UNCHANGED reading
    /\ UNCHANGED <<file, adapted>>

EndRoute ==
    /\ phase = "read" /\ block <= Len(file) /\ line > 0 /\ line > Len(Block.lines)
    /\ config' =
        IF Block.kind = "route"
        THEN [config EXCEPT !.routes =
                Append(@, [profile |-> route.link, override |-> route.override])]
        ELSE [config EXCEPT !.profiles =
                Append(@, [name |-> Block.name, extends |-> route.link,
                           override |-> route.override, shareable |-> ~route.specific])]
    /\ block' = block + 1 /\ line' = 0
    /\ UNCHANGED <<phase, resolution, file, route, seen, natsSeen, adapted>>

\* The file is read: Validate resolves the routes (what validateRoutes demands
\* of them is the subject of RouteMatching and Exchange).
EndFile ==
    /\ phase = "read" /\ block > Len(file)
    /\ phase' = "declare"
    /\ UNCHANGED <<config, resolution, file, reading, adapted>>

\* Mutant: the emitted routes keep their extensions.
EmittedExtending(r, original) ==
    [profile |-> None,
     override |->
        [NoOverride EXCEPT
            !.timeout = r.timeout,
            !.request_headers = Omitted(r.request_headers, <<>>),
            !.parameters = Omitted(r.parameters, Map),
            !.negotiate_accept = IF r.negotiate_accept THEN "true" ELSE "omitted",
            !.security_context = r.security_context,
            !.extend = original.extend]]

\* An effective route as a configuration again, through JSON: zero values are
\* omitted, and profile, clear and extend have been emptied (profiles.go 86).
Emitted(r, original) ==
    [profile |-> None,
     override |->
        [NoOverride EXCEPT
            !.timeout = r.timeout,
            !.request_headers = Omitted(r.request_headers, <<>>),
            !.parameters = Omitted(r.parameters, Map),
            !.negotiate_accept = IF r.negotiate_accept THEN "true" ELSE "omitted",
            !.security_context = r.security_context]]

\* Lines 719-727: the effective routes replace routes and profiles; Caddy loads
\* the handler from them, and Provision resolves them.
Emit ==
    /\ phase = "done" /\ file # <<>> /\ adapted = None
    /\ adapted' = resolved
    /\ config' = [profiles |-> <<>>,
                  routes |-> [i \in DOMAIN resolved |->
                                Emitted(resolved[i], config.routes[i].override)]]
    /\ phase' = "declare"
    /\ cache' = Map /\ resolved' = <<>>
    /\ UNCHANGED <<pending, stack, visiting, file, reading>>

AdapterNext ==
    \/ BeginRoute
    \/ HandlerOption
    \/ ReadOption
    \/ EndRoute
    \/ EndFile
    \/ Emit
    \/ Next /\ UNCHANGED <<file, reading, adapted>>

AdapterSpec == AdapterInit /\ [][AdapterNext]_adapterVars

----------------------------------------------------------------------------
(* Properties.                                                             *)

\* The lines with an option, and their values.
LinesWith(lines, option) == {i \in DOMAIN lines : lines[i].option = option}

ValuesOf(lines, option) == {lines[i].value : i \in LinesWith(lines, option)}

\* The value written for an option, whatever the position of its line.
WrittenFor(lines, option, default) ==
    IF LinesWith(lines, option) = {} THEN default ELSE CHOOSE v \in ValuesOf(lines, option) : TRUE

\* What the lines of a block say, read as a set: no line is a repetition, and
\* every field holds what its line says, in whatever order the lines stand.
AsWritten(lines, o) ==
    /\ \A i, j \in DOMAIN lines :
        i # j /\ lines[i].option = lines[j].option =>
            lines[i].option \in Repeatable /\ lines[i].value # lines[j].value
    /\ o.timeout = WrittenFor(lines, "timeout", 0)
    /\ o.clear = WrittenFor(lines, "clear", <<>>)
    /\ o.negotiate_accept = WrittenFor(lines, "negotiate_accept", "omitted")
    /\ o.request_headers = Omitted(WrittenFor(lines, "request_headers", <<>>), <<>>)
    /\ (IF o.parameters = None THEN {} ELSE DOMAIN o.parameters) = ValuesOf(lines, "parameter")
    /\ o.extend.request_headers = WrittenFor(lines, "extend_request_headers", <<>>)
    /\ DOMAIN o.extend.parameters = ValuesOf(lines, "extend_parameter")
    /\ (o.security_context # None) =
        (LinesWith(lines, "credential_mechanism") \cup LinesWith(lines, "downstream_identity_header") # {})
    /\ o.security_context # None =>
        /\ o.security_context.mechanism = WrittenFor(lines, "credential_mechanism", 0)
        /\ o.security_context.downstream_identity =
            IF LinesWith(lines, "downstream_identity_header") = {} THEN None
            ELSE [header |-> WrittenFor(lines, "downstream_identity_header", 0)]

\* The position of block k among the blocks of its kind.
Place(k) == Cardinality({j \in 1 .. k : file[j].kind = file[k].kind})

\* Every block that has been read means what its lines say: no option silently
\* overwrites, drops or leaks into another, of its own block or of an earlier
\* one (config.go 742-955).
BlocksAsWritten ==
    adapted = None =>
        \A k \in 1 .. block - 1 :
            /\ file[k].kind = "route" => AsWritten(file[k].lines, config.routes[Place(k)].override)
            /\ file[k].kind = "route_profile" => AsWritten(file[k].lines, config.profiles[Place(k)].override)

\* What an operator inspects after adaptation is what will serve traffic
\* (config.go 719-720): Provision accepts the emitted routes and resolves them
\* to the same effective routes.
AdaptationStable ==
    adapted # None =>
        /\ phase # "rejected"
        /\ \A i \in DOMAIN resolved : resolved[i] = adapted[i]
=============================================================================
