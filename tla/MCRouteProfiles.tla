-------------------------- MODULE MCRouteProfiles --------------------------
(* Model-checking instances of RouteProfiles and CaddyfileAdapter.         *)
EXTENDS CaddyfileAdapter

CONSTANTS common, child, sibling, missing

OneParameter == [n \in {"id"} |-> "path"]

Security(mechanism, identity) ==
    [mechanism |-> mechanism, downstream_identity |-> identity]

\* Every kind of write, clear and extension, alone and combined.
OverrideSamples ==
    { NoOverride,
      [NoOverride EXCEPT !.timeout = 1, !.request_headers = <<"a">>, !.parameters = OneParameter],
      [NoOverride EXCEPT !.timeout = 2, !.clear = <<"timeout", "request_headers", "parameters">>],
      [NoOverride EXCEPT !.clear = <<"timeout", "request_headers">>,
                      !.extend = [request_headers |-> <<"b">>, parameters |-> OneParameter]],
      [NoOverride EXCEPT !.negotiate_accept = "true"],
      [NoOverride EXCEPT !.negotiate_accept = "false", !.timeout = 1],
      [NoOverride EXCEPT !.clear = <<"response.negotiate_accept">>],
      [NoOverride EXCEPT !.security_context = Security(1, [header |-> 1])],
      [NoOverride EXCEPT !.security_context = Security(0, [header |-> 0])],
      [NoOverride EXCEPT !.security_context = Security(2, None),
                      !.clear = <<"security_context.downstream_identity.header">>],
      [NoOverride EXCEPT !.security_context = Security(0, [header |-> 2]),
                      !.clear = <<"security_context">>],
      [NoOverride EXCEPT !.clear = <<"security_context.downstream_identity", "security_context.mechanism">>],
      [NoOverride EXCEPT !.clear = <<"security_context.mechanism", "security_context">>],
      [NoOverride EXCEPT !.clear = <<"path">>],
      [NoOverride EXCEPT !.clear = <<"timeout", "timeout">>] }

Profile(name, extends, override) ==
    [name |-> name, extends |-> extends, override |-> override, shareable |-> TRUE]

Configuration(profiles, profileUsed, override) ==
    [profiles |-> profiles, routes |-> <<[profile |-> profileUsed, override |-> override]>>]

\* A profile, a child of it and a route of the child: every combination of
\* overrides.
MergeConfigurations ==
    { Configuration(<<Profile(common, None, o1), Profile(child, common, o2)>>, child, o3) :
        o1 \in OverrideSamples, o2 \in OverrideSamples, o3 \in OverrideSamples }

\* Three profiles with every combination of extends links, used by one route.
Parents == {None, common, child, sibling, missing}

LinkConfigurations ==
    { Configuration(<<Profile(common, p1, [NoOverride EXCEPT !.timeout = 1]),
                      Profile(child, p2, [NoOverride EXCEPT !.clear = <<"timeout">>]),
                      Profile(last, p3, [NoOverride EXCEPT !.extend.request_headers = <<"b">>])>>,
                    used, NoOverride) :
        p1 \in Parents, p2 \in Parents, p3 \in Parents, last \in {sibling, common, None}, used \in Parents }
    \cup { Configuration(<<[Profile(common, None, NoOverride) EXCEPT !.shareable = FALSE]>>, common, NoOverride) }

Line(option, v) == [option |-> option, value |-> v, parses |-> TRUE]

\* One or two lines of every option, good and bad.
OptionLines ==
    { Line("use", child), Line("extends", common), Line("path", "/"), Line("timeout", 1),
      Line("timeout", 2), Line("clear", <<"timeout", "request_headers">>),
      Line("clear", <<"security_context.mechanism">>), Line("request_headers", <<"a">>),
      Line("request_headers", <<>>), Line("negotiate_accept", "true"),
      Line("negotiate_accept", "false"), Line("parameter", "id"), Line("parameter", "t"),
      Line("credential_mechanism", 1), Line("downstream_identity_header", 1),
      Line("extend_request_headers", <<"b">>), Line("extend_parameter", "id"),
      Line("extend_parameter", "t"), Line("bogus", 1), [Line("timeout", 1) EXCEPT !.parses = FALSE] }

RouteBlock(lines) == [kind |-> "route", name |-> "r", lines |-> lines]
ProfileBlock(n, lines) == [kind |-> "route_profile", name |-> n, lines |-> lines]
HandlerLine(option, ok) == [kind |-> "option", name |-> option, parses |-> ok]

\* Every route of up to three lines; every profile of one line under a child
\* and a route with one line each; handler options.
AllFiles ==
    { <<RouteBlock(ls)>> : ls \in {<<>>} \cup {<<l1, l2, l3>> : l1, l2, l3 \in OptionLines} }
    \cup { <<ProfileBlock(common, <<l1>>), RouteBlock(<<Line("use", child), l3>>),
             ProfileBlock(child, <<l2, Line("extends", common)>>)>> : l1, l2, l3 \in OptionLines }
    \cup { <<HandlerLine(o1, TRUE), HandlerLine(o2, ok), RouteBlock(<<>>)>> :
             o1, o2 \in {"nats_urls", "nats_user"}, ok \in BOOLEAN }

AllConfigurations == MergeConfigurations \cup LinkConfigurations
=============================================================================
