---------------------------- MODULE RoutePolicy ----------------------------
(***************************************************************************)
(* What Provision demands of a configuration besides matching routes: the  *)
(* validate methods of config.go for the operator connection, for streams, *)
(* for security contexts and for the policy fields of a route.             *)
(*                                                                         *)
(* Header names, media types and URLs are atoms; the constants say which   *)
(* of them are well formed and which the code treats specially.  An ADR-32 *)
(* code is the sequence of its characters.                                 *)
(***************************************************************************)
EXTENDS Integers, Sequences, FiniteSets, SequencesExt, Functions

CONSTANTS
    HeaderNames,     \* valid header names in canonical form
    ProtocolNames,   \* credentials, cookies, hop-by-hop, nats-* and x-nats-*
    AssertedNames,   \* X-User, X-Tenant, X-Authenticated and what begins so
    MediaTypes,      \* canonical media types without parameters
    JSONTypes,       \* those with application/json or a +json subtype
    ServerURLs,      \* absolute nats, tls, ws and wss URLs without credentials
    SecretPlaceholders,  \* {env.NAME}
    Absent           \* an optional part that is not configured

Mechanisms == {"bearer_token", "user_password", "nkey", "nkey_jwt", "tls"}
MaxCodeDigits == 10

\* NATSConnection.validate.
validateConnection(connection) ==
    /\ connection.urls # <<>> /\ Range(connection.urls) \subseteq ServerURLs
    /\ (connection.username = "") = (connection.password = "")
    /\ connection.password = "" \/ connection.password \in SecretPlaceholders
    /\ connection.connectTimeout > 0 /\ connection.reconnectWait > 0
    /\ connection.maxReconnects >= -1
    /\ connection.drainTimeout > 0

\* CoreSSE.validate.
validateStream(stream) ==
    /\ stream.bufferMessages > 0 /\ stream.bufferBytes > 0 /\ stream.maxConnections > 0
    /\ stream.heartbeatInterval > 0 /\ stream.maxDuration > 0
    /\ stream.heartbeatInterval < stream.maxDuration

\* Mutant: the credential of the request is missing in the list.
forbiddenHeaderNotCredential(header) ==
    header \in (ProtocolNames \cup AssertedNames) \ {"Authorization"}

forbiddenHeader(header) == header \in ProtocolNames \cup AssertedNames

\* The identity header may have a name callers must not use.
forbiddenGeneratedIdentityHeader(header) == header \in ProtocolNames

validateHeaderList(headers) ==
    /\ IsInjective(headers)
    /\ \A header \in Range(headers) : header \in HeaderNames /\ ~forbiddenHeader(header)

\* DownstreamIdentity.validate.
validateIdentity(identity) ==
    /\ identity.source = "nats_user_id"
    /\ identity.header \in HeaderNames /\ ~forbiddenGeneratedIdentityHeader(identity.header)
    /\ identity.maxValueBytes > 0

\* SecurityContext.validate, with Adapter.Validate.
validateSecurity(security) ==
    /\ security.mechanism \in Mechanisms /\ security.maxCredentialBytes >= 0
    /\ security.maxConnections > 0 /\ security.idleTimeout > 0 /\ security.maxLifetime > 0
    /\ security.identity # Absent => validateIdentity(security.identity)

\* Lines 294-304 of Route.validate: an identity only goes with request/reply,
\* and its header is not forwarded from the client.
validateSecurityUse(policy) ==
    policy.security # Absent =>
        /\ validateSecurity(policy.security)
        /\ policy.security.identity # Absent =>
            /\ policy.streamMode = "request_reply"
            /\ policy.security.identity.header \notin Range(policy.requestHeaders)

\* Lines 278-293: core_sse comes with its own policy; jetstream_sse is refused.
validateStreamMode(policy) ==
    \/ policy.streamMode = "request_reply" /\ policy.coreSSE = Absent
    \/ policy.streamMode = "core_sse" /\ policy.coreSSE # Absent /\ validateStream(policy.coreSSE)

\* Positive, decimal, without leading zeros; anything longer would not be a code.
validServiceErrorCode(code) ==
    /\ Len(code) \in 1 .. MaxCodeDigits
    /\ Range(code) \subseteq 0 .. 9
    /\ code[1] # 0

declared(response) == <<response.contentType>> \o response.representations

\* Lines 305-349: the response part of Route.validate.
validateResponse(response) ==
    /\ response.mode \in {"json", "binary"}
    /\ validateHeaderList(response.headers)
    /\ Range(declared(response)) \subseteq IF response.mode = "json" THEN JSONTypes ELSE MediaTypes
    /\ response.negotiateAccept <=> response.representations # <<>>
    /\ IsInjective(declared(response))
    /\ \A code \in DOMAIN response.serviceErrorStatuses :
        validServiceErrorCode(code) /\ response.serviceErrorStatuses[code] \in 400 .. 599

\* Lines 266-349 of Route.validate.
validatePolicy(policy) ==
    /\ validateHeaderList(policy.requestHeaders)
    /\ policy.timeout > 0 /\ policy.maxRequestBodyBytes > 0 /\ policy.maxReplyBytes > 0
    /\ validateStreamMode(policy)
    /\ validateSecurityUse(policy)
    /\ validateResponse(policy.response)
=============================================================================
