------------------------------ MODULE Exchange ------------------------------
(***************************************************************************)
(* One request through the handler: what is matched, negotiated, presented *)
(* to NATS, forwarded to the service, and answered to the client.  This is *)
(* the path of the data through ServeHTTP; its timing and its failures are *)
(* in RequestReply.                                                        *)
(*                                                                         *)
(* A header map is a function from names to sequences of values.           *)
(***************************************************************************)
EXTENDS RouteMatching, Negotiation, CredentialAdapter

CONSTANTS
    Users,    \* what the server may say the user is called
    Replies   \* [errors, codes, contentTypes (sequences), json, headers]

VARIABLES
    stage,           \* where ServeHTTP is after a route has matched
    representation,  \* the media type that was selected
    adapted,         \* the adapted credential
    headers,         \* requestHeaders
    forward,         \* forwardHeaders
    message,         \* the headers of the published message
    reply,
    answer           \* [status, headers]

\* The texts a presentation carries are strings.
IsPresentation(p) ==
    /\ IsSequence(p.authorization)
    /\ \A k \in DOMAIN p.authorization : IsSequence(p.authorization[k].text)
    /\ p.nkey # Absent => IsSequence(p.nkey.publicKey)
    /\ p.jwt # Absent /\ p.jwt.jwt # Absent => IsSequence(p.jwt.jwt)

\* The lines of an Accept header, in the form Negotiation describes.
IsAccept(lines) ==
    /\ IsSequence(lines)
    /\ \A k \in DOMAIN lines : lines[k] # Oversized =>
        /\ IsSequence(lines[k])
        /\ \A j \in DOMAIN lines[k] : lines[k][j] # Blank =>
            IsSequence(lines[k][j].range) /\ IsSequence(lines[k][j].segments)

\* Lists of names, of media types and of credentials are slices; a media type
\* has at most two parts (SplitN).  The names the
\* gateway reserves do not include the one it sets itself (forbiddenHeader).
ASSUME ExchangeAssumption ==
    /\ "Accept" \notin ProtocolNames \cup AssertedNames
    /\ MaxAcceptItems \in Nat /\ NotAcceptable # Panic
    /\ \A type \in MediaTypes \cup JSONTypes :
        type \notin {None, NotAcceptable, Panic} /\ IsSequence(type) /\ Len(type) <= 2
    /\ \A i \in Inputs :
        /\ \A k \in DOMAIN i.routes :
            /\ IsSequence(i.routes[k].policy.requestHeaders)
            /\ IsSequence(i.routes[k].policy.response.representations)
        /\ "Accept" \in DOMAIN i.request.headers => IsAccept(i.request.headers["Accept"])
        /\ IsPresentation(i.request.presentation)

exchange == <<stage, representation, adapted, headers, forward, message, reply, answer>>

policy == routes[next].policy
response == policy.response
security == policy.security
Identified == security # Absent /\ security.identity # Absent
AcceptLines == IF "Accept" \in DOMAIN request.headers THEN request.headers["Accept"] ELSE <<>>

\* http.Header.Values, Set and Add.
ValuesOf(map, name) == IF name \in DOMAIN map THEN map[name] ELSE <<>>
SetHeader(map, name, item) ==
    [n \in DOMAIN map \cup {name} |-> IF n = name THEN <<item>> ELSE map[n]]

ExchangeInit ==
    /\ Init
    /\ stage = "route" /\ representation = None /\ adapted = None
    /\ headers = <<>> /\ forward = <<>> /\ message = None /\ reply = None /\ answer = None

Matching == Next /\ UNCHANGED exchange

\* Lines 381-383, before anything can be answered.
Varied == IF response.negotiateAccept THEN SetHeader(<<>>, "Vary", "Accept") ELSE <<>>

\* writeGatewayError.
Fail(status) ==
    /\ stage' = "answered"
    /\ answer' = [status |-> status,
                  headers |-> SetHeader(SetHeader(Varied, "Content-Type", <<"application", "json">>),
                                        "Cache-Control", "no-store")]

\* Lines 381-396.
SelectRepresentation ==
    /\ outcome = "subject" /\ policy.streamMode = "request_reply" /\ stage = "route"
    /\ LET selected == selectRepresentation(Joined(AcceptLines), response)
       IN  \/ /\ selected = NotAcceptable /\ Fail(406)
              /\ UNCHANGED <<representation, headers, forward>>
           \/ /\ selected = Panic /\ stage' = "panic"
              /\ UNCHANGED <<representation, headers, forward, answer>>
           \/ /\ selected \notin {NotAcceptable, Panic}
              /\ stage' = "credential" /\ representation' = selected
              /\ IF response.negotiateAccept
                 THEN /\ headers' = SetHeader(request.headers, "Accept", selected)
                      /\ forward' = IF "Accept" \in Range(policy.requestHeaders) THEN policy.requestHeaders
                                    ELSE Append(policy.requestHeaders, "Accept")
                 ELSE headers' = request.headers /\ forward' = policy.requestHeaders
              /\ UNCHANGED answer
    /\ UNCHANGED <<vars, adapted, message, reply>>

\* Lines 402-411; the lease that follows is SecurityContextPool.
AdaptCredential ==
    /\ stage = "credential"
    /\ \/ security = Absent /\ stage' = "execute" /\ UNCHANGED <<adapted, answer>>
       \/ /\ security # Absent
          /\ adapted' = adapt(security, request.presentation)
          /\ IF adapted'.error = "none" THEN stage' = "identity" /\ UNCHANGED answer ELSE Fail(401)
    /\ UNCHANGED <<vars, representation, headers, forward, message, reply>>

\* The user names resolveDownstreamIdentity lets pass.
validIdentity(user) ==
    Len(user) \in 1 .. security.identity.maxValueBytes /\ Range(user) \cap {NUL, Undecodable} = {}

\* Mutant: the value is added to those of the client.
WithIdentityAdded(user) ==
    [n \in DOMAIN headers \cup {security.identity.header} |->
        IF n = security.identity.header THEN Append(ValuesOf(headers, n), user) ELSE headers[n]]

\* Lines 445-446: whatever the client sent under this name is gone.
WithIdentity(user) == SetHeader(headers, security.identity.header, user)

\* Lines 430-448 with resolveDownstreamIdentity.
ResolveIdentity ==
    /\ stage = "identity"
    /\ \/ ~Identified /\ stage' = "execute" /\ UNCHANGED <<headers, forward, answer>>
       \/ /\ Identified
          /\ \E user \in Users :
              \/ /\ validIdentity(user) /\ stage' = "execute"
                 /\ headers' = WithIdentity(user)
                 /\ forward' = Append(forward, security.identity.header)
                 /\ UNCHANGED answer
              \/ ~validIdentity(user) /\ Fail(503) /\ UNCHANGED <<headers, forward>>
    /\ UNCHANGED <<vars, representation, adapted, message, reply>>

\* translation.Execute: a name that is listed twice is added twice.
Forwarded ==
    [name \in {n \in Range(forward) : ValuesOf(headers, n) # <<>>} |->
        FlattenSeq([i \in 1 .. Cardinality({k \in DOMAIN forward : forward[k] = name}) |->
            ValuesOf(headers, name)])]

Publish ==
    /\ stage = "execute" /\ stage' = "published"
    /\ message' = Forwarded
    /\ UNCHANGED <<vars, representation, adapted, headers, forward, reply, answer>>

----------------------------------------------------------------------------
(* The reply.                                                              *)

IsServiceError(r) == r.errors # <<>> \/ r.codes # <<>>

WellFormedError(r) ==
    /\ Len(r.errors) = 1 /\ Len(r.codes) = 1
    /\ r.errors[1] \notin {"", Malformed} /\ validServiceErrorCode(r.codes[1])

\* Mutant: the type the service names is not compared.
WellFormedReplyAnyType(r) == response.mode = "json" => r.json

WellFormedReply(r) ==
    /\ response.mode = "json" => r.json
    /\ r.contentTypes \in {<<>>, <<representation>>}

\* validateReply: a code that is not mapped is a bad gateway.
replyStatus(r) ==
    IF IsServiceError(r)
    THEN IF WellFormedError(r) /\ r.codes[1] \in DOMAIN response.serviceErrorStatuses
         THEN response.serviceErrorStatuses[r.codes[1]] ELSE 502
    ELSE IF WellFormedReply(r) THEN 200 ELSE 502

\* All headers of a reply, Content-Type included.
ReplyHeaders(r) ==
    IF r.contentTypes = <<>> THEN r.headers
    ELSE [n \in DOMAIN r.headers \cup {"Content-Type"} |->
            IF n = "Content-Type" THEN r.contentTypes ELSE r.headers[n]]

\* safeResponseHeaders: only what is on the list is copied.
safeResponseHeaders(r) ==
    [name \in Range(response.headers) \cap DOMAIN ReplyHeaders(r) |-> ReplyHeaders(r)[name]]

\* Lines 489-501: the representation replaces what the service said.
Written(r) ==
    LET safe == safeResponseHeaders(r)
        added == [name \in DOMAIN safe \cup DOMAIN Varied |-> ValuesOf(Varied, name) \o ValuesOf(safe, name)]
    IN  SetHeader(SetHeader(added, "Content-Type", representation), "X-Content-Type-Options", "nosniff")

\* Lines 480-502.
ReplyArrives ==
    /\ stage = "published"
    /\ \E r \in Replies :
        /\ reply' = r
        /\ IF replyStatus(r) = 200 /\ Malformed \notin UNION {Range(v) : v \in Range(safeResponseHeaders(r))}
           THEN stage' = "answered" /\ answer' = [status |-> 200, headers |-> Written(r)]
           ELSE Fail(IF replyStatus(r) = 200 THEN 502 ELSE replyStatus(r))
    /\ UNCHANGED <<vars, representation, adapted, headers, forward, message>>

ExchangeNext ==
    \/ Matching
    \/ SelectRepresentation \/ AdaptCredential \/ ResolveIdentity \/ Publish \/ ReplyArrives

ExchangeSpec == ExchangeInit /\ [][ExchangeNext]_<<vars, exchange>>

----------------------------------------------------------------------------
(* Properties.                                                             *)

Negotiates == response.negotiateAccept
AcceptHeader == Joined(AcceptLines)
Readable == AcceptHeader # Oversized /\ Len(AcceptHeader) <= MaxAcceptItems
            /\ \A i \in DOMAIN AcceptHeader : validItem(AcceptHeader[i])

\* No parameter of a range is empty, as in text/plain;format="".
Plainspoken ==
    \A i \in DOMAIN AcceptHeader : \A p \in Range(Parameters(AcceptHeader[i])) : p.value # ""

\* A negotiated representation is the first of those the client wants most, by
\* its most specific range (docs/configuration.md:271-275), and a request is
\* turned away only when its header cannot be read or excludes every declared
\* type (selectRepresentation).  Left out: a range with an empty parameter, which
\* matches takes for a range without it.
ClientPreferenceHonoured ==
    stage \notin {"route", "panic"} /\ Negotiates /\ AcceptHeader # <<>> /\ (Readable => Plainspoken) =>
        LET types == declared(response)
            wanted == [k \in DOMAIN types |-> Wanted(AcceptHeader, types[k])]
        IN  IF representation = None
            THEN ~Readable \/ Range(wanted) = {0}
            ELSE \E k \in DOMAIN types :
                    /\ types[k] = representation /\ wanted[k] > 0
                    /\ \A l \in DOMAIN types :
                        wanted[l] < wanted[k] \/ (wanted[l] = wanted[k] /\ l >= k)

\* A message carries a header only because the route lists it, and then exactly
\* as the client sent it, with two exceptions: the Accept of a negotiating route
\* is the selected type, and the identity header is there exactly once, with the
\* user the server named, whatever the client sends under that name
\* (gateway.go:389-396 and 445-447).  Left out: a route that negotiates and uses
\* Accept as its identity header, which sends the identity twice.
MessageAsDeclared ==
    message # None /\ ~(Identified /\ Negotiates /\ security.identity.header = "Accept") =>
        /\ Identified => security.identity.header \in DOMAIN message
        /\ Negotiates => "Accept" \in DOMAIN message
        /\ \A name \in DOMAIN message :
            \/ Identified /\ name = security.identity.header
               /\ \E user \in Users : validIdentity(user) /\ message[name] = <<user>>
            \/ Negotiates /\ name = "Accept" /\ message[name] = <<representation>>
            \/ /\ name \in Range(policy.requestHeaders)
               /\ ~(Negotiates /\ name = "Accept") /\ ~(Identified /\ name = security.identity.header)
               /\ message[name] = request.headers[name]

\* No configuration that Provision accepts lets a credential, a protocol header
\* or an identity the caller asserts reach the service (validateHeaderList,
\* forbiddenHeader): such a name only occurs as the gateway's own identity header.
NothingReservedForwarded ==
    message # None =>
        /\ DOMAIN message \cap ProtocolNames = {}
        /\ \A name \in DOMAIN message \cap AssertedNames : Identified /\ name = security.identity.header

\* A success has exactly the selected type as its Content-Type, whatever the
\* service and the list of response headers say, and copies nothing else than
\* listed headers; an error of the service, a reply of another type or one that
\* is not JSON where JSON is promised is never a success (gateway.go:480-502).
AnswerAsDeclared ==
    reply # None =>
        IF answer.status = 200
        THEN /\ ~IsServiceError(reply)
             /\ answer.headers["Content-Type"] = <<representation>>
             /\ representation \in Range(declared(response))
             /\ Range(reply.contentTypes) \subseteq {representation}
             /\ response.mode = "json" => reply.json
             /\ DOMAIN answer.headers \subseteq
                    Range(response.headers) \cup {"Content-Type", "X-Content-Type-Options", "Vary"}
        ELSE answer.status \in 400 .. 599

\* Every credential a request may present, in any mechanism.
Presented == {i.request.presentation : i \in Inputs}
AllAdapted == {adapt([mechanism |-> m, maxCredentialBytes |-> 0], p) : m \in Mechanisms, p \in Presented}

\* Two requests are pooled under one key only when they present the same
\* credential in the same mechanism: the concatenation that is hashed does not
\* confuse a user and a password, or two mechanisms (credentials.go:170, 239).
KeysIdentify ==
    adapted # None /\ adapted.error = "none" =>
        \A other \in AllAdapted :
            other.error = "none" /\ other.key = adapted.key => other.credential = adapted.credential

\* A request that gets as far as NATS presented one credential and no other
\* (docs/credential-adapters.md), in whatever combination the five mechanisms see.
OneCredential ==
    adapted # None /\ adapted.error = "none" =>
        LET p == request.presentation
            proofs == {q \in {"nkey", "jwt", "tls"} : p[q] # Absent}
        IN  /\ Len(p.authorization) + Cardinality(proofs) = 1
            /\ \A i \in DOMAIN p.authorization : ~p.authorization[i].comma
=============================================================================
