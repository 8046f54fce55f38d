--------------------------- MODULE Exchange_proofs ---------------------------
(***************************************************************************)
(* What reaches NATS and what reaches the client, for every configuration  *)
(* that Provision accepts and every request.                               *)
(***************************************************************************)
EXTENDS Exchange, RouteMatching_proofs

----------------------------------------------------------------------------
(* The exchange is a matching, and what it does begins after one.          *)

\* Every step of the exchange is a step of the matching or leaves it alone.
THEOREM ExchangeIsMatching == ExchangeSpec => Spec
<1>1. ExchangeInit => Init
  BY DEF ExchangeInit
<1>2. [ExchangeNext]_<<vars, exchange>> => [Next]_vars
  BY DEF ExchangeNext, Matching, SelectRepresentation, AdaptCredential, ResolveIdentity, Publish,
         ReplyArrives, exchange
<1> QED BY <1>1, <1>2, PTL DEF ExchangeSpec, Spec

\* In the composed specification too, at most one declared method and path match
\* a request, and the loop answers as OneRouteAccepts says.
THEOREM OneRouteDecidesExchange == ExchangeSpec => []OneRouteAccepts
BY ExchangeIsMatching, OneRouteDecides, PTL

\* And the subject that a message is published to is the declared one.
THEOREM SubjectsAreDeclaredExchange == ExchangeSpec => []SubjectAsDeclared
BY ExchangeIsMatching, SubjectsAreDeclared, PTL

\* The representation is what selectRepresentation made of the Accept header.
Selected ==
    /\ representation = selectRepresentation(Joined(AcceptLines), response)
    /\ representation \notin {NotAcceptable, Panic}

NothingAcceptable ==
    representation = None /\ selectRepresentation(Joined(AcceptLines), response) = NotAcceptable

\* The headers and the list of forwarded names that SelectRepresentation leaves.
NegotiatedHeaders ==
    IF response.negotiateAccept THEN SetHeader(request.headers, "Accept", representation)
    ELSE request.headers
NegotiatedForward ==
    IF response.negotiateAccept /\ "Accept" \notin Range(policy.requestHeaders)
    THEN Append(policy.requestHeaders, "Accept") ELSE policy.requestHeaders

Negotiated == headers = NegotiatedHeaders /\ forward = NegotiatedForward

\* The identity of the user, or none, is what is added to them.
IdentityAdded ==
    \/ ~Identified /\ Negotiated
    \/ /\ Identified
       /\ \E user \in Users :
            validIdentity(user) /\ headers = SetHeader(NegotiatedHeaders, security.identity.header, user)
       /\ forward = Append(NegotiatedForward, security.identity.header)

\* The credential that was adapted is that of the request.
Adapted == security # Absent /\ adapted = adapt(security, request.presentation)

\* A success has the headers of the reply; a failure the status the reply means.
Answered ==
    IF answer.status = 200 THEN replyStatus(reply) = 200 /\ answer.headers = Written(reply)
    ELSE answer.status = 502 \/ answer.status = replyStatus(reply)

\* The state of an exchange, by stage.
ExchangeInvariant ==
    /\ MatchingInvariant
    /\ stage \in {"route", "credential", "identity", "execute", "published", "answered", "panic"}
    /\ stage # "route" => outcome = "subject"
    /\ stage = "route" => representation = None /\ adapted = None /\ message = None /\ reply = None
    /\ stage \notin {"route", "panic"} => Selected \/ NothingAcceptable
    /\ stage \in {"credential", "identity", "execute"} => message = None
    /\ stage \in {"credential", "identity", "execute", "published"} => reply = None /\ Selected
    /\ stage \in {"credential", "identity"} => Negotiated
    /\ stage \in {"execute", "published"} => IdentityAdded
    /\ adapted # None => Adapted
    /\ message # None => message = Forwarded /\ IdentityAdded /\ Selected
    /\ reply # None => Selected /\ Answered

\* Once a route has matched, the loop of ServeHTTP is over.
LEMMA MatchingIsOver ==
    ASSUME ExchangeInvariant, stage # "route"
    PROVE  ~Next
<1>1. phase = "end"
  BY MatchingAssumption DEF ExchangeInvariant, MatchingInvariant
<1> QED BY <1>1 DEF Next, Validate, TryCandidate, FallThrough

\* What the steps after the match read of the configuration and the request.
LEMMA PolicyStays ==
    ASSUME UNCHANGED vars
    PROVE  /\ request' = request
           /\ policy' = policy
           /\ response' = response
           /\ security' = security
           /\ Identified' <=> Identified
           /\ Joined(AcceptLines)' = Joined(AcceptLines)
           /\ Varied' = Varied
           /\ \A user : validIdentity(user)' <=> validIdentity(user)
<1>1. request' = request /\ policy' = policy
  BY DEF request, policy, routes, vars
<1>2. response' = response /\ security' = security
  BY <1>1 DEF response, security
<1> QED BY <1>1, <1>2 DEF Identified, AcceptLines, Varied, validIdentity

LEMMA PartsStay ==
    ASSUME UNCHANGED <<vars, representation>>
    PROVE  /\ Selected' <=> Selected
           /\ NothingAcceptable' <=> NothingAcceptable
           /\ NegotiatedHeaders' = NegotiatedHeaders
           /\ NegotiatedForward' = NegotiatedForward
           /\ UNCHANGED adapted => (Adapted' <=> Adapted)
           /\ UNCHANGED <<headers, forward>> => (IdentityAdded' <=> IdentityAdded) /\ Forwarded' = Forwarded
           /\ UNCHANGED <<headers, forward>> => (Negotiated' <=> Negotiated)
           /\ UNCHANGED <<reply, answer>> => (Answered' <=> Answered)
<1>1. /\ request' = request
      /\ policy' = policy
      /\ response' = response
      /\ security' = security
      /\ Identified' <=> Identified
      /\ Joined(AcceptLines)' = Joined(AcceptLines)
      /\ Varied' = Varied
      /\ \A user : validIdentity(user)' <=> validIdentity(user)
  BY PolicyStays
<1>2. (Selected' <=> Selected) /\ (NothingAcceptable' <=> NothingAcceptable)
  BY <1>1 DEF Selected, NothingAcceptable
<1>3. NegotiatedHeaders' = NegotiatedHeaders /\ NegotiatedForward' = NegotiatedForward
  BY <1>1 DEF NegotiatedHeaders, NegotiatedForward
<1>4. UNCHANGED adapted => (Adapted' <=> Adapted)
  BY <1>1 DEF Adapted
<1>5. UNCHANGED <<headers, forward>> => (Negotiated' <=> Negotiated)
  BY <1>3 DEF Negotiated
<1>6. UNCHANGED <<headers, forward>> => (IdentityAdded' <=> IdentityAdded)
  BY <1>1, <1>3, <1>5 DEF IdentityAdded
<1>7. UNCHANGED <<headers, forward>> => Forwarded' = Forwarded
  BY DEF Forwarded, ValuesOf
<1>8. UNCHANGED <<reply, answer>> => (Answered' <=> Answered)
  <2> SUFFICES ASSUME UNCHANGED <<reply, answer>> PROVE Answered' <=> Answered
    OBVIOUS
  <2>1. replyStatus(reply)' = replyStatus(reply)
    BY <1>1 DEF replyStatus, IsServiceError, WellFormedError, WellFormedReply
  <2>2. Written(reply)' = Written(reply)
    BY <1>1 DEF Written, safeResponseHeaders, ReplyHeaders, ValuesOf
  <2> QED BY <2>1, <2>2 DEF Answered
<1> QED BY <1>2, <1>3, <1>4, <1>5, <1>6, <1>7, <1>8

\* The matching of a route leaves the exchange where it begins.
LEMMA MatchingKeeps ==
    ASSUME ExchangeInvariant, Matching
    PROVE  ExchangeInvariant'
<1>1. stage = "route"
  BY MatchingIsOver DEF Matching
<1>2. UNCHANGED exchange
  BY DEF Matching
<1>3. MatchingInvariant'
  BY MatchingStep DEF ExchangeInvariant, Matching
<1> QED BY <1>1, <1>2, <1>3 DEF ExchangeInvariant, exchange

\* The matching is over in every later step.
LEMMA LaterKeepsMatching ==
    ASSUME ExchangeInvariant, UNCHANGED vars
    PROVE  MatchingInvariant'
BY MatchingStep DEF ExchangeInvariant

LEMMA SelectRepresentationKeeps ==
    ASSUME ExchangeInvariant, SelectRepresentation
    PROVE  ExchangeInvariant'
<1> DEFINE selected == selectRepresentation(Joined(AcceptLines), response)
<1>1. UNCHANGED <<vars, adapted, message, reply>> /\ stage = "route" /\ outcome = "subject"
  BY DEF SelectRepresentation
<1>2. adapted' = None /\ message' = None /\ reply' = None /\ outcome' = "subject"
  BY <1>1 DEF ExchangeInvariant, vars
<1>3. MatchingInvariant'
  BY <1>1, LaterKeepsMatching
<1>4. CASE stage' = "panic"
  BY <1>2, <1>3, <1>4 DEF ExchangeInvariant
<1>6. CASE selected = NotAcceptable /\ stage' = "answered" /\ UNCHANGED representation
  <2>1. NothingAcceptable
    BY <1>1, <1>6 DEF NothingAcceptable, ExchangeInvariant
  <2>2. NothingAcceptable'
    BY <1>1, <1>6, <2>1, PartsStay
  <2> QED BY <1>2, <1>3, <1>6, <2>2 DEF ExchangeInvariant
<1>5. CASE /\ selected \notin {NotAcceptable, Panic}
           /\ stage' = "credential" /\ representation' = selected
           /\ IF response.negotiateAccept
              THEN /\ headers' = SetHeader(request.headers, "Accept", selected)
                   /\ forward' = IF "Accept" \in Range(policy.requestHeaders) THEN policy.requestHeaders
                                 ELSE Append(policy.requestHeaders, "Accept")
              ELSE headers' = request.headers /\ forward' = policy.requestHeaders
  <2>1. /\ request' = request
        /\ policy' = policy
        /\ response' = response
        /\ Joined(AcceptLines)' = Joined(AcceptLines)
    BY <1>1, PolicyStays
  <2>2. Selected'
    BY <1>5, <2>1 DEF Selected
  <2>3. Negotiated'
    <3> HIDE DEF selected
    <3>1. headers' = IF response.negotiateAccept THEN SetHeader(request.headers, "Accept", representation')
                     ELSE request.headers
      BY <1>5
    <3>2. forward' = IF response.negotiateAccept /\ "Accept" \notin Range(policy.requestHeaders)
                     THEN Append(policy.requestHeaders, "Accept") ELSE policy.requestHeaders
      BY <1>5
    <3> QED BY <2>1, <3>1, <3>2 DEF Negotiated, NegotiatedHeaders, NegotiatedForward
  <2>4. stage' = "credential"
    BY <1>5
  <2> QED BY <1>2, <1>3, <2>2, <2>3, <2>4 DEF ExchangeInvariant
<1> QED BY <1>4, <1>5, <1>6 DEF SelectRepresentation, Fail

LEMMA AdaptCredentialKeeps ==
    ASSUME ExchangeInvariant, AdaptCredential
    PROVE  ExchangeInvariant'
<1>1. UNCHANGED <<vars, representation, headers, forward, message, reply>> /\ stage = "credential"
  BY DEF AdaptCredential
<1>2. message' = None /\ reply' = None /\ outcome' = "subject" /\ Selected /\ Negotiated
  BY <1>1 DEF ExchangeInvariant, vars
<1>3. MatchingInvariant'
  BY <1>1, LaterKeepsMatching
<1>4. Selected' /\ Negotiated'
  BY <1>1, <1>2, PartsStay
<1>5. /\ request' = request
      /\ security' = security
      /\ Identified' <=> Identified
  BY <1>1, PolicyStays
<1>6. CASE security = Absent /\ stage' = "execute" /\ UNCHANGED <<adapted, answer>>
  <2>1. IdentityAdded'
    BY <1>4, <1>5, <1>6 DEF IdentityAdded, Identified
  <2>2. adapted' # None => Adapted'
    BY <1>1, <1>6, PartsStay DEF ExchangeInvariant
  <2> QED BY <1>2, <1>3, <1>4, <1>6, <2>1, <2>2 DEF ExchangeInvariant
<1>7. CASE /\ security # Absent
           /\ adapted' = adapt(security, request.presentation)
           /\ stage' \in {"identity", "answered"}
  <2>1. Adapted'
    BY <1>5, <1>7 DEF Adapted
  <2> QED BY <1>2, <1>3, <1>4, <1>7, <2>1 DEF ExchangeInvariant
<1> QED BY <1>6, <1>7 DEF AdaptCredential, Fail

LEMMA ResolveIdentityKeeps ==
    ASSUME ExchangeInvariant, ResolveIdentity
    PROVE  ExchangeInvariant'
<1>1. UNCHANGED <<vars, representation, adapted, message, reply>> /\ stage = "identity"
  BY DEF ResolveIdentity
<1>2. message' = None /\ reply' = None /\ outcome' = "subject" /\ Selected /\ Negotiated
  BY <1>1 DEF ExchangeInvariant, vars
<1>3. MatchingInvariant'
  BY <1>1, LaterKeepsMatching
<1>4. Selected' /\ (adapted' # None => Adapted')
  BY <1>1, <1>2, PartsStay DEF ExchangeInvariant
<1>5. CASE stage' = "answered"
  BY <1>2, <1>3, <1>4, <1>5 DEF ExchangeInvariant
<1>6. CASE stage' = "execute" /\ ~Identified /\ UNCHANGED <<headers, forward>>
  <2>1. Negotiated' /\ ~Identified'
    BY <1>1, <1>2, <1>6, PartsStay, PolicyStays
  <2>2. IdentityAdded'
    BY <2>1 DEF IdentityAdded
  <2> QED BY <1>2, <1>3, <1>4, <1>6, <2>2 DEF ExchangeInvariant
<1>7. CASE /\ stage' = "execute" /\ Identified
           /\ \E user \in Users : validIdentity(user) /\ headers' = WithIdentity(user)
           /\ forward' = Append(forward, security.identity.header)
  <2>1. PICK user \in Users : validIdentity(user) /\ headers' = WithIdentity(user)
    BY <1>7
  <2>2. /\ NegotiatedHeaders' = NegotiatedHeaders /\ NegotiatedForward' = NegotiatedForward
        /\ security' = security /\ Identified' /\ validIdentity(user)'
    BY <1>1, <1>7, <2>1, PartsStay, PolicyStays
  <2>3. headers' = SetHeader(NegotiatedHeaders, security.identity.header, user)
    BY <1>2, <2>1 DEF WithIdentity, Negotiated
  <2>4. forward' = Append(NegotiatedForward, security.identity.header)
    BY <1>2, <1>7 DEF Negotiated
  <2>5. IdentityAdded'
    BY <2>2, <2>3, <2>4 DEF IdentityAdded
  <2> QED BY <1>2, <1>3, <1>4, <1>7, <2>5 DEF ExchangeInvariant
<1> QED BY <1>5, <1>6, <1>7 DEF ResolveIdentity, Fail

LEMMA PublishKeeps ==
    ASSUME ExchangeInvariant, Publish
    PROVE  ExchangeInvariant'
<1>1. /\ UNCHANGED <<vars, representation, adapted, headers, forward, reply, answer>>
      /\ stage = "execute" /\ stage' = "published" /\ message' = Forwarded
  BY DEF Publish
<1>2. reply' = None /\ outcome' = "subject" /\ Selected /\ IdentityAdded
  BY <1>1 DEF ExchangeInvariant, vars
<1>3. MatchingInvariant'
  BY <1>1, LaterKeepsMatching
<1>4. Selected' /\ IdentityAdded' /\ Forwarded' = Forwarded /\ (adapted' # None => Adapted')
  BY <1>1, <1>2, PartsStay DEF ExchangeInvariant
<1> QED BY <1>1, <1>2, <1>3, <1>4 DEF ExchangeInvariant

LEMMA ReplyArrivesKeeps ==
    ASSUME ExchangeInvariant, ReplyArrives
    PROVE  ExchangeInvariant'
<1>1. UNCHANGED <<vars, representation, adapted, headers, forward, message>> /\ stage = "published"
  BY DEF ReplyArrives
<1>2. outcome' = "subject" /\ Selected /\ IdentityAdded
  BY <1>1 DEF ExchangeInvariant, vars
<1>3. MatchingInvariant'
  BY <1>1, LaterKeepsMatching
<1>4. Selected' /\ (adapted' # None => Adapted') /\ (message' # None => message' = Forwarded' /\ IdentityAdded')
  BY <1>1, <1>2, PartsStay DEF ExchangeInvariant
<1>5. stage' = "answered" /\ Answered'
  <2>1. PICK r \in Replies :
          /\ reply' = r
          /\ IF replyStatus(r) = 200 /\ Malformed \notin UNION {Range(v) : v \in Range(safeResponseHeaders(r))}
             THEN stage' = "answered" /\ answer' = [status |-> 200, headers |-> Written(r)]
             ELSE Fail(IF replyStatus(r) = 200 THEN 502 ELSE replyStatus(r))
    BY Zenon DEF ReplyArrives
  <2>2. response' = response /\ Varied' = Varied
    BY <1>1, PolicyStays
  <2>3. replyStatus(reply)' = replyStatus(r)
    <3>1. reply' = r /\ response' = response /\ representation' = representation
      BY <1>1, <2>1, <2>2
    <3> QED BY <3>1 DEF replyStatus, IsServiceError, WellFormedError, WellFormedReply
  <2>4. Written(reply)' = Written(r)
    BY <1>1, <2>1, <2>2 DEF Written, safeResponseHeaders, ReplyHeaders, ValuesOf
  <2>5. CASE /\ replyStatus(r) = 200 /\ stage' = "answered"
             /\ answer' = [status |-> 200, headers |-> Written(r)]
    BY <2>3, <2>4, <2>5 DEF Answered
  <2>6. CASE Fail(IF replyStatus(r) = 200 THEN 502 ELSE replyStatus(r))
    <3>1. stage' = "answered" /\ answer'.status = IF replyStatus(r) = 200 THEN 502 ELSE replyStatus(r)
      BY <2>6 DEF Fail
    <3> QED BY <2>3, <3>1 DEF Answered
  <2> QED BY <2>1, <2>5, <2>6
<1> QED BY <1>2, <1>3, <1>4, <1>5 DEF ExchangeInvariant

LEMMA ExchangeInvariantHolds == ExchangeSpec => []ExchangeInvariant
<1>1. ExchangeInit => ExchangeInvariant
  BY MatchingStart DEF ExchangeInit, ExchangeInvariant
<1>2. ExchangeInvariant /\ [ExchangeNext]_<<vars, exchange>> => ExchangeInvariant'
  <2> SUFFICES ASSUME ExchangeInvariant, [ExchangeNext]_<<vars, exchange>>
               PROVE  ExchangeInvariant'
    OBVIOUS
  <2>1. CASE UNCHANGED <<vars, exchange>>
    <3>1. MatchingInvariant' /\ outcome' = outcome
      BY <2>1, LaterKeepsMatching DEF vars
    <3>2. /\ Selected' <=> Selected
          /\ NothingAcceptable' <=> NothingAcceptable
          /\ Adapted' <=> Adapted
          /\ IdentityAdded' <=> IdentityAdded
          /\ Forwarded' = Forwarded
          /\ Negotiated' <=> Negotiated
          /\ Answered' <=> Answered
      BY <2>1, PartsStay DEF exchange
    <3> QED BY <2>1, <3>1, <3>2, Zenon DEF ExchangeInvariant, exchange
  <2> QED
    BY <2>1, MatchingKeeps, SelectRepresentationKeeps, AdaptCredentialKeeps, ResolveIdentityKeeps,
       PublishKeeps, ReplyArrivesKeeps DEF ExchangeNext
<1> QED BY <1>1, <1>2, PTL DEF ExchangeSpec

----------------------------------------------------------------------------
(* What the service receives.                                              *)

\* An exchange follows a route of an accepted configuration.
LEMMA PolicyIsValid ==
    ASSUME ExchangeInvariant, stage # "route"
    PROVE  validatePolicy(policy) /\ input \in Inputs /\ next \in DOMAIN routes
<1>1. outcome = "subject"
  BY DEF ExchangeInvariant
<1>2. Valid /\ next \in DOMAIN routes /\ input \in Inputs
  BY <1>1, MatchingAssumption DEF ExchangeInvariant, MatchingInvariant
<1>3. validateRoute(routes[next])
  BY <1>2 DEF Valid, validateRoutes
<1> QED BY <1>2, <1>3 DEF validateRoute, policy

\* The lists of a policy are sequences.
LEMMA PolicyLists ==
    ASSUME ExchangeInvariant, stage # "route"
    PROVE  /\ policy.requestHeaders \in Seq(Range(policy.requestHeaders))
           /\ response.representations \in Seq(Range(response.representations))
BY PolicyIsValid, ExchangeAssumption DEF policy, response, routes, IsSequence

\* Append adds one element at the end.
LEMMA AppendedRange ==
    ASSUME NEW s, s \in Seq(Range(s)), NEW e
    PROVE  /\ Append(s, e) \in Seq(Range(s) \cup {e})
           /\ Range(Append(s, e)) = Range(s) \cup {e}
           /\ DOMAIN Append(s, e) = 1 .. Len(s) + 1
           /\ \A i \in 1 .. Len(s) : Append(s, e)[i] = s[i]
           /\ Append(s, e)[Len(s) + 1] = e
<1> DEFINE R == Range(s) \cup {e}
<1>1. s \in Seq(R)
  BY DEF Range
<1>2. e \in R
  OBVIOUS
<1> HIDE DEF R
<1>3. /\ Append(s, e) \in Seq(R)
      /\ Len(Append(s, e)) = Len(s) + 1
      /\ \A i \in 1 .. Len(s) : Append(s, e)[i] = s[i]
      /\ Append(s, e)[Len(s) + 1] = e
  BY <1>1, <1>2, AppendProperties
<1>4. Len(s) \in Nat /\ DOMAIN s = 1 .. Len(s)
  BY <1>1
<1>5. DOMAIN Append(s, e) = 1 .. Len(s) + 1
  BY <1>3
<1>6. Range(Append(s, e)) = R
  <2>1. ASSUME NEW x \in Range(Append(s, e)) PROVE x \in R
    <3>1. PICK i \in DOMAIN Append(s, e) : x = Append(s, e)[i]
      BY DEF Range
    <3>2. i \in 1 .. Len(s) \/ i = Len(s) + 1
      BY <1>4, <1>5
    <3> QED BY <1>3, <1>4, <3>1, <3>2 DEF Range, R
  <2>2. ASSUME NEW x \in R PROVE x \in Range(Append(s, e))
    <3>1. CASE x = e
      <4>1. Len(s) + 1 \in DOMAIN Append(s, e)
        BY <1>4, <1>5
      <4> QED BY <1>3, <3>1, <4>1 DEF Range
    <3>2. CASE x \in Range(s)
      <4>1. PICK i \in 1 .. Len(s) : x = s[i]
        BY <1>4, <3>2 DEF Range
      <4>2. i \in DOMAIN Append(s, e)
        BY <1>4, <1>5
      <4> QED BY <1>3, <4>1, <4>2 DEF Range
    <3> QED BY <3>1, <3>2 DEF R
  <2> QED BY <2>1, <2>2
<1> QED BY <1>3, <1>5, <1>6 DEF R

\* Names are forwarded because the route lists them, or because the gateway
\* sets them.
LEMMA ForwardedNames ==
    ASSUME ExchangeInvariant, stage # "route", IdentityAdded
    PROVE  /\ NegotiatedForward \in Seq(Range(NegotiatedForward))
           /\ Range(NegotiatedForward) =
                Range(policy.requestHeaders) \cup (IF response.negotiateAccept THEN {"Accept"} ELSE {})
           /\ forward \in Seq(Range(forward))
           /\ Range(forward) =
                Range(NegotiatedForward) \cup (IF Identified THEN {security.identity.header} ELSE {})
<1>1. policy.requestHeaders \in Seq(Range(policy.requestHeaders))
  BY PolicyLists
<1>2. /\ Append(policy.requestHeaders, "Accept") \in Seq(Range(Append(policy.requestHeaders, "Accept")))
      /\ Range(Append(policy.requestHeaders, "Accept")) = Range(policy.requestHeaders) \cup {"Accept"}
  BY <1>1, AppendedRange
<1>3. /\ NegotiatedForward \in Seq(Range(NegotiatedForward))
      /\ Range(NegotiatedForward) =
            Range(policy.requestHeaders) \cup (IF response.negotiateAccept THEN {"Accept"} ELSE {})
  <2>1. CASE response.negotiateAccept /\ "Accept" \notin Range(policy.requestHeaders)
    BY <1>2, <2>1, Zenon DEF NegotiatedForward
  <2>2. CASE ~(response.negotiateAccept /\ "Accept" \notin Range(policy.requestHeaders))
    <3>1. NegotiatedForward = policy.requestHeaders
      BY <2>2 DEF NegotiatedForward
    <3>2. Range(policy.requestHeaders) =
            Range(policy.requestHeaders) \cup (IF response.negotiateAccept THEN {"Accept"} ELSE {})
      BY <2>2
    <3> QED BY <1>1, <3>1, <3>2
  <2> QED BY <2>1, <2>2
<1>4. CASE ~Identified
  <2>1. forward = NegotiatedForward
    BY <1>4 DEF IdentityAdded, Negotiated
  <2> QED BY <1>3, <1>4, <2>1
<1>5. CASE Identified
  <2>1. forward = Append(NegotiatedForward, security.identity.header)
    BY <1>5 DEF IdentityAdded
  <2> QED BY <1>3, <1>5, <2>1, AppendedRange
<1> QED BY <1>3, <1>4, <1>5

\* No configuration that Provision accepts lets a credential, a protocol header
\* or an identity the caller asserts reach the service.
THEOREM ReservedNamesStay == ExchangeSpec => []NothingReservedForwarded
<1>1. ExchangeInvariant => NothingReservedForwarded
  <2> SUFFICES ASSUME ExchangeInvariant, message # None
               PROVE  /\ DOMAIN message \cap ProtocolNames = {}
                      /\ \A name \in DOMAIN message \cap AssertedNames :
                            Identified /\ name = security.identity.header
    BY DEF NothingReservedForwarded
  <2>1. stage # "route" /\ message = Forwarded /\ IdentityAdded
    BY DEF ExchangeInvariant
  <2>2. validatePolicy(policy)
    BY <2>1, PolicyIsValid
  <2>3. DOMAIN message \subseteq Range(forward)
    BY <2>1 DEF Forwarded
  <2>4. \A name \in Range(policy.requestHeaders) : name \notin ProtocolNames \cup AssertedNames
    BY <2>2 DEF validatePolicy, validateHeaderList, forbiddenHeader
  <2>5. "Accept" \notin ProtocolNames \cup AssertedNames
    BY ExchangeAssumption
  <2>6. Identified => security.identity.header \notin ProtocolNames
    BY <2>2 DEF validatePolicy, validateSecurityUse, validateSecurity, validateIdentity,
                forbiddenGeneratedIdentityHeader, Identified, security
  <2>7. \A name \in Range(forward) :
            \/ name \in Range(policy.requestHeaders)
            \/ name = "Accept"
            \/ Identified /\ name = security.identity.header
    BY <2>1, ForwardedNames
  <2> QED BY <2>3, <2>4, <2>5, <2>6, <2>7
<1> QED BY <1>1, ExchangeInvariantHolds, PTL

\* What SetHeader leaves under each name.
LEMMA HeaderSet ==
    ASSUME NEW map, NEW name, NEW item
    PROVE  /\ ValuesOf(SetHeader(map, name, item), name) = <<item>>
           /\ \A other : other # name => ValuesOf(SetHeader(map, name, item), other) = ValuesOf(map, other)
BY DEF SetHeader, ValuesOf

\* A new element at the end keeps a sequence free of repetitions.
LEMMA AppendedInjective ==
    ASSUME NEW s, s \in Seq(Range(s)), IsInjective(s), NEW e, e \notin Range(s)
    PROVE  IsInjective(Append(s, e))
<1>1. /\ DOMAIN Append(s, e) = 1 .. Len(s) + 1
      /\ \A i \in 1 .. Len(s) : Append(s, e)[i] = s[i]
      /\ Append(s, e)[Len(s) + 1] = e
  BY AppendedRange
<1>2. Len(s) \in Nat /\ DOMAIN s = 1 .. Len(s)
  OBVIOUS
<1>3. \A i \in 1 .. Len(s) : s[i] # e
  BY <1>2 DEF Range
<1>4. \A i \in 1 .. Len(s) + 1 : i \in 1 .. Len(s) \/ i = Len(s) + 1
  BY <1>2
<1>5. \A i, j \in 1 .. Len(s) : s[i] = s[j] => i = j
  BY <1>2 DEF IsInjective
<1> QED BY <1>1, <1>3, <1>4, <1>5, Zenon DEF IsInjective

\* No name is forwarded twice, unless the identity header is the Accept header
\* of a route that negotiates.
LEMMA ForwardedOnce ==
    ASSUME ExchangeInvariant, stage # "route", IdentityAdded,
           ~(Identified /\ Negotiates /\ security.identity.header = "Accept")
    PROVE  IsInjective(forward)
<1>1. validatePolicy(policy)
  BY PolicyIsValid
<1>2. IsInjective(policy.requestHeaders)
  BY <1>1 DEF validatePolicy, validateHeaderList
<1>3. Identified => security.identity.header \notin Range(policy.requestHeaders)
  BY <1>1 DEF validatePolicy, validateSecurityUse, Identified, security
<1>4. policy.requestHeaders \in Seq(Range(policy.requestHeaders))
  BY PolicyLists
<1>5. IsInjective(NegotiatedForward)
  <2>1. CASE response.negotiateAccept /\ "Accept" \notin Range(policy.requestHeaders)
    <3>1. IsInjective(Append(policy.requestHeaders, "Accept"))
      BY <1>2, <1>4, <2>1, AppendedInjective
    <3> QED BY <2>1, <3>1 DEF NegotiatedForward
  <2>2. CASE ~(response.negotiateAccept /\ "Accept" \notin Range(policy.requestHeaders))
    BY <1>2, <2>2 DEF NegotiatedForward
  <2> QED BY <2>1, <2>2
<1>6. CASE ~Identified
  BY <1>5, <1>6 DEF IdentityAdded, Negotiated
<1>7. CASE Identified
  <2>1. /\ NegotiatedForward \in Seq(Range(NegotiatedForward))
        /\ Range(NegotiatedForward) =
            Range(policy.requestHeaders) \cup (IF response.negotiateAccept THEN {"Accept"} ELSE {})
    BY ForwardedNames
  <2>2. security.identity.header \notin Range(NegotiatedForward)
    BY <1>3, <1>7, <2>1 DEF Negotiates
  <2>3. forward = Append(NegotiatedForward, security.identity.header)
    BY <1>7 DEF IdentityAdded
  <2> QED BY <1>5, <2>1, <2>2, <2>3, AppendedInjective
<1> QED BY <1>6, <1>7

\* One value list is its own concatenation.
LEMMA FlattenedOne ==
    ASSUME NEW x
    PROVE  FlattenSeq([i \in 1 .. 1 |-> x]) = x
<1> DEFINE s == [i \in 1 .. 1 |-> x]
           body(f) == [i \in 1 .. 1 |-> IF i = 1 THEN s[i] ELSE f[i - 1] \o s[i]]
           flatten == CHOOSE f : f = body(f)
<1>1. s \in Seq({x}) /\ Len(s) = 1 /\ s[1] = x
  OBVIOUS
<1>2. s = body(s)
  OBVIOUS
<1>3. flatten = body(flatten)
  BY <1>2
<1>4. flatten[1] = x
  BY <1>3
<1>5. FlattenSeq(s) = IF Len(s) = 0 THEN s ELSE
        LET flatten2[i \in 1..Len(s)] == IF i = 1 THEN s[i] ELSE flatten2[i-1] \o s[i]
        IN flatten2[Len(s)]
  BY DEF FlattenSeq
<1> QED BY <1>1, <1>4, <1>5

\* What is forwarded once is forwarded as it stands.
LEMMA ForwardedAsItStands ==
    ASSUME ExchangeInvariant, stage # "route", IdentityAdded, IsInjective(forward)
    PROVE  /\ DOMAIN Forwarded = {name \in Range(forward) : ValuesOf(headers, name) # <<>>}
           /\ \A name \in DOMAIN Forwarded : Forwarded[name] = ValuesOf(headers, name)
<1>1. DOMAIN Forwarded = {name \in Range(forward) : ValuesOf(headers, name) # <<>>}
  BY DEF Forwarded
<1>2. ASSUME NEW name \in DOMAIN Forwarded
      PROVE  Forwarded[name] = ValuesOf(headers, name)
  <2> DEFINE places == {k \in DOMAIN forward : forward[k] = name}
  <2>1. PICK k \in DOMAIN forward : forward[k] = name
    BY <1>1, <1>2 DEF Range
  <2>2. places = {k}
    BY <2>1 DEF IsInjective
  <2>3. Cardinality(places) = 1
    BY <2>2, FS_Singleton
  <2>4. Forwarded[name] = FlattenSeq([i \in 1 .. Cardinality(places) |-> ValuesOf(headers, name)])
    BY <1>1, <1>2, Zenon DEF Forwarded
  <2> QED BY <2>3, <2>4, FlattenedOne
<1> QED BY <1>1, <1>2

\* The values under each name when the request is published.
LEMMA PublishedValues ==
    ASSUME IdentityAdded
    PROVE  /\ Identified => \E user \in Users :
                validIdentity(user) /\ ValuesOf(headers, security.identity.header) = <<user>>
           /\ Negotiates /\ ~(Identified /\ security.identity.header = "Accept") =>
                ValuesOf(headers, "Accept") = <<representation>>
           /\ \A name : ~(Negotiates /\ name = "Accept") /\ ~(Identified /\ name = security.identity.header) =>
                ValuesOf(headers, name) = ValuesOf(request.headers, name)
<1>1. /\ Negotiates => ValuesOf(NegotiatedHeaders, "Accept") = <<representation>>
      /\ \A name : ~(Negotiates /\ name = "Accept") =>
            ValuesOf(NegotiatedHeaders, name) = ValuesOf(request.headers, name)
  <2>1. CASE Negotiates
    <3>1. NegotiatedHeaders = SetHeader(request.headers, "Accept", representation)
      BY <2>1 DEF NegotiatedHeaders, Negotiates
    <3> QED BY <2>1, <3>1, HeaderSet
  <2>2. CASE ~Negotiates
    BY <2>2 DEF NegotiatedHeaders, Negotiates
  <2> QED BY <2>1, <2>2
<1>2. CASE ~Identified
  BY <1>1, <1>2 DEF IdentityAdded, Negotiated
<1>3. CASE Identified
  <2>1. PICK user \in Users :
          validIdentity(user) /\ headers = SetHeader(NegotiatedHeaders, security.identity.header, user)
    BY <1>3 DEF IdentityAdded
  <2>2. /\ ValuesOf(headers, security.identity.header) = <<user>>
        /\ \A name : name # security.identity.header =>
            ValuesOf(headers, name) = ValuesOf(NegotiatedHeaders, name)
    BY <2>1, HeaderSet
  <2> QED BY <1>1, <1>3, <2>1, <2>2, Zenon
<1> QED BY <1>2, <1>3

\* A message carries what the route lists as the client sent it, the selected
\* type as the Accept header of a route that negotiates, and the identity once,
\* as the server named it.
THEOREM MessagesAreDeclared == ExchangeSpec => []MessageAsDeclared
<1>1. ExchangeInvariant => MessageAsDeclared
  <2> SUFFICES ASSUME ExchangeInvariant, message # None,
                      ~(Identified /\ Negotiates /\ security.identity.header = "Accept")
               PROVE  /\ Identified => security.identity.header \in DOMAIN message
                      /\ Negotiates => "Accept" \in DOMAIN message
                      /\ \A name \in DOMAIN message :
                          \/ Identified /\ name = security.identity.header
                             /\ \E user \in Users : validIdentity(user) /\ message[name] = <<user>>
                          \/ Negotiates /\ name = "Accept" /\ message[name] = <<representation>>
                          \/ /\ name \in Range(policy.requestHeaders)
                             /\ ~(Negotiates /\ name = "Accept")
                             /\ ~(Identified /\ name = security.identity.header)
                             /\ message[name] = request.headers[name]
    BY DEF MessageAsDeclared
  <2>1. stage # "route" /\ message = Forwarded /\ IdentityAdded
    BY DEF ExchangeInvariant
  <2>2. /\ DOMAIN message = {name \in Range(forward) : ValuesOf(headers, name) # <<>>}
        /\ \A name \in DOMAIN message : message[name] = ValuesOf(headers, name)
    BY <2>1, ForwardedOnce, ForwardedAsItStands
  <2>3. Range(forward) = Range(policy.requestHeaders) \cup (IF Negotiates THEN {"Accept"} ELSE {})
                         \cup (IF Identified THEN {security.identity.header} ELSE {})
    BY <2>1, ForwardedNames, Zenon DEF Negotiates
  <2>4. \A x : <<x>> # <<>>
    OBVIOUS
  <2>5. /\ Identified => \E user \in Users :
              validIdentity(user) /\ ValuesOf(headers, security.identity.header) = <<user>>
        /\ Negotiates => ValuesOf(headers, "Accept") = <<representation>>
        /\ \A name : ~(Negotiates /\ name = "Accept") /\ ~(Identified /\ name = security.identity.header) =>
              ValuesOf(headers, name) = ValuesOf(request.headers, name)
    BY <2>1, PublishedValues
  <2>6. Identified => security.identity.header \in DOMAIN message
    BY <2>2, <2>3, <2>4, <2>5
  <2>7. Negotiates => "Accept" \in DOMAIN message
    BY <2>2, <2>3, <2>4, <2>5
  <2>8. ASSUME NEW name \in DOMAIN message,
               ~(Identified /\ name = security.identity.header), ~(Negotiates /\ name = "Accept")
        PROVE  name \in Range(policy.requestHeaders) /\ message[name] = request.headers[name]
    <3>1. name \in Range(policy.requestHeaders)
      BY <2>2, <2>3, <2>8
    <3>2. message[name] = ValuesOf(request.headers, name) /\ message[name] # <<>>
      BY <2>2, <2>5, <2>8
    <3> QED BY <3>1, <3>2 DEF ValuesOf
  <2> QED BY <2>2, <2>5, <2>6, <2>7, <2>8, Zenon
<1> QED BY <1>1, ExchangeInvariantHolds, PTL

----------------------------------------------------------------------------
(* Credentials.                                                            *)

\* One element, however it is counted.
LEMMA CountedOnce ==
    ASSUME NEW p
    PROVE  LET proofs == {q \in {"nkey", "jwt", "tls"} : p[q] # Absent}
           IN  /\ ~hasTrustedProof(p) => Cardinality(proofs) = 0
               /\ hasNKeyProof(p) /\ ~hasNKeyJWTProof(p) /\ ~hasTLSProof(p) => Cardinality(proofs) = 1
               /\ ~hasNKeyProof(p) /\ hasNKeyJWTProof(p) /\ ~hasTLSProof(p) => Cardinality(proofs) = 1
               /\ ~hasNKeyProof(p) /\ ~hasNKeyJWTProof(p) /\ hasTLSProof(p) => Cardinality(proofs) = 1
<1> DEFINE proofs == {q \in {"nkey", "jwt", "tls"} : p[q] # Absent}
<1>1. ~hasTrustedProof(p) => proofs = {}
  BY DEF hasTrustedProof, hasNKeyProof, hasNKeyJWTProof, hasTLSProof
<1>2. hasNKeyProof(p) /\ ~hasNKeyJWTProof(p) /\ ~hasTLSProof(p) => proofs = {"nkey"}
  BY DEF hasNKeyProof, hasNKeyJWTProof, hasTLSProof
<1>3. ~hasNKeyProof(p) /\ hasNKeyJWTProof(p) /\ ~hasTLSProof(p) => proofs = {"jwt"}
  BY DEF hasNKeyProof, hasNKeyJWTProof, hasTLSProof
<1>4. ~hasNKeyProof(p) /\ ~hasNKeyJWTProof(p) /\ hasTLSProof(p) => proofs = {"tls"}
  BY DEF hasNKeyProof, hasNKeyJWTProof, hasTLSProof
<1> HIDE DEF proofs
<1> QED BY <1>1, <1>2, <1>3, <1>4, FS_EmptySet, FS_Singleton DEF proofs

\* What a success of each mechanism means.
LEMMA AdaptedForms ==
    ASSUME NEW s, NEW p, s.mechanism \in Mechanisms, adapt(s, p).error = "none"
    PROVE  LET limit == IF s.maxCredentialBytes = 0 THEN DefaultMaxCredentialBytes ELSE s.maxCredentialBytes
           IN  \/ /\ s.mechanism = "bearer_token" /\ ~hasTrustedProof(p) /\ authorizationError(p) = "none"
                  /\ adapt(s, p) = bearerToken(p, limit) /\ bearerToken(p, limit).error = "none"
               \/ /\ s.mechanism = "user_password" /\ ~hasTrustedProof(p) /\ authorizationError(p) = "none"
                  /\ adapt(s, p) = basicCredentials(p, limit) /\ basicCredentials(p, limit).error = "none"
               \/ /\ s.mechanism = "nkey"
                  /\ p.authorization = <<>> /\ hasNKeyProof(p) /\ ~hasNKeyJWTProof(p) /\ ~hasTLSProof(p)
                  /\ adapt(s, p) = adaptedContext("nkey", <<p.nkey.publicKey>>, p.nkey.publicKey)
               \/ /\ s.mechanism = "nkey_jwt"
                  /\ p.authorization = <<>> /\ ~hasNKeyProof(p) /\ hasNKeyJWTProof(p) /\ ~hasTLSProof(p)
                  /\ p.jwt.jwt # Absent
                  /\ adapt(s, p) = adaptedContext("nkey_jwt", <<p.jwt.jwt>>, p.jwt.jwt)
               \/ /\ s.mechanism = "tls"
                  /\ p.authorization = <<>> /\ ~hasNKeyProof(p) /\ ~hasNKeyJWTProof(p) /\ hasTLSProof(p)
                  /\ adapt(s, p) = adaptedContext("tls", <<p.tls.chain[1]>>, <<p.tls.chain[1]>>)
<1> DEFINE limit == IF s.maxCredentialBytes = 0 THEN DefaultMaxCredentialBytes ELSE s.maxCredentialBytes
           chosen == CASE s.mechanism = "bearer_token" -> bearerToken(p, limit)
                       [] s.mechanism = "user_password" -> basicCredentials(p, limit)
                       [] s.mechanism = "nkey" -> nkeyProof(p, limit)
                       [] s.mechanism = "nkey_jwt" -> nkeyJWTProof(p, limit)
                       [] s.mechanism = "tls" -> tlsProof(p)
<1>1. adapt(s, p) = IF ForeignCredential(s.mechanism, p) THEN Refused("ambiguous") ELSE chosen
  BY Zenon DEF adapt
<1>2. \A e : Refused(e).error = e
  BY DEF Refused
<1>3. ~ForeignCredential(s.mechanism, p) /\ adapt(s, p) = chosen
  BY <1>1, <1>2
<1> HIDE DEF limit
<1>4. CASE s.mechanism = "bearer_token"
  <2>1. ~hasTrustedProof(p) /\ adapt(s, p) = bearerToken(p, limit)
    BY <1>3, <1>4 DEF ForeignCredential
  <2>2. authorizationError(p) = "none"
    BY <1>2, <2>1 DEF bearerToken
  <2> QED BY <1>4, <2>1, <2>2 DEF limit
<1>5. CASE s.mechanism = "user_password"
  <2>1. ~hasTrustedProof(p) /\ adapt(s, p) = basicCredentials(p, limit)
    BY <1>3, <1>5 DEF ForeignCredential
  <2>2. authorizationError(p) = "none"
    BY <1>2, <2>1, Zenon DEF basicCredentials
  <2> QED BY <1>5, <2>1, <2>2 DEF limit
<1>6. CASE s.mechanism = "nkey"
  <2>1. /\ p.authorization = <<>> /\ ~hasNKeyJWTProof(p) /\ ~hasTLSProof(p)
        /\ adapt(s, p) = nkeyProof(p, limit)
    BY <1>3, <1>6 DEF ForeignCredential
  <2>2. hasNKeyProof(p) /\ adapt(s, p) = adaptedContext("nkey", <<p.nkey.publicKey>>, p.nkey.publicKey)
    BY <1>2, <2>1 DEF nkeyProof
  <2> QED BY <1>6, <2>1, <2>2
<1>7. CASE s.mechanism = "nkey_jwt"
  <2>1. /\ p.authorization = <<>> /\ ~hasNKeyProof(p) /\ ~hasTLSProof(p)
        /\ adapt(s, p) = nkeyJWTProof(p, limit)
    BY <1>3, <1>7 DEF ForeignCredential
  <2>2. /\ hasNKeyJWTProof(p) /\ p.jwt.jwt # Absent
        /\ adapt(s, p) = adaptedContext("nkey_jwt", <<p.jwt.jwt>>, p.jwt.jwt)
    <3>1. CASE ~hasNKeyJWTProof(p) \/ ~p.jwt.sign \/ p.jwt.jwt = Absent
      <4>1. adapt(s, p) = Refused("proof unavailable")
        BY <2>1, <3>1, Zenon DEF nkeyJWTProof
      <4>2. adapt(s, p).error = "proof unavailable"
        BY <1>2, <4>1, Zenon
      <4> QED BY <4>2, Zenon
    <3>2. CASE /\ ~(~hasNKeyJWTProof(p) \/ ~p.jwt.sign \/ p.jwt.jwt = Absent)
               /\ ~validTextCredential(p.jwt.jwt, limit)
      <4>1. adapt(s, p) = Refused("malformed")
        BY <2>1, <3>2, Zenon DEF nkeyJWTProof
      <4> QED BY <1>2, <4>1
    <3>3. CASE /\ ~(~hasNKeyJWTProof(p) \/ ~p.jwt.sign \/ p.jwt.jwt = Absent)
               /\ validTextCredential(p.jwt.jwt, limit)
      <4>1. adapt(s, p) = adaptedContext("nkey_jwt", <<p.jwt.jwt>>, p.jwt.jwt)
        BY <2>1, <3>3, Zenon DEF nkeyJWTProof
      <4> QED BY <3>3, <4>1
    <3> QED BY <3>1, <3>2, <3>3
  <2> QED BY <1>7, <2>1, <2>2
<1>8. CASE s.mechanism = "tls"
  <2>1. /\ p.authorization = <<>> /\ ~hasNKeyProof(p) /\ ~hasNKeyJWTProof(p)
        /\ adapt(s, p) = tlsProof(p)
    BY <1>3, <1>8 DEF ForeignCredential
  <2>2. /\ hasTLSProof(p)
        /\ adapt(s, p) = adaptedContext("tls", <<p.tls.chain[1]>>, <<p.tls.chain[1]>>)
    BY <1>2, <2>1 DEF tlsProof
  <2> QED BY <1>8, <2>1, <2>2
<1> QED BY <1>4, <1>5, <1>6, <1>7, <1>8 DEF Mechanisms

\* The mechanism and the presentation of a request that was adapted.
LEMMA AdaptedIsValid ==
    ASSUME ExchangeInvariant, adapted # None
    PROVE  /\ security.mechanism \in Mechanisms
           /\ adapted = adapt(security, request.presentation)
           /\ IsPresentation(request.presentation)
<1>1. stage # "route" /\ Adapted
  BY DEF ExchangeInvariant
<1>2. validatePolicy(policy) /\ input \in Inputs
  BY <1>1, PolicyIsValid
<1>3. security.mechanism \in Mechanisms
  BY <1>1, <1>2 DEF validatePolicy, validateSecurityUse, validateSecurity, Adapted, security
<1>4. IsPresentation(request.presentation)
  BY <1>2, ExchangeAssumption DEF request
<1> QED BY <1>1, <1>3, <1>4 DEF Adapted

\* A request that gets as far as NATS presented one credential and no other, in
\* each of the five mechanisms.
THEOREM CredentialIsAlone == ExchangeSpec => []OneCredential
<1>1. ExchangeInvariant => OneCredential
  <2> DEFINE p == request.presentation
             proofs == {q \in {"nkey", "jwt", "tls"} : p[q] # Absent}
  <2> SUFFICES ASSUME ExchangeInvariant, adapted # None, adapted.error = "none"
               PROVE  /\ Len(p.authorization) + Cardinality(proofs) = 1
                      /\ \A i \in DOMAIN p.authorization : ~p.authorization[i].comma
    BY DEF OneCredential
  <2>1. security.mechanism \in Mechanisms /\ adapt(security, p).error = "none" /\ IsPresentation(p)
    BY AdaptedIsValid
  <2>2. p.authorization \in Seq(Range(p.authorization))
    BY <2>1 DEF IsPresentation, IsSequence
  <2> HIDE DEF p
  <2>3. CASE ~hasTrustedProof(p) /\ authorizationError(p) = "none"
    <3>1. Cardinality(proofs) = 0
      BY <2>3, CountedOnce
    <3>2. Len(p.authorization) = 1 /\ ~p.authorization[1].comma
      BY <2>2, <2>3 DEF authorizationError
    <3>3. DOMAIN p.authorization = {1}
      BY <2>2, <3>2
    <3> HIDE DEF proofs
    <3> QED BY <3>1, <3>2, <3>3
  <2>4. CASE p.authorization = <<>> /\ Cardinality(proofs) = 1
    <3>1. Len(p.authorization) = 0 /\ DOMAIN p.authorization = {}
      BY <2>2, <2>4
    <3> HIDE DEF proofs
    <3> QED BY <2>4, <3>1
  <2>5. \/ ~hasTrustedProof(p) /\ authorizationError(p) = "none"
        \/ p.authorization = <<>> /\ Cardinality(proofs) = 1
    BY <2>1, AdaptedForms, CountedOnce
  <2> QED BY <2>3, <2>4, <2>5
<1> QED BY <1>1, ExchangeInvariantHolds, PTL

\* Two keys with one text have one mechanism and one credential.
LEMMA PrefixedOnce ==
    ASSUME NEW S, NEW m1 \in S, NEW m2 \in S, NEW c \in S,
           NEW t1 \in Seq(S), NEW t2 \in Seq(S), <<m1, c>> \o t1 = <<m2, c>> \o t2
    PROVE  m1 = m2 /\ t1 = t2
<1>1. <<m1, c>> \in Seq(S) /\ <<m2, c>> \in Seq(S) /\ Len(<<m1, c>>) = 2 /\ Len(<<m2, c>>) = 2
  OBVIOUS
<1>2. (<<m1, c>> \o t1)[1] = m1 /\ (<<m2, c>> \o t2)[1] = m2
  <2>1. Len(t1) \in Nat /\ Len(t2) \in Nat
    OBVIOUS
  <2>2. 1 \in 1 .. 2 + Len(t1) /\ 1 \in 1 .. 2 + Len(t2)
    BY <2>1
  <2> QED BY <1>1, <2>2, ConcatProperties
<1>3. m1 = m2
  BY <1>2
<1>4. \A s, t, v \in Seq(S) : s \o t = s \o v => t = v
  BY ConcatSimplifications, Zenon
<1> QED BY <1>1, <1>3, <1>4

\* What is divided by a character that the first part does not have is divided
\* in one way.
LEMMA DividedOnce ==
    ASSUME NEW S, NEW c \in S, NEW u1 \in Seq(S), NEW u2 \in Seq(S), NEW w1 \in Seq(S), NEW w2 \in Seq(S),
           c \notin Range(u1), c \notin Range(u2), u1 \o <<c>> \o w1 = u2 \o <<c>> \o w2
    PROVE  u1 = u2 /\ w1 = w2
<1> DEFINE text == u1 \o <<c>> \o w1
<1>1. ASSUME NEW u \in Seq(S), NEW w \in Seq(S), c \notin Range(u), text = u \o <<c>> \o w
      PROVE  /\ Len(u) \in Nat /\ text[Len(u) + 1] = c
             /\ \A i \in 1 .. Len(u) : text[i] = u[i] /\ text[i] # c
  <2>1. /\ u \o <<c>> \in Seq(S)
        /\ Len(u \o <<c>>) = Len(u) + 1
        /\ \A i \in 1 .. Len(u) + 1 : (u \o <<c>>)[i] = IF i <= Len(u) THEN u[i] ELSE <<c>>[i - Len(u)]
    <3>1. <<c>> \in Seq(S) /\ Len(<<c>>) = 1
      OBVIOUS
    <3> QED BY <3>1, ConcatProperties
  <2>2. Len(u) \in Nat /\ Len(w) \in Nat /\ DOMAIN u = 1 .. Len(u)
    OBVIOUS
  <2>3. \A i \in 1 .. (Len(u) + 1) + Len(w) : i <= Len(u) + 1 => text[i] = (u \o <<c>>)[i]
    BY <1>1, <2>1, ConcatProperties
  <2> HIDE DEF text
  <2>4. Len(u) + 1 - Len(u) = 1 /\ Len(u) + 1 \in 1 .. Len(u) + 1 /\ ~(Len(u) + 1 <= Len(u))
    BY <2>2
  <2>5. (u \o <<c>>)[Len(u) + 1] = c
    BY <2>1, <2>4
  <2>6. Len(u) + 1 \in 1 .. (Len(u) + 1) + Len(w) /\ Len(u) + 1 <= Len(u) + 1
    BY <2>2
  <2>7. text[Len(u) + 1] = c
    BY <2>3, <2>5, <2>6, Zenon
  <2>8. ASSUME NEW i \in 1 .. Len(u) PROVE text[i] = u[i] /\ text[i] # c
    <3>1. i <= Len(u) /\ i \in 1 .. Len(u) + 1 /\ i \in 1 .. (Len(u) + 1) + Len(w) /\ i <= Len(u) + 1
      BY <2>2
    <3>2. text[i] = u[i]
      BY <2>1, <2>3, <3>1
    <3>3. u[i] # c
      BY <1>1, <2>2 DEF Range
    <3> QED BY <3>2, <3>3
  <2> QED BY <2>2, <2>7, <2>8
<1> HIDE DEF text
<1>2. /\ Len(u1) \in Nat /\ text[Len(u1) + 1] = c
      /\ \A i \in 1 .. Len(u1) : text[i] = u1[i] /\ text[i] # c
  BY <1>1 DEF text
<1>3. /\ Len(u2) \in Nat /\ text[Len(u2) + 1] = c
      /\ \A i \in 1 .. Len(u2) : text[i] = u2[i] /\ text[i] # c
  BY <1>1 DEF text
<1>4. Len(u1) = Len(u2)
  <2>1. ~(Len(u1) + 1 \in 1 .. Len(u2)) /\ ~(Len(u2) + 1 \in 1 .. Len(u1))
    BY <1>2, <1>3
  <2> QED BY <1>2, <1>3, <2>1
<1>5. u1 = u2
  BY <1>2, <1>3, <1>4, SeqEqual
<1>6. u1 \o <<c>> \in Seq(S)
  <2>1. <<c>> \in Seq(S)
    OBVIOUS
  <2> QED BY <2>1, ConcatProperties
<1>7. \A s, t, v \in Seq(S) : s \o t = s \o v => t = v
  BY ConcatSimplifications, Zenon
<1> QED BY <1>5, <1>6, <1>7 DEF text

\* A success has the mechanism in front of what is presented, in the credential
\* and in the key that is hashed.
NamedKey(a, mechanism, parts, text) ==
    a.credential = <<mechanism>> \o parts /\ a.key = <<mechanism, NUL>> \o text

LEMMA ContextIsNamed ==
    ASSUME NEW m, NEW parts, NEW text
    PROVE  NamedKey(adaptedContext(m, parts, text), m, parts, text)
BY DEF NamedKey, adaptedContext, credentialKey

\* The name and the password are the two sides of the first colon.
LEMMA BasicForm ==
    ASSUME NEW p, NEW limit, IsPresentation(p), basicCredentials(p, limit).error = "none"
    PROVE  \E u, w : /\ u \in Seq(Range(u)) /\ w \in Seq(Range(w)) /\ NUL \notin Range(u)
                     /\ NamedKey(basicCredentials(p, limit), "user_password", <<u, w>>, u \o <<NUL>> \o w)
<1> DEFINE text == p.authorization[1].text
           colon == SelectInSeq(text, LAMBDA c : c = Colon)
           u == SubSeq(text, 1, colon - 1)
           w == SubSeq(text, colon + 1, Len(text))
<1>1. \A e : Refused(e).error = e
  BY DEF Refused
<1>2. authorizationError(p) = "none"
  <2>1. authorizationError(p) # "none" => basicCredentials(p, limit) = Refused(authorizationError(p))
    BY Zenon DEF basicCredentials
  <2> QED BY <1>1, <2>1
<1>3. /\ colon # 0 /\ validBasicCredential(u, limit)
      /\ basicCredentials(p, limit) = adaptedContext("user_password", <<u, w>>, u \o <<NUL>> \o w)
  <2>1. basicCredentials(p, limit) =
          IF /\ p.authorization[1].scheme = "Basic" /\ colon # 0
             /\ validBasicCredential(u, limit) /\ validBasicCredential(w, limit)
          THEN adaptedContext("user_password", <<u, w>>, u \o <<NUL>> \o w)
          ELSE Refused("malformed")
    BY <1>2, Zenon DEF basicCredentials
  <2> HIDE DEF colon, u, w
  <2>2. Refused("malformed").error # "none"
    BY <1>1
  <2> QED BY <2>1, <2>2, Zenon
<1>4. text \in Seq(Range(text)) /\ Len(text) \in Nat
  <2>1. p.authorization # <<>> /\ Len(p.authorization) = 1 /\ p.authorization \in Seq(Range(p.authorization))
    BY <1>2, Zenon DEF authorizationError, IsPresentation, IsSequence
  <2>2. 1 \in DOMAIN p.authorization
    BY <2>1
  <2>3. text \in Seq(Range(text))
    BY <2>2 DEF IsPresentation, IsSequence
  <2> HIDE DEF text
  <2> QED BY <2>3
<1>5. colon \in 1 .. Len(text)
  <2> DEFINE I == {k \in 1 .. Len(text) : text[k] = Colon}
  <2>1. colon = IF I # {} THEN Min(I) ELSE 0
    BY DEF SelectInSeq
  <2>2. I # {} /\ colon = Min(I)
    BY <1>3, <2>1
  <2>3. I \in SUBSET Nat
    OBVIOUS
  <2>4. Min(I) \in I
    <3> HIDE DEF I
    <3>1. \E x \in I : \A y \in I : x <= y
      BY <2>2, <2>3, LeastNumber
    <3> QED BY <3>1, Zenon DEF Min
  <2> QED BY <2>2, <2>4
<1> HIDE DEF text, colon
<1>6. u \in Seq(Range(text)) /\ w \in Seq(Range(text))
  <2>1. \A k \in 1 .. colon - 1 : text[k] \in Range(text)
    BY <1>4, <1>5 DEF Range
  <2>2. \A k \in colon + 1 .. Len(text) : text[k] \in Range(text)
    BY <1>4, <1>5 DEF Range
  <2>3. colon - 1 \in Int /\ colon + 1 \in Int /\ Len(text) \in Int /\ 1 \in Int
    BY <1>4, <1>5
  <2> QED BY <2>1, <2>2, <2>3, SubSeqProperties
<1> HIDE DEF u, w
<1>7. u \in Seq(Range(u)) /\ w \in Seq(Range(w))
  BY <1>6, SeqOfRange
<1>8. NUL \notin Range(u)
  BY <1>3 DEF validBasicCredential
<1> QED BY <1>3, <1>7, <1>8, ContextIsNamed

\* The form of every success.
LEMMA KeyForms ==
    ASSUME NEW s, NEW p, s.mechanism \in Mechanisms, IsPresentation(p), adapt(s, p).error = "none"
    PROVE  \E parts, text :
                /\ NamedKey(adapt(s, p), s.mechanism, parts, text)
                /\ text \in Seq(Range(text))
                /\ IF s.mechanism = "user_password"
                   THEN \E u, w : /\ u \in Seq(Range(u)) /\ w \in Seq(Range(w)) /\ NUL \notin Range(u)
                                  /\ parts = <<u, w>> /\ text = u \o <<NUL>> \o w
                   ELSE parts = IF s.mechanism = "tls" THEN text ELSE <<text>>
<1> DEFINE limit == IF s.maxCredentialBytes = 0 THEN DefaultMaxCredentialBytes ELSE s.maxCredentialBytes
<1>1. CASE /\ s.mechanism = "bearer_token" /\ authorizationError(p) = "none"
           /\ adapt(s, p) = bearerToken(p, limit) /\ bearerToken(p, limit).error = "none"
  <2> DEFINE text == p.authorization[1].text
  <2>1. adapt(s, p) = adaptedContext("bearer_token", <<text>>, text)
    <3>1. \A e : Refused(e).error = e
      BY DEF Refused
    <3> HIDE DEF limit
    <3> QED BY <1>1, <3>1 DEF bearerToken
  <2>2. p.authorization # <<>> /\ Len(p.authorization) = 1 /\ p.authorization \in Seq(Range(p.authorization))
    BY <1>1, Zenon DEF authorizationError, IsPresentation, IsSequence
  <2>3. 1 \in DOMAIN p.authorization
    BY <2>2
  <2>4. text \in Seq(Range(text))
    BY <2>3 DEF IsPresentation, IsSequence
  <2>5. NamedKey(adapt(s, p), s.mechanism, <<text>>, text)
    BY <1>1, <2>1, ContextIsNamed
  <2> HIDE DEF text
  <2> QED BY <1>1, <2>4, <2>5
<1>2. CASE /\ s.mechanism = "user_password"
           /\ adapt(s, p) = basicCredentials(p, limit) /\ basicCredentials(p, limit).error = "none"
  <2>1. PICK u, w : /\ u \in Seq(Range(u)) /\ w \in Seq(Range(w)) /\ NUL \notin Range(u)
                    /\ NamedKey(basicCredentials(p, limit), "user_password", <<u, w>>, u \o <<NUL>> \o w)
    BY <1>2, BasicForm
  <2> DEFINE S == Range(u) \cup Range(w) \cup {NUL}
             text == u \o <<NUL>> \o w
  <2>2. u \in Seq(S) /\ w \in Seq(S) /\ <<NUL>> \in Seq(S)
    BY <2>1, SeqMonotonic
  <2>3. text \in Seq(S)
    <3> HIDE DEF S
    <3> QED BY <2>2, ConcatProperties
  <2>4. text \in Seq(Range(text))
    <3> HIDE DEF S, text
    <3> QED BY <2>3, SeqOfRange
  <2>5. NamedKey(adapt(s, p), s.mechanism, <<u, w>>, text)
    BY <1>2, <2>1
  <2> QED BY <1>2, <2>1, <2>4, <2>5
<1>3. CASE s.mechanism = "nkey" /\ hasNKeyProof(p)
           /\ adapt(s, p) = adaptedContext("nkey", <<p.nkey.publicKey>>, p.nkey.publicKey)
  <2>1. p.nkey.publicKey \in Seq(Range(p.nkey.publicKey))
    BY <1>3 DEF hasNKeyProof, IsPresentation, IsSequence
  <2>2. NamedKey(adapt(s, p), s.mechanism, <<p.nkey.publicKey>>, p.nkey.publicKey)
    BY <1>3, ContextIsNamed
  <2> QED BY <1>3, <2>1, <2>2
<1>4. CASE s.mechanism = "nkey_jwt" /\ hasNKeyJWTProof(p) /\ p.jwt.jwt # Absent
           /\ adapt(s, p) = adaptedContext("nkey_jwt", <<p.jwt.jwt>>, p.jwt.jwt)
  <2>1. p.jwt.jwt \in Seq(Range(p.jwt.jwt))
    BY <1>4 DEF hasNKeyJWTProof, IsPresentation, IsSequence
  <2>2. NamedKey(adapt(s, p), s.mechanism, <<p.jwt.jwt>>, p.jwt.jwt)
    BY <1>4, ContextIsNamed
  <2> QED BY <1>4, <2>1, <2>2
<1>5. CASE s.mechanism = "tls"
           /\ adapt(s, p) = adaptedContext("tls", <<p.tls.chain[1]>>, <<p.tls.chain[1]>>)
  <2> DEFINE c == p.tls.chain[1]
  <2>1. <<c>> \in Seq(Range(<<c>>))
    <3>1. <<c>> \in Seq({c})
      OBVIOUS
    <3> QED BY <3>1, SeqOfRange
  <2>2. NamedKey(adapt(s, p), s.mechanism, <<c>>, <<c>>)
    BY <1>5, ContextIsNamed
  <2> HIDE DEF c
  <2> QED BY <1>5, <2>1, <2>2
<1> HIDE DEF limit
<1> QED BY <1>1, <1>2, <1>3, <1>4, <1>5, AdaptedForms DEF limit

\* One key has one mechanism and one text in it.
LEMMA NamedOnce ==
    ASSUME NEW a1, NEW m1, NEW parts1, NEW text1, NamedKey(a1, m1, parts1, text1), text1 \in Seq(Range(text1)),
           NEW a2, NEW m2, NEW parts2, NEW text2, NamedKey(a2, m2, parts2, text2), text2 \in Seq(Range(text2)),
           a1.key = a2.key
    PROVE  m1 = m2 /\ text1 = text2
<1>1. PICK S : S = Range(text1) \cup Range(text2) \cup {m1, m2, NUL}
  OBVIOUS
<1>2. text1 \in Seq(S) /\ text2 \in Seq(S)
  BY <1>1, SeqMonotonic
<1>3. m1 \in S /\ m2 \in S /\ NUL \in S
  BY <1>1
<1>4. <<m1, NUL>> \o text1 = <<m2, NUL>> \o text2
  BY DEF NamedKey
<1> QED BY <1>2, <1>3, <1>4, PrefixedOnce

\* One key, one credential, whatever the mechanisms of the two.
LEMMA KeyMeansCredential ==
    ASSUME NEW s1, NEW p1, s1.mechanism \in Mechanisms, IsPresentation(p1), adapt(s1, p1).error = "none",
           NEW s2, NEW p2, s2.mechanism \in Mechanisms, IsPresentation(p2), adapt(s2, p2).error = "none",
           adapt(s1, p1).key = adapt(s2, p2).key
    PROVE  adapt(s1, p1).credential = adapt(s2, p2).credential
<1>1. PICK parts1, text1 :
        /\ NamedKey(adapt(s1, p1), s1.mechanism, parts1, text1)
        /\ text1 \in Seq(Range(text1))
        /\ IF s1.mechanism = "user_password"
           THEN \E u, w : /\ u \in Seq(Range(u)) /\ w \in Seq(Range(w)) /\ NUL \notin Range(u)
                          /\ parts1 = <<u, w>> /\ text1 = u \o <<NUL>> \o w
           ELSE parts1 = IF s1.mechanism = "tls" THEN text1 ELSE <<text1>>
  BY KeyForms
<1>2. PICK parts2, text2 :
        /\ NamedKey(adapt(s2, p2), s2.mechanism, parts2, text2)
        /\ text2 \in Seq(Range(text2))
        /\ IF s2.mechanism = "user_password"
           THEN \E u, w : /\ u \in Seq(Range(u)) /\ w \in Seq(Range(w)) /\ NUL \notin Range(u)
                          /\ parts2 = <<u, w>> /\ text2 = u \o <<NUL>> \o w
           ELSE parts2 = IF s2.mechanism = "tls" THEN text2 ELSE <<text2>>
  BY KeyForms
<1>3. s1.mechanism = s2.mechanism /\ text1 = text2
  BY <1>1, <1>2, NamedOnce
<1>4. parts1 = parts2
  <2>1. CASE s1.mechanism # "user_password"
    BY <1>1, <1>2, <1>3, <2>1
  <2>2. CASE s1.mechanism = "user_password"
    <3>1. PICK u1, w1 : /\ u1 \in Seq(Range(u1)) /\ w1 \in Seq(Range(w1)) /\ NUL \notin Range(u1)
                        /\ parts1 = <<u1, w1>> /\ text1 = u1 \o <<NUL>> \o w1
      BY <1>1, <2>2
    <3>2. PICK u2, w2 : /\ u2 \in Seq(Range(u2)) /\ w2 \in Seq(Range(w2)) /\ NUL \notin Range(u2)
                        /\ parts2 = <<u2, w2>> /\ text2 = u2 \o <<NUL>> \o w2
      BY <1>2, <1>3, <2>2
    <3> DEFINE S == Range(u1) \cup Range(u2) \cup Range(w1) \cup Range(w2) \cup {NUL}
    <3>3. u1 \in Seq(S) /\ u2 \in Seq(S) /\ w1 \in Seq(S) /\ w2 \in Seq(S) /\ NUL \in S
      BY <3>1, <3>2, SeqMonotonic
    <3> HIDE DEF S
    <3>4. u1 = u2 /\ w1 = w2
      BY <1>3, <3>1, <3>2, <3>3, DividedOnce
    <3> QED BY <3>1, <3>2, <3>4
  <2> QED BY <2>1, <2>2
<1> QED BY <1>1, <1>2, <1>3, <1>4 DEF NamedKey

\* Two requests are pooled under one key only when they present the same
\* credential in the same mechanism: the concatenation that is hashed does not
\* confuse a user and a password, or two mechanisms.
THEOREM KeysTellApart == ExchangeSpec => []KeysIdentify
<1>1. ExchangeInvariant => KeysIdentify
  <2> SUFFICES ASSUME ExchangeInvariant, adapted # None, adapted.error = "none",
                      NEW other \in AllAdapted, other.error = "none", other.key = adapted.key
               PROVE  other.credential = adapted.credential
    BY DEF KeysIdentify
  <2>1. /\ security.mechanism \in Mechanisms
        /\ adapted = adapt(security, request.presentation)
        /\ IsPresentation(request.presentation)
    BY AdaptedIsValid
  <2>2. PICK m \in Mechanisms, p \in Presented :
          other = adapt([mechanism |-> m, maxCredentialBytes |-> 0], p)
    BY DEF AllAdapted
  <2>3. IsPresentation(p)
    BY ExchangeAssumption DEF Presented
  <2> DEFINE s == [mechanism |-> m, maxCredentialBytes |-> 0]
  <2>4. s.mechanism \in Mechanisms /\ other = adapt(s, p)
    BY <2>2
  <2> HIDE DEF s
  <2> QED BY <2>1, <2>3, <2>4, KeyMeansCredential
<1> QED BY <1>1, ExchangeInvariantHolds, PTL

----------------------------------------------------------------------------
(* The representation: that the choices selectRepresentation makes can be  *)
(* made.                                                                   *)

\* A relation that is total and transitive on a finite set of numbers has a
\* greatest element there.
LEMMA GreatestExists ==
    ASSUME NEW n \in Nat, NEW F \in SUBSET (1 .. n), F # {}, NEW R,
           \A i, j \in F : i # j => <<i, j>> \in R \/ <<j, i>> \in R,
           \A i, j, k \in F : <<i, j>> \in R /\ <<j, k>> \in R => <<i, k>> \in R
    PROVE  \E i \in F : \A j \in F \ {i} : <<i, j>> \in R
<1> DEFINE Below(m) == {i \in F : i <= m}
           T == {m \in 0 .. n : Below(m) # {} /\ ~\E i \in Below(m) : \A j \in Below(m) \ {i} : <<i, j>> \in R}
<1>0. \A i \in F : i \in Nat /\ 1 <= i /\ i <= n
  OBVIOUS
<1>1. T = {}
  <2> SUFFICES ASSUME T # {} PROVE FALSE
    OBVIOUS
  <2>1. PICK m \in T : \A k \in T : m <= k
    <3>1. T \in SUBSET Nat
      OBVIOUS
    <3> HIDE DEF T
    <3> QED BY <3>1, LeastNumber
  <2>2. /\ m \in 0 .. n /\ Below(m) # {}
        /\ ~\E i \in Below(m) : \A j \in Below(m) \ {i} : <<i, j>> \in R
    BY <2>1
  <2>3. m # 0
    <3>1. PICK i \in F : i <= m
      BY <2>2
    <3> QED BY <1>0, <3>1
  <2>4. m - 1 \in 0 .. n /\ m - 1 \notin T
    BY <2>1, <2>2, <2>3
  <2>5. Below(m) \ {m} = Below(m - 1)
    <3>1. ASSUME NEW i \in F PROVE i <= m - 1 <=> i <= m /\ i # m
      <4>1. i \in Nat /\ m \in Nat
        BY <1>0, <2>2
      <4> HIDE DEF T, Below
      <4> QED BY <4>1
    <3> HIDE DEF T
    <3>2. \A i : i \in Below(m) \ {m} <=> i \in Below(m - 1)
      BY <3>1, Zenon
    <3> QED BY <3>2, Zenon
  <2>6. Below(m - 1) \subseteq F /\ Below(m) \subseteq F
    OBVIOUS
  <2>7. CASE Below(m - 1) = {}
    <3>1. Below(m) = {m}
      BY <2>2, <2>5, <2>7
    <3> HIDE DEF Below
    <3> QED BY <2>2, <3>1
  <2>8. CASE Below(m - 1) # {}
    <3>1. PICK x \in Below(m - 1) : \A j \in Below(m - 1) \ {x} : <<x, j>> \in R
      BY <2>4, <2>8
    <3>2. x # m /\ x \in Below(m) /\ x \in F
      BY <2>5, <2>6, <3>1
    <3> HIDE DEF Below, T
    <3>3. CASE m \notin Below(m)
      BY <2>2, <2>5, <3>1, <3>2, <3>3
    <3>4. CASE m \in Below(m) /\ <<x, m>> \in R
      <4>1. \A j \in Below(m) \ {x} : <<x, j>> \in R
        BY <2>5, <3>1, <3>4
      <4> QED BY <2>2, <3>2, <4>1
    <3>5. CASE m \in Below(m) /\ <<m, x>> \in R
      <4>1. ASSUME NEW j \in Below(m) \ {m} PROVE <<m, j>> \in R
        <5>1. j = x \/ <<x, j>> \in R
          BY <2>5, <3>1
        <5>2. j \in F /\ m \in F
          BY <2>6, <3>5
        <5> QED BY <3>2, <3>5, <5>1, <5>2
      <4> QED BY <2>2, <3>5, <4>1
    <3> QED BY <2>6, <3>2, <3>3, <3>4, <3>5
  <2> QED BY <2>7, <2>8
<1>2. Below(n) = F
  BY <1>0
<1>3. n \in 0 .. n /\ n \notin T
  <2> HIDE DEF T
  <2> QED BY <1>1
<1> QED BY <1>2, <1>3

\* The joined header is a sequence of items.
LEMMA HeaderItems ==
    ASSUME ExchangeInvariant, stage # "route", AcceptHeader # Oversized
    PROVE  /\ AcceptHeader \in Seq(Range(AcceptHeader))
           /\ \A i \in DOMAIN AcceptHeader : AcceptHeader[i] # Blank =>
                IsSequence(AcceptHeader[i].range) /\ IsSequence(AcceptHeader[i].segments)
<1> DEFINE lines == AcceptLines
           parts == [i \in DOMAIN lines |-> IF lines[i] = <<>> /\ Len(lines) > 1 THEN <<Blank>> ELSE lines[i]]
           S == {Blank} \cup UNION {Range(lines[k]) : k \in DOMAIN lines}
<1>1. IsAccept(lines)
  <2>1. CASE "Accept" \in DOMAIN request.headers
    BY <2>1, PolicyIsValid, ExchangeAssumption DEF AcceptLines, request
  <2>2. CASE "Accept" \notin DOMAIN request.headers
    <3>1. lines = <<>>
      BY <2>2 DEF AcceptLines
    <3>2. <<>> \in Seq(Range(<<>>)) /\ DOMAIN <<>> = {}
      OBVIOUS
    <3> HIDE DEF lines
    <3> QED BY <3>1, <3>2 DEF IsAccept, IsSequence
  <2> QED BY <2>1, <2>2
<1>2. Oversized \notin Range(lines) /\ AcceptHeader = FlattenSeq(parts)
  BY DEF AcceptHeader, Joined
<1> HIDE DEF lines
<1>3. lines \in Seq(Range(lines)) /\ Len(lines) \in Nat /\ DOMAIN lines = 1 .. Len(lines)
  BY <1>1 DEF IsAccept, IsSequence
<1>4. ASSUME NEW k \in DOMAIN lines
      PROVE  /\ lines[k] \in Seq(Range(lines[k]))
             /\ \A j \in DOMAIN lines[k] : lines[k][j] # Blank =>
                    IsSequence(lines[k][j].range) /\ IsSequence(lines[k][j].segments)
  BY <1>1, <1>2 DEF IsAccept, IsSequence, Range
<1>5. ASSUME NEW k \in DOMAIN lines PROVE parts[k] \in Seq(S)
  <2>1. lines[k] \in Seq(S)
    <3>1. Range(lines[k]) \subseteq S
      OBVIOUS
    <3> HIDE DEF S
    <3> QED BY <1>4, <3>1, SeqMonotonic
  <2>2. <<Blank>> \in Seq(S)
    <3>1. Blank \in S
      OBVIOUS
    <3> HIDE DEF S
    <3> QED BY <3>1
  <2> HIDE DEF S
  <2> QED BY <2>1, <2>2
<1>6. parts \in Seq(Seq(S))
  <2> HIDE DEF S
  <2>1. parts \in [1 .. Len(lines) -> Seq(S)]
    BY <1>3, <1>5
  <2> HIDE DEF parts
  <2> QED BY <1>3, <2>1, SeqDef
<1> HIDE DEF parts
<1>7. AcceptHeader \in Seq(S)
  <2> HIDE DEF S
  <2> QED BY <1>2, <1>6, FlattenedIsSequence
<1>8. ASSUME NEW x \in S, x # Blank PROVE IsSequence(x.range) /\ IsSequence(x.segments)
  <2>1. PICK k \in DOMAIN lines : x \in Range(lines[k])
    BY <1>8
  <2>2. PICK j \in DOMAIN lines[k] : x = lines[k][j]
    BY <2>1 DEF Range
  <2> QED BY <1>4, <1>8, <2>2
<1> HIDE DEF S
<1>9. AcceptHeader \in Seq(Range(AcceptHeader)) /\ \A i \in DOMAIN AcceptHeader : AcceptHeader[i] \in S
  BY <1>7, SeqOfRange
<1> QED BY <1>8, <1>9

\* The first q ends the parameters of an item.
LEMMA MediaEnds ==
    ASSUME NEW item, IsSequence(item.segments)
    PROVE  /\ MediaEnd(item) \in 1 .. Len(item.segments) + 1
           /\ Len(item.segments) \in Nat
           /\ Parameters(item) \in Seq(Range(item.segments))
<1> DEFINE qs == {i \in DOMAIN item.segments : item.segments[i].name = "q"}
<1>1. /\ item.segments \in Seq(Range(item.segments)) /\ Len(item.segments) \in Nat
      /\ DOMAIN item.segments = 1 .. Len(item.segments)
  BY DEF IsSequence
<1>2. MediaEnd(item) = IF qs = {} THEN Len(item.segments) + 1 ELSE Min(qs)
  BY DEF MediaEnd
<1>3. qs # {} => Min(qs) \in qs
  <2>1. qs \in SUBSET Nat
    BY <1>1
  <2> HIDE DEF qs
  <2>2. qs # {} => \E x \in qs : \A y \in qs : x <= y
    BY <2>1, LeastNumber
  <2> QED BY <2>2, Zenon DEF Min
<1>4. qs \subseteq 1 .. Len(item.segments)
  BY <1>1
<1> HIDE DEF qs
<1>5. MediaEnd(item) \in 1 .. Len(item.segments) + 1
  <2>1. MediaEnd(item) = Len(item.segments) + 1 \/ MediaEnd(item) \in 1 .. Len(item.segments)
    BY <1>2, <1>3, <1>4
  <2>2. Len(item.segments) \in Nat
    BY <1>1
  <2> QED BY <2>1, <2>2
<1>6. \A i \in 1 .. MediaEnd(item) - 1 : item.segments[i] \in Range(item.segments)
  BY <1>1, <1>5 DEF Range
<1>7. MediaEnd(item) - 1 \in Int
  BY <1>5
<1> QED BY <1>1, <1>5, <1>6, <1>7, SubSeqProperties DEF Parameters

\* The range of a valid item can be compared with others.
LEMMA RangeIsComparable ==
    ASSUME NEW item, validItem(item), IsSequence(item.segments)
    PROVE  /\ acceptRange(item).quality \in 0 .. 1000
           /\ acceptRange(item).specificity \in Nat
           /\ Cardinality(acceptRange(item).parameters) \in Nat
<1>1. acceptRange(item).quality = IF HasQuality(item) THEN item.segments[MediaEnd(item)].value ELSE 1000
  BY DEF acceptRange
<1>2. HasQuality(item) => item.segments[MediaEnd(item)].value \in 0 .. 1000
  BY DEF validItem
<1>3. acceptRange(item).specificity \in Nat
  <2>1. acceptRange(item).specificity = Cardinality({i \in 1 .. 2 : item.range[i] # Star})
    BY DEF acceptRange
  <2>2. IsFiniteSet(1 .. 2)
    <3>1. 1 \in Int /\ 2 \in Int
      OBVIOUS
    <3> QED BY <3>1, FS_Interval, Zenon
  <2>3. IsFiniteSet({i \in 1 .. 2 : item.range[i] # Star})
    BY <2>2, FS_Subset
  <2> QED BY <2>1, <2>3, FS_CardinalityType
<1>4. Cardinality(acceptRange(item).parameters) \in Nat
  <2> DEFINE s == Parameters(item)
             D == DOMAIN s
             V == {<<p.name, p.value>> : p \in Range(s)}
             f == [i \in D |-> <<s[i].name, s[i].value>>]
  <2>1. s \in Seq(Range(item.segments))
    BY MediaEnds
  <2>2. IsFiniteSet(D)
    <3>1. D = 1 .. Len(s) /\ Len(s) \in Nat
      BY <2>1
    <3> QED BY <3>1, FS_Interval
  <2>3. f \in Surjection(D, V)
    BY DEF Surjection, Range
  <2>4. IsFiniteSet(V)
    <3> HIDE DEF D, V, f
    <3> QED BY <2>2, <2>3, FS_Surjection
  <2>5. acceptRange(item).parameters = V
    BY DEF acceptRange
  <2> QED BY <2>4, <2>5, FS_CardinalityType
<1> QED BY <1>1, <1>2, <1>3, <1>4

\* The order of lines 52-56 as numbers.
LEMMA OrderIsTotal ==
    ASSUME NEW a1 \in Nat, NEW a2 \in Nat, NEW a3 \in Nat, NEW b1 \in Nat, NEW b2 \in Nat, NEW b3 \in Nat,
           NEW i \in Nat, NEW j \in Nat, NEW k \in Nat
    PROVE  /\ i # j =>
                \/ a1 > a2 \/ (a1 = a2 /\ b1 - b2 > 0) \/ (a1 = a2 /\ b1 - b2 = 0 /\ i < j)
                \/ a2 > a1 \/ (a2 = a1 /\ b2 - b1 > 0) \/ (a2 = a1 /\ b2 - b1 = 0 /\ j < i)
           /\ /\ a1 > a2 \/ (a1 = a2 /\ b1 - b2 > 0) \/ (a1 = a2 /\ b1 - b2 = 0 /\ i < j)
              /\ a2 > a3 \/ (a2 = a3 /\ b2 - b3 > 0) \/ (a2 = a3 /\ b2 - b3 = 0 /\ j < k)
              => a1 > a3 \/ (a1 = a3 /\ b1 - b3 > 0) \/ (a1 = a3 /\ b1 - b3 = 0 /\ i < k)
OBVIOUS

\* Every range can be compared with every other.
Comparable(ranges, n) ==
    /\ n \in Nat /\ DOMAIN ranges = 1 .. n
    /\ \A i \in 1 .. n :
        /\ ranges[i].quality \in 0 .. 1000
        /\ ranges[i].specificity \in Nat
        /\ Cardinality(ranges[i].parameters) \in Nat

\* Precedes, as the numbers it compares.
LEMMA PrecedesMeans ==
    ASSUME NEW ranges, NEW i, NEW j
    PROVE  Precedes(ranges, i, j) <=>
             \/ ranges[i].specificity > ranges[j].specificity
             \/ /\ ranges[i].specificity = ranges[j].specificity
                /\ Cardinality(ranges[i].parameters) - Cardinality(ranges[j].parameters) > 0
             \/ /\ ranges[i].specificity = ranges[j].specificity
                /\ Cardinality(ranges[i].parameters) - Cardinality(ranges[j].parameters) = 0
                /\ i < j
BY DEF Precedes

\* Of two ranges one precedes the other, and preceding is transitive.
LEMMA PrecedingIsTotal ==
    ASSUME NEW n, NEW ranges, Comparable(ranges, n), NEW i \in 1 .. n, NEW j \in 1 .. n, NEW k \in 1 .. n
    PROVE  /\ i # j => Precedes(ranges, i, j) \/ Precedes(ranges, j, i)
           /\ Precedes(ranges, i, j) /\ Precedes(ranges, j, k) => Precedes(ranges, i, k)
<1> DEFINE w(l) == ranges[l].specificity
           c(l) == Cardinality(ranges[l].parameters)
<1>1. i \in Nat /\ j \in Nat /\ k \in Nat
  BY DEF Comparable
<1>2. /\ w(i) \in Nat /\ w(j) \in Nat /\ w(k) \in Nat
      /\ c(i) \in Nat /\ c(j) \in Nat /\ c(k) \in Nat
  BY DEF Comparable
<1>3. \A l, o \in {i, j, k} : Precedes(ranges, l, o) <=>
          w(l) > w(o) \/ (w(l) = w(o) /\ c(l) - c(o) > 0) \/ (w(l) = w(o) /\ c(l) - c(o) = 0 /\ l < o)
  BY PrecedesMeans
<1> HIDE DEF w, c
<1> QED BY <1>1, <1>2, <1>3

\* The ranges that match a type.
Fitting(ranges, type) == {i \in DOMAIN ranges : matches(ranges[i], type)}

\* Of some ranges one precedes the others.
LEMMA FirstRange ==
    ASSUME NEW n, NEW ranges, Comparable(ranges, n), NEW F \in SUBSET (1 .. n), F # {}
    PROVE  \E i \in F : \A j \in F \ {i} : Precedes(ranges, i, j)
<1> DEFINE R == {e \in F \X F : Precedes(ranges, e[1], e[2])}
<1>1. \A i, j \in F : <<i, j>> \in R <=> Precedes(ranges, i, j)
  OBVIOUS
<1>2. \A i, j \in F : i # j => <<i, j>> \in R \/ <<j, i>> \in R
  BY <1>1, PrecedingIsTotal
<1>3. \A i, j, k \in F : <<i, j>> \in R /\ <<j, k>> \in R => <<i, k>> \in R
  BY <1>1, PrecedingIsTotal
<1>4. n \in Nat
  BY DEF Comparable
<1> HIDE DEF R
<1>5. \E i \in F : \A j \in F \ {i} : <<i, j>> \in R
  BY <1>2, <1>3, <1>4, GreatestExists
<1> QED BY <1>1, <1>5

\* One of the ranges that match a type decides its quality.
LEMMA DecidingRange ==
    ASSUME NEW n, NEW ranges, Comparable(ranges, n), NEW type
    PROVE  /\ Fitting(ranges, type) = {} => Quality(ranges, type) = 0
           /\ Fitting(ranges, type) # {} =>
                \E i \in Fitting(ranges, type) :
                    /\ Quality(ranges, type) = ranges[i].quality
                    /\ \A j \in Fitting(ranges, type) \ {i} : Precedes(ranges, i, j)
<1>1. Quality(ranges, type) =
        IF Fitting(ranges, type) = {} THEN 0
        ELSE ranges[CHOOSE i \in Fitting(ranges, type) :
                        \A j \in Fitting(ranges, type) \ {i} : Precedes(ranges, i, j)].quality
  BY DEF Quality, Fitting
<1>2. Fitting(ranges, type) \in SUBSET (1 .. n)
  BY DEF Fitting, Comparable
<1>3. ASSUME Fitting(ranges, type) # {}
      PROVE  \E i \in Fitting(ranges, type) :
                /\ Quality(ranges, type) = ranges[i].quality
                /\ \A j \in Fitting(ranges, type) \ {i} : Precedes(ranges, i, j)
  <2>1. \E i \in Fitting(ranges, type) : \A j \in Fitting(ranges, type) \ {i} : Precedes(ranges, i, j)
    BY <1>2, <1>3, FirstRange
  <2> QED BY <1>1, <1>3, <2>1, Zenon
<1> QED BY <1>1, <1>3

\* What a type is preferred by.
LEMMA QualityInRange ==
    ASSUME NEW n, NEW ranges, Comparable(ranges, n), NEW type
    PROVE  Quality(ranges, type) \in Nat
<1>1. CASE Fitting(ranges, type) = {}
  BY <1>1, DecidingRange
<1>2. CASE Fitting(ranges, type) # {}
  <2>1. PICK i \in Fitting(ranges, type) : Quality(ranges, type) = ranges[i].quality
    BY <1>2, DecidingRange
  <2>2. i \in 1 .. n
    BY DEF Fitting, Comparable
  <2>3. ranges[i].quality \in 0 .. 1000
    BY <2>2 DEF Comparable
  <2>4. \A x, y : x = y /\ y \in 0 .. 1000 => x \in Nat
    OBVIOUS
  <2> QED BY <2>1, <2>3, <2>4, Zenon
<1> QED BY <1>1, <1>2

\* The type at k is the first of those of the highest quality.
FirstBest(q, k) ==
    /\ q[k] > 0
    /\ \A l \in DOMAIN q : q[l] < q[k] \/ (q[l] = q[k] /\ l >= k)

\* The place k is the first of a number.
IsFirst(q, k) == \A l \in 1 .. k - 1 : q[l] # q[k]

\* Where a number first occurs in a list.
LEMMA FirstPlace ==
    ASSUME NEW m \in Nat, NEW q, NEW top \in 1 .. m
    PROVE  \E k \in 1 .. m : q[k] = q[top] /\ IsFirst(q, k)
<1> DEFINE T == {k \in 1 .. m : q[k] = q[top]}
<1>1. T \in SUBSET Nat /\ T # {}
  OBVIOUS
<1>2. \A k : k \in T <=> k \in 1 .. m /\ q[k] = q[top]
  OBVIOUS
<1> HIDE DEF T
<1>3. PICK k \in T : \A l \in T : k <= l
  BY <1>1, LeastNumber
<1>4. k \in 1 .. m /\ q[k] = q[top]
  BY <1>2
<1>5. ASSUME NEW l \in 1 .. k - 1 PROVE l \in 1 .. m /\ ~(k <= l)
  BY <1>4
<1>6. IsFirst(q, k)
  BY <1>2, <1>3, <1>4, <1>5 DEF IsFirst
<1> QED BY <1>4, <1>6

\* The first of the greatest numbers of a list, which Max finds.
LEMMA GreatestNumber ==
    ASSUME NEW m \in Nat, m # 0, NEW q, DOMAIN q = 1 .. m, \A k \in 1 .. m : q[k] \in Nat
    PROVE  \E k \in 1 .. m : Max(Range(q)) = q[k] /\ IsFirst(q, k) /\ \A l \in 1 .. m : q[k] >= q[l]
<1>1. PICK top \in 1 .. m : \A l \in 1 .. m : q[top] >= q[l]
  <2> DEFINE D == 1 .. m
             R == {e \in D \X D : q[e[1]] >= q[e[2]]}
  <2>1. \A i, j \in D : <<i, j>> \in R <=> q[i] >= q[j]
    OBVIOUS
  <2>2. 1 \in D
    OBVIOUS
  <2>3. D \in SUBSET (1 .. m)
    OBVIOUS
  <2> HIDE DEF D, R
  <2>4. \A i \in D : q[i] \in Nat
    BY DEF D
  <2>5. \A i, j \in D : i # j => <<i, j>> \in R \/ <<j, i>> \in R
    BY <2>1, <2>4
  <2>6. \A i, j, k \in D : <<i, j>> \in R /\ <<j, k>> \in R => <<i, k>> \in R
    BY <2>1, <2>4
  <2>7. PICK top \in D : \A j \in D \ {top} : <<top, j>> \in R
    BY <2>2, <2>3, <2>5, <2>6, GreatestExists
  <2>8. \A j \in D : q[top] >= q[j]
    <3> SUFFICES ASSUME NEW j \in D PROVE q[top] >= q[j]
      OBVIOUS
    <3>1. CASE j = top
      BY <2>4, <3>1
    <3>2. CASE j # top
      BY <2>1, <2>7, <3>2
    <3> QED BY <3>1, <3>2
  <2> QED BY <2>8 DEF D
<1>2. q[top] \in Range(q) /\ \A y \in Range(q) : q[top] >= y
  BY <1>1 DEF Range
<1>3. Range(q) \subseteq Nat
  BY DEF Range
<1> DEFINE V == Range(q)
           v == q[top]
<1> HIDE DEF V, v
<1>4. v \in V /\ (\A y \in V : v >= y) /\ V \subseteq Nat
  BY <1>2, <1>3 DEF V, v
<1>5. Max(V) = CHOOSE x \in V : \A y \in V : x >= y
  BY DEF Max
<1>6. Max(V) \in V /\ \A y \in V : Max(V) >= y
  BY <1>4, <1>5, Zenon
<1>7. \A x, y \in Nat : x >= y /\ y >= x => x = y
  OBVIOUS
<1>8. Max(V) = v
  BY <1>4, <1>6, <1>7, Zenon
<1>9. PICK k \in 1 .. m : q[k] = q[top] /\ IsFirst(q, k)
  BY FirstPlace
<1> QED BY <1>1, <1>8, <1>9 DEF V, v

\* The loop of lines 43-65 selects such a type when there is one.
LEMMA BestIsFirst ==
    ASSUME NEW n, NEW ranges, Comparable(ranges, n),
           NEW m \in Nat, m # 0, NEW types, DOMAIN types = 1 .. m,
           NEW q, q = [k \in DOMAIN types |-> Quality(ranges, types[k])]
    PROVE  \/ Best(ranges, types) = Panic
           \/ Best(ranges, types) = NotAcceptable /\ \A k \in DOMAIN types : q[k] = 0
           \/ \E k \in DOMAIN types : Best(ranges, types) = types[k] /\ FirstBest(q, k)
<1> DEFINE C(k) == q[k] = Max(Range(q)) /\ \A l \in 1 .. k - 1 : q[l] < Max(Range(q))
           Parted == \A k \in DOMAIN types : ~(Len(types[k]) < 2)
<1>1. Best(ranges, types) =
        IF ~Parted THEN Panic
        ELSE IF Max(Range(q)) = 0 THEN NotAcceptable
        ELSE types[CHOOSE k \in DOMAIN types : C(k)]
  BY DEF Best
<1>2. DOMAIN q = 1 .. m /\ \A k \in 1 .. m : q[k] \in Nat
  BY QualityInRange
<1>3. PICK top \in 1 .. m : Max(Range(q)) = q[top] /\ IsFirst(q, top) /\ \A l \in 1 .. m : q[top] >= q[l]
  BY <1>2, GreatestNumber
<1> HIDE DEF Parted
<1>4. CASE Parted /\ q[top] = 0
  <2>1. \A k \in 1 .. m : q[k] = 0
    BY <1>2, <1>3, <1>4
  <2> QED BY <1>1, <1>3, <1>4, <2>1
<1>5. CASE Parted /\ q[top] # 0
  <2>1. C(top)
    <3>1. ASSUME NEW l \in 1 .. top - 1 PROVE q[l] < q[top]
      <4>1. l \in 1 .. m
        OBVIOUS
      <4>2. q[l] \in Nat /\ q[top] \in Nat /\ q[top] >= q[l]
        BY <1>2, <1>3, <4>1
      <4>3. q[l] # q[top]
        BY <1>3 DEF IsFirst
      <4> QED BY <4>2, <4>3
    <3> QED BY <1>3, <3>1
  <2>2. \A k \in 1 .. m : C(k) => FirstBest(q, k)
    <3> SUFFICES ASSUME NEW k \in 1 .. m, C(k) PROVE FirstBest(q, k)
      OBVIOUS
    <3>1. q[k] > 0
      BY <1>2, <1>3, <1>5
    <3>2. ASSUME NEW l \in 1 .. m PROVE q[l] < q[k] \/ (q[l] = q[k] /\ l >= k)
      <4>1. q[l] \in Nat /\ q[k] = q[top] /\ q[top] \in Nat /\ q[top] >= q[l]
        BY <1>2, <1>3
      <4>2. CASE l \in 1 .. k - 1
        BY <1>3, <4>1, <4>2
      <4>3. CASE l >= k
        BY <4>1, <4>3
      <4> QED BY <4>2, <4>3
    <3> QED BY <1>2, <3>1, <3>2 DEF FirstBest
  <2>3. Best(ranges, types) = types[CHOOSE k \in DOMAIN types : C(k)]
    BY <1>1, <1>3, <1>5
  <2> HIDE DEF C
  <2>4. \E k \in DOMAIN types : Best(ranges, types) = types[k] /\ C(k)
    BY <2>1, <2>3, Zenon
  <2> QED BY <2>2, <2>4
<1>6. CASE ~Parted
  BY <1>1, <1>6
<1> QED BY <1>4, <1>5, <1>6

----------------------------------------------------------------------------
(* The representation and the answer.                                      *)

\* The declared types: the content type, then the representations.
LEMMA DeclaredTypes ==
    ASSUME ExchangeInvariant, stage # "route"
    PROVE  LET types == declared(response)
           IN  /\ Len(types) \in Nat /\ Len(types) # 0 /\ DOMAIN types = 1 .. Len(types)
               /\ response.contentType \in Range(types)
<1> DEFINE types == declared(response)
           S == {response.contentType} \cup Range(response.representations)
           more == response.representations
<1>1. more \in Seq(Range(more))
  BY PolicyLists
<1>2. more \in Seq(S)
  <2>1. Range(more) \subseteq S
    OBVIOUS
  <2> HIDE DEF S
  <2> QED BY <1>1, <2>1, SeqMonotonic
<1>3. response.contentType \in S
  OBVIOUS
<1>4. types = <<response.contentType>> \o more
  BY DEF declared
<1> HIDE DEF S, types, more
<1>5. /\ types \in Seq(S) /\ Len(types) = 1 + Len(more) /\ Len(more) \in Nat
      /\ types[1] = response.contentType
  BY <1>2, <1>3, <1>4
<1>6. Len(types) \in Nat /\ Len(types) # 0 /\ DOMAIN types = 1 .. Len(types) /\ 1 \in DOMAIN types
  BY <1>5
<1> QED BY <1>5, <1>6 DEF Range, types

\* The ranges of a readable header.
Ranges == [i \in DOMAIN AcceptHeader |-> acceptRange(AcceptHeader[i])]

\* They can be compared.
LEMMA RangesAreComparable ==
    ASSUME ExchangeInvariant, stage # "route", Readable
    PROVE  Comparable(Ranges, Len(AcceptHeader))
<1> DEFINE h == AcceptHeader
<1>1. h \in Seq(Range(h)) /\ \A i \in DOMAIN h : h[i] # Blank => IsSequence(h[i].segments)
  BY HeaderItems DEF Readable
<1>2. \A i \in DOMAIN h : validItem(h[i]) /\ h[i] # Blank
  <2>1. \A i \in DOMAIN h : validItem(h[i])
    BY DEF Readable
  <2>2. \A item : validItem(item) => item # Blank
    BY DEF validItem
  <2> HIDE DEF h
  <2> QED BY <2>1, <2>2, Zenon
<1>3. Len(h) \in Nat /\ DOMAIN h = 1 .. Len(h)
  BY <1>1
<1>4. ASSUME NEW i \in DOMAIN h
      PROVE  /\ Ranges[i].quality \in 0 .. 1000
             /\ Ranges[i].specificity \in Nat
             /\ Cardinality(Ranges[i].parameters) \in Nat
  <2>1. Ranges[i] = acceptRange(h[i])
    BY DEF Ranges
  <2>2. validItem(h[i]) /\ IsSequence(h[i].segments)
    BY <1>1, <1>2
  <2> HIDE DEF h
  <2> QED BY <2>1, <2>2, RangeIsComparable
<1>5. DOMAIN Ranges = DOMAIN h
  BY DEF Ranges
<1> HIDE DEF h
<1>6. DOMAIN Ranges = 1 .. Len(h) /\ Len(h) \in Nat
  BY <1>3, <1>5
<1>7. \A i \in 1 .. Len(h) :
        /\ Ranges[i].quality \in 0 .. 1000
        /\ Ranges[i].specificity \in Nat
        /\ Cardinality(Ranges[i].parameters) \in Nat
  BY <1>3, <1>4
<1> QED BY <1>6, <1>7, Zenon DEF Comparable, h

\* The qualities of the declared types.
Qualities == [k \in DOMAIN declared(response) |-> Quality(Ranges, declared(response)[k])]

\* What selectRepresentation makes of a header.
LEMMA SelectionMeans ==
    ASSUME ExchangeInvariant, stage # "route", Negotiates, AcceptHeader # <<>>, NEW selected,
           selected = selectRepresentation(Joined(AcceptLines), response), selected # Panic
    PROVE  \/ ~Readable /\ selected = NotAcceptable
           \/ Readable /\ selected = NotAcceptable /\ \A k \in DOMAIN declared(response) : Qualities[k] = 0
           \/ Readable /\ \E k \in DOMAIN declared(response) :
                selected = declared(response)[k] /\ FirstBest(Qualities, k)
<1>1. CASE ~Readable
  <2>1. AcceptHeader = Oversized \/ Len(AcceptHeader) > MaxAcceptItems
        \/ \E i \in DOMAIN AcceptHeader : ~validItem(AcceptHeader[i])
    <3>1. AcceptHeader # Oversized => Len(AcceptHeader) \in Nat
      BY HeaderItems
    <3>2. MaxAcceptItems \in Nat
      BY ExchangeAssumption
    <3> QED BY <1>1, <3>1, <3>2 DEF Readable
  <2> QED BY <1>1, <2>1 DEF selectRepresentation, AcceptHeader, Negotiates
<1>2. CASE Readable
  <2> DEFINE types == declared(response)
  <2>1. Comparable(Ranges, Len(AcceptHeader))
    BY <1>2, RangesAreComparable
  <2>2. Len(types) \in Nat /\ Len(types) # 0 /\ DOMAIN types = 1 .. Len(types)
    BY DeclaredTypes
  <2>3. selected = Best(Ranges, types)
    <3>1. ~(Len(AcceptHeader) > MaxAcceptItems)
      <4>1. Len(AcceptHeader) \in Nat /\ MaxAcceptItems \in Nat
        BY <1>2, HeaderItems, ExchangeAssumption DEF Readable
      <4> QED BY <1>2, <4>1 DEF Readable
    <3> QED BY <1>2, <3>1 DEF selectRepresentation, AcceptHeader, Negotiates, Readable, Ranges
  <2>4. Qualities = [k \in DOMAIN types |-> Quality(Ranges, types[k])]
    BY DEF Qualities
  <2> HIDE DEF types
  <2>5. \/ Best(Ranges, types) = Panic
        \/ Best(Ranges, types) = NotAcceptable /\ \A k \in DOMAIN types : Qualities[k] = 0
        \/ \E k \in DOMAIN types : Best(Ranges, types) = types[k] /\ FirstBest(Qualities, k)
    BY <2>1, <2>2, <2>4, BestIsFirst
  <2> QED BY <1>2, <2>3, <2>5 DEF types
<1> QED BY <1>1, <1>2

\* The representation of a request that is not turned away is declared.
LEMMA RepresentationIsDeclared ==
    ASSUME ExchangeInvariant, stage # "route", Selected
    PROVE  representation \in Range(declared(response))
<1>1. CASE ~Negotiates \/ AcceptHeader = <<>>
  <2>1. representation = response.contentType
    BY <1>1 DEF Selected, selectRepresentation, Negotiates, AcceptHeader
  <2> QED BY <2>1, DeclaredTypes
<1>2. CASE Negotiates /\ AcceptHeader # <<>>
  <2>1. PICK k \in DOMAIN declared(response) : representation = declared(response)[k]
    BY <1>2, SelectionMeans DEF Selected
  <2> QED BY <2>1 DEF Range
<1> QED BY <1>1, <1>2

\* What Written leaves under the names of a success.
LEMMA WrittenHeaders ==
    ASSUME NEW r
    PROVE  /\ Written(r)["Content-Type"] = <<representation>>
           /\ DOMAIN Written(r) \subseteq
                Range(response.headers) \cup {"Content-Type", "X-Content-Type-Options", "Vary"}
<1> DEFINE safe == safeResponseHeaders(r)
           added == [name \in DOMAIN safe \cup DOMAIN Varied |-> ValuesOf(Varied, name) \o ValuesOf(safe, name)]
           typed == SetHeader(added, "Content-Type", representation)
<1>1. Written(r) = SetHeader(typed, "X-Content-Type-Options", "nosniff")
  BY DEF Written
<1>2. DOMAIN added = DOMAIN safe \cup DOMAIN Varied
  OBVIOUS
<1>3. DOMAIN safe \subseteq Range(response.headers)
  BY DEF safeResponseHeaders
<1>4. DOMAIN Varied \subseteq {"Vary"}
  BY DEF Varied, SetHeader
<1> HIDE DEF safe, added
<1>5. DOMAIN typed = DOMAIN added \cup {"Content-Type"} /\ typed["Content-Type"] = <<representation>>
  BY DEF SetHeader
<1> HIDE DEF typed
<1>6. DOMAIN Written(r) = DOMAIN typed \cup {"X-Content-Type-Options"}
  BY <1>1 DEF SetHeader
<1>7. Written(r)["Content-Type"] = <<representation>>
  BY <1>1, <1>5 DEF SetHeader
<1> QED BY <1>2, <1>3, <1>4, <1>5, <1>6, <1>7

\* A success has exactly the selected, declared type as its content type and no
\* header that is not listed; nothing the service marks as an error, of another
\* type, or short of the promised JSON is a success, and a failure has an error
\* status (gateway.go:480-502, validateReply, validateResponse).
THEOREM AnswersAreDeclared == ExchangeSpec => []AnswerAsDeclared
<1>1. ExchangeInvariant => AnswerAsDeclared
  <2> SUFFICES ASSUME ExchangeInvariant, reply # None
               PROVE  IF answer.status = 200
                      THEN /\ ~IsServiceError(reply)
                           /\ answer.headers["Content-Type"] = <<representation>>
                           /\ representation \in Range(declared(response))
                           /\ Range(reply.contentTypes) \subseteq {representation}
                           /\ response.mode = "json" => reply.json
                           /\ DOMAIN answer.headers \subseteq
                                Range(response.headers) \cup {"Content-Type", "X-Content-Type-Options", "Vary"}
                      ELSE answer.status \in 400 .. 599
    BY DEF AnswerAsDeclared
  <2>1. stage # "route" /\ Selected /\ Answered
    BY DEF ExchangeInvariant
  <2>2. \A code \in DOMAIN response.serviceErrorStatuses : response.serviceErrorStatuses[code] \in 400 .. 599
    BY <2>1, PolicyIsValid DEF validatePolicy, validateResponse, response
  <2>3. /\ 200 \notin 400 .. 599 /\ 502 \in 400 .. 599
        /\ \A status \in 400 .. 599 : status # 200
    OBVIOUS
  <2>4. \/ replyStatus(reply) = 200 /\ ~IsServiceError(reply) /\ WellFormedReply(reply)
        \/ replyStatus(reply) \in 400 .. 599
    BY <2>2, <2>3 DEF replyStatus
  <2>5. CASE answer.status = 200
    <3>1. answer.headers = Written(reply) /\ ~IsServiceError(reply) /\ WellFormedReply(reply)
      BY <2>1, <2>3, <2>4, <2>5 DEF Answered
    <3>2. Range(reply.contentTypes) \subseteq {representation}
      <4>1. reply.contentTypes = <<>> \/ reply.contentTypes = <<representation>>
        BY <3>1 DEF WellFormedReply
      <4>2. Range(<<>>) = {} /\ Range(<<representation>>) = {representation}
        BY DEF Range
      <4> QED BY <4>1, <4>2
    <3>3. representation \in Range(declared(response))
      BY <2>1, RepresentationIsDeclared
    <3> QED BY <2>5, <3>1, <3>2, <3>3, WrittenHeaders DEF WellFormedReply
  <2>6. CASE answer.status # 200
    <3>1. answer.status = 502 \/ answer.status = replyStatus(reply)
      BY <2>1, <2>6 DEF Answered
    <3>2. answer.status \in 400 .. 599
      BY <2>3, <2>4, <2>6, <3>1
    <3> QED BY <2>6, <3>2
  <2> QED BY <2>5, <2>6
<1> QED BY <1>1, ExchangeInvariantHolds, PTL

\* A header that can be read and does not make the handler panic is compared
\* with types of two parts.
LEMMA TypesHaveParts ==
    ASSUME ExchangeInvariant, stage # "route", Negotiates, AcceptHeader # <<>>, Readable,
           selectRepresentation(Joined(AcceptLines), response) # Panic,
           NEW k \in DOMAIN declared(response)
    PROVE  LET type == declared(response)[k] IN Len(type) = 2 /\ type \in Seq(Range(type))
<1> DEFINE types == declared(response)
           type == types[k]
<1>1. ~(Len(AcceptHeader) > MaxAcceptItems)
  <2>1. Len(AcceptHeader) \in Nat /\ MaxAcceptItems \in Nat
    BY HeaderItems, ExchangeAssumption DEF Readable
  <2> QED BY <2>1 DEF Readable
<1>2. selectRepresentation(Joined(AcceptLines), response) = Best(Ranges, types)
  BY <1>1 DEF selectRepresentation, AcceptHeader, Negotiates, Readable, Ranges
<1>3. ~(Len(type) < 2)
  BY <1>2 DEF Best
<1>4. type \in MediaTypes \cup JSONTypes
  BY PolicyIsValid DEF validatePolicy, validateResponse, response, Range
<1>5. IsSequence(type) /\ Len(type) <= 2
  BY <1>4, ExchangeAssumption
<1>6. type \in Seq(Range(type)) /\ Len(type) \in Nat
  <2> HIDE DEF type
  <2> QED BY <1>5 DEF IsSequence
<1> HIDE DEF type
<1>7. Len(type) = 2
  <2>1. \A n \in Nat : ~(n < 2) /\ n <= 2 => n = 2
    OBVIOUS
  <2> QED BY <1>3, <1>5, <1>6, <2>1, Zenon
<1> QED BY <1>6, <1>7 DEF type

\* How many parts of a range are given.
Given(a, b) == (IF a # Star THEN 1 ELSE 0) + (IF b # Star THEN 1 ELSE 0)

LEMMA SpecificityIsGiven ==
    ASSUME NEW item
    PROVE  acceptRange(item).specificity = Given(item.range[1], item.range[2])
<1> DEFINE V == {i \in 1 .. 2 : item.range[i] # Star}
<1>1. acceptRange(item).specificity = Cardinality(V)
  BY DEF acceptRange
<1>2. V = (IF item.range[1] # Star THEN {1} ELSE {}) \cup (IF item.range[2] # Star THEN {2} ELSE {})
  OBVIOUS
<1>3. Cardinality({}) = 0 /\ Cardinality({1}) = 1 /\ Cardinality({2}) = 1
  BY FS_EmptySet, FS_Singleton, Zenon
<1>4. Cardinality({1, 2}) = 2
  <2>1. IsFiniteSet({1}) /\ 2 \notin {1}
    <3>1. 2 # 1
      OBVIOUS
    <3> QED BY <3>1, FS_Singleton, Zenon
  <2>2. Cardinality({1} \cup {2}) = Cardinality({1}) + 1
    BY <2>1, FS_AddElement
  <2>3. {1} \cup {2} = {1, 2}
    OBVIOUS
  <2> QED BY <1>3, <2>2, <2>3
<1> HIDE DEF V
<1>5. V = IF item.range[1] # Star /\ item.range[2] # Star THEN {1, 2}
          ELSE IF item.range[1] # Star THEN {1}
          ELSE IF item.range[2] # Star THEN {2} ELSE {}
  BY <1>2
<1> QED BY <1>1, <1>3, <1>4, <1>5 DEF Given

\* The ranges for a type go from the most to the least specific.
LEMMA LevelsDescend ==
    ASSUME NEW type, NEW R, R = RangesFor(type), NEW l \in 1 .. 3, NEW o \in 1 .. 3, l <= o
    PROVE  /\ Given(R[l][1], R[l][2]) >= Given(R[o][1], R[o][2])
           /\ Given(R[l][1], R[l][2]) = Given(R[o][1], R[o][2]) =>
                R[l][1] = R[o][1] /\ R[l][2] = R[o][2]
<1>1. /\ R[1] = type /\ R[2][1] = type[1] /\ R[2][2] = Star /\ R[3][1] = Star /\ R[3][2] = Star
  BY DEF RangesFor
<1>0. \A a, b :
        /\ Given(a, b) >= Given(a, Star) /\ (Given(a, b) = Given(a, Star) => b = Star)
        /\ Given(a, Star) >= Given(Star, Star) /\ (Given(a, Star) = Given(Star, Star) => a = Star)
        /\ Given(a, b) >= Given(Star, Star) /\ (Given(a, b) = Given(Star, Star) => a = Star /\ b = Star)
  BY DEF Given
<1>2. \/ l = o
      \/ l = 1 /\ o = 2
      \/ l = 1 /\ o = 3
      \/ l = 2 /\ o = 3
  OBVIOUS
<1>3. CASE l = o
  <2>1. \A a, b : Given(a, b) \in Nat
    BY DEF Given
  <2> QED BY <1>3, <2>1
<1>4. CASE l = 1 /\ o = 2
  BY <1>1, <1>4, <1>0
<1>5. CASE l = 1 /\ o = 3
  BY <1>1, <1>5, <1>0
<1>6. CASE l = 2 /\ o = 3
  BY <1>1, <1>6, <1>0
<1> QED BY <1>2, <1>3, <1>4, <1>5, <1>6

\* What Min finds.
LEMMA LeastFound ==
    ASSUME NEW S \in SUBSET Nat, S # {}
    PROVE  Min(S) \in S /\ \A x \in S : Min(S) <= x
<1>1. \E x \in S : \A y \in S : x <= y
  BY LeastNumber
<1> QED BY <1>1, Zenon DEF Min

\* A range of an item matches a type when it is one of those for the type and has
\* no parameters; a parameter that is empty is not in a plainspoken header.
LEMMA FittingIsPlain ==
    ASSUME ExchangeInvariant, stage # "route", Readable, Plainspoken,
           NEW type, Len(type) = 2, type \in Seq(Range(type)),
           NEW i \in DOMAIN AcceptHeader
    PROVE  /\ i \in Fitting(Ranges, type) <=>
                \E l \in 1 .. 3 : i \in Plain(AcceptHeader, RangesFor(type)[l])
           /\ Parameters(AcceptHeader[i]) = <<>> => Ranges[i].parameters = {}
<1> DEFINE item == AcceptHeader[i]
           R == RangesFor(type)
           V == {<<p.name, p.value>> : p \in Range(Parameters(item))}
<1>1. /\ DOMAIN Ranges = DOMAIN AcceptHeader
      /\ Ranges[i].range = item.range
      /\ Ranges[i].parameters = V
  BY DEF Ranges, acceptRange
<1>2. validItem(item) /\ \A p \in Range(Parameters(item)) : p.value # ""
  BY DEF Readable, Plainspoken
<1>3. item # Blank /\ Len(item.range) = 2 /\ (item.range[1] = Star => item.range[2] = Star)
  BY <1>2 DEF validItem
<1>4. IsSequence(item.range) /\ IsSequence(item.segments)
  BY <1>3, HeaderItems DEF Readable
<1>5. Parameters(item) \in Seq(Range(item.segments))
  <2> HIDE DEF item
  <2> QED BY <1>4, MediaEnds
<1>6. i \in Fitting(Ranges, type) <=>
        /\ \A j \in 1 .. 2 : item.range[j] \in {Star, type[j]}
        /\ \A p \in V : p[2] = ""
  BY <1>1 DEF Fitting, matches
<1>7. \A l \in 1 .. 3 : i \in Plain(AcceptHeader, R[l]) <=> item.range = R[l] /\ Parameters(item) = <<>>
  BY DEF Plain
<1>8. (\A p \in V : p[2] = "") <=> Parameters(item) = <<>>
  <2> DEFINE s == Parameters(item)
  <2>1. (\A p \in V : p[2] = "") <=> Range(s) = {}
    <3>1. ASSUME NEW p \in Range(s) PROVE <<p.name, p.value>> \in V /\ p.value # ""
      BY <1>2
    <3>2. Range(s) = {} => V = {}
      OBVIOUS
    <3>3. \A p \in Range(s) : <<p.name, p.value>>[2] = p.value
      OBVIOUS
    <3> HIDE DEF V, s
    <3> QED BY <3>1, <3>2, <3>3
  <2>2. Range(s) = {} <=> s = <<>>
    <3> HIDE DEF s
    <3>1. s \in Seq(Range(item.segments))
      BY <1>5 DEF s
    <3>2. s # <<>> => s[1] \in Range(s)
      BY <3>1 DEF Range
    <3>3. Range(<<>>) = {}
      BY DEF Range
    <3> QED BY <3>2, <3>3
  <2> HIDE DEF V, s
  <2> QED BY <2>1, <2>2 DEF s
<1>9. Parameters(item) = <<>> => V = {}
  <2>1. Range(<<>>) = {}
    BY DEF Range
  <2> QED BY <2>1
<1>10. R[1] = <<type[1], type[2]>> /\ R[2] = <<type[1], Star>> /\ R[3] = <<Star, Star>>
  <2>1. type = <<type[1], type[2]>>
    OBVIOUS
  <2> QED BY <2>1 DEF RangesFor
<1>11. item.range = <<item.range[1], item.range[2]>>
  <2> DEFINE r == item.range
  <2>1. r \in Seq(Range(r)) /\ Len(r) = 2
    BY <1>3, <1>4 DEF IsSequence
  <2> HIDE DEF r
  <2>2. r = <<r[1], r[2]>>
    BY <2>1
  <2> QED BY <2>2 DEF r
<1>12. (\A j \in 1 .. 2 : item.range[j] \in {Star, type[j]}) <=> \E l \in 1 .. 3 : item.range = R[l]
  <2> DEFINE a == item.range[1]
             b == item.range[2]
  <2>1. (\A j \in 1 .. 2 : item.range[j] \in {Star, type[j]}) <=> a \in {Star, type[1]} /\ b \in {Star, type[2]}
    OBVIOUS
  <2>2. (\E l \in 1 .. 3 : item.range = R[l]) <=>
            \/ a = type[1] /\ b = type[2]
            \/ a = type[1] /\ b = Star
            \/ a = Star /\ b = Star
    <3>1. \A l : l \in 1 .. 3 <=> l = 1 \/ l = 2 \/ l = 3
      OBVIOUS
    <3>2. \A c, d : item.range = <<c, d>> <=> a = c /\ b = d
      BY <1>11
    <3> HIDE DEF R, a, b, item
    <3> QED BY <1>10, <3>1, <3>2
  <2>3. a = Star => b = Star
    BY <1>3
  <2> HIDE DEF a, b, item, R
  <2> QED BY <2>1, <2>2, <2>3
<1> HIDE DEF item, R, V
<1> QED BY <1>1, <1>6, <1>7, <1>8, <1>9, <1>12 DEF item, R

\* The quality that the loops of lines 43-65 find for a type is the one the client
\* gives it by its most specific range.
LEMMA QualityIsWanted ==
    ASSUME ExchangeInvariant, stage # "route", Readable, Plainspoken,
           NEW type, Len(type) = 2, type \in Seq(Range(type))
    PROVE  Quality(Ranges, type) = Wanted(AcceptHeader, type)
<1> DEFINE h == AcceptHeader
           n == Len(AcceptHeader)
           R == RangesFor(type)
           P(l) == Plain(h, R[l])
           F == Fitting(Ranges, type)
           levels == {l \in 1 .. 3 : P(l) # {}}
           low == Min(levels)
           m == Min(P(low))
<1>1. Comparable(Ranges, n)
  BY RangesAreComparable
<1>2. n \in Nat /\ DOMAIN h = 1 .. n
  <2>1. h \in Seq(Range(h))
    BY HeaderItems DEF Readable
  <2> QED BY <2>1
<1>3. F \subseteq DOMAIN h
  BY DEF Fitting, Ranges
<1>4. \A i \in DOMAIN h : /\ i \in F <=> \E l \in 1 .. 3 : i \in P(l)
                          /\ Parameters(h[i]) = <<>> => Ranges[i].parameters = {}
  BY FittingIsPlain
<1>5. \A l \in 1 .. 3 : /\ P(l) \subseteq DOMAIN h
                        /\ \A i \in P(l) : h[i].range = R[l] /\ Parameters(h[i]) = <<>>
  BY DEF Plain
<1>6. \A i \in DOMAIN h : Ranges[i].specificity = Given(h[i].range[1], h[i].range[2])
  BY SpecificityIsGiven DEF Ranges
<1>7. Wanted(h, type) = IF levels = {} THEN 0
                        ELSE IF HasQuality(h[m]) THEN h[m].segments[MediaEnd(h[m])].value
                        ELSE 1000
  BY DEF Wanted
<1>8. \A i \in DOMAIN h : Ranges[i].quality =
        IF HasQuality(h[i]) THEN h[i].segments[MediaEnd(h[i])].value ELSE 1000
  BY DEF Ranges, acceptRange
<1>9. levels \in SUBSET (1 .. 3) /\ \A l \in 1 .. 3 : l \in levels <=> P(l) # {}
  OBVIOUS
<1>10. \A l \in 1 .. 3, o \in 1 .. 3 : l <= o =>
        /\ Given(R[l][1], R[l][2]) >= Given(R[o][1], R[o][2])
        /\ Given(R[l][1], R[l][2]) = Given(R[o][1], R[o][2]) => R[l][1] = R[o][1] /\ R[l][2] = R[o][2]
  BY LevelsDescend
<1>11. /\ F = {} => Quality(Ranges, type) = 0
       /\ F # {} => \E i \in F : /\ Quality(Ranges, type) = Ranges[i].quality
                                 /\ \A j \in F \ {i} : Precedes(Ranges, i, j)
  BY <1>1, DecidingRange
<1> HIDE DEF h, n, R, P, F, levels
<1>12. CASE levels = {}
  <2>1. \A l \in 1 .. 3 : P(l) = {}
    BY <1>9, <1>12
  <2>2. F = {}
    BY <1>3, <1>4, <2>1
  <2>3. Wanted(h, type) = 0
    BY <1>7, <1>12
  <2> QED BY <1>11, <2>2, <2>3 DEF h
<1>13. CASE levels # {}
  <2>1. low \in 1 .. 3 /\ low \in levels /\ \A l \in levels : low <= l
    <3>1. levels \in SUBSET Nat
      BY <1>9
    <3> QED BY <1>9, <1>13, <3>1, LeastFound
  <2> HIDE DEF low
  <2>2. m \in P(low) /\ \A i \in P(low) : m <= i
    <3>1. P(low) \in SUBSET Nat /\ P(low) # {}
      BY <1>2, <1>5, <1>9, <2>1
    <3> QED BY <3>1, LeastFound
  <2> HIDE DEF m
  <2>3. m \in F /\ m \in DOMAIN h /\ h[m].range = R[low] /\ Parameters(h[m]) = <<>>
    BY <1>4, <1>5, <2>1, <2>2
  <2>4. PICK i \in F : /\ Quality(Ranges, type) = Ranges[i].quality
                       /\ \A j \in F \ {i} : Precedes(Ranges, i, j)
    BY <1>11, <2>3
  <2>5. i = m
    <3> SUFFICES ASSUME i # m PROVE FALSE
      OBVIOUS
    <3>1. Precedes(Ranges, i, m)
      BY <2>3, <2>4
    <3>2. PICK o \in 1 .. 3 : i \in P(o)
      BY <1>3, <1>4
    <3>3. i \in DOMAIN h /\ h[i].range = R[o] /\ Parameters(h[i]) = <<>> /\ low <= o
      BY <1>5, <1>9, <2>1, <3>2
    <3>4. Ranges[i].parameters = {} /\ Ranges[m].parameters = {} /\ Cardinality({}) = 0
      BY <1>4, <2>3, <3>3, FS_EmptySet
    <3>5. /\ Ranges[i].specificity = Given(R[o][1], R[o][2])
          /\ Ranges[m].specificity = Given(R[low][1], R[low][2])
      BY <1>6, <2>3, <3>3
    <3>6. /\ Given(R[low][1], R[low][2]) >= Given(R[o][1], R[o][2])
          /\ Given(R[low][1], R[low][2]) = Given(R[o][1], R[o][2]) => R[low][1] = R[o][1] /\ R[low][2] = R[o][2]
      BY <1>10, <2>1, <3>3
    <3>7. \/ Given(R[o][1], R[o][2]) > Given(R[low][1], R[low][2])
          \/ Given(R[o][1], R[o][2]) = Given(R[low][1], R[low][2]) /\ i < m
      <4>1. Precedes(Ranges, i, m) <=>
             \/ Ranges[i].specificity > Ranges[m].specificity
             \/ /\ Ranges[i].specificity = Ranges[m].specificity
                /\ Cardinality(Ranges[i].parameters) - Cardinality(Ranges[m].parameters) > 0
             \/ /\ Ranges[i].specificity = Ranges[m].specificity
                /\ Cardinality(Ranges[i].parameters) - Cardinality(Ranges[m].parameters) = 0
                /\ i < m
        BY PrecedesMeans
      <4>2. ~(0 - 0 > 0)
        OBVIOUS
      <4> QED BY <3>1, <3>4, <3>5, <4>1, <4>2
    <3>8. Given(R[o][1], R[o][2]) \in Nat /\ Given(R[low][1], R[low][2]) \in Nat
      BY DEF Given
    <3>9. i < m /\ R[low][1] = R[o][1] /\ R[low][2] = R[o][2]
      <4>1. \A x, y \in Nat : x >= y => ~(y > x)
        OBVIOUS
      <4> QED BY <3>6, <3>7, <3>8, <4>1
    <3>10. i \in P(low)
      <4>1. R[low] = R[o]
        <5>1. \A l \in 1 .. 3 : R[l] = <<R[l][1], R[l][2]>>
          <6>1. type = <<type[1], type[2]>>
            OBVIOUS
          <6>2. R[1] = <<type[1], type[2]>> /\ R[2] = <<type[1], Star>> /\ R[3] = <<Star, Star>>
            BY <6>1 DEF R, RangesFor
          <6>3. \A l \in 1 .. 3 : l = 1 \/ l = 2 \/ l = 3
            OBVIOUS
          <6> QED BY <6>2, <6>3
        <5> QED BY <2>1, <3>9, <5>1, Zenon
      <4> QED BY <3>3, <4>1 DEF P, Plain
    <3>11. m <= i /\ i \in Nat /\ m \in Nat
      BY <1>2, <2>2, <2>3, <3>3, <3>10
    <3> QED BY <3>9, <3>11
  <2>6. Quality(Ranges, type) = Wanted(h, type)
    BY <1>7, <1>8, <1>13, <2>3, <2>4, <2>5 DEF m, low
  <2> QED BY <2>6 DEF h
<1> QED BY <1>12, <1>13 DEF h

\* A negotiated representation is the first of the declared types that the client
\* wants most by its most specific range, and a request is turned away only when
\* its header cannot be read or excludes every declared type (response.go:43-65).
THEOREM PreferenceIsHonoured == ExchangeSpec => []ClientPreferenceHonoured
<1>1. ExchangeInvariant => ClientPreferenceHonoured
  <2> DEFINE types == declared(response)
             wanted == [k \in DOMAIN types |-> Wanted(AcceptHeader, types[k])]
             selected == selectRepresentation(Joined(AcceptLines), response)
  <2> SUFFICES ASSUME ExchangeInvariant, stage \notin {"route", "panic"}, Negotiates, AcceptHeader # <<>>,
                      Readable => Plainspoken
               PROVE  IF representation = None
                      THEN ~Readable \/ Range(wanted) = {0}
                      ELSE \E k \in DOMAIN types :
                              /\ types[k] = representation /\ wanted[k] > 0
                              /\ \A l \in DOMAIN types :
                                  wanted[l] < wanted[k] \/ (wanted[l] = wanted[k] /\ l >= k)
    BY DEF ClientPreferenceHonoured
  <2>1. stage # "route" /\ (Selected \/ NothingAcceptable)
    BY DEF ExchangeInvariant
  <2>2. \/ representation = selected /\ selected \notin {NotAcceptable, Panic}
        \/ representation = None /\ selected = NotAcceptable
    BY <2>1 DEF Selected, NothingAcceptable
  <2>3. selected # Panic
    BY <2>2, ExchangeAssumption
  <2>4. \/ ~Readable /\ selected = NotAcceptable
        \/ Readable /\ selected = NotAcceptable /\ \A k \in DOMAIN types : Qualities[k] = 0
        \/ Readable /\ \E k \in DOMAIN types : selected = types[k] /\ FirstBest(Qualities, k)
    BY <2>1, <2>3, SelectionMeans
  <2>5. Readable => wanted = Qualities
    <3> SUFFICES ASSUME Readable, NEW k \in DOMAIN types
                 PROVE  Wanted(AcceptHeader, types[k]) = Quality(Ranges, types[k])
      BY DEF Qualities
    <3>1. Len(types[k]) = 2 /\ types[k] \in Seq(Range(types[k]))
      BY <2>1, <2>3, TypesHaveParts
    <3> HIDE DEF types
    <3> QED BY <2>1, <3>1, QualityIsWanted
  <2>6. \A k \in DOMAIN types : types[k] # None
    <3>1. \A k \in DOMAIN types : types[k] \in MediaTypes \cup JSONTypes
      BY <2>1, PolicyIsValid DEF validatePolicy, validateResponse, response, Range
    <3> QED BY <3>1, ExchangeAssumption
  <2>7. DOMAIN types # {} /\ DOMAIN wanted = DOMAIN types
    BY <2>1, DeclaredTypes DEF Range
  <2> HIDE DEF selected, types, wanted
  <2>8. CASE ~Readable
    BY <2>2, <2>4, <2>8
  <2>9. CASE Readable /\ selected = NotAcceptable /\ \A k \in DOMAIN types : Qualities[k] = 0
    <3>1. representation = None
      BY <2>2, <2>9
    <3>2. Range(wanted) = {0}
      BY <2>5, <2>7, <2>9 DEF Range
    <3> QED BY <3>1, <3>2
  <2>10. ASSUME Readable, NEW k \in DOMAIN types, selected = types[k], FirstBest(Qualities, k)
         PROVE  /\ representation # None /\ types[k] = representation /\ wanted[k] > 0
                /\ \A l \in DOMAIN types : wanted[l] < wanted[k] \/ (wanted[l] = wanted[k] /\ l >= k)
    <3>1. representation = selected
      <4>1. types[k] # NotAcceptable
        <5>1. types[k] \in MediaTypes \cup JSONTypes
          BY <2>1, PolicyIsValid DEF validatePolicy, validateResponse, response, Range, types
        <5> QED BY <5>1, ExchangeAssumption
      <4> QED BY <2>2, <2>10, <4>1
    <3>2. FirstBest(wanted, k)
      BY <2>5, <2>10
    <3> QED BY <2>6, <2>7, <2>10, <3>1, <3>2 DEF FirstBest
  <2> QED BY <2>4, <2>8, <2>9, <2>10
<1> QED BY <1>1, ExchangeInvariantHolds, PTL

=============================================================================
