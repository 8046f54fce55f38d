---------------------------- MODULE RequestReply ----------------------------
(***************************************************************************)
(* One request/reply exchange per HTTP request (ServeHTTP in gateway.go,   *)
(* internal/translation, identity.go, response.go).                        *)
(*                                                                         *)
(* The route has been matched.  A request passes the lifecycle gate, takes *)
(* a lease when its route is protected, asks NATS who it is when the route *)
(* wants that forwarded, reads its body, publishes and waits.  Meanwhile   *)
(* its context can be ended by the client, by the timer and by the         *)
(* permission tracker of its connection; the first of them decides.        *)
(***************************************************************************)
EXTENDS Naturals, FiniteSets

CONSTANTS
    Requests,      \* HTTP requests, each on its own goroutine
    Protected,     \* those whose route has a security context
    Identified,    \* those whose route has a downstream identity
    Connection,    \* request -> the NATS connection it uses
    Subject,       \* request -> the subject it publishes to
    Users,         \* NATS users
    InitialUser,   \* connection -> the user it is first authenticated as
    Rotating,      \* connections whose credential may change on a reconnect
    Denied,        \* the pairs <<user, subject>> NATS refuses to publish
    Unsubscribable,  \* the pairs <<user, subject>> it refuses to subscribe
    Interruptible, \* the requests whose body Close interrupts: those of HTTP/2
    UserInfo,      \* the subject $SYS.REQ.USER.INFO
    MaxRotations,  \* bound on those changes
    None

Connections == {Connection[r] : r \in Requests}

Causes == {"canceled", "deadline", "denied"}
Replies == {"good", "mapped", "unmapped", "malformed", "too large", "nil"}
Statuses == {"200", "401", "403", "406", "413", "500", "502", "503", "504", "mapped", "silent"}

\* config.go: a downstream identity belongs to a security context.
ASSUME RequestAssumption ==
    /\ Identified \subseteq Protected /\ Protected \subseteq Requests
    /\ Interruptible \subseteq Requests
    /\ InitialUser \in [Connections -> Users]
    /\ Rotating \subseteq Connections
    /\ MaxRotations \in Nat
    /\ None \notin Users \cup Causes \cup Statuses

VARIABLES
    pc,         \* where each request is
    status,     \* the HTTP status written, or "silent"
    cause,      \* context.Cause(ctx)
    lease,      \* the request holds a pool lease
    waiters,    \* the requests registered with their permission tracker
    header,     \* the identity header the gateway added
    sender,     \* the user the server received the request from
    refused,    \* the library owes the error callback for the publication
    gone,       \* the requests whose client went away
    reported,   \* history: that callback ended the wait
    user,       \* the user each connection is authenticated as
    rotations,
    stopped     \* the handler is stopping, or its connection not ready

client == <<pc, status>>
ctx == <<cause, gone, reported>>
message == <<header, sender, refused>>
server == <<user, rotations>>
vars == <<client, ctx, lease, waiters, message, server, stopped>>

\* Every variable keeps to the values the program can store in it.
TypeOK ==
    /\ pc \in [Requests -> {"gate", "acquire", "identity", "body", "register",
                            "send", "await", "return", "done"}]
    /\ status \in [Requests -> Statuses \cup {None}]
    /\ cause \in [Requests -> Causes \cup {None}]
    /\ lease \in [Requests -> BOOLEAN]
    /\ refused \in [Requests -> BOOLEAN]
    /\ reported \in [Requests -> BOOLEAN]
    /\ gone \subseteq Requests
    /\ waiters \subseteq {r \in Requests : pc[r] \in {"send", "await"}}
    /\ header \in [Requests -> Users \cup {None}]
    /\ sender \in [Requests -> Users \cup {None}]
    /\ user \in [Connections -> Users]
    /\ rotations \in 0 .. MaxRotations
    /\ stopped \in BOOLEAN

Init ==
    /\ pc = [r \in Requests |-> "gate"]
    /\ status = [r \in Requests |-> None]
    /\ cause = [r \in Requests |-> None]
    /\ lease = [r \in Requests |-> FALSE]
    /\ waiters = {}
    /\ header = [r \in Requests |-> None]
    /\ sender = [r \in Requests |-> None]
    /\ refused = [r \in Requests |-> FALSE]
    /\ reported = [r \in Requests |-> FALSE]
    /\ gone = {}
    /\ user = InitialUser
    /\ rotations = 0
    /\ stopped = FALSE

----------------------------------------------------------------------------
Goto(r, place) == pc' = [pc EXCEPT ![r] = place] /\ UNCHANGED status

\* The response is written and the deferred release is next.
Return(r, outcome) ==
    /\ pc' = [pc EXCEPT ![r] = "return"]
    /\ status' = [status EXCEPT ![r] = outcome]

\* What ctx.Err() says: a cancellation by the tracker is one like any other.
ctxErr(r) == IF cause[r] = "denied" THEN "canceled" ELSE cause[r]

\* Lines 377-388 and 403-411: stopping or not ready, nothing acceptable, or a
\* credential that cannot be adapted.
Rejected(r) ==
    /\ pc[r] = "gate"
    /\ \/ (stopped \/ r \notin Protected) /\ Return(r, "503")
       \/ ~stopped /\ Return(r, "406")
       \/ ~stopped /\ r \in Protected /\ Return(r, "401")
    /\ UNCHANGED <<ctx, lease, waiters, message, server, stopped>>

GateOpens(r) ==
    /\ pc[r] = "gate" /\ ~stopped
    /\ Goto(r, IF r \in Protected THEN "acquire" ELSE "body")
    /\ UNCHANGED <<ctx, lease, waiters, message, server, stopped>>

\* Lines 412-425: the status for an error of pool.acquire.
acquireStatus(err) ==
    CASE err = "canceled" -> "silent"
      [] err = "deadline" -> "504"
      [] err = "authorization" -> "401"
      [] OTHER -> "503"

Acquired(r) ==
    /\ pc[r] = "acquire"
    /\ lease' = [lease EXCEPT ![r] = TRUE]
    /\ Goto(r, IF r \in Identified THEN "identity" ELSE "body")
    /\ UNCHANGED <<ctx, waiters, message, server, stopped>>

\* NATS refuses the credential, the pool has no connection to give, or a
\* context ends: the request's own or that of the dial it waited for.
AcquireFails(r) ==
    /\ pc[r] = "acquire"
    /\ \E err \in {"authorization", "unavailable", "deadline"} \cup ({cause[r]} \ {None}) :
        Return(r, acquireStatus(err))
    /\ UNCHANGED <<ctx, lease, waiters, message, server, stopped>>

----------------------------------------------------------------------------
(* resolveDownstreamIdentity (lines 430-448).  The query is not registered  *)
(* with the tracker: a refusal only ever shows as a timeout.                *)

MayAsk(r) == <<user[Connection[r]], UserInfo>> \notin Denied

IdentityResolved(r) ==
    /\ pc[r] = "identity" /\ MayAsk(r)
    /\ header' = [header EXCEPT ![r] = user[Connection[r]]]
    /\ Goto(r, "body")
    /\ UNCHANGED <<ctx, lease, waiters, sender, refused, server, stopped>>

\* Lines 432-444: no responder, a broken connection, an unusable answer, or
\* the end of the context.
IdentityFails(r) ==
    /\ pc[r] = "identity"
    /\ \/ Return(r, "503")
       \/ cause[r] # None /\ Return(r, IF ctxErr(r) = "canceled" THEN "silent" ELSE "504")
    /\ UNCHANGED <<ctx, lease, waiters, message, server, stopped>>

----------------------------------------------------------------------------
(* translation.Execute, and the status for its error (lines 450-479).      *)

executeStatus(err) ==
    CASE err = "too large" -> "413"
      [] err = "canceled" -> "silent"
      [] err = "deadline" -> "504"
      [] err \in {"no responders", "disconnected"} -> "503"
      [] err = "denied" -> "403"
      [] err = "authorization" -> "401"
      [] OTHER -> "500"

BodyRead(r) ==
    /\ pc[r] = "body"
    /\ Goto(r, "register")
    /\ UNCHANGED <<ctx, lease, waiters, message, server, stopped>>

\* readBounded: the body is too large, cannot be read, ...
BodyRejected(r) ==
    /\ pc[r] = "body"
    /\ \E err \in {"too large"} \cup (IF cause[r] = None THEN {"broken"} ELSE {}) :
        Return(r, executeStatus(err))
    /\ UNCHANGED <<ctx, lease, waiters, message, server, stopped>>

\* Mutant: nothing closes the body when the context ends.
BodyInterruptedNever(r) == FALSE /\ UNCHANGED vars

\* ... or ends in an error after the context has ended: context.AfterFunc
\* closes it, which waits for the Read in progress on a body of HTTP/1.
BodyInterrupted(r) ==
    /\ pc[r] = "body" /\ cause[r] # None
    /\ Return(r, executeStatus(ctxErr(r)))
    /\ UNCHANGED <<ctx, lease, waiters, message, server, stopped>>

\* permissionAwareRequester: register, call, unregister.
register(r) ==
    /\ pc[r] = "register"
    /\ waiters' = waiters \cup {r}
    /\ Goto(r, "send")
    /\ UNCHANGED <<ctx, lease, message, server, stopped>>

Publish(r) ==
    /\ pc[r] = "send" /\ cause[r] = None
    /\ sender' = [sender EXCEPT ![r] = user[Connection[r]]]
    /\ refused' = [refused EXCEPT ![r] = <<user[Connection[r]], Subject[r]>> \in Denied]
    /\ Goto(r, "await")
    /\ UNCHANGED <<ctx, lease, waiters, header, server, stopped>>

\* Mutant: the error of the call is not replaced by the cause of the context.
ExecuteFailsCauseless(r, err) ==
    /\ waiters' = waiters \ {r}
    /\ Return(r, executeStatus(err))
    /\ UNCHANGED <<ctx, lease, message, server, stopped>>

\* Lines 42-48 of translation.go: the call fails, the waiter is unregistered,
\* and the cause of the context replaces the error.
ExecuteFails(r, err) ==
    /\ waiters' = waiters \ {r}
    /\ Return(r, executeStatus(IF cause[r] # None THEN cause[r] ELSE err))
    /\ UNCHANGED <<ctx, lease, message, server, stopped>>

\* The context is done before the library publishes, or while it waits.
RequestCancelled(r) ==
    /\ pc[r] \in {"send", "await"} /\ cause[r] # None
    /\ ExecuteFails(r, ctxErr(r))

\* The connection is closed or down, or the library refuses the message.
RequestBroken(r) ==
    /\ pc[r] \in {"send", "await"}
    /\ \E err \in {"disconnected", "authorization", "other"} : ExecuteFails(r, err)

NoResponders(r) ==
    /\ pc[r] = "await" /\ <<sender[r], Subject[r]>> \notin Denied
    /\ ExecuteFails(r, "no responders")

\* Execute's checks, validateReply and safeResponseHeaders, and lines 480-502.
replyStatus(reply) ==
    CASE reply = "good" -> "200"
      [] reply = "mapped" -> "mapped"
      [] OTHER -> "502"

ReplyArrives(r) ==
    /\ pc[r] = "await" /\ <<sender[r], Subject[r]>> \notin Denied
    /\ waiters' = waiters \ {r}
    /\ \E reply \in Replies : Return(r, replyStatus(reply))
    /\ UNCHANGED <<ctx, lease, message, server, stopped>>

\* Mutant: the lease is kept.
ReleaseForgotten(r) ==
    /\ pc[r] = "return"
    /\ Goto(r, "done")
    /\ UNCHANGED <<ctx, lease, waiters, message, server, stopped>>

\* The deferred release.
Release(r) ==
    /\ pc[r] = "return"
    /\ lease' = [lease EXCEPT ![r] = FALSE]
    /\ Goto(r, "done")
    /\ UNCHANGED <<ctx, waiters, message, server, stopped>>

----------------------------------------------------------------------------
(* What ends a context, and the server.                                    *)

Running(r) == pc[r] \notin {"gate", "return", "done"}

\* The first cause stays.
Cancelled(S, why) ==
    cause' = [r \in Requests |-> IF r \in S /\ cause[r] = None THEN why ELSE cause[r]]

ClientGone(r) ==
    /\ Running(r) /\ r \notin gone
    /\ gone' = gone \cup {r}
    /\ Cancelled({r}, "canceled")
    /\ UNCHANGED <<client, reported, lease, waiters, message, server, stopped>>

TimerFires(r) ==
    /\ Running(r) /\ cause[r] = None
    /\ Cancelled({r}, "deadline")
    /\ UNCHANGED <<client, gone, reported, lease, waiters, message, server, stopped>>

\* The requests that wait for the subject of r on the connection of r.
waitersFor(r) == {q \in waiters : Connection[q] = Connection[r] /\ Subject[q] = Subject[r]}

\* Mutant: the waiters of every subject.
waitersForAny(r) == {q \in waiters : Connection[q] = Connection[r]}

\* Mutants of handle: it cancels without a cause; it keeps the waiters of
\* every subject in one set.
handleCauseless(r) ==
    /\ refused[r]
    /\ refused' = [refused EXCEPT ![r] = FALSE]
    /\ Cancelled(waitersFor(r), "canceled")
    /\ UNCHANGED <<client, gone, reported, lease, waiters, header, sender, server, stopped>>

handleAnySubject(r) ==
    /\ refused[r]
    /\ refused' = [refused EXCEPT ![r] = FALSE]
    /\ Cancelled(waitersForAny(r), "denied")
    /\ UNCHANGED <<client, gone, reported, lease, waiters, header, sender, server, stopped>>

\* permissionTracker.handle: the library reports the refusal of r's message.
handle(r) ==
    /\ refused[r]
    /\ refused' = [refused EXCEPT ![r] = FALSE]
    /\ Cancelled(waitersFor(r), "denied")
    /\ reported' = [reported EXCEPT ![r] = r \in waiters /\ cause[r] = None]
    /\ UNCHANGED <<client, gone, lease, waiters, header, sender, server, stopped>>

\* The users that messages and subscriptions on connection c may be from.
UsersOf(c) == IF c \in Rotating THEN Users ELSE {user[c]}

\* handle for a stream that shares the connection of r: its subscription to the
\* subject of r was refused.  The tracker does not tell that from a publication.
StreamRefused(r) ==
    /\ \E u \in UsersOf(Connection[r]) : <<u, Subject[r]>> \in Unsubscribable
    /\ Cancelled(waitersFor(r), "denied")
    /\ UNCHANGED <<client, gone, reported, lease, waiters, message, server, stopped>>

\* A connection comes back authenticated with the credential of another user
\* (nkey_jwt: the JWT callback is asked again on every connect).
Rotate(c, u) ==
    /\ c \in Rotating /\ rotations < MaxRotations /\ u # user[c]
    /\ user' = [user EXCEPT ![c] = u]
    /\ rotations' = rotations + 1
    /\ UNCHANGED <<client, ctx, lease, waiters, message, stopped>>

\* Cleanup has begun: the gate is closed for good.
Stop ==
    /\ ~stopped
    /\ stopped' = TRUE
    /\ UNCHANGED <<client, ctx, lease, waiters, message, server>>

----------------------------------------------------------------------------
\* The steps that depend on the request's goroutine alone.
Proceed(r) ==
    \/ Rejected(r)
    \/ GateOpens(r)
    \/ AcquireFails(r)
    \/ register(r)
    \/ Publish(r)
    \/ RequestCancelled(r)
    \/ Release(r)

Answer(r) ==
    \/ Acquired(r)
    \/ IdentityResolved(r)
    \/ IdentityFails(r)
    \/ BodyRead(r)
    \/ BodyRejected(r)
    \/ BodyInterrupted(r)
    \/ RequestBroken(r)
    \/ NoResponders(r)
    \/ ReplyArrives(r)

Next ==
    \/ \E r \in Requests :
        \/ Proceed(r)
        \/ Answer(r)
        \/ ClientGone(r)
        \/ TimerFires(r)
        \/ handle(r)
        \/ StreamRefused(r)
    \/ \E c \in Connections, u \in Users : Rotate(c, u)
    \/ Stop

Spec == Init /\ [][Next]_vars

IdentityGivenUp(r) == IdentityFails(r) /\ cause[r] # None

\* A Read that is blocked comes back when its body can be closed under it, or
\* when the client has gone.
BodyEnds(r) == BodyInterrupted(r) /\ r \in Interruptible \cup gone

\* The goroutine runs and the timer fires; acquire answers.  Nothing is assumed
\* of the server or the service, nor that a client sends its body or leaves.
Fairness ==
    \A r \in Requests :
        /\ WF_vars(Proceed(r)) /\ WF_vars(TimerFires(r))
        /\ WF_vars(IdentityGivenUp(r)) /\ WF_vars(BodyEnds(r))

FairSpec == Spec /\ Fairness

----------------------------------------------------------------------------
(* Properties.                                                             *)

\* A refusal that reaches a waiting request before anything else ends it is
\* answered 403, whatever the library returns for the cancelled call (handle,
\* lines 123-140; translation.go 43-47).
DenialReported ==
    \A r \in Requests : reported[r] /\ status[r] # None => status[r] = "403"

\* A request answered 403 asked for a subject that a user of its connection may
\* not publish to, or may not subscribe to: the refusal of another subject, or on
\* another connection, is never taken for its own.  It may be another's refusal
\* all the same: the tracker of a connection serves requests and streams, and
\* tells neither publications from subscriptions (gateway.go 78) nor, under a
\* rotating credential, one user from another.  So a request that its user may
\* publish is answered 403 when a stream of the connection was refused.
ForbiddenJustified ==
    \A r \in Requests :
        status[r] = "403" =>
            \E u \in UsersOf(Connection[r]) : <<u, Subject[r]>> \in Denied \cup Unsubscribable

\* The handler returns without writing anything only for a client that has
\* gone: no cancellation of the gateway's own is taken for the client's.
SilentMeansGone ==
    \A r \in Requests : status[r] = "silent" => r \in gone

\* The body of r is being read and only its client can end that.
Stalled(r) == pc[r] = "body" /\ r \notin Interruptible \cup gone

\* Every request is answered and gives its lease back, although NATS may never
\* reply and the client never finish a body that can be closed under its reader.
\* Only a client of HTTP/1 that neither sends nor leaves keeps its call, and the
\* lease with it, past the timeout (translation.go 62).
RequestsAnswered ==
    \A r \in Requests : <>(pc[r] = "done") \/ <>[]Stalled(r)

Stage(r) ==
    CASE pc[r] = "gate" -> "arrived"
      [] pc[r] = "acquire" -> "acquiring"
      [] pc[r] = "return" -> "returning"
      [] pc[r] = "done" -> "done"
      [] OTHER -> "using"

Call ==
    INSTANCE HandlerCall WITH
        Calls <- Requests, Guarded <- Protected, stage <- [r \in Requests |-> Stage(r)],
        holds <- lease, active <- waiters, shut <- stopped

\* Whatever ends a request and wherever, it is a handler call: it registers and
\* waits on a leased connection only, holds the lease until its answer is
\* written, gives it back before it is over, and none gets in after the gate was
\* shut.
ImplementsHandlerCall == Call!Spec

\* The identity header names the user the message was sent as.
IdentityIsSender ==
    \A r \in Requests :
        header[r] # None /\ sender[r] # None => header[r] = sender[r]
=============================================================================
