------------------------------ MODULE CoreSSE ------------------------------
(***************************************************************************)
(* Live Core NATS streams over HTTP (core_sse.go).                         *)
(*                                                                         *)
(* Each stream is one serveCoreSSE call.  Its setup passes a shared quota, *)
(* the lifecycle gate, the connection pool and a NATS subscription; its    *)
(* event loop selects among client, handler, timers and a bounded buffer   *)
(* that the library's delivery goroutine fills.  Deferred calls give       *)
(* everything back in reverse order.  All streams of the model have the    *)
(* same policy and subject, so they share one quota (gateway.go 232-240).  *)
(***************************************************************************)
EXTENDS Integers, Sequences, FiniteSets

CONSTANTS
    Streams,         \* serveCoreSSE calls
    Protected,       \* the streams of a route with a security context
    Connection,      \* stream -> the NATS connection it will use
    Forbidden,       \* connections without permission to subscribe
    Unpublishable,   \* connections whose requests to the subject NATS refuses
    Payloads,        \* message bodies
    Size,            \* payload -> length
    Valid,           \* the payloads that are UTF-8
    MaxConnections,  \* CoreSSE.MaxConnections
    BufferMessages,  \* CoreSSE.BufferMessages
    BufferBytes,     \* CoreSSE.BufferBytes
    MaxReplyBytes,   \* Route.MaxReplyBytes
    None

Causes == {"canceled", "deadline", "denied"}
\* HTTP statuses; "silent" is a setup given up without a response.
Statuses == {"200", "401", "403", "429", "500", "503", "504", "silent"}
Endings == {"gone", "stopped", "closed", "broken", "slow consumer", "invalid event payload"}

\* config.go requires the limits to be positive.
ASSUME StreamAssumption ==
    /\ Protected \subseteq Streams /\ Valid \subseteq Payloads
    /\ Size \in [Payloads -> Nat]
    /\ MaxConnections \in Nat \ {0} /\ BufferMessages \in Nat \ {0}
    /\ BufferBytes \in Nat \ {0} /\ MaxReplyBytes \in Nat \ {0}
    /\ None \notin Payloads \cup Causes \cup Statuses \cup Endings

VARIABLES
    pc,        \* where each call is
    result,    \* the HTTP status, or how an established stream ended
    used,      \* len(candidate.streams)
    lease,     \* the call holds a pool lease
    sub,       \* the subscription is active
    waiter,    \* the call is registered with the permission tracker
    cause,     \* context.Cause(setupCtx)
    gone,      \* the client went away: r.Context() is done
    denied,    \* the library owes the error callback for a refused subscription
    expired,   \* the stream deadline has passed
    stopped,   \* lifecycle.stopped is closed
    messages,  \* buffer.messages
    bytes,     \* buffer.bytes
    terminal,  \* buffer.terminal
    hand,      \* the message received but not yet released
    lost       \* history: a message for this stream was discarded

control == <<pc, result>>
held == <<used, lease, sub, waiter>>
setup == <<cause, gone, denied>>
clock == <<expired, stopped>>
queue == <<messages, bytes, terminal, hand, lost>>
vars == <<control, held, setup, clock, queue>>

Established == {"streaming", "holding"}
Returning == {"unsubscribe", "release", "free"}
Places == {"idle", "gate", "acquire", "prepare", "flush", "flushed", "done"} \cup Established \cup Returning

\* Every variable keeps to the values the program can store in it.
TypeOK ==
    /\ pc \in [Streams -> Places]
    /\ result \in [Streams -> {None} \cup Statuses \cup Endings]
    /\ used \in 0 .. MaxConnections
    /\ lease \in [Streams -> BOOLEAN]
    /\ sub \in [Streams -> BOOLEAN]
    /\ waiter \in [Streams -> BOOLEAN]
    /\ gone \in [Streams -> BOOLEAN]
    /\ denied \in [Streams -> BOOLEAN]
    /\ expired \in [Streams -> BOOLEAN]
    /\ lost \in [Streams -> BOOLEAN]
    /\ cause \in [Streams -> Causes \cup {None}]
    /\ stopped \in BOOLEAN
    /\ messages \in [Streams -> Seq(Payloads)]
    /\ bytes \in [Streams -> Int]
    /\ terminal \in [Streams -> {None, "slow consumer", "invalid event payload"}]
    /\ hand \in [Streams -> Payloads \cup {None}]

Init ==
    /\ pc = [s \in Streams |-> "idle"]
    /\ result = [s \in Streams |-> None]
    /\ used = 0
    /\ lease = [s \in Streams |-> FALSE]
    /\ sub = [s \in Streams |-> FALSE]
    /\ waiter = [s \in Streams |-> FALSE]
    /\ cause = [s \in Streams |-> None]
    /\ gone = [s \in Streams |-> FALSE]
    /\ denied = [s \in Streams |-> FALSE]
    /\ expired = [s \in Streams |-> FALSE]
    /\ stopped = FALSE
    /\ messages = [s \in Streams |-> <<>>]
    /\ bytes = [s \in Streams |-> 0]
    /\ terminal = [s \in Streams |-> None]
    /\ hand = [s \in Streams |-> None]
    /\ lost = [s \in Streams |-> FALSE]

----------------------------------------------------------------------------
(* Setup (lines 84-173).                                                   *)

Goto(s, place) == pc' = [pc EXCEPT ![s] = place] /\ UNCHANGED result

\* The call writes r, or ends the stream with r, and runs its deferred calls.
Return(s, r) ==
    /\ pc' = [pc EXCEPT ![s] = "unsubscribe"]
    /\ result' = [result EXCEPT ![s] = r]

\* writeStreamSetupError: the response to a setup error.
writeStreamSetupError(err) ==
    CASE err = "canceled" -> "silent"
      [] err = "deadline" -> "504"
      [] err = "authorization" -> "401"
      [] err = "denied" -> "403"
      [] OTHER -> "503"

\* Lines 86-92: a slot of the quota, or 429.
Admit(s) ==
    /\ pc[s] = "idle" /\ used < MaxConnections
    /\ used' = used + 1
    /\ Goto(s, "gate")
    /\ UNCHANGED <<lease, sub, waiter, setup, clock, queue>>

Refuse(s) ==
    /\ pc[s] = "idle" /\ used = MaxConnections
    /\ pc' = [pc EXCEPT ![s] = "done"]
    /\ result' = [result EXCEPT ![s] = "429"]
    /\ UNCHANGED <<held, setup, clock, queue>>

\* Lines 94-97: a stopping handler serves nothing, and an operator route
\* needs a connection that is ready.
Unavailable(s) ==
    /\ pc[s] = "gate" /\ (stopped \/ s \notin Protected)
    /\ Return(s, "503")
    /\ UNCHANGED <<held, setup, clock, queue>>

GateOpens(s) ==
    /\ pc[s] = "gate" /\ ~stopped
    /\ Goto(s, IF s \in Protected THEN "acquire" ELSE "prepare")
    /\ UNCHANGED <<held, setup, clock, queue>>

Acquired(s) ==
    /\ pc[s] = "acquire"
    /\ lease' = [lease EXCEPT ![s] = TRUE]
    /\ Goto(s, "prepare")
    /\ UNCHANGED <<used, sub, waiter, setup, clock, queue>>

\* The credential cannot be adapted, NATS refuses it, the pool is full or
\* closed, the dial it shares times out, or the setup context ends first.
AcquireFails(s) ==
    /\ pc[s] = "acquire"
    /\ \E err \in {"authorization", "unavailable", "deadline"} \cup ({cause[s]} \ {None}) :
        Return(s, writeStreamSetupError(err))
    /\ UNCHANGED <<held, setup, clock, queue>>

\* Lines 125-138: the deadline has passed, or the connection or the response
\* writer cannot stream.
SetupRejected(s) ==
    /\ pc[s] = "prepare"
    /\ \E status \in IF expired[s] THEN {"503"} ELSE {"500", "503"} : Return(s, status)
    /\ UNCHANGED <<held, setup, clock, queue>>

\* Lines 139-147: register with the permission tracker, then Subscribe.  The
\* server's refusal comes back later, as a callback of the library.
Subscribe(s) ==
    /\ pc[s] = "prepare" /\ ~expired[s]
    /\ waiter' = [waiter EXCEPT ![s] = TRUE]
    /\ sub' = [sub EXCEPT ![s] = TRUE]
    /\ denied' = [denied EXCEPT ![s] = Connection[s] \in Forbidden]
    /\ Goto(s, "flush")
    /\ UNCHANGED <<used, lease, cause, gone, clock, queue>>

SubscribeFails(s) ==
    /\ pc[s] = "prepare" /\ ~expired[s]
    /\ waiter' = [waiter EXCEPT ![s] = TRUE]
    /\ Return(s, writeStreamSetupError("unavailable"))
    /\ UNCHANGED <<used, lease, sub, setup, clock, queue>>

\* FlushWithContext: the server has answered, the connection is lost, or the
\* setup context has ended (streamSetupCause).
Flushed(s) ==
    /\ pc[s] = "flush"
    /\ Goto(s, "flushed")
    /\ UNCHANGED <<held, setup, clock, queue>>

FlushBroken(s) ==
    /\ pc[s] = "flush" /\ cause[s] = None
    /\ Return(s, writeStreamSetupError("unavailable"))
    /\ UNCHANGED <<held, setup, clock, queue>>

FlushCancelled(s) ==
    /\ pc[s] = "flush" /\ cause[s] # None
    /\ Return(s, writeStreamSetupError(cause[s]))
    /\ UNCHANGED <<held, setup, clock, queue>>

\* Lines 152-155: the setup context is looked at for the last time.
CauseFound(s) ==
    /\ pc[s] = "flushed" /\ cause[s] # None
    /\ Return(s, writeStreamSetupError(cause[s]))
    /\ UNCHANGED <<held, setup, clock, queue>>

\* Lines 157-161: the response writer cannot flush.
Unflushable(s) ==
    /\ pc[s] = "flushed" /\ cause[s] = None
    /\ Return(s, "500")
    /\ UNCHANGED <<held, setup, clock, queue>>

Connected(s) ==
    /\ pc[s] = "flushed" /\ cause[s] = None
    /\ pc' = [pc EXCEPT ![s] = "streaming"]
    /\ result' = [result EXCEPT ![s] = "200"]
    /\ UNCHANGED <<held, setup, clock, queue>>

----------------------------------------------------------------------------
(* The buffer (lines 27-82).                                               *)

\* Mutant: the bytes already queued are not counted.
FitsAlone(s, p) == Size[p] <= BufferBytes /\ Len(messages[s]) < BufferMessages

Fits(s, p) ==
    /\ Size[p] <= BufferBytes
    /\ bytes[s] <= BufferBytes - Size[p]
    /\ Len(messages[s]) < BufferMessages

\* Mutant: a message that does not fit is dropped without ending the stream.
failSilently(s, reason) == UNCHANGED terminal

\* fail: the first reason wins.
fail(s, reason) ==
    terminal' = IF terminal[s] = None THEN [terminal EXCEPT ![s] = reason] ELSE terminal

\* enqueue, called by the delivery goroutine of an active subscription.
enqueue(s, p) ==
    /\ sub[s]
    /\ \/ /\ Size[p] > MaxReplyBytes
          /\ fail(s, "invalid event payload")
          /\ lost' = [lost EXCEPT ![s] = TRUE]
          /\ UNCHANGED <<messages, bytes>>
       \/ /\ Size[p] <= MaxReplyBytes /\ ~Fits(s, p)
          /\ fail(s, "slow consumer")
          /\ lost' = [lost EXCEPT ![s] = TRUE]
          /\ UNCHANGED <<messages, bytes>>
       \/ /\ Size[p] <= MaxReplyBytes /\ Fits(s, p)
          /\ messages' = [messages EXCEPT ![s] = Append(messages[s], p)]
          /\ bytes' = [bytes EXCEPT ![s] = bytes[s] + Size[p]]
          /\ UNCHANGED <<terminal, lost>>
    /\ UNCHANGED <<control, held, setup, clock, hand>>

----------------------------------------------------------------------------
(* The event loop (lines 174-199).  A heartbeat that is written changes     *)
(* nothing; one that is not is a broken write.                             *)

SelectGone(s) ==
    /\ pc[s] = "streaming" /\ gone[s]
    /\ Return(s, "gone")
    /\ UNCHANGED <<held, setup, clock, queue>>

SelectStopped(s) ==
    /\ pc[s] = "streaming" /\ stopped
    /\ Return(s, "stopped")
    /\ UNCHANGED <<held, setup, clock, queue>>

SelectTerminal(s) ==
    /\ pc[s] = "streaming" /\ terminal[s] # None
    /\ Return(s, terminal[s])
    /\ terminal' = [terminal EXCEPT ![s] = None]
    /\ UNCHANGED <<held, setup, clock, messages, bytes, hand, lost>>

\* Mutant: the loop has no duration timer.
SelectDurationNever(s) == FALSE /\ UNCHANGED vars

SelectDuration(s) ==
    /\ pc[s] = "streaming" /\ expired[s]
    /\ Return(s, "closed")
    /\ UNCHANGED <<held, setup, clock, queue>>

SelectMessage(s) ==
    /\ pc[s] = "streaming" /\ messages[s] # <<>>
    /\ hand' = [hand EXCEPT ![s] = Head(messages[s])]
    /\ messages' = [messages EXCEPT ![s] = Tail(messages[s])]
    /\ Goto(s, "holding")
    /\ UNCHANGED <<held, setup, clock, bytes, terminal, lost>>

\* buffer.release, then the event is checked and written.
Deliver(s) ==
    /\ pc[s] = "holding"
    /\ bytes' = [bytes EXCEPT ![s] = bytes[s] - Size[hand[s]]]
    /\ hand' = [hand EXCEPT ![s] = None]
    /\ IF hand[s] \in Valid
       THEN Goto(s, "streaming") \/ Return(s, "broken")
       ELSE Return(s, "invalid event payload")
    /\ UNCHANGED <<held, setup, clock, messages, terminal, lost>>

\* A comment frame cannot be written: the connected line or a heartbeat.
CommentBroken(s) ==
    /\ pc[s] = "streaming"
    /\ Return(s, "broken")
    /\ UNCHANGED <<held, setup, clock, queue>>

----------------------------------------------------------------------------
(* The deferred calls, last one first.                                     *)

unsubscribe(s) ==
    /\ pc[s] = "unsubscribe"
    /\ sub' = [sub EXCEPT ![s] = FALSE]
    /\ waiter' = [waiter EXCEPT ![s] = FALSE]
    /\ Goto(s, "release")
    /\ UNCHANGED <<used, lease, setup, clock, queue>>

\* Mutant: the lease may be given back before the stream has unsubscribed.
ReleaseEarly(s) ==
    /\ pc[s] \in {"unsubscribe", "release"}
    /\ lease' = [lease EXCEPT ![s] = FALSE]
    /\ Goto(s, IF pc[s] = "release" THEN "free" ELSE "unsubscribe")
    /\ UNCHANGED <<used, sub, waiter, setup, clock, queue>>

Release(s) ==
    /\ pc[s] = "release"
    /\ lease' = [lease EXCEPT ![s] = FALSE]
    /\ Goto(s, "free")
    /\ UNCHANGED <<used, sub, waiter, setup, clock, queue>>

\* Mutant: the slot is not given back.
FreeSlotForgotten(s) ==
    /\ pc[s] = "free"
    /\ Goto(s, "done")
    /\ UNCHANGED <<held, setup, clock, queue>>

\* The contexts and timers of the call are gone with it.
FreeSlot(s) ==
    /\ pc[s] = "free"
    /\ used' = used - 1
    /\ cause' = [cause EXCEPT ![s] = None]
    /\ gone' = [gone EXCEPT ![s] = FALSE]
    /\ expired' = [expired EXCEPT ![s] = FALSE]
    /\ Goto(s, "done")
    /\ UNCHANGED <<lease, sub, waiter, denied, stopped, queue>>

----------------------------------------------------------------------------
(* The environment.                                                        *)

InSetup(s) == pc[s] \in {"gate", "acquire", "prepare", "flush", "flushed"}

\* The first cause a context is cancelled with stays.
Cancelled(S, why) ==
    cause' = [s \in Streams |-> IF s \in S /\ cause[s] = None THEN why ELSE cause[s]]

ClientGone(s) ==
    /\ (InSetup(s) \/ pc[s] \in Established) /\ ~gone[s]
    /\ gone' = [gone EXCEPT ![s] = TRUE]
    /\ Cancelled({s}, "canceled")
    /\ UNCHANGED <<control, held, denied, clock, queue>>

SetupTimesOut(s) ==
    /\ InSetup(s) /\ cause[s] = None
    /\ Cancelled({s}, "deadline")
    /\ UNCHANGED <<control, held, gone, denied, clock, queue>>

\* Mutant: one tracker serves every connection.
handleEverywhere(s) ==
    /\ denied[s]
    /\ denied' = [denied EXCEPT ![s] = FALSE]
    /\ Cancelled({t \in Streams : waiter[t]}, "denied")
    /\ UNCHANGED <<control, held, gone, clock, queue>>

\* permissionTracker.handle: the callback cancels every waiter registered for
\* the subject on that connection.
handle(s) ==
    /\ denied[s]
    /\ denied' = [denied EXCEPT ![s] = FALSE]
    /\ Cancelled({t \in Streams : waiter[t] /\ Connection[t] = Connection[s]}, "denied")
    /\ UNCHANGED <<control, held, gone, clock, queue>>

\* The callback for a request on connection c: NATS refused its publication to
\* the subject, and the tracker keeps requests and streams in one map.
RequestRefused(c) ==
    /\ c \in Unpublishable
    /\ Cancelled({t \in Streams : waiter[t] /\ Connection[t] = c}, "denied")
    /\ UNCHANGED <<control, held, gone, denied, clock, queue>>

DeadlinePasses(s) ==
    /\ (InSetup(s) \/ pc[s] \in Established) /\ ~expired[s]
    /\ expired' = [expired EXCEPT ![s] = TRUE]
    /\ UNCHANGED <<control, held, setup, stopped, queue>>

\* Cleanup: beginStopping closes lifecycle.stopped.
Stop ==
    /\ ~stopped
    /\ stopped' = TRUE
    /\ UNCHANGED <<control, held, setup, expired, queue>>

----------------------------------------------------------------------------
\* The steps a running call takes by itself.
Proceed(s) ==
    \/ Unavailable(s)
    \/ GateOpens(s)
    \/ Acquired(s)
    \/ AcquireFails(s)
    \/ SetupRejected(s)
    \/ Subscribe(s)
    \/ SubscribeFails(s)
    \/ FlushCancelled(s)
    \/ CauseFound(s)
    \/ Unflushable(s)
    \/ Connected(s)
    \/ Deliver(s)
    \/ unsubscribe(s)
    \/ Release(s)
    \/ FreeSlot(s)

Select(s) ==
    \/ SelectGone(s)
    \/ SelectStopped(s)
    \/ SelectTerminal(s)
    \/ SelectMessage(s)
    \/ CommentBroken(s)

Next ==
    \/ \E s \in Streams :
        \/ Admit(s) \/ Refuse(s)
        \/ Proceed(s)
        \/ Flushed(s) \/ FlushBroken(s)
        \/ Select(s) \/ SelectDuration(s)
        \/ \E p \in Payloads : enqueue(s, p)
        \/ ClientGone(s) \/ SetupTimesOut(s) \/ DeadlinePasses(s)
        \/ handle(s)
    \/ \E c \in Unpublishable : RequestRefused(c)
    \/ Stop

Spec == Init /\ [][Next]_vars

\* Handlers run, timers fire; acquire answers (SecurityContextPool); select
\* chooses at random among what is ready, so a timer that stays ready is
\* chosen in the end however fast messages arrive.  Nothing is assumed of the
\* server, the client or the messages.
Fairness ==
    \A s \in Streams :
        /\ WF_vars(Proceed(s))
        /\ WF_vars(SetupTimesOut(s))
        /\ WF_vars(DeadlinePasses(s))
        /\ SF_vars(SelectDuration(s))

FairSpec == Spec /\ Fairness

----------------------------------------------------------------------------
(* Properties.                                                             *)

\* The quota counts exactly the calls between their admission and the end of
\* their deferred calls, on every early return (lines 86-88), and subscriptions,
\* permission waiters and leases never outlive the slot of their call: so
\* max_connections bounds them all.
QuotaExact ==
    /\ used <= MaxConnections
    /\ used = Cardinality({s \in Streams : pc[s] \notin {"idle", "done"}})
    /\ \A s \in Streams : lease[s] \/ sub[s] \/ waiter[s] => pc[s] \notin {"idle", "done"}

\* A call answers 403 only for a refusal of its own connection, of the
\* subscription or of a request's publication to the subject: a denial on one
\* connection never cancels the setup of a stream on another (the tracker of a
\* connection, gateway.go 78-140; core_sse.go 140).
ForbiddenIsOwn ==
    \A s \in Streams : result[s] = "403" => Connection[s] \in Forbidden \cup Unpublishable

\* What was received but not yet released, and what is queued behind it.
Outstanding(s) ==
    IF hand[s] = None THEN messages[s] ELSE <<hand[s]>> \o messages[s]

\* n is the length of the payloads of q together: the last of their partial sums.
TotalLength(q, n) ==
    \E sum \in [1 .. Len(q) + 1 -> 0 .. n] :
        /\ sum[1] = 0 /\ sum[Len(q) + 1] = n
        /\ \A i \in 1 .. Len(q) : sum[i + 1] = sum[i] + Size[q[i]]

\* The queue keeps to both of its bounds, and buffer.bytes is the length of what
\* is queued or received but not yet released (enqueue against release).
BufferBounded ==
    \A s \in Streams :
        /\ Len(messages[s]) <= BufferMessages
        /\ TotalLength(Outstanding(s), bytes[s])
        /\ bytes[s] <= BufferBytes

\* A stream that lost a message does not go on as if nothing had happened: the
\* reason waits in buffer.terminal until the loop ends the stream.
NoSilentLoss ==
    \A s \in Streams : pc[s] \in Established /\ lost[s] => terminal[s] # None

\* Every stream ends and gives back its slot, whatever the client, the server
\* and the messages do (max_duration, the setup timeout).
StreamsEnd ==
    \A s \in Streams : pc[s] \notin {"idle", "done"} ~> pc[s] = "done"

Stage(s) ==
    CASE pc[s] \in {"idle", "gate"} -> "arrived"
      [] pc[s] = "acquire" -> "acquiring"
      [] pc[s] \in Returning -> "returning"
      [] pc[s] = "done" -> "done"
      [] OTHER -> "using"

\* The streams with something of theirs on their NATS connection.
Registered == {s \in Streams : sub[s] \/ waiter[s]}

Call ==
    INSTANCE HandlerCall WITH
        Calls <- Streams, Guarded <- Protected, stage <- [s \in Streams |-> Stage(s)],
        holds <- lease, active <- Registered, shut <- stopped

\* Whatever ends a stream and wherever, it is a handler call: it registers and
\* subscribes only after it has its lease, keeps the lease until it has
\* unsubscribed, gives it back before it is over, and none gets in after the gate
\* was shut.
ImplementsHandlerCall == Call!Spec

\* A connection without permission for the subject never gets a stream.
DeniedNeverStreams ==
    \A s \in Streams : Connection[s] \in Forbidden => pc[s] \notin Established
=============================================================================
