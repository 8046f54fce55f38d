------------------------ MODULE RequestReply_proofs ------------------------
(***************************************************************************)
(* Proofs about RequestReply, for any number of requests, connections,     *)
(* users, subjects and rotations: what an answer says about the refusal,   *)
(* the deadline or the client that caused it, and that every request is a  *)
(* handler call.                                                           *)
(***************************************************************************)
EXTENDS RequestReply, TLAPS

----------------------------------------------------------------------------
(* The inductive invariant, in named parts.                                *)

\* Nothing is answered before the call returns.
AnsweredOnReturn ==
    \A r \in Requests : pc[r] \notin {"return", "done"} => status[r] = None

\* The context is cancelled for the client only when the client has gone, and by
\* the tracker only once the request was registered.
CausesTrue ==
    \A r \in Requests :
        /\ cause[r] = "canceled" => r \in gone
        /\ cause[r] = "denied" => pc[r] \in {"send", "await", "return", "done"}

\* A message that NATS refused, or reported as refused, was published by a user
\* without the permission.
RefusalsTrue ==
    \A r \in Requests :
        refused[r] \/ reported[r] =>
            /\ <<sender[r], Subject[r]>> \in Denied
            /\ pc[r] \in {"await", "return", "done"}

\* The refusal that ended a wait is the cause of its context.
ReportedIsCause == \A r \in Requests : reported[r] => cause[r] = "denied"

\* Some user of the connection of r may not publish to the subject of r, or not
\* subscribe to it.
Justified(r) ==
    \E u \in UsersOf(Connection[r]) : <<u, Subject[r]>> \in Denied \cup Unsubscribable

DenialsJustified ==
    \A r \in Requests : refused[r] \/ cause[r] = "denied" => Justified(r)

Invariant ==
    /\ TypeOK
    /\ AnsweredOnReturn
    /\ CausesTrue
    /\ RefusalsTrue
    /\ ReportedIsCause
    /\ DenialsJustified
    /\ DenialReported
    /\ ForbiddenJustified
    /\ SilentMeansGone

----------------------------------------------------------------------------
(* Lemmas: the three kinds of steps.                                       *)

\* A step that answers r and lets the call return keeps the invariant when the
\* answer is true: 403 to a reported refusal and only to a justified one, and
\* silence only to a client that has gone.
LEMMA ReturnKeeps ==
    ASSUME Invariant,
           NEW r \in Requests, NEW outcome \in Statuses,
           pc[r] \notin {"return", "done"},
           Return(r, outcome),
           reported[r] => outcome = "403",
           outcome = "403" => Justified(r),
           outcome = "silent" => r \in gone,
           waiters' = waiters \ {r},
           UNCHANGED <<ctx, lease, message, server, stopped>>
    PROVE  Invariant'
<1> USE RequestAssumption DEF Invariant, Return, ctx, message, server
<1>1. TypeOK'
  BY DEF TypeOK
<1>2. pc' \in [Requests -> {"gate", "acquire", "identity", "body", "register",
                            "send", "await", "return", "done"}]
  BY <1>1 DEF TypeOK
<1>3. \A q \in Requests : q # r => pc'[q] = pc[q] /\ status'[q] = status[q]
  BY DEF TypeOK
<1>4. pc'[r] = "return" /\ status'[r] = outcome
  BY DEF TypeOK
<1>5. AnsweredOnReturn' /\ CausesTrue' /\ RefusalsTrue' /\ ReportedIsCause'
  BY <1>3, <1>4 DEF AnsweredOnReturn, CausesTrue, RefusalsTrue, ReportedIsCause
<1>6. \A q \in Requests : Justified(q)' <=> Justified(q)
  BY DEF Justified, UsersOf
<1>7. DenialsJustified'
  BY <1>6 DEF DenialsJustified
<1>8. DenialReported' /\ SilentMeansGone'
  BY <1>3, <1>4 DEF DenialReported, SilentMeansGone
<1>9. ForbiddenJustified'
  BY <1>3, <1>4, <1>6 DEF ForbiddenJustified, Justified, UsersOf
<1> QED
  BY <1>1, <1>5, <1>7, <1>8, <1>9

\* A step that takes r on, before anything was published, keeps the invariant.
LEMMA GotoKeeps ==
    ASSUME Invariant,
           NEW r \in Requests,
           NEW place \in {"acquire", "identity", "body", "register", "send"},
           pc[r] \in {"gate", "acquire", "identity", "body", "register"},
           Goto(r, place),
           waiters' = (IF place = "send" THEN waiters \cup {r} ELSE waiters),
           lease' \in [Requests -> BOOLEAN],
           header' \in [Requests -> Users \cup {None}],
           UNCHANGED <<ctx, sender, refused, server, stopped>>
    PROVE  Invariant'
<1> USE RequestAssumption DEF Invariant, Goto, ctx, server
<1>1. TypeOK'
  <2>1. pc' \in [Requests -> {"gate", "acquire", "identity", "body", "register",
                              "send", "await", "return", "done"}]
    BY DEF TypeOK
  <2>2. waiters' \subseteq {q \in Requests : pc'[q] \in {"send", "await"}}
    BY DEF TypeOK
  <2> QED
    BY <2>1, <2>2 DEF TypeOK
<1>2. \A q \in Requests : q # r => pc'[q] = pc[q]
  BY DEF TypeOK
<1>3. pc'[r] = place
  BY DEF TypeOK
<1>4. AnsweredOnReturn' /\ CausesTrue' /\ RefusalsTrue' /\ ReportedIsCause'
  BY <1>2, <1>3 DEF AnsweredOnReturn, CausesTrue, RefusalsTrue, ReportedIsCause
<1>5. \A q \in Requests : Justified(q)' <=> Justified(q)
  BY DEF Justified, UsersOf
<1>6. DenialsJustified' /\ ForbiddenJustified'
  BY <1>5 DEF DenialsJustified, ForbiddenJustified, Justified, UsersOf
<1>7. DenialReported' /\ SilentMeansGone'
  BY DEF DenialReported, SilentMeansGone
<1> QED
  BY <1>1, <1>4, <1>6, <1>7

\* A step that ends contexts and moves no request keeps the invariant when the
\* causes it gives are true.
LEMMA CancelKeeps ==
    ASSUME Invariant,
           NEW S \in SUBSET Requests, NEW why \in Causes,
           Cancelled(S, why),
           \A q \in S : why = "canceled" => q \in gone',
           \A q \in S : why = "denied" => q \in waiters /\ Justified(q),
           gone \subseteq gone', gone' \subseteq Requests,
           \A q \in Requests : refused'[q] => refused[q],
           \A q \in Requests : reported'[q] =>
                reported[q] \/ (refused[q] /\ q \in S /\ cause[q] = None /\ why = "denied"),
           refused' \in [Requests -> BOOLEAN], reported' \in [Requests -> BOOLEAN],
           UNCHANGED <<client, lease, waiters, header, sender, server, stopped>>
    PROVE  Invariant'
<1> USE RequestAssumption DEF Invariant, client, server
<1>1. TypeOK'
  BY DEF TypeOK, Cancelled
<1>2. \A q \in Requests : cause'[q] = cause[q] \/ (q \in S /\ cause[q] = None /\ cause'[q] = why)
  BY DEF Cancelled
<1>3. \A q \in Requests : cause[q] # None => cause'[q] = cause[q]
  BY DEF Cancelled
<1>4. \A q \in S : cause[q] = None => cause'[q] = why
  BY DEF Cancelled
<1>5. AnsweredOnReturn' /\ RefusalsTrue'
  BY DEF AnsweredOnReturn, RefusalsTrue
<1>6. CausesTrue'
  BY <1>2 DEF CausesTrue, TypeOK
<1>7. ReportedIsCause'
  BY <1>3, <1>4 DEF ReportedIsCause, Causes
<1>8. \A q \in Requests : Justified(q)' <=> Justified(q)
  BY DEF Justified, UsersOf
<1>9. DenialsJustified' /\ ForbiddenJustified'
  BY <1>2, <1>8 DEF DenialsJustified, ForbiddenJustified, Justified, UsersOf
<1>10. DenialReported'
  <2> SUFFICES ASSUME NEW q \in Requests, reported'[q], status'[q] # None
               PROVE  status'[q] = "403"
    BY DEF DenialReported
  <2>1. q \notin waiters
    BY DEF AnsweredOnReturn, TypeOK
  <2>2. reported[q]
    BY <2>1
  <2> QED
    BY <2>2 DEF DenialReported
<1>11. SilentMeansGone'
  BY DEF SilentMeansGone
<1> QED
  BY <1>1, <1>5, <1>6, <1>7, <1>9, <1>10, <1>11

----------------------------------------------------------------------------
(* Every action keeps the invariant.                                       *)

LEMMA Initially == Init => Invariant
<1> SUFFICES ASSUME Init PROVE Invariant
  OBVIOUS
<1> USE RequestAssumption DEF Init
<1>1. TypeOK
  <2>1. rotations \in 0 .. MaxRotations
    BY SMT
  <2> QED
    BY <2>1 DEF TypeOK
<1>2. AnsweredOnReturn /\ CausesTrue /\ RefusalsTrue /\ ReportedIsCause /\ DenialsJustified
  BY DEF AnsweredOnReturn, CausesTrue, RefusalsTrue, ReportedIsCause, DenialsJustified, Causes
<1>3. DenialReported /\ ForbiddenJustified /\ SilentMeansGone
  BY DEF DenialReported, ForbiddenJustified, SilentMeansGone, Statuses
<1> QED
  BY <1>1, <1>2, <1>3 DEF Invariant

\* The steps before anything is registered: none of them answers 403, and the
\* only cancellation they see is the client's own.
LEMMA EarlyKeeps ==
    ASSUME Invariant, NEW r \in Requests,
           \/ Rejected(r) \/ GateOpens(r) \/ Acquired(r) \/ AcquireFails(r)
           \/ IdentityResolved(r) \/ IdentityFails(r)
           \/ BodyRead(r) \/ BodyRejected(r) \/ BodyInterrupted(r) \/ register(r)
    PROVE  Invariant'
<1>1. TypeOK /\ (Connection[r] \in Connections => user[Connection[r]] \in Users)
  BY DEF Invariant, TypeOK
<1>2. Connection[r] \in Connections
  BY DEF Connections
<1>3. ASSUME pc[r] \in {"gate", "acquire", "identity", "body", "register"}
      PROVE  /\ ~reported[r]
             /\ cause[r] # "denied"
             /\ cause[r] = "canceled" => r \in gone
             /\ cause[r] \in Causes \cup {None}
             /\ waiters = waiters \ {r}
  BY <1>3 DEF Invariant, TypeOK, CausesTrue, RefusalsTrue
<1>4. ASSUME pc[r] \in {"gate", "acquire", "identity", "body"},
             NEW outcome \in Statuses \ {"403"}, Return(r, outcome),
             outcome = "silent" => r \in gone,
             UNCHANGED <<ctx, lease, waiters, message, server, stopped>>
      PROVE  Invariant'
  BY <1>3, <1>4, ReturnKeeps
<1>5. CASE Rejected(r)
  BY <1>4, <1>5 DEF Rejected, Statuses
<1>6. CASE AcquireFails(r)
  <2>1. PICK err \in {"authorization", "unavailable", "deadline"} \cup ({cause[r]} \ {None}) :
            Return(r, acquireStatus(err))
    BY <1>6 DEF AcquireFails
  <2>2. acquireStatus(err) \in Statuses \ {"403"}
    BY DEF acquireStatus, Statuses
  <2>3. acquireStatus(err) = "silent" => err = "canceled"
    BY DEF acquireStatus
  <2> QED
    BY <1>3, <1>4, <1>6, <2>1, <2>2, <2>3 DEF AcquireFails
<1>7. CASE IdentityFails(r)
  <2>1. cause[r] # None /\ ctxErr(r) = "canceled" => r \in gone
    BY <1>3, <1>7 DEF IdentityFails, ctxErr
  <2> QED
    BY <1>4, <1>7, <2>1 DEF IdentityFails, Statuses
<1>8. CASE BodyRejected(r)
  <2>1. PICK err \in {"too large", "broken"} : Return(r, executeStatus(err))
    BY <1>8 DEF BodyRejected
  <2>2. executeStatus(err) \in {"413", "500"}
    BY DEF executeStatus
  <2> QED
    BY <1>4, <1>8, <2>1, <2>2 DEF BodyRejected, Statuses
<1>9. CASE BodyInterrupted(r)
  <2>1. ctxErr(r) \in {"canceled", "deadline"} /\ (ctxErr(r) = "canceled" => r \in gone)
    BY <1>3, <1>9 DEF BodyInterrupted, ctxErr, Causes
  <2>2. executeStatus(ctxErr(r)) \in {"silent", "504"}
    BY <2>1 DEF executeStatus
  <2>3. executeStatus(ctxErr(r)) = "silent" => ctxErr(r) = "canceled"
    BY <2>1 DEF executeStatus
  <2> QED
    BY <1>4, <1>9, <2>1, <2>2, <2>3 DEF BodyInterrupted, Statuses
<1>10. CASE GateOpens(r)
  BY <1>1, <1>10, GotoKeeps DEF GateOpens, TypeOK, message
<1>11. CASE Acquired(r)
  BY <1>1, <1>11, GotoKeeps DEF Acquired, TypeOK, message
<1>12. CASE IdentityResolved(r)
  BY <1>1, <1>2, <1>12, GotoKeeps DEF IdentityResolved, TypeOK
<1>13. CASE BodyRead(r)
  BY <1>1, <1>13, GotoKeeps DEF BodyRead, TypeOK, message
<1>14. CASE register(r)
  BY <1>1, <1>14, GotoKeeps DEF register, TypeOK, message
<1> QED
  BY <1>5, <1>6, <1>7, <1>8, <1>9, <1>10, <1>11, <1>12, <1>13, <1>14

\* Publication: the message is refused iff its sender lacks the permission.
LEMMA PublishKeeps ==
    ASSUME Invariant, NEW r \in Requests, Publish(r)
    PROVE  Invariant'
<1> USE RequestAssumption DEF Invariant, Publish, Goto, ctx, server
<1>1. Connection[r] \in Connections
  BY DEF Connections
<1>2. user[Connection[r]] \in Users
  BY <1>1 DEF TypeOK
<1>3. TypeOK'
  <2>1. pc' \in [Requests -> {"gate", "acquire", "identity", "body", "register",
                              "send", "await", "return", "done"}]
    BY DEF TypeOK
  <2>2. waiters' \subseteq {q \in Requests : pc'[q] \in {"send", "await"}}
    BY DEF TypeOK
  <2>3. sender' \in [Requests -> Users \cup {None}] /\ refused' \in [Requests -> BOOLEAN]
    BY <1>2 DEF TypeOK
  <2> QED
    BY <2>1, <2>2, <2>3 DEF TypeOK
<1>4. \A q \in Requests : q # r =>
        pc'[q] = pc[q] /\ sender'[q] = sender[q] /\ refused'[q] = refused[q]
  BY DEF TypeOK
<1>5. /\ pc'[r] = "await" /\ sender'[r] = user[Connection[r]]
      /\ refused'[r] = (<<user[Connection[r]], Subject[r]>> \in Denied)
  BY DEF TypeOK
<1>6. ~reported[r]
  BY DEF RefusalsTrue
<1>7. AnsweredOnReturn' /\ CausesTrue' /\ ReportedIsCause'
  BY <1>4, <1>5 DEF AnsweredOnReturn, CausesTrue, ReportedIsCause
<1>8. RefusalsTrue'
  BY <1>4, <1>5, <1>6 DEF RefusalsTrue
<1>9. \A q \in Requests : Justified(q)' <=> Justified(q)
  BY DEF Justified, UsersOf
<1>10. refused'[r] => Justified(r)
  BY <1>2, <1>5 DEF Justified, UsersOf
<1>11. DenialsJustified' /\ ForbiddenJustified'
  BY <1>4, <1>9, <1>10 DEF DenialsJustified, ForbiddenJustified, Justified, UsersOf
<1>12. DenialReported' /\ SilentMeansGone'
  BY DEF DenialReported, SilentMeansGone
<1> QED
  BY <1>3, <1>7, <1>8, <1>11, <1>12

\* A call that fails after its registration: the cause of the context, if there
\* is one, is what is answered.
LEMMA ExecuteFailsKeeps ==
    ASSUME Invariant, NEW r \in Requests, pc[r] \in {"send", "await"},
           NEW err \in Causes \cup {"disconnected", "authorization", "other", "no responders"},
           ExecuteFails(r, err),
           err \in Causes => cause[r] # None
    PROVE  Invariant'
<1> DEFINE why == IF cause[r] # None THEN cause[r] ELSE err
<1>1. cause[r] \in Causes \cup {None} /\ None \notin Causes
  BY RequestAssumption DEF Invariant, TypeOK
<1>2. why \in Causes \cup {"disconnected", "authorization", "other", "no responders"}
  BY <1>1
<1>3. why \in Causes => cause[r] = why
  BY <1>1 DEF Causes
<1>4. reported[r] => why = "denied"
  BY <1>1 DEF Invariant, ReportedIsCause, Causes
<1>5. why = "denied" => Justified(r)
  BY <1>3 DEF Invariant, DenialsJustified, Causes
<1>6. why = "canceled" => r \in gone
  BY <1>3 DEF Invariant, CausesTrue, Causes
<1>7. Return(r, executeStatus(why)) /\ waiters' = waiters \ {r}
  BY DEF ExecuteFails
<1> HIDE DEF why
<1>8. /\ executeStatus(why) \in Statuses
      /\ why = "denied" <=> executeStatus(why) = "403"
      /\ why = "canceled" <=> executeStatus(why) = "silent"
  BY <1>2 DEF executeStatus, Statuses, Causes
<1> QED
  BY <1>4, <1>5, <1>6, <1>7, <1>8, ReturnKeeps DEF ExecuteFails

\* The end of the wait: no reply overtakes a refusal of the same message.
LEMMA WaitKeeps ==
    ASSUME Invariant, NEW r \in Requests,
           RequestCancelled(r) \/ RequestBroken(r) \/ NoResponders(r) \/ ReplyArrives(r)
    PROVE  Invariant'
<1>1. CASE RequestCancelled(r)
  <2>1. ctxErr(r) \in Causes /\ cause[r] # None /\ pc[r] \in {"send", "await"}
    BY <1>1 DEF RequestCancelled, ctxErr, Causes, Invariant, TypeOK
  <2> QED
    BY <1>1, <2>1, ExecuteFailsKeeps DEF RequestCancelled
<1>2. CASE RequestBroken(r)
  <2>1. PICK err \in {"disconnected", "authorization", "other"} : ExecuteFails(r, err)
    BY <1>2 DEF RequestBroken
  <2>2. err \notin Causes
    BY DEF Causes
  <2> QED
    BY <1>2, <2>1, <2>2, ExecuteFailsKeeps DEF RequestBroken
<1>3. CASE NoResponders(r)
  <2>1. "no responders" \notin Causes
    BY DEF Causes
  <2> QED
    BY <1>3, <2>1, ExecuteFailsKeeps DEF NoResponders
<1>4. CASE ReplyArrives(r)
  <2>1. ~reported[r] /\ pc[r] = "await"
    BY <1>4 DEF ReplyArrives, Invariant, RefusalsTrue
  <2>2. PICK reply \in Replies : Return(r, replyStatus(reply))
    BY <1>4 DEF ReplyArrives
  <2>3. replyStatus(reply) \in Statuses \ {"403", "silent"}
    BY DEF replyStatus, Statuses
  <2> QED
    BY <1>4, <2>1, <2>2, <2>3, ReturnKeeps DEF ReplyArrives
<1> QED
  BY <1>1, <1>2, <1>3, <1>4

\* The deferred release.
LEMMA ReleaseKeeps ==
    ASSUME Invariant, NEW r \in Requests, Release(r)
    PROVE  Invariant'
<1> USE RequestAssumption DEF Invariant, Release, Goto, ctx, message, server
<1>1. TypeOK'
  BY DEF TypeOK
<1>2. (\A q \in Requests : q # r => pc'[q] = pc[q]) /\ pc'[r] = "done"
  BY DEF TypeOK
<1>3. AnsweredOnReturn' /\ CausesTrue' /\ RefusalsTrue' /\ ReportedIsCause'
  BY <1>2 DEF AnsweredOnReturn, CausesTrue, RefusalsTrue, ReportedIsCause
<1>4. DenialsJustified' /\ ForbiddenJustified'
  BY DEF DenialsJustified, ForbiddenJustified, Justified, UsersOf
<1>5. DenialReported' /\ SilentMeansGone'
  BY DEF DenialReported, SilentMeansGone
<1> QED
  BY <1>1, <1>3, <1>4, <1>5

\* What ends a context: the client, the timer, the tracker, and the tracker for a
\* stream of the same connection.
LEMMA ContextKeeps ==
    ASSUME Invariant, NEW r \in Requests,
           ClientGone(r) \/ TimerFires(r) \/ handle(r) \/ StreamRefused(r)
    PROVE  Invariant'
<1> USE DEF Invariant
<1>1. CASE ClientGone(r)
  <2>1. gone \subseteq gone' /\ gone' \subseteq Requests /\ r \in gone'
    BY <1>1 DEF ClientGone, TypeOK
  <2> QED
    BY <1>1, <2>1, CancelKeeps DEF ClientGone, Causes, message, TypeOK
<1>2. CASE TimerFires(r)
  BY <1>2, CancelKeeps DEF TimerFires, Causes, message, TypeOK
<1>3. CASE handle(r)
  <2>1. waitersFor(r) \in SUBSET Requests
    BY DEF waitersFor, TypeOK
  <2>2. Justified(r)
    BY <1>3 DEF handle, DenialsJustified
  <2>3. \A q \in waitersFor(r) : q \in waiters /\ Justified(q)
    BY <2>2 DEF waitersFor, Justified, UsersOf
  <2>4. /\ \A q \in Requests : refused'[q] => refused[q]
        /\ refused' \in [Requests -> BOOLEAN]
    BY <1>3 DEF handle, TypeOK
  <2>5. reported' \in [Requests -> BOOLEAN]
    BY <1>3 DEF handle, TypeOK
  <2>6. \A q \in Requests : reported'[q] =>
            reported[q] \/ (refused[q] /\ q \in waitersFor(r) /\ cause[q] = None)
    BY <1>3 DEF handle, TypeOK, waitersFor
  <2>7. gone' = gone /\ gone \subseteq Requests
    BY <1>3 DEF handle, TypeOK
  <2> QED
    BY <1>3, <2>1, <2>3, <2>4, <2>5, <2>6, <2>7, CancelKeeps DEF handle, Causes
<1>4. CASE StreamRefused(r)
  <2>1. waitersFor(r) \in SUBSET Requests
    BY DEF waitersFor, TypeOK
  <2>2. \A q \in waitersFor(r) : q \in waiters /\ Justified(q)
    BY <1>4 DEF StreamRefused, waitersFor, Justified
  <2> QED
    BY <1>4, <2>1, <2>2, CancelKeeps DEF StreamRefused, Causes, message, TypeOK
<1> QED
  BY <1>1, <1>2, <1>3, <1>4

\* The server: a credential that rotates was allowed for in what is justified.
LEMMA ServerKeeps ==
    ASSUME Invariant,
           (\E c \in Connections, u \in Users : Rotate(c, u)) \/ Stop \/ UNCHANGED vars
    PROVE  Invariant'
<1> USE RequestAssumption DEF Invariant, client, ctx, message, server
<1>1. ASSUME NEW c \in Connections, NEW u \in Users, Rotate(c, u)
      PROVE  Invariant'
  <2>1. TypeOK'
    <3>1. rotations' \in 0 .. MaxRotations
      BY <1>1 DEF Rotate, TypeOK
    <3> QED
      BY <1>1, <3>1 DEF Rotate, TypeOK
  <2>2. \A q \in Requests : Justified(q)' <=> Justified(q)
    <3> SUFFICES ASSUME NEW q \in Requests PROVE Justified(q)' <=> Justified(q)
      OBVIOUS
    <3>1. CASE Connection[q] \in Rotating
      BY <3>1 DEF Justified, UsersOf
    <3>2. CASE Connection[q] \notin Rotating
      <4>1. Connection[q] # c /\ Connection[q] \in Connections
        BY <1>1, <3>2 DEF Rotate, Connections
      <4>2. user'[Connection[q]] = user[Connection[q]]
        BY <1>1, <4>1 DEF Rotate, TypeOK
      <4> QED
        BY <3>2, <4>2 DEF Justified, UsersOf
    <3> QED
      BY <3>1, <3>2
  <2>3. DenialsJustified' /\ ForbiddenJustified'
    BY <1>1, <2>2 DEF Rotate, DenialsJustified, ForbiddenJustified, Justified, UsersOf
  <2> QED
    BY <1>1, <2>1, <2>3 DEF Rotate, AnsweredOnReturn, CausesTrue, RefusalsTrue,
        ReportedIsCause, DenialReported, SilentMeansGone
<1>2. CASE Stop \/ UNCHANGED vars
  <2>1. UNCHANGED <<client, ctx, lease, waiters, message, server>> /\ stopped' \in BOOLEAN
    BY <1>2 DEF Stop, vars, TypeOK
  <2>2. TypeOK'
    BY <2>1 DEF TypeOK
  <2> QED
    BY <2>1, <2>2 DEF AnsweredOnReturn, CausesTrue, RefusalsTrue, ReportedIsCause,
        DenialsJustified, Justified, UsersOf, DenialReported, ForbiddenJustified, SilentMeansGone
<1> QED
  BY <1>1, <1>2

----------------------------------------------------------------------------
(* The theorems.                                                           *)

\* In every state the invariant holds: the named parts above, and with them the
\* type of every variable (gateway.go 377-505, internal/translation).
THEOREM InvariantHolds == Spec => []Invariant
<1>1. Init => Invariant
  BY Initially
<1>2. Invariant /\ [Next]_vars => Invariant'
  BY EarlyKeeps, PublishKeeps, WaitKeeps, ReleaseKeeps, ContextKeeps, ServerKeeps
     DEF Next, Proceed, Answer
<1> QED
  BY <1>1, <1>2, PTL DEF Spec

\* Every variable keeps to the values the program can store in it.
THEOREM TypeCorrect == Spec => []TypeOK
<1>1. Invariant => TypeOK
  BY DEF Invariant
<1> QED
  BY <1>1, InvariantHolds, PTL

\* A refusal that reaches a waiting request first is answered 403, whatever the
\* library returns for the cancelled call and whatever else ends the context
\* meanwhile (handle, translation.go 43-47).
THEOREM RefusalIsAnswered == Spec => []DenialReported
<1>1. Invariant => DenialReported
  BY DEF Invariant
<1> QED
  BY <1>1, InvariantHolds, PTL

\* A request is answered 403 only for a subject that a user of its connection
\* may not publish to or not subscribe to, however many requests and streams
\* share the connection and its tracker (gateway.go 78, 123-140).
THEOREM ForbiddenIsJustified == Spec => []ForbiddenJustified
<1>1. Invariant => ForbiddenJustified
  BY DEF Invariant
<1> QED
  BY <1>1, InvariantHolds, PTL

\* The handler stays silent only for a client that has gone.
THEOREM SilenceIsTheClients == Spec => []SilentMeansGone
<1>1. Invariant => SilentMeansGone
  BY DEF Invariant
<1> QED
  BY <1>1, InvariantHolds, PTL

----------------------------------------------------------------------------
(* Every request is a handler call.                                        *)

\* What the stage of each place is.
StageOf(place) ==
    CASE place = "gate" -> "arrived"
      [] place = "acquire" -> "acquiring"
      [] place = "return" -> "returning"
      [] place = "done" -> "done"
      [] OTHER -> "using"

LEMMA StageValues ==
    /\ StageOf("gate") = "arrived"
    /\ StageOf("acquire") = "acquiring"
    /\ \A place \in {"identity", "body", "register", "send", "await"} : StageOf(place) = "using"
    /\ StageOf("return") = "returning"
    /\ StageOf("done") = "done"
  BY DEF StageOf

\* The stage of a request is that of its place, and moving it moves its stage.
LEMMA StageMoves ==
    ASSUME TypeOK, NEW r \in Requests, NEW place, NEW next, pc' = [pc EXCEPT ![r] = place],
           next = StageOf(place)
    PROVE  /\ [q \in Requests |-> Stage(q)][r] = StageOf(pc[r])
           /\ Call!To(r, next)
           /\ next = StageOf(pc[r]) => UNCHANGED [q \in Requests |-> Stage(q)]
<1>1. \A q \in Requests : Stage(q) = StageOf(pc[q])
  BY DEF Stage, StageOf
<1>2. \A q \in Requests : Stage(q)' = StageOf(pc'[q])
  BY DEF Stage, StageOf
<1>3. \A q \in Requests : pc'[q] = IF q = r THEN place ELSE pc[q]
  BY DEF TypeOK
<1>4. \A q \in Requests : Stage(q)' = IF q = r THEN next ELSE Stage(q)
  BY <1>1, <1>2, <1>3
<1>5. [q \in Requests |-> Stage(q)]' = [q \in Requests |-> Stage(q)']
  OBVIOUS
<1> HIDE DEF StageOf, Stage
<1> QED
  BY <1>1, <1>4, <1>5 DEF Call!To

\* A request whose stage does not change has not moved for the rest of the
\* gateway.
LEMMA StageStays ==
    ASSUME TypeOK, NEW r \in Requests, NEW place,
           pc' = [pc EXCEPT ![r] = place], StageOf(place) = StageOf(pc[r]),
           UNCHANGED <<lease, waiters, stopped>>
    PROVE  UNCHANGED Call!callVars
  BY StageMoves DEF Call!callVars

LEMMA StageSame ==
    ASSUME UNCHANGED pc
    PROVE  UNCHANGED [q \in Requests |-> Stage(q)]
  BY DEF Stage

LEMMA RefinementStep ==
    ASSUME TypeOK, [Next]_vars
    PROVE  [Call!Next]_(Call!callVars)
<1> USE RequestAssumption, StageMoves, StageValues
<1>1. ASSUME NEW r \in Requests, Rejected(r)
      PROVE  Call!TurnAway(r)
  BY <1>1 DEF Rejected, Return, Call!TurnAway
<1>2. ASSUME NEW r \in Requests, GateOpens(r)
      PROVE  Call!Enter(r)
  BY <1>2 DEF GateOpens, Goto, Call!Enter
<1>3. ASSUME NEW r \in Requests, Acquired(r)
      PROVE  Call!Take(r)
  BY <1>3 DEF Acquired, Goto, Call!Take
<1>4. ASSUME NEW r \in Requests, NEW outcome, Return(r, outcome),
             pc[r] \notin {"gate", "return", "done"},
             \/ waiters' = waiters
             \/ pc[r] \in {"send", "await"} /\ waiters' = waiters \ {r},
             UNCHANGED <<lease, stopped>>
      PROVE  Call!Conclude(r)
  BY <1>4 DEF Return, Call!Conclude, Call!Changes, TypeOK
<1>5. ASSUME NEW r \in Requests,
             \/ AcquireFails(r) \/ IdentityFails(r) \/ BodyRejected(r) \/ BodyInterrupted(r)
             \/ RequestCancelled(r) \/ RequestBroken(r) \/ NoResponders(r) \/ ReplyArrives(r)
      PROVE  Call!Conclude(r)
  BY <1>4, <1>5 DEF AcquireFails, IdentityFails, BodyRejected, BodyInterrupted,
      RequestCancelled, RequestBroken, NoResponders, ReplyArrives, ExecuteFails
<1>6. ASSUME NEW r \in Requests, Release(r)
      PROVE  Call!GiveBack(r)
  BY <1>6 DEF Release, Goto, Call!GiveBack, TypeOK
<1>7. ASSUME NEW r \in Requests,
             IdentityResolved(r) \/ BodyRead(r) \/ Publish(r)
      PROVE  UNCHANGED Call!callVars
  BY <1>7, StageStays DEF IdentityResolved, BodyRead, Publish, Goto
<1>8. ASSUME NEW r \in Requests,
             ClientGone(r) \/ TimerFires(r) \/ handle(r) \/ StreamRefused(r)
      PROVE  UNCHANGED Call!callVars
  BY <1>8, StageSame DEF ClientGone, TimerFires, handle, StreamRefused, client, Call!callVars
<1>9. ASSUME NEW c \in Connections, NEW u \in Users, Rotate(c, u)
      PROVE  UNCHANGED Call!callVars
  BY <1>9, StageSame DEF Rotate, client, Call!callVars
<1>10. Stop => Call!Shut
  BY StageSame DEF Stop, client, Call!Shut
<1>11. UNCHANGED vars => UNCHANGED Call!callVars
  BY StageSame DEF vars, client, Call!callVars
<1>12. ASSUME NEW r \in Requests, register(r)
       PROVE  Call!Work(r)
  BY <1>12 DEF register, Goto, Call!Work, Call!Changes
<1> QED
  BY <1>1, <1>2, <1>3, <1>5, <1>6, <1>7, <1>8, <1>9, <1>10, <1>11, <1>12
     DEF Next, Proceed, Answer, Call!Next

\* Whatever ends a request and wherever, it is a handler call: it registers and
\* waits on a leased connection only, holds the lease until its answer is
\* written, gives it back before it is over, and none gets in after the gate was
\* shut.
THEOREM RequestIsHandlerCall == Spec => ImplementsHandlerCall
<1>1. Init => Call!Init
  BY DEF Init, Call!Init, Stage
<1>2. TypeOK /\ [Next]_vars => [Call!Next]_(Call!callVars)
  BY RefinementStep
<1> QED
  BY <1>1, <1>2, TypeCorrect, PTL DEF Spec, ImplementsHandlerCall, Call!Spec
=============================================================================
