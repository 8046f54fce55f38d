--------------------------- MODULE CoreSSE_proofs ---------------------------
(***************************************************************************)
(* Proofs about CoreSSE, for any number of streams, connections and        *)
(* payloads and every value of the limits: the quota is exact, the buffer  *)
(* keeps to its bounds and loses nothing silently, a 403 is the stream's   *)
(* own, and every stream is a handler call.                                *)
(***************************************************************************)
EXTENDS CoreSSE, FiniteSetTheorems, SequenceTheorems, TLAPS

----------------------------------------------------------------------------
(* The inductive invariant, in named parts.                                *)

\* The calls that hold a slot.
Active == {s \in Streams : pc[s] \notin {"idle", "done"}}

\* The quota counts them.
Counted == IsFiniteSet(Active) /\ used = Cardinality(Active) /\ used <= MaxConnections

\* What a call holds at each point of its control flow: the deferred calls give
\* everything back, last one first.
Unwound ==
    \A s \in Streams :
        /\ sub[s] \/ waiter[s] =>
            pc[s] \in {"flush", "flushed", "streaming", "holding", "unsubscribe"}
        /\ lease[s] =>
            pc[s] \in {"prepare", "flush", "flushed", "streaming", "holding", "unsubscribe", "release"}

\* A refusal, reported or not, is one of the stream's own connection.
DenialsOwn ==
    \A s \in Streams :
        /\ denied[s] => Connection[s] \in Forbidden
        /\ cause[s] = "denied" => Connection[s] \in Forbidden \cup Unpublishable

\* The loop has a message in its hand between receive and release only.
HandHeld == \A s \in Streams : hand[s] # None <=> pc[s] = "holding"

\* The reason for a loss is kept until the loop ends the stream.
LossKept ==
    \A s \in Streams : lost[s] /\ pc[s] \notin Returning \cup {"done"} => terminal[s] # None

Invariant ==
    /\ TypeOK
    /\ Counted
    /\ Unwound
    /\ DenialsOwn
    /\ ForbiddenIsOwn
    /\ HandHeld
    /\ LossKept
    /\ BufferBounded

----------------------------------------------------------------------------
(* Lemmas about the operators.                                             *)

\* A setup error is answered with a status, and with 403 only if it is a denial.
LEMMA SetupErrorAnswer ==
    ASSUME NEW err
    PROVE  /\ writeStreamSetupError(err) \in Statuses
           /\ writeStreamSetupError(err) = "403" => err = "denied"
  BY DEF writeStreamSetupError, Statuses

\* Subtracting keeps below a bound.
LEMMA Subtracted ==
    \A m \in Int, n, b \in Nat : m - n \in Int /\ (m <= b => m - n <= b)
  OBVIOUS

\* A set of naturals that is not empty has a least element.
LEMMA LeastElement ==
    ASSUME NEW T \in SUBSET Nat, T # {}
    PROVE  \E n \in T : \A m \in T : n <= m
<1>1. PICK n \in T : \A m \in T : ~(<<m, n>> \in OpToRel(<, Nat))
  BY NatLessThanWellFounded, WFMin
<1>2. \A m \in T : ~(m < n)
  BY <1>1 DEF OpToRel
<1> QED
  BY <1>2

\* Partial sums that never fall stay above the first.
LEMMA SumsGrow ==
    ASSUME NEW n \in Nat, NEW sum \in [1 .. n -> Int],
           \A i \in 1 .. n : i > 1 => sum[i - 1] <= sum[i]
    PROVE  \A i \in 1 .. n : i > 1 => sum[2] <= sum[i]
<1> DEFINE T == {i \in 1 .. n : i > 1 /\ ~(sum[2] <= sum[i])}
<1> SUFFICES ASSUME T # {} PROVE FALSE
  OBVIOUS
<1>1. PICK k \in T : \A m \in T : k <= m
  <2>1. T \in SUBSET Nat
    OBVIOUS
  <2> HIDE DEF T
  <2> QED
    BY <2>1, LeastElement
<1>2. k \in 2 .. n /\ k # 2 /\ ~(sum[2] <= sum[k])
  BY <1>1
<1>3. k - 1 \in 1 .. n /\ k - 1 > 1 /\ k - 1 \notin T
  BY <1>1, <1>2
<1>4. sum[2] <= sum[k - 1]
  BY <1>3
<1>5. sum[k - 1] <= sum[k] /\ sum[2] \in Int /\ sum[k - 1] \in Int /\ sum[k] \in Int
  BY <1>2
<1> QED
  BY <1>2, <1>4, <1>5

\* The empty queue has length zero.
LEMMA EmptyTotal == TotalLength(<<>>, 0)
<1> DEFINE sum == [i \in 1 .. 1 |-> 0]
<1>1. Len(<<>>) = 0 /\ sum \in [1 .. 1 -> 0 .. 0] /\ sum[1] = 0 /\ 1 .. 0 = {} /\ 0 + 1 = 1
  OBVIOUS
<1> HIDE DEF sum
<1> QED
  BY <1>1 DEF TotalLength

\* A payload that is appended adds its size.
LEMMA AppendedTotal ==
    ASSUME NEW q \in Seq(Payloads), NEW n \in Int, NEW p \in Payloads, TotalLength(q, n)
    PROVE  TotalLength(Append(q, p), n + Size[p])
<1>1. PICK sum \in [1 .. Len(q) + 1 -> 0 .. n] :
        /\ sum[1] = 0 /\ sum[Len(q) + 1] = n
        /\ \A i \in 1 .. Len(q) : sum[i + 1] = sum[i] + Size[q[i]]
  BY DEF TotalLength
<1>2. Len(q) \in Nat /\ Size[p] \in Nat /\ n \in Nat
  <2>1. Len(q) \in Nat /\ Size[p] \in Nat
    BY StreamAssumption
  <2>2. sum[1] \in 0 .. n
    BY <1>1, <2>1
  <2> QED
    BY <2>1, <2>2
<1> DEFINE a == Append(q, p)
           next == [i \in 1 .. Len(q) + 2 |-> IF i <= Len(q) + 1 THEN sum[i] ELSE n + Size[p]]
<1>3. Len(a) = Len(q) + 1 /\ a[Len(q) + 1] = p /\ \A i \in 1 .. Len(q) : a[i] = q[i]
  OBVIOUS
<1>4. next \in [1 .. Len(q) + 2 -> 0 .. n + Size[p]]
  BY <1>2
<1>5. next[1] = 0 /\ next[Len(q) + 2] = n + Size[p]
  BY <1>1, <1>2
<1>6. ASSUME NEW i \in 1 .. Len(q) + 1
      PROVE  next[i + 1] = next[i] + Size[a[i]]
  <2>1. CASE i <= Len(q)
    BY <1>1, <1>2, <1>3, <2>1
  <2>2. CASE i = Len(q) + 1
    BY <1>1, <1>2, <1>3, <2>2
  <2> QED
    BY <1>2, <2>1, <2>2
<1> HIDE DEF next, a
<1>7. TotalLength(a, n + Size[p])
  <2>1. Len(a) + 1 = Len(q) + 2
    BY <1>2, <1>3
  <2> QED
    BY <1>3, <1>4, <1>5, <1>6, <2>1 DEF TotalLength
<1> QED
  BY <1>7 DEF a

\* The payload at the head takes its size with it.
LEMMA ReleasedTotal ==
    ASSUME NEW q \in Seq(Payloads), NEW n \in Int, NEW p \in Payloads,
           TotalLength(<<p>> \o q, n)
    PROVE  TotalLength(q, n - Size[p])
<1> DEFINE a == <<p>> \o q
           m == Len(q) + 1
<1>1. Len(q) \in Nat /\ Len(a) = m /\ a[1] = p /\ \A i \in 1 .. Len(q) : a[i + 1] = q[i]
  OBVIOUS
<1>2. a \in Seq(Payloads) /\ m \in Nat
  OBVIOUS
<1> HIDE DEF a
<1>3. PICK sum \in [1 .. m + 1 -> 0 .. n] :
        /\ sum[1] = 0 /\ sum[m + 1] = n
        /\ \A i \in 1 .. m : sum[i + 1] = sum[i] + Size[a[i]]
  BY <1>1 DEF TotalLength, a
<1>4. \A i \in 1 .. m : Size[a[i]] \in Nat
  BY <1>1, <1>2, StreamAssumption
<1>5. n \in Nat /\ \A i \in 1 .. m + 1 : sum[i] \in 0 .. n
  BY <1>1, <1>3
<1>6. \A i \in 1 .. m + 1 : i > 1 => sum[i - 1] <= sum[i]
  <2> SUFFICES ASSUME NEW i \in 1 .. m + 1, i > 1 PROVE sum[i - 1] <= sum[i]
    OBVIOUS
  <2>1. i - 1 \in 1 .. m /\ i - 1 \in 1 .. m + 1 /\ (i - 1) + 1 = i
    BY <1>2
  <2>2. sum[i] = sum[i - 1] + Size[a[i - 1]]
    BY <1>3, <2>1
  <2>3. sum[i - 1] \in Int /\ Size[a[i - 1]] \in Nat
    BY <1>4, <1>5, <2>1
  <2> QED
    BY <2>2, <2>3
<1>7. \A i \in 1 .. m + 1 : i > 1 => sum[2] <= sum[i]
  <2>1. sum \in [1 .. m + 1 -> Int] /\ m + 1 \in Nat
    BY <1>2, <1>3, <1>5
  <2> HIDE DEF m
  <2> QED
    BY <1>6, <2>1, SumsGrow
<1>8. sum[2] = Size[p] /\ Size[p] \in Nat /\ Size[p] <= n
  BY <1>1, <1>3, <1>4, <1>5
<1> DEFINE rest == [i \in 1 .. m |-> sum[i + 1] - Size[p]]
<1>9. rest \in [1 .. m -> 0 .. n - Size[p]]
  BY <1>1, <1>5, <1>7, <1>8
<1>10. rest[1] = 0 /\ rest[m] = n - Size[p]
  BY <1>1, <1>3, <1>8
<1>11. \A i \in 1 .. Len(q) : rest[i + 1] = rest[i] + Size[q[i]]
  <2> SUFFICES ASSUME NEW i \in 1 .. Len(q) PROVE rest[i + 1] = rest[i] + Size[q[i]]
    OBVIOUS
  <2>1. sum[i + 2] = sum[i + 1] + Size[q[i]]
    BY <1>1, <1>3
  <2>2. sum[i + 2] \in Int /\ sum[i + 1] \in Int /\ Size[q[i]] \in Nat
    <3>1. i + 2 \in 1 .. m + 1 /\ i + 1 \in 1 .. m + 1 /\ i + 1 \in 1 .. m /\ a[i + 1] = q[i]
      BY <1>1
    <3> QED
      BY <1>4, <1>5, <3>1
  <2>3. rest[i + 1] = sum[i + 2] - Size[p] /\ rest[i] = sum[i + 1] - Size[p]
    BY <1>1
  <2> QED
    BY <1>8, <2>1, <2>2, <2>3
<1> HIDE DEF rest
<1> QED
  BY <1>9, <1>10, <1>11 DEF TotalLength

----------------------------------------------------------------------------
(* The parts of the invariant that a step leaves alone.                    *)

\* A step that neither admits a call nor ends one keeps the count.
LEMMA CountKept ==
    ASSUME Counted, UNCHANGED used,
           \A q \in Streams : pc'[q] \in {"idle", "done"} <=> pc[q] \in {"idle", "done"}
    PROVE  Counted'
<1>1. Active' = Active
  BY DEF Active
<1> QED
  BY <1>1 DEF Counted

\* A step that takes nothing out of a queue and puts nothing in keeps its bounds.
LEMMA BufferSame ==
    ASSUME BufferBounded, UNCHANGED <<messages, bytes, hand>>
    PROVE  BufferBounded'
<1>1. \A q \in Streams : Outstanding(q)' = Outstanding(q)
  BY DEF Outstanding
<1> SUFFICES ASSUME NEW q \in Streams
             PROVE  /\ Len(messages'[q]) <= BufferMessages
                    /\ TotalLength(Outstanding(q)', bytes'[q])
                    /\ bytes'[q] <= BufferBytes
  BY DEF BufferBounded, TotalLength
<1> QED
  BY <1>1 DEF BufferBounded

\* A step that leaves the queues alone keeps what is said of them.
LEMMA QueueKept ==
    ASSUME HandHeld, LossKept, BufferBounded, UNCHANGED queue,
           \A q \in Streams : pc'[q] = "holding" <=> pc[q] = "holding",
           \A q \in Streams : pc[q] \in Returning \cup {"done"} => pc'[q] \in Returning \cup {"done"}
    PROVE  HandHeld' /\ LossKept' /\ BufferBounded'
<1>1. HandHeld' /\ LossKept'
  BY DEF HandHeld, LossKept, queue
<1>2. BufferBounded'
  BY BufferSame DEF queue
<1> QED
  BY <1>1, <1>2

----------------------------------------------------------------------------
(* The steps that only take a call elsewhere, with or without an answer.   *)

Moves(s) ==
    \/ Unavailable(s) \/ GateOpens(s) \/ AcquireFails(s) \/ SetupRejected(s)
    \/ Flushed(s) \/ FlushBroken(s) \/ FlushCancelled(s) \/ CauseFound(s)
    \/ Unflushable(s) \/ Connected(s)
    \/ SelectGone(s) \/ SelectStopped(s) \/ SelectDuration(s) \/ CommentBroken(s)

\* The places such a step connects, and what it may answer.
LEMMA MovesShape ==
    ASSUME TypeOK, NEW s \in Streams, Moves(s)
    PROVE  /\ \E place \in {"acquire", "prepare", "flushed", "streaming", "unsubscribe"} :
                /\ pc' = [pc EXCEPT ![s] = place]
                /\ place \in {"acquire", "prepare"} => pc[s] = "gate"
                /\ place \in {"flushed", "streaming"} => pc[s] \in {"flush", "flushed"}
           /\ pc[s] \in {"gate", "acquire", "prepare", "flush", "flushed", "streaming"}
           /\ \E answer \in Statuses \cup Endings :
                /\ answer = "403" => cause[s] = "denied"
                /\ result' \in {result, [result EXCEPT ![s] = answer]}
           /\ UNCHANGED <<held, setup, clock, queue>>
<1> USE SetupErrorAnswer
<1>1. CASE Unavailable(s)
  BY <1>1 DEF Unavailable, Return, Statuses
<1>2. CASE GateOpens(s)
  BY <1>2 DEF GateOpens, Goto, Statuses
<1>3. CASE AcquireFails(s)
  <2>1. PICK err \in {"authorization", "unavailable", "deadline"} \cup ({cause[s]} \ {None}) :
            Return(s, writeStreamSetupError(err))
    BY <1>3 DEF AcquireFails
  <2> QED
    BY <1>3, <2>1 DEF AcquireFails, Return
<1>4. CASE SetupRejected(s)
  BY <1>4 DEF SetupRejected, Return, Statuses
<1>5. CASE Flushed(s)
  BY <1>5 DEF Flushed, Goto, Statuses
<1>6. CASE FlushBroken(s)
  BY <1>6 DEF FlushBroken, Return
<1>7. CASE FlushCancelled(s) \/ CauseFound(s)
  BY <1>7 DEF FlushCancelled, CauseFound, Return
<1>8. CASE Unflushable(s) \/ Connected(s)
  BY <1>8 DEF Unflushable, Connected, Return, Statuses
<1>9. CASE SelectGone(s) \/ SelectStopped(s) \/ SelectDuration(s) \/ CommentBroken(s)
  BY <1>9 DEF SelectGone, SelectStopped, SelectDuration, CommentBroken, Return, Endings
<1> QED
  BY <1>1, <1>2, <1>3, <1>4, <1>5, <1>6, <1>7, <1>8, <1>9 DEF Moves

LEMMA MovesKeep ==
    ASSUME Invariant, NEW s \in Streams, Moves(s)
    PROVE  Invariant'
<1> USE StreamAssumption DEF Invariant
<1>1. PICK place \in {"acquire", "prepare", "flushed", "streaming", "unsubscribe"} :
        /\ pc' = [pc EXCEPT ![s] = place]
        /\ place \in {"acquire", "prepare"} => pc[s] = "gate"
        /\ place \in {"flushed", "streaming"} => pc[s] \in {"flush", "flushed"}
  BY MovesShape
<1>2. PICK answer \in Statuses \cup Endings :
        /\ answer = "403" => cause[s] = "denied"
        /\ result' \in {result, [result EXCEPT ![s] = answer]}
  BY MovesShape
<1>3. /\ pc[s] \in {"gate", "acquire", "prepare", "flush", "flushed", "streaming"}
      /\ UNCHANGED <<held, setup, clock, queue>>
  BY MovesShape
<1>4. \A q \in Streams : pc'[q] = IF q = s THEN place ELSE pc[q]
  BY <1>1 DEF TypeOK
<1>5. TypeOK'
  <2>1. pc' \in [Streams -> Places]
    BY <1>1 DEF TypeOK, Places, Established, Returning
  <2>2. result' \in [Streams -> {None} \cup Statuses \cup Endings]
    BY <1>2 DEF TypeOK
  <2> QED
    BY <1>3, <2>1, <2>2 DEF TypeOK, held, setup, clock, queue
<1>6. Counted'
  BY <1>3, <1>4, CountKept DEF held
<1>7. Unwound'
  BY <1>1, <1>3, <1>4 DEF Unwound, held
<1>8. DenialsOwn' /\ ForbiddenIsOwn'
  BY <1>2, <1>3 DEF DenialsOwn, ForbiddenIsOwn, setup, TypeOK
<1>9. HandHeld' /\ LossKept' /\ BufferBounded'
  BY <1>3, <1>4, QueueKept DEF Returning
<1> QED
  BY <1>5, <1>6, <1>7, <1>8, <1>9

----------------------------------------------------------------------------
(* The quota: admission, and the deferred calls.                           *)

\* A call that is admitted takes the slot that was found free.
LEMMA AdmitKeeps ==
    ASSUME Invariant, NEW s \in Streams, Admit(s)
    PROVE  Invariant'
<1> USE StreamAssumption DEF Invariant, Admit, Goto
<1>1. \A q \in Streams : pc'[q] = IF q = s THEN "gate" ELSE pc[q]
  BY DEF TypeOK
<1>2. used + 1 \in 0 .. MaxConnections
  <2>1. used \in 0 .. MaxConnections /\ used < MaxConnections /\ MaxConnections \in Nat
    BY DEF TypeOK
  <2> HIDE DEF Invariant, Admit, Goto
  <2> QED
    BY <2>1
<1>3. Counted'
  <2>1. Active' = Active \cup {s} /\ s \notin Active
    BY <1>1 DEF Active
  <2>2. IsFiniteSet(Active') /\ Cardinality(Active') = Cardinality(Active) + 1
    BY <2>1, FS_AddElement DEF Counted
  <2> QED
    BY <1>2, <2>2 DEF Counted
<1>4. TypeOK'
  <2>1. pc' \in [Streams -> Places]
    BY DEF TypeOK, Places
  <2> QED
    BY <1>2, <2>1 DEF TypeOK, setup, clock, queue
<1>5. Unwound'
  BY <1>1 DEF Unwound
<1>6. DenialsOwn' /\ ForbiddenIsOwn'
  BY DEF DenialsOwn, ForbiddenIsOwn, setup
<1>7. HandHeld' /\ LossKept' /\ BufferBounded'
  BY <1>1, QueueKept DEF Returning
<1> QED
  BY <1>3, <1>4, <1>5, <1>6, <1>7

LEMMA RefuseKeeps ==
    ASSUME Invariant, NEW s \in Streams, Refuse(s)
    PROVE  Invariant'
<1> USE StreamAssumption DEF Invariant, Refuse
<1>1. \A q \in Streams : pc'[q] = IF q = s THEN "done" ELSE pc[q]
  BY DEF TypeOK
<1>2. TypeOK'
  <2>1. pc' \in [Streams -> Places] /\ result' \in [Streams -> {None} \cup Statuses \cup Endings]
    BY DEF TypeOK, Places, Statuses
  <2> QED
    BY <2>1 DEF TypeOK, held, setup, clock, queue
<1>3. Counted'
  BY <1>1, CountKept DEF held
<1>4. Unwound'
  BY <1>1 DEF Unwound, held
<1>5. DenialsOwn' /\ ForbiddenIsOwn'
  BY DEF DenialsOwn, ForbiddenIsOwn, setup, TypeOK
<1>6. HandHeld' /\ LossKept' /\ BufferBounded'
  BY <1>1, QueueKept DEF Returning
<1> QED
  BY <1>2, <1>3, <1>4, <1>5, <1>6

\* The lease, the waiter and the subscription are taken within the slot.
LEMMA TakesKeep ==
    ASSUME Invariant, NEW s \in Streams, Acquired(s) \/ Subscribe(s) \/ SubscribeFails(s)
    PROVE  Invariant'
<1> USE StreamAssumption DEF Invariant
<1>1. PICK place \in {"prepare", "flush", "unsubscribe"} :
        /\ pc' = [pc EXCEPT ![s] = place]
        /\ pc[s] \in {"acquire", "prepare"} /\ (place # "prepare" => pc[s] = "prepare")
        /\ place = "prepare" => UNCHANGED <<sub, waiter>>
  BY DEF Acquired, Subscribe, SubscribeFails, Goto, Return
<1>2. \A q \in Streams : pc'[q] = IF q = s THEN place ELSE pc[q]
  BY <1>1 DEF TypeOK
<1>3. /\ lease' \in [Streams -> BOOLEAN] /\ waiter' \in [Streams -> BOOLEAN]
      /\ sub' \in [Streams -> BOOLEAN] /\ denied' \in [Streams -> BOOLEAN]
  <2>1. CASE Acquired(s)
    BY <2>1 DEF Acquired, setup, TypeOK
  <2>2. CASE Subscribe(s)
    <3>1. denied' = [denied EXCEPT ![s] = Connection[s] \in Forbidden]
      BY <2>2 DEF Subscribe
    <3>2. denied' \in [Streams -> BOOLEAN]
      <4>1. denied \in [Streams -> BOOLEAN]
        BY DEF TypeOK
      <4> HIDE DEF Invariant
      <4>2. CASE Connection[s] \in Forbidden
        <5>1. denied' = [denied EXCEPT ![s] = TRUE]
          BY <3>1, <4>2
        <5> QED
          BY <4>1, <5>1
      <4>3. CASE Connection[s] \notin Forbidden
        <5>1. denied' = [denied EXCEPT ![s] = FALSE]
          <6>1. (Connection[s] \in Forbidden) = FALSE
            BY <4>3
          <6> QED
            BY <3>1, <6>1, Zenon
        <5> QED
          BY <4>1, <5>1
      <4> QED
        BY <4>2, <4>3
    <3> QED
      BY <2>2, <3>2 DEF Subscribe, TypeOK
  <2>3. CASE SubscribeFails(s)
    BY <2>3 DEF SubscribeFails, setup, TypeOK
  <2> QED
    BY <2>1, <2>2, <2>3
<1>4. /\ \A q \in Streams : q # s =>
            lease'[q] = lease[q] /\ waiter'[q] = waiter[q] /\ sub'[q] = sub[q] /\ denied'[q] = denied[q]
      /\ denied'[s] => denied[s] \/ Connection[s] \in Forbidden
      /\ UNCHANGED <<used, cause, gone, clock, queue>>
  BY DEF Acquired, Subscribe, SubscribeFails, setup, TypeOK
<1>5. /\ result' \in [Streams -> {None} \cup Statuses \cup Endings]
      /\ \A q \in Streams : result'[q] = "403" => result[q] = "403"
  <2>1. CASE Acquired(s) \/ Subscribe(s)
    BY <2>1 DEF Acquired, Subscribe, Goto, TypeOK
  <2>2. CASE SubscribeFails(s)
    <3>1. writeStreamSetupError("unavailable") \in Statuses \ {"403"}
      BY SetupErrorAnswer
    <3> QED
      BY <2>2, <3>1 DEF SubscribeFails, Return, TypeOK
  <2> QED
    BY <2>1, <2>2
<1>6. TypeOK'
  <2>1. pc' \in [Streams -> Places]
    BY <1>1 DEF TypeOK, Places, Returning
  <2> QED
    BY <1>3, <1>4, <1>5, <2>1 DEF TypeOK, clock, queue
<1>7. Counted'
  BY <1>1, <1>2, <1>4, CountKept
<1>8. Unwound'
  BY <1>1, <1>2, <1>4 DEF Unwound
<1>9. DenialsOwn' /\ ForbiddenIsOwn'
  BY <1>4, <1>5 DEF DenialsOwn, ForbiddenIsOwn
<1>10. HandHeld' /\ LossKept' /\ BufferBounded'
  BY <1>1, <1>2, <1>4, QueueKept DEF Returning
<1> QED
  BY <1>6, <1>7, <1>8, <1>9, <1>10

\* The first two deferred calls.
LEMMA UnwindKeeps ==
    ASSUME Invariant, NEW s \in Streams, unsubscribe(s) \/ Release(s)
    PROVE  Invariant'
<1> USE StreamAssumption DEF Invariant
<1>1. PICK place \in {"release", "free"} :
        /\ pc' = [pc EXCEPT ![s] = place]
        /\ pc[s] \in {"unsubscribe", "release"}
        /\ place = "release" => ~sub'[s] /\ ~waiter'[s] /\ UNCHANGED lease /\ pc[s] = "unsubscribe"
        /\ place = "free" => ~lease'[s] /\ UNCHANGED <<sub, waiter>> /\ pc[s] = "release"
  BY DEF unsubscribe, Release, Goto, TypeOK
<1>2. \A q \in Streams : pc'[q] = IF q = s THEN place ELSE pc[q]
  BY <1>1 DEF TypeOK
<1>3. /\ lease' \in [Streams -> BOOLEAN] /\ waiter' \in [Streams -> BOOLEAN]
      /\ sub' \in [Streams -> BOOLEAN]
      /\ \A q \in Streams : q # s =>
            lease'[q] = lease[q] /\ waiter'[q] = waiter[q] /\ sub'[q] = sub[q]
      /\ UNCHANGED <<used, result, setup, clock, queue>>
  BY DEF unsubscribe, Release, Goto, TypeOK
<1>4. TypeOK'
  <2>1. pc' \in [Streams -> Places]
    BY <1>1 DEF TypeOK, Places, Returning
  <2> QED
    BY <1>3, <2>1 DEF TypeOK, setup, clock, queue
<1>5. Counted'
  BY <1>1, <1>2, <1>3, CountKept
<1>6. Unwound'
  BY <1>1, <1>2, <1>3 DEF Unwound
<1>7. DenialsOwn' /\ ForbiddenIsOwn'
  BY <1>3 DEF DenialsOwn, ForbiddenIsOwn, setup
<1>8. HandHeld' /\ LossKept' /\ BufferBounded'
  BY <1>1, <1>2, <1>3, QueueKept DEF Returning
<1> QED
  BY <1>4, <1>5, <1>6, <1>7, <1>8

\* The last deferred call gives the slot back.
LEMMA FreeSlotKeeps ==
    ASSUME Invariant, NEW s \in Streams, FreeSlot(s)
    PROVE  Invariant'
<1> USE StreamAssumption DEF Invariant, FreeSlot, Goto
<1>1. \A q \in Streams : pc'[q] = IF q = s THEN "done" ELSE pc[q]
  BY DEF TypeOK
<1>2. Counted' /\ used' \in 0 .. MaxConnections
  <2>1. Active' = Active \ {s} /\ s \in Active
    BY <1>1 DEF Active
  <2>2. IsFiniteSet(Active') /\ Cardinality(Active') = Cardinality(Active) - 1
    BY <2>1, FS_RemoveElement DEF Counted
  <2>3. Cardinality(Active') \in Nat
    BY <2>2, FS_CardinalityType
  <2>4. used' = used - 1 /\ used = Cardinality(Active) /\ used \in 0 .. MaxConnections
    BY DEF Counted, TypeOK
  <2>5. used' \in 0 .. MaxConnections /\ used' = Cardinality(Active')
    BY <2>2, <2>3, <2>4
  <2> QED
    BY <2>2, <2>5 DEF Counted
<1>3. TypeOK'
  <2>1. pc' \in [Streams -> Places] /\ cause' \in [Streams -> Causes \cup {None}]
    BY DEF TypeOK, Places
  <2> QED
    BY <1>2, <2>1 DEF TypeOK, queue
<1>4. Unwound'
  BY <1>1 DEF Unwound
<1>5. DenialsOwn' /\ ForbiddenIsOwn'
  <2>1. \A q \in Streams : cause'[q] = "denied" => cause[q] = "denied"
    BY DEF TypeOK, Causes
  <2> QED
    BY <2>1 DEF DenialsOwn, ForbiddenIsOwn
<1>6. HandHeld' /\ LossKept' /\ BufferBounded'
  BY <1>1, QueueKept DEF Returning
<1> QED
  BY <1>2, <1>3, <1>4, <1>5, <1>6

----------------------------------------------------------------------------
(* The buffer.                                                             *)

\* What a step of the queues leaves alone: the slots, and who was refused.
LEMMA SlotsKept ==
    ASSUME Counted, Unwound, DenialsOwn, ForbiddenIsOwn,
           UNCHANGED <<held, setup>>,
           \A q \in Streams : pc'[q] # pc[q] =>
                pc[q] \in Established /\ pc'[q] \in Established \cup {"unsubscribe"},
           \A q \in Streams : result'[q] = "403" => result[q] = "403"
    PROVE  Counted' /\ Unwound' /\ DenialsOwn' /\ ForbiddenIsOwn'
<1>1. Counted'
  BY CountKept DEF held, Established
<1>2. Unwound'
  BY DEF Unwound, held, Established
<1>3. DenialsOwn' /\ ForbiddenIsOwn'
  BY DEF DenialsOwn, ForbiddenIsOwn, setup
<1> QED
  BY <1>1, <1>2, <1>3

\* A message is queued, or the first reason for its loss is kept.
LEMMA EnqueueKeeps ==
    ASSUME Invariant, NEW s \in Streams, NEW p \in Payloads, enqueue(s, p)
    PROVE  Invariant'
<1> USE StreamAssumption DEF Invariant
<1>1. UNCHANGED <<control, held, setup, clock, hand>>
  BY DEF enqueue
<1>2. Counted' /\ Unwound' /\ DenialsOwn' /\ ForbiddenIsOwn'
  BY <1>1, SlotsKept DEF control
<1>3. HandHeld'
  BY <1>1 DEF HandHeld, control
<1>4. CASE Size[p] <= MaxReplyBytes /\ Fits(s, p)
  <2>1. /\ messages' = [messages EXCEPT ![s] = Append(messages[s], p)]
        /\ bytes' = [bytes EXCEPT ![s] = bytes[s] + Size[p]]
        /\ UNCHANGED <<terminal, lost>>
    <3>1. ~(Size[p] > MaxReplyBytes)
      BY <1>4
    <3> HIDE DEF Invariant
    <3> QED
      BY <1>4, <3>1 DEF enqueue
  <2>2. /\ messages[s] \in Seq(Payloads) /\ bytes[s] \in Int /\ Size[p] \in Nat
        /\ BufferBytes \in Nat /\ BufferMessages \in Nat
    BY DEF TypeOK
  <2>3. Append(messages[s], p) \in Seq(Payloads) /\ Len(Append(messages[s], p)) = Len(messages[s]) + 1
    BY <2>2
  <2>4. TypeOK'
    <3>1. messages' \in [Streams -> Seq(Payloads)]
      BY <2>1, <2>3 DEF TypeOK
    <3>2. bytes' \in [Streams -> Int]
      <4>1. bytes \in [Streams -> Int]
        BY DEF TypeOK
      <4> HIDE DEF Invariant
      <4>2. bytes[s] + Size[p] \in Int
        BY <2>2
      <4> QED
        BY <2>1, <4>1, <4>2
    <3> QED
      BY <1>1, <2>1, <3>1, <3>2 DEF TypeOK, control, held, setup, clock
  <2>5. LossKept'
    BY <1>1, <2>1 DEF LossKept, control
  <2>6. /\ messages'[s] = Append(messages[s], p) /\ bytes'[s] = bytes[s] + Size[p]
        /\ \A q \in Streams : q # s => messages'[q] = messages[q] /\ bytes'[q] = bytes[q]
    BY <2>1 DEF TypeOK
  <2>7. Len(messages'[s]) <= BufferMessages
    <3>1. Len(messages[s]) < BufferMessages /\ Len(messages[s]) \in Nat
      BY <1>4, <2>2 DEF Fits
    <3> QED
      BY <2>2, <2>3, <2>6, <3>1
  <2>8. bytes'[s] <= BufferBytes
    BY <1>4, <2>2, <2>6 DEF Fits
  <2>9. Outstanding(s) \in Seq(Payloads) /\ Outstanding(s)' = Append(Outstanding(s), p)
    <3>1. CASE hand[s] = None
      BY <1>1, <2>2, <2>6, <3>1 DEF Outstanding
    <3>2. CASE hand[s] # None
      <4>1. hand[s] \in Payloads
        BY <3>2 DEF TypeOK
      <4>2. <<hand[s]>> \in Seq(Payloads)
        BY <4>1
      <4>3. <<hand[s]>> \o messages[s] \in Seq(Payloads)
        BY <2>2, <4>2, ConcatProperties
      <4>4. <<hand[s]>> \o Append(messages[s], p) = Append(<<hand[s]>> \o messages[s], p)
        BY <2>2, <4>1, <4>2, <4>3
      <4> QED
        BY <1>1, <2>6, <3>2, <4>3, <4>4 DEF Outstanding
    <3> QED
      BY <3>1, <3>2
  <2>10. TotalLength(Outstanding(s)', bytes'[s])
    <3>1. TotalLength(Outstanding(s), bytes[s])
      BY DEF BufferBounded
    <3> QED
      BY <2>2, <2>6, <2>9, <3>1, AppendedTotal
  <2>11. BufferBounded'
    <3> SUFFICES ASSUME NEW q \in Streams
                 PROVE  /\ Len(messages'[q]) <= BufferMessages
                        /\ TotalLength(Outstanding(q)', bytes'[q])
                        /\ bytes'[q] <= BufferBytes
      BY DEF BufferBounded, TotalLength
    <3>1. CASE q = s
      BY <2>7, <2>8, <2>10, <3>1
    <3>2. CASE q # s
      <4>1. Outstanding(q)' = Outstanding(q) /\ messages'[q] = messages[q] /\ bytes'[q] = bytes[q]
        BY <1>1, <2>6, <3>2 DEF Outstanding
      <4> QED
        BY <4>1 DEF BufferBounded
    <3> QED
      BY <3>1, <3>2
  <2> QED
    BY <1>2, <1>3, <2>4, <2>5, <2>11
<1>5. CASE ~(Size[p] <= MaxReplyBytes /\ Fits(s, p))
  <2>1. PICK reason \in {"invalid event payload", "slow consumer"} : fail(s, reason)
    BY <1>5 DEF enqueue
  <2>2. /\ lost' = [lost EXCEPT ![s] = TRUE]
        /\ UNCHANGED <<messages, bytes, hand>>
    BY <1>1, <1>5 DEF enqueue
  <2>3. terminal' \in [Streams -> {None, "slow consumer", "invalid event payload"}]
    BY <2>1 DEF fail, TypeOK
  <2>4. TypeOK'
    BY <1>1, <2>2, <2>3 DEF TypeOK, control, held, setup, clock
  <2>5. /\ terminal'[s] # None
        /\ \A q \in Streams : q # s => terminal'[q] = terminal[q] /\ lost'[q] = lost[q]
    BY <2>1, <2>2 DEF fail, TypeOK, Endings
  <2>6. LossKept'
    BY <1>1, <2>5 DEF LossKept, control
  <2>7. BufferBounded'
    BY <2>2, BufferSame
  <2> QED
    BY <1>2, <1>3, <2>4, <2>6, <2>7
<1> QED
  BY <1>4, <1>5

\* The reason is taken by the step that ends the stream.
LEMMA SelectTerminalKeeps ==
    ASSUME Invariant, NEW s \in Streams, SelectTerminal(s)
    PROVE  Invariant'
<1> USE StreamAssumption DEF Invariant
<1>1. /\ pc[s] = "streaming" /\ pc' = [pc EXCEPT ![s] = "unsubscribe"]
      /\ result' = [result EXCEPT ![s] = terminal[s]] /\ terminal[s] # None
      /\ terminal' = [terminal EXCEPT ![s] = None]
      /\ UNCHANGED <<held, setup, clock, messages, bytes, hand, lost>>
  BY DEF SelectTerminal, Return
<1>2. \A q \in Streams : pc'[q] = IF q = s THEN "unsubscribe" ELSE pc[q]
  BY <1>1 DEF TypeOK
<1>3. terminal[s] \in Endings \ {"403"}
  BY <1>1 DEF TypeOK, Endings
<1>4. TypeOK'
  <2>1. pc' \in [Streams -> Places] /\ result' \in [Streams -> {None} \cup Statuses \cup Endings]
    BY <1>1, <1>3 DEF TypeOK, Places, Returning
  <2>2. terminal' \in [Streams -> {None, "slow consumer", "invalid event payload"}]
    BY <1>1 DEF TypeOK
  <2> QED
    BY <1>1, <2>1, <2>2 DEF TypeOK, held, setup, clock
<1>5. Counted' /\ Unwound' /\ DenialsOwn' /\ ForbiddenIsOwn'
  <2>1. \A q \in Streams : result'[q] = "403" => result[q] = "403"
    BY <1>1, <1>3 DEF TypeOK
  <2> QED
    BY <1>1, <1>2, <2>1, SlotsKept DEF Established
<1>6. HandHeld' /\ LossKept'
  BY <1>1, <1>2 DEF HandHeld, LossKept, Returning, TypeOK
<1>7. BufferBounded'
  BY <1>1, BufferSame
<1> QED
  BY <1>4, <1>5, <1>6, <1>7

\* The message that is received stays outstanding.
LEMMA SelectMessageKeeps ==
    ASSUME Invariant, NEW s \in Streams, SelectMessage(s)
    PROVE  Invariant'
<1> USE StreamAssumption DEF Invariant
<1>1. /\ pc[s] = "streaming" /\ pc' = [pc EXCEPT ![s] = "holding"]
      /\ messages[s] # <<>>
      /\ hand' = [hand EXCEPT ![s] = Head(messages[s])]
      /\ messages' = [messages EXCEPT ![s] = Tail(messages[s])]
      /\ UNCHANGED <<result, held, setup, clock, bytes, terminal, lost>>
  BY DEF SelectMessage, Goto
<1>2. \A q \in Streams : pc'[q] = IF q = s THEN "holding" ELSE pc[q]
  BY <1>1 DEF TypeOK
<1>3. messages[s] \in Seq(Payloads) /\ hand[s] = None
  BY <1>1 DEF TypeOK, HandHeld
<1>4. /\ Head(messages[s]) \in Payloads /\ Tail(messages[s]) \in Seq(Payloads)
      /\ messages[s] = <<Head(messages[s])>> \o Tail(messages[s])
      /\ Len(Tail(messages[s])) = Len(messages[s]) - 1
  BY <1>1, <1>3, HeadTailProperties
<1>5. /\ hand'[s] = Head(messages[s]) /\ messages'[s] = Tail(messages[s]) /\ hand'[s] # None
      /\ \A q \in Streams : q # s => hand'[q] = hand[q] /\ messages'[q] = messages[q]
  BY <1>1, <1>4 DEF TypeOK
<1>6. TypeOK'
  <2>1. pc' \in [Streams -> Places]
    BY <1>1 DEF TypeOK, Places, Established
  <2>2. hand' \in [Streams -> Payloads \cup {None}] /\ messages' \in [Streams -> Seq(Payloads)]
    BY <1>1, <1>4 DEF TypeOK
  <2> QED
    BY <1>1, <2>1, <2>2 DEF TypeOK, held, setup, clock
<1>7. Counted' /\ Unwound' /\ DenialsOwn' /\ ForbiddenIsOwn'
  BY <1>1, <1>2, SlotsKept DEF Established
<1>8. HandHeld' /\ LossKept'
  BY <1>1, <1>2, <1>5 DEF HandHeld, LossKept, Returning
<1>9. BufferBounded'
  <2> SUFFICES ASSUME NEW q \in Streams
               PROVE  /\ Len(messages'[q]) <= BufferMessages
                      /\ TotalLength(Outstanding(q)', bytes'[q])
                      /\ bytes'[q] <= BufferBytes
    BY DEF BufferBounded, TotalLength
  <2>1. Outstanding(q)' = Outstanding(q)
    BY <1>3, <1>4, <1>5 DEF Outstanding
  <2>2. /\ messages[q] \in Seq(Payloads) /\ Len(messages[q]) <= BufferMessages
        /\ BufferMessages \in Nat
    BY DEF TypeOK, BufferBounded
  <2>3. Len(messages'[q]) <= BufferMessages
    <3>1. CASE q = s
      <4>1. messages'[s] = Tail(messages[s])
        BY <1>5
      <4>2. Len(messages[s]) \in Nat
        BY <1>3, LenProperties
      <4> HIDE StreamAssumption DEF Invariant
      <4> QED
        BY <1>4, <2>2, <3>1, <4>1, <4>2, Subtracted
    <3>2. CASE q # s
      BY <1>5, <2>2, <3>2
    <3> QED
      BY <3>1, <3>2
  <2> QED
    BY <1>1, <2>1, <2>3 DEF BufferBounded
<1> QED
  BY <1>6, <1>7, <1>8, <1>9

\* Releasing the message takes its length off the count.
LEMMA DeliverKeeps ==
    ASSUME Invariant, NEW s \in Streams, Deliver(s)
    PROVE  Invariant'
<1> USE StreamAssumption DEF Invariant
<1>1. /\ pc[s] = "holding"
      /\ bytes' = [bytes EXCEPT ![s] = bytes[s] - Size[hand[s]]]
      /\ hand' = [hand EXCEPT ![s] = None]
      /\ UNCHANGED <<held, setup, clock, messages, terminal, lost>>
  BY DEF Deliver
<1>2. PICK place \in {"streaming", "unsubscribe"} : pc' = [pc EXCEPT ![s] = place]
  BY DEF Deliver, Goto, Return
<1>3. PICK end \in {"broken", "invalid event payload"} :
        result' \in {result, [result EXCEPT ![s] = end]}
  BY DEF Deliver, Goto, Return
<1>4. \A q \in Streams : pc'[q] = IF q = s THEN place ELSE pc[q]
  BY <1>2 DEF TypeOK
<1>5. /\ hand[s] \in Payloads /\ Size[hand[s]] \in Nat /\ bytes[s] \in Int
      /\ messages[s] \in Seq(Payloads)
  BY <1>1 DEF TypeOK, HandHeld
<1>6. /\ hand'[s] = None /\ bytes'[s] = bytes[s] - Size[hand[s]]
      /\ \A q \in Streams : q # s => hand'[q] = hand[q] /\ bytes'[q] = bytes[q]
  BY <1>1 DEF TypeOK
<1>7. TypeOK'
  <2>1. pc' \in [Streams -> Places]
    BY <1>2 DEF TypeOK, Places, Established, Returning
  <2>2. result' \in [Streams -> {None} \cup Statuses \cup Endings]
    BY <1>3 DEF TypeOK, Endings
  <2>3. hand' \in [Streams -> Payloads \cup {None}]
    BY <1>1 DEF TypeOK
  <2>4. bytes' \in [Streams -> Int]
    <3>1. bytes \in [Streams -> Int]
      BY DEF TypeOK
    <3> HIDE StreamAssumption DEF Invariant
    <3>2. bytes[s] - Size[hand[s]] \in Int
      BY <1>5, Subtracted
    <3> QED
      BY <1>1, <3>1, <3>2
  <2> QED
    BY <1>1, <2>1, <2>2, <2>3, <2>4 DEF TypeOK, held, setup, clock
<1>8. Counted' /\ Unwound' /\ DenialsOwn' /\ ForbiddenIsOwn'
  <2>1. \A q \in Streams : result'[q] = "403" => result[q] = "403"
    BY <1>3 DEF TypeOK
  <2> QED
    BY <1>1, <1>4, <2>1, SlotsKept DEF Established
<1>9. HandHeld' /\ LossKept'
  BY <1>1, <1>4, <1>6 DEF HandHeld, LossKept, Returning
<1>10. BufferBounded'
  <2> SUFFICES ASSUME NEW q \in Streams
               PROVE  /\ Len(messages'[q]) <= BufferMessages
                      /\ TotalLength(Outstanding(q)', bytes'[q])
                      /\ bytes'[q] <= BufferBytes
    BY DEF BufferBounded, TotalLength
  <2>1. CASE q # s
    <3>1. hand'[q] = hand[q] /\ messages'[q] = messages[q] /\ bytes'[q] = bytes[q]
      BY <1>1, <1>6, <2>1
    <3>2. Outstanding(q)' = Outstanding(q)
      BY <3>1 DEF Outstanding
    <3> QED
      BY <3>1, <3>2 DEF BufferBounded
  <2>2. CASE q = s
    <3>1. Outstanding(s) = <<hand[s]>> \o messages[s] /\ Outstanding(s)' = messages[s]
      BY <1>1, <1>5, <1>6 DEF Outstanding
    <3>2. TotalLength(<<hand[s]>> \o messages[s], bytes[s])
      BY <3>1 DEF BufferBounded
    <3>3. TotalLength(messages[s], bytes[s] - Size[hand[s]])
      BY <1>5, <3>2, ReleasedTotal
    <3>4. bytes[s] - Size[hand[s]] <= BufferBytes
      <4>1. bytes[s] <= BufferBytes /\ BufferBytes \in Nat
        BY DEF BufferBounded
      <4> HIDE StreamAssumption DEF Invariant
      <4> QED
        BY <1>5, <4>1, Subtracted
    <3>5. Len(messages[s]) <= BufferMessages
      BY DEF BufferBounded
    <3> QED
      BY <1>1, <1>6, <2>2, <3>1, <3>3, <3>4, <3>5
  <2> QED
    BY <2>1, <2>2
<1> QED
  BY <1>7, <1>8, <1>9, <1>10

----------------------------------------------------------------------------
(* The environment: contexts, clocks, callbacks and the handler's stop.     *)

\* What is left alone by a step that moves no call and touches no queue.
LEMMA StandingKept ==
    ASSUME Invariant, UNCHANGED <<control, held, queue>>
    PROVE  Counted' /\ Unwound' /\ ForbiddenIsOwn' /\ HandHeld' /\ LossKept' /\ BufferBounded'
<1> USE DEF Invariant, control, held
<1>1. Counted'
  BY CountKept
<1>2. Unwound' /\ ForbiddenIsOwn'
  BY DEF Unwound, ForbiddenIsOwn
<1>3. HandHeld' /\ LossKept' /\ BufferBounded'
  BY QueueKept
<1> QED
  BY <1>1, <1>2, <1>3

\* Cancelling gives the contexts it reaches the cause, unless they have one.
LEMMA CancelledCauses ==
    ASSUME TypeOK, NEW S, NEW why \in Causes, Cancelled(S, why)
    PROVE  /\ cause' \in [Streams -> Causes \cup {None}]
           /\ \A q \in Streams : cause'[q] = cause[q] \/ (q \in S /\ cause'[q] = why)
<1>1. \A q \in Streams : cause[q] \in Causes \cup {None}
  BY DEF TypeOK
<1> QED
  BY <1>1 DEF Cancelled

\* A refused request of the connection.
LEMMA RequestRefusedKeeps ==
    ASSUME Invariant, NEW c \in Unpublishable, RequestRefused(c)
    PROVE  Invariant'
<1> USE StreamAssumption DEF Invariant
<1> DEFINE S == {t \in Streams : waiter[t] /\ Connection[t] = c}
<1>1. UNCHANGED <<control, held, gone, denied, clock, queue>> /\ Cancelled(S, "denied")
  BY DEF RequestRefused
<1>2. Counted' /\ Unwound' /\ ForbiddenIsOwn' /\ HandHeld' /\ LossKept' /\ BufferBounded'
  BY <1>1, StandingKept
<1>3. /\ cause' \in [Streams -> Causes \cup {None}]
      /\ \A q \in Streams : cause'[q] = cause[q] \/ Connection[q] = c
  BY <1>1, CancelledCauses DEF Causes
<1>4. TypeOK'
  BY <1>1, <1>3 DEF TypeOK, control, held, clock, queue
<1>5. DenialsOwn'
  BY <1>1, <1>3 DEF DenialsOwn
<1> QED
  BY <1>2, <1>4, <1>5

\* A context that ends, a clock that runs out and a refusal that is reported.
LEMMA EnvironmentKeeps ==
    ASSUME Invariant, NEW s \in Streams,
           ClientGone(s) \/ SetupTimesOut(s) \/ DeadlinePasses(s) \/ handle(s)
    PROVE  Invariant'
<1> USE StreamAssumption DEF Invariant
<1>1. UNCHANGED <<control, held, queue>>
  BY DEF ClientGone, SetupTimesOut, DeadlinePasses, handle, setup
<1>2. Counted' /\ Unwound' /\ ForbiddenIsOwn' /\ HandHeld' /\ LossKept' /\ BufferBounded'
  BY <1>1, StandingKept
<1>3. /\ gone' \in [Streams -> BOOLEAN] /\ denied' \in [Streams -> BOOLEAN]
      /\ expired' \in [Streams -> BOOLEAN] /\ UNCHANGED stopped
  BY DEF ClientGone, SetupTimesOut, DeadlinePasses, handle, setup, clock, TypeOK
<1>4. cause' \in [Streams -> Causes \cup {None}]
  <2>1. CASE DeadlinePasses(s)
    BY <2>1 DEF DeadlinePasses, setup, TypeOK
  <2>2. CASE ClientGone(s) \/ SetupTimesOut(s) \/ handle(s)
    <3>1. PICK S \in SUBSET Streams, why \in Causes : Cancelled(S, why)
      BY <2>2 DEF ClientGone, SetupTimesOut, handle, Causes
    <3> QED
      BY <3>1, CancelledCauses
  <2> QED
    BY <2>1, <2>2
<1>5. TypeOK'
  BY <1>1, <1>3, <1>4 DEF TypeOK, control, held, queue
<1>6. DenialsOwn'
  <2>1. CASE ClientGone(s) \/ SetupTimesOut(s)
    <3>1. \A q \in Streams : cause'[q] = "denied" => cause[q] = "denied"
      <4>1. PICK S \in SUBSET Streams, why \in {"canceled", "deadline"} : Cancelled(S, why)
        BY <2>1 DEF ClientGone, SetupTimesOut
      <4>2. why \in Causes
        BY DEF Causes
      <4> QED
        BY <4>1, <4>2, CancelledCauses
    <3>2. UNCHANGED denied
      BY <2>1 DEF ClientGone, SetupTimesOut
    <3> QED
      BY <3>1, <3>2 DEF DenialsOwn
  <2>2. CASE DeadlinePasses(s)
    BY <2>2 DEF DeadlinePasses, setup, DenialsOwn
  <2>3. CASE handle(s)
    <3>1. Connection[s] \in Forbidden
      BY <2>3 DEF handle, DenialsOwn
    <3>2. ASSUME NEW q \in Streams, cause'[q] = "denied"
          PROVE  cause[q] = "denied" \/ Connection[q] = Connection[s]
      BY <2>3, <3>2 DEF handle, Cancelled
    <3>3. \A q \in Streams : denied'[q] => denied[q]
      BY <2>3 DEF handle, TypeOK
    <3> QED
      BY <3>1, <3>2, <3>3 DEF DenialsOwn
  <2> QED
    BY <2>1, <2>2, <2>3
<1> QED
  BY <1>2, <1>5, <1>6

LEMMA StopKeeps ==
    ASSUME Invariant, Stop \/ UNCHANGED vars
    PROVE  Invariant'
<1> USE DEF Invariant
<1>1. UNCHANGED <<control, held, setup, expired, queue>> /\ stopped' \in BOOLEAN
  BY DEF Stop, vars, clock, TypeOK
<1>2. TypeOK' /\ DenialsOwn'
  BY <1>1 DEF TypeOK, DenialsOwn, control, held, setup, queue
<1> QED
  BY <1>1, <1>2, StandingKept

----------------------------------------------------------------------------
(* The theorems.                                                           *)

LEMMA Initially ==
    ASSUME Init
    PROVE  Invariant
<1> USE StreamAssumption DEF Init
<1>1. TypeOK
  <2>1. pc \in [Streams -> Places] /\ used \in 0 .. MaxConnections
    BY DEF Places
  <2>2. messages \in [Streams -> Seq(Payloads)]
    BY EmptySeq
  <2>3. bytes \in [Streams -> Int]
    OBVIOUS
  <2>4. /\ result \in [Streams -> {None} \cup Statuses \cup Endings]
        /\ cause \in [Streams -> Causes \cup {None}]
        /\ terminal \in [Streams -> {None, "slow consumer", "invalid event payload"}]
        /\ hand \in [Streams -> Payloads \cup {None}]
    OBVIOUS
  <2>5. /\ lease \in [Streams -> BOOLEAN] /\ sub \in [Streams -> BOOLEAN]
        /\ waiter \in [Streams -> BOOLEAN] /\ gone \in [Streams -> BOOLEAN]
        /\ denied \in [Streams -> BOOLEAN] /\ expired \in [Streams -> BOOLEAN]
        /\ lost \in [Streams -> BOOLEAN] /\ stopped \in BOOLEAN
    OBVIOUS
  <2> HIDE DEF Init
  <2> QED
    BY <2>1, <2>2, <2>3, <2>4, <2>5 DEF TypeOK
<1>2. Counted
  <2>1. Active = {}
    BY DEF Active
  <2> QED
    BY <2>1, FS_EmptySet DEF Counted
<1>3. Unwound /\ DenialsOwn /\ ForbiddenIsOwn /\ HandHeld /\ LossKept
  BY DEF Unwound, DenialsOwn, ForbiddenIsOwn, HandHeld, LossKept, Causes, Statuses
<1>4. BufferBounded
  <2>1. \A s \in Streams : Outstanding(s) = <<>> /\ messages[s] = <<>> /\ bytes[s] = 0
    BY DEF Outstanding
  <2>2. Len(<<>>) <= BufferMessages /\ 0 <= BufferBytes
    OBVIOUS
  <2> QED
    BY <2>1, <2>2, EmptyTotal DEF BufferBounded
<1> QED
  BY <1>1, <1>2, <1>3, <1>4 DEF Invariant

\* Every step of a stream, of the delivery goroutine and of the environment
\* keeps the invariant.
THEOREM InvariantHolds == Spec => []Invariant
<1>1. Init => Invariant
  BY Initially
<1>2. Invariant /\ [Next]_vars => Invariant'
  BY AdmitKeeps, RefuseKeeps, MovesKeep, TakesKeep, UnwindKeeps, FreeSlotKeeps, EnqueueKeeps,
     SelectTerminalKeeps, SelectMessageKeeps, DeliverKeeps, EnvironmentKeeps, RequestRefusedKeeps, StopKeeps
     DEF Next, Proceed, Select, Moves
<1> QED
  BY <1>1, <1>2, PTL DEF Spec

\* Every variable keeps to the values the program can store in it.
THEOREM TypeCorrect == Spec => []TypeOK
<1>1. Invariant => TypeOK
  BY DEF Invariant
<1> QED
  BY <1>1, InvariantHolds, PTL

\* The quota counts exactly the calls between their admission and the end of
\* their deferred calls, on every early return (lines 86-88), and nothing a call
\* takes outlives its slot.
THEOREM QuotaCountsStreams == Spec => []QuotaExact
<1>1. Invariant => QuotaExact
  BY DEF Invariant, Counted, Active, Unwound, QuotaExact
<1> QED
  BY <1>1, InvariantHolds, PTL

\* A call answers 403 only for a refusal of its own connection, of the
\* subscription or of a request's publication to the subject (the tracker of a
\* connection, gateway.go 78-140; core_sse.go 140).
THEOREM RefusalsStayApart == Spec => []ForbiddenIsOwn
<1>1. Invariant => ForbiddenIsOwn
  BY DEF Invariant
<1> QED
  BY <1>1, InvariantHolds, PTL

\* The queue keeps to both of its bounds, and buffer.bytes is the length of what
\* is queued or received but not yet released (enqueue against release).
THEOREM BufferKeepsBounds == Spec => []BufferBounded
<1>1. Invariant => BufferBounded
  BY DEF Invariant
<1> QED
  BY <1>1, InvariantHolds, PTL

\* A stream that lost a message does not go on as if nothing had happened: the
\* reason waits in buffer.terminal until the loop ends the stream.
THEOREM LossEndsStream == Spec => []NoSilentLoss
<1>1. Invariant => NoSilentLoss
  BY DEF Invariant, LossKept, NoSilentLoss, Established, Returning
<1> QED
  BY <1>1, InvariantHolds, PTL

----------------------------------------------------------------------------
(* Every stream is a handler call.                                         *)

StageOf(place) ==
    CASE place \in {"idle", "gate"} -> "arrived"
      [] place = "acquire" -> "acquiring"
      [] place \in Returning -> "returning"
      [] place = "done" -> "done"
      [] OTHER -> "using"

LEMMA StageValues ==
    /\ StageOf("idle") = "arrived" /\ StageOf("gate") = "arrived"
    /\ StageOf("acquire") = "acquiring"
    /\ \A place \in {"prepare", "flush", "flushed", "streaming", "holding"} :
            StageOf(place) = "using"
    /\ \A place \in {"unsubscribe", "release", "free"} : StageOf(place) = "returning"
    /\ StageOf("done") = "done"
  BY DEF StageOf, Returning

\* The stage of a stream is that of its place, and moving it moves its stage.
LEMMA StageMoves ==
    ASSUME TypeOK, NEW s \in Streams, NEW place, NEW next, pc' = [pc EXCEPT ![s] = place],
           next = StageOf(place)
    PROVE  /\ [q \in Streams |-> Stage(q)][s] = StageOf(pc[s])
           /\ Call!To(s, next)
           /\ next = StageOf(pc[s]) => UNCHANGED [q \in Streams |-> Stage(q)]
<1>1. \A q \in Streams : Stage(q) = StageOf(pc[q])
  BY DEF Stage, StageOf
<1>2. \A q \in Streams : Stage(q)' = StageOf(pc'[q])
  BY DEF Stage, StageOf
<1>3. \A q \in Streams : pc'[q] = IF q = s THEN place ELSE pc[q]
  BY DEF TypeOK
<1>4. \A q \in Streams : Stage(q)' = IF q = s THEN next ELSE Stage(q)
  BY <1>1, <1>2, <1>3
<1>5. [q \in Streams |-> Stage(q)]' = [q \in Streams |-> Stage(q)']
  OBVIOUS
<1> HIDE DEF StageOf, Stage
<1> QED
  BY <1>1, <1>4, <1>5 DEF Call!To

\* A stream whose stage does not change has not moved for the rest of the gateway.
LEMMA StageStays ==
    ASSUME TypeOK, NEW s \in Streams, NEW place,
           pc' = [pc EXCEPT ![s] = place], StageOf(place) = StageOf(pc[s]),
           UNCHANGED <<lease, sub, waiter, stopped>>
    PROVE  UNCHANGED Call!callVars
  BY StageMoves DEF Call!callVars, Registered

LEMMA StageSame ==
    ASSUME UNCHANGED pc
    PROVE  UNCHANGED [q \in Streams |-> Stage(q)]
  BY DEF Stage

\* What a stream alone changes on its connection.
LEMMA RegisteredMoves ==
    ASSUME NEW s \in Streams,
           \A q \in Streams \ {s} : sub'[q] = sub[q] /\ waiter'[q] = waiter[q]
    PROVE  /\ Registered' \in {Registered, Registered \cup {s}, Registered \ {s}}
           /\ ~sub'[s] /\ ~waiter'[s] => Registered' = Registered \ {s}
<1>1. Registered' \ {s} = Registered \ {s}
  BY DEF Registered
<1>2. s \in Registered' <=> sub'[s] \/ waiter'[s]
  BY DEF Registered
<1> HIDE DEF Registered
<1> QED
  BY <1>1, <1>2

LEMMA RefinementStep ==
    ASSUME TypeOK, Unwound, [Next]_vars
    PROVE  [Call!Next]_(Call!callVars)
<1> USE StreamAssumption, StageMoves, StageValues
<1>1. ASSUME NEW s \in Streams, Refuse(s) \/ Unavailable(s)
      PROVE  Call!TurnAway(s)
  BY <1>1 DEF Refuse, Unavailable, Return, Call!TurnAway, Registered, held, clock
<1>2. ASSUME NEW s \in Streams, GateOpens(s)
      PROVE  Call!Enter(s)
  BY <1>2 DEF GateOpens, Goto, Call!Enter, Registered, held, clock
<1>3. ASSUME NEW s \in Streams, Acquired(s)
      PROVE  Call!Take(s)
  BY <1>3 DEF Acquired, Goto, Call!Take, Registered, clock
<1>4. ASSUME NEW s \in Streams, pc' = [pc EXCEPT ![s] = "unsubscribe"],
             pc[s] \in {"acquire", "prepare", "flush", "flushed", "streaming", "holding"},
             UNCHANGED <<lease, sub, waiter, stopped>>
      PROVE  Call!Conclude(s)
  BY <1>4 DEF Call!Conclude, Call!Changes, Registered
<1>5. ASSUME NEW s \in Streams,
             \/ AcquireFails(s) \/ SetupRejected(s) \/ FlushBroken(s)
             \/ FlushCancelled(s) \/ CauseFound(s) \/ Unflushable(s)
             \/ SelectGone(s) \/ SelectStopped(s) \/ SelectTerminal(s) \/ SelectDuration(s)
             \/ CommentBroken(s)
      PROVE  Call!Conclude(s)
  BY <1>4, <1>5 DEF AcquireFails, SetupRejected, FlushBroken, FlushCancelled,
      CauseFound, Unflushable, SelectGone, SelectStopped, SelectTerminal, SelectDuration,
      CommentBroken, Return, held, clock
<1>6. ASSUME NEW s \in Streams, Subscribe(s) \/ SubscribeFails(s)
      PROVE  Call!Work(s) \/ Call!Conclude(s)
  <2>1. /\ pc[s] = "prepare" /\ UNCHANGED <<lease, stopped>>
        /\ pc' = [pc EXCEPT ![s] = "flush"] \/ pc' = [pc EXCEPT ![s] = "unsubscribe"]
    BY <1>6 DEF Subscribe, SubscribeFails, Goto, Return, clock
  <2>2. \A q \in Streams \ {s} : sub'[q] = sub[q] /\ waiter'[q] = waiter[q]
    BY <1>6 DEF Subscribe, SubscribeFails, TypeOK
  <2>3. Call!Changes(s)
    BY <2>2, RegisteredMoves DEF Call!Changes
  <2> QED
    BY <2>1, <2>3 DEF Call!Work, Call!Conclude
<1>7. ASSUME NEW s \in Streams, unsubscribe(s)
      PROVE  Call!Withdraw(s)
  <2>1. pc[s] = "unsubscribe" /\ pc' = [pc EXCEPT ![s] = "release"] /\ UNCHANGED <<lease, stopped>>
    BY <1>7 DEF unsubscribe, Goto, clock
  <2>2. Registered' = Registered \ {s}
    BY <1>7, RegisteredMoves DEF unsubscribe, TypeOK
  <2> QED
    BY <2>1, <2>2 DEF Call!Withdraw
<1>8. ASSUME NEW s \in Streams, Release(s)
      PROVE  Call!GiveBack(s)
  BY <1>8 DEF Release, Goto, Call!GiveBack, Registered, Unwound, clock
<1>9. ASSUME NEW s \in Streams, FreeSlot(s)
      PROVE  Call!Leave(s)
  BY <1>9 DEF FreeSlot, Goto, Call!Leave, Registered, Unwound
<1>10. ASSUME NEW s \in Streams,
             Admit(s) \/ Flushed(s) \/ Connected(s) \/ SelectMessage(s)
      PROVE  UNCHANGED Call!callVars
  BY <1>10, StageStays DEF Admit, Flushed, Connected, SelectMessage, Goto, held, clock
<1>11. ASSUME NEW s \in Streams, Deliver(s)
      PROVE  Call!Conclude(s) \/ UNCHANGED Call!callVars
  <2>1. pc[s] = "holding" /\ UNCHANGED <<lease, sub, waiter, stopped>>
    BY <1>11 DEF Deliver, held, clock
  <2>2. \/ pc' = [pc EXCEPT ![s] = "streaming"]
        \/ pc' = [pc EXCEPT ![s] = "unsubscribe"]
    BY <1>11 DEF Deliver, Goto, Return
  <2> QED
    BY <1>4, <2>1, <2>2, StageStays
<1>12. ASSUME NEW s \in Streams,
              \/ ClientGone(s) \/ SetupTimesOut(s) \/ DeadlinePasses(s) \/ handle(s)
              \/ \E p \in Payloads : enqueue(s, p)
       PROVE  UNCHANGED Call!callVars
  <2>1. UNCHANGED <<pc, lease, sub, waiter, stopped>>
    BY <1>12 DEF ClientGone, SetupTimesOut, DeadlinePasses, handle, enqueue, control, held, clock
  <2> QED
    BY <2>1, StageSame DEF Call!callVars, Registered
<1>13. ASSUME NEW c \in Unpublishable, RequestRefused(c)
       PROVE  UNCHANGED Call!callVars
  BY <1>13, StageSame DEF RequestRefused, Call!callVars, Registered, control, held, clock
<1>14. Stop => Call!Shut
  BY StageSame DEF Stop, control, held, Call!Shut, Registered
<1>15. UNCHANGED vars => UNCHANGED Call!callVars
  BY StageSame DEF vars, control, held, clock, Call!callVars, Registered
<1> QED
  BY <1>1, <1>2, <1>3, <1>5, <1>6, <1>7, <1>8, <1>9, <1>10, <1>11, <1>12, <1>13, <1>14, <1>15
     DEF Next, Proceed, Select, Call!Next

\* Whatever ends a stream and wherever, it is a handler call: it registers and
\* subscribes only after it has its lease, keeps the lease until it has
\* unsubscribed, gives it back before it is over, and none gets in after the gate
\* was shut.
THEOREM StreamIsHandlerCall == Spec => ImplementsHandlerCall
<1>1. ASSUME Init
      PROVE  Call!Init
  <2>1. \A s \in Streams : Stage(s) = "arrived"
    <3>1. \A s \in Streams : pc[s] = "idle"
      BY <1>1 DEF Init
    <3> QED
      BY <3>1 DEF Stage, Returning
  <2> QED
    BY <1>1, <2>1 DEF Init, Call!Init, Registered
<1>2. TypeOK /\ Unwound /\ [Next]_vars => [Call!Next]_(Call!callVars)
  BY RefinementStep
<1>3. Invariant => TypeOK /\ Unwound
  BY DEF Invariant
<1> QED
  BY <1>1, <1>2, <1>3, InvariantHolds, PTL DEF Spec, ImplementsHandlerCall, Call!Spec
=============================================================================
