# nats-web-gateway: a TLA+ verification project

The gateway is a Caddy HTTP handler. It maps declared HTTP routes to NATS
subjects, executes request/reply, serves live Core NATS subscriptions as
server-sent events, and, on protected routes, uses the caller's own credential
to open and pool NATS connections. The project models the parts of it that keep
state or run concurrently, their composition, and the algorithms that decide
what a configuration and a request mean: the Caddyfile adapter, profile
resolution, validation, route matching, content negotiation and credential
adaptation.

## Inventory

| component | source | state | operations | interacts with |
|---|---|---|---|---|
| connection pool | `security_context.go` | `entries`, `inflight`, `stopping`, reference counts, timers, one mutex | `acquire`, `connectContext`, `release`, `expire`, `evict*`, `close` | called by both handlers; dials and closes NATS connections; timers and library callbacks run in goroutines of their own |
| identity tracker | `internal/credentials/credentials.go` | last observed credential digest, generation | `RefreshIdentity`, `observe`, `IdentityChanged` | asked by the pool; fed by the JWT callback on every connect and reconnect |
| handler lifecycle | `gateway.go` | `ready`, `stopping`, `closed`, `stopped`, once guards | `Provision`, connection callbacks, `Cleanup` | gates both handlers, closes the pools |
| request/reply | `gateway.go`, `identity.go`, `internal/translation` | a context with a cause, a lease, a waiter | the body of `ServeHTTP` | pool, permission tracker, NATS |
| SSE streams | `core_sse.go` | quota channel, bounded buffer, timers | `serveCoreSSE`, `enqueue`, `release` | pool, permission tracker, NATS delivery goroutine |
| permission tracker | `gateway.go` | waiters per subject | `register`, `handle` | cancels requests and stream setups from the library's error callback |
| route profiles | `profiles.go` | cache, visiting marks | `resolvedRoutes`, `mergeRoute` | configuration time |
| Caddyfile adapter | `config.go` | the handler being filled in, the options seen | `UnmarshalCaddyfile`, `unmarshalRoute` | configuration time; its output is resolved again by `Provision` |
| configuration checks | `config.go` | none | the `validate` methods | configuration time; what they accept is what every later step relies on |
| route matching | `internal/routes`, `config.go` | none | `validateRoutes`, `Match` | configuration time; head of `ServeHTTP` |
| negotiation, replies | `response.go` | none | `selectRepresentation`, `validateReply` | `ServeHTTP` |
| credential adapter | `internal/credentials/credentials.go` | none | `adapt` | both handlers; its key is the pool's key |

What is hard here: the pool's entries change hands between requests, dials,
timers and `close`, with the dial outside the mutex; the NATS library calls back
at times of its own (disconnects, reconnects, permission errors, credential
callbacks); every early return of a handler owes something (a quota slot, a
lease, a waiter, a subscription); timers race late answers. `PROJECT.json`
lists each hazard with its line and the property that would catch it.

What makes each part correct:

* pool: connections plus dials stay within `max_connections`; a leased
  connection is not taken away; counts are exact; nothing leaks or is stranded;
  a closed pool stays empty; one dial per credential; every call returns; every
  connection is retired in the end; a lease belongs to the credential presented;
* lifecycle: a stopping handler is never ready; `Cleanup` always returns, with
  the connection closed; readiness follows the connection;
* streams: quota, buffer bounds, no silent loss, every stream ends, refusals
  reach exactly those they concern;
* request/reply: each request is answered, for a reason that exists, and gives
  its lease back once it no longer waits on the connection;
* the handler as a whole: after `Cleanup` nothing starts, and what was running
  ends with its lease returned and every connection closed;
* Caddyfile, profiles and routes: a block means what its lines say; resolution
  is independent of map order and, except for an explicit false, equals the
  documented precedence, and resolving the result again changes nothing; an accepted configuration is
  unambiguous, and no value escapes its place in a subject;
* an exchange: the client's preference decides the representation; the message
  carries the declared headers and the gateway's own, nothing reserved; the
  answer has the selected type; a request presents one credential, and its pool
  key belongs to no other.

## Modules

| module | models | relation to others |
|---|---|---|
| `SecurityContextPool` | the pool and the identity trackers of the requests' contexts | proofs in `SecurityContextPool_proofs` |
| `LeaseService` | abstract: what the pool promises its callers | `PoolRefinement` maps the pool to it |
| `RequestReply` | several concurrent request/reply calls and the permission tracker | implements `HandlerCall` |
| `CoreSSE` | several concurrent `serveCoreSSE` calls | implements `HandlerCall` |
| `HandlerCall` | abstract: what the gateway sees of a call of either kind | |
| `ConnectionLifecycle` | `Provision`, callbacks, `Cleanup` | |
| `Gateway` | one handler | composes `ConnectionLifecycle`, `LeaseService`, `HandlerCall` |
| `RouteProfiles` | `resolvedRoutes`, `mergeRoute` | |
| `CaddyfileAdapter` | `UnmarshalCaddyfile`, `unmarshalRoute` | extends `RouteProfiles`, which resolves what it read and what it emitted |
| `ParameterPatterns` | which patterns are safe, which values they take | |
| `RoutePolicy` | the other `validate` methods of `config.go` | |
| `RouteMatching` | `validateRoutes`, `Match`, the candidate loop | extends the two above |
| `Negotiation` | `selectRepresentation`, `parseAccept` | |
| `CredentialAdapter` | `Adapter.adapt` | |
| `Exchange` | the data of one request through `ServeHTTP` | extends `RouteMatching`, `Negotiation`, `CredentialAdapter` |

Theorems and their proofs stand in modules of their own:

| proofs | extends | theorems about |
|---|---|---|
| `SecurityContextPool_proofs` | `SecurityContextPool` | the pool's safety, isolation of credentials |
| `PoolRefinement_proofs` | `PoolRefinement`, the pool's proofs | the pool implements `LeaseService` |
| `Gateway_proofs` | `Gateway` | lifecycle and composition: readiness, `Cleanup` |
| `RequestReply_proofs` | `RequestReply` | why a request is answered as it is; implements `HandlerCall` |
| `CoreSSE_proofs` | `CoreSSE` | quota, buffer, refusals, losses; implements `HandlerCall` |
| `RouteMatching_proofs` | `RouteMatching` | one route decides; the subject is the declared one |
| `Exchange_proofs` | `Exchange`, `RouteMatching_proofs` | negotiation, messages, answers, credentials and their keys |
| `RouteProfiles_proofs` | `CaddyfileAdapter` | broken inheritance is rejected; blocks mean their lines; emitted routes are stable |

`TypeOK` in a module states the types of its variables and is the base of the
proofs about it.

`MC*` modules give constants their values for TLC. The operators marked
"Mutant" beside a definition are plausible mistakes in that definition; each
property is known to fail for one of them, which shows that it depends on the
code it is about.

**SecurityContextPool.** One action per critical section of `acquire`,
`connectContext`, `release`, `expire` and `close`. `acquire` is split at the
points where other goroutines can run: before the lock, in the `select`, and
also *inside* the critical section between the identity scan and the lookup,
where trackers and connections (which have their own locks) may still change;
the variable `mu` keeps the pool mutex held there. An identifier in `Attempts`
stands for a `connectContext` goroutine, the connection it opens and the entry
it inserts; it is reused only when nothing can reach the old object, which is
what makes the pointer comparisons of `release` and `expire` meaningful. Time is
kept as what the code compares: ages and idle times saturated at their limits,
delays left on timers. A timer callback that has started is a count, because it
cannot be recalled. The library may lose, restore (with a newly asked
credential) or give up a connection at any time.

**ConnectionLifecycle.** The library queues callbacks and runs them one at a
time, as nats.go does. `Provision` reads `IsConnected` and stores it in two
steps. `Cleanup` may be called concurrently; the body of `cleanup.Do` is a
process with `beginStopping`, closing the pools, `Drain` and the wait.

**CoreSSE.** Control places follow `serveCoreSSE`; deferred calls are separate
steps in reverse order. A received message stays counted in `buffer.bytes`
until `release`. The permission error is a callback owed by the library from
the moment of the subscription. Streams have one policy, hence one quota.
Requests that share a connection, and so its tracker, appear as what they can do
to a stream: `RequestRefused` is the refusal of a request's publication to the
same subject on a connection of `Unpublishable`, and cancels the setups that wait
there.
A message body is a model value with a size and a UTF-8 flag.

**RequestReply.** The cause of the request's context is the first of the
client, the timer and the tracker. `ctxErr` and `cause` differ, as
`ctx.Err()` and `context.Cause` do. When the context ends, `context.AfterFunc`
closes the body that is being read; for a body of HTTP/1 that waits for the
`Read` in progress, so the interrupted read is fair only for requests in
`Interruptible` (HTTP/2) or whose client has gone. Streams that share a
connection, and so its tracker, appear as `StreamRefused`: the refusal of a
subscription (`Unsubscribable`) cancels the requests that wait on the same
subject. Every class of reply and of error has its status.
The acquire call is one step here; its own steps are `SecurityContextPool`.

**RouteProfiles.** The recursion is a stack, the map iteration a
nondeterministic order. A route keeps one field of every kind that
`mergeRoute` treats differently (scalar, list, map, flag, optional object,
object within an object). The reference definition computes a field from the
history of writes, clears and extensions along the chain of parents instead of
by merging.

**LeaseService, HandlerCall, Gateway.** The whole handler is too large to check
with every detail of its parts, so it is composed of what they promise. A
`LeaseService` opens, grants, takes back, retires and closes; there are no
dials, timers, counts or mutex. The mapping takes `entries` for the pool and a
request's place between `AcquireLease` and `Release` for its lease. A
`HandlerCall` passes the gate or is turned away, takes a lease if its route is
protected, uses a connection, concludes, takes back what it has on the connection
and gives the lease back; requests and streams map their control places to its
five stages. Its variable `active` says which calls have something on their
connection, a request its waiter, a stream its waiter or subscription: it gets
there only while the connection is used, and `GiveBack` and `Leave` need that it
is gone. In `Gateway`, which has no subscriptions, `active` is empty. `Gateway` joins steps of
the two with those of `ConnectionLifecycle`: a call acquires when the pool
grants, `ClosePools` is the step of `Cleanup` that closes the pool, and no step
of `Cleanup` waits for a call.

**CaddyfileAdapter.** A file is a sequence of blocks of lines; one action reads
one line. There is one option of each kind that `unmarshalRoute` treats
differently (plain, list, repeatable, nested in an object created on first use).
Whether the arguments of an option parse is part of the line. When the file is
read, profiles are resolved by the actions of `RouteProfiles`; `Emit` replaces
the routes by the resolved ones, through JSON, and they are resolved again.

**RouteMatching, ParameterPatterns, RoutePolicy.** Templates are sequences of
segments, values sequences of characters with a decoding and a division into
tokens. A pattern is the tree that `regexp/syntax` parses; the constant `Size` is
a number that is smaller for a part than for the whole. `Ends` is Go's
leftmost-first matching (external), because `matchesEntireValue` looks only at
the preferred match. Header names, media types and URLs are atoms; sets of them
say which are well formed and which are reserved. The reference has three
parts and no order of comparison: `Matches` (the declared method and path fit,
whatever the parameters are), `Accepts` (and the parameters are good ones),
`Rejects` (one of them is not).

**Negotiation, CredentialAdapter, Exchange.** An Accept field is a sequence of
items with a range and segments, malformed ones included; the reference
(`Wanted`) asks for the most specific range instead of scanning. A presentation
is a list of Authorization values and three optional proofs. SHA-256 is taken
to be injective, so a key is the sequence that is hashed. `Exchange` follows a
request through `ServeHTTP` with the header maps as functions: negotiation, the
credential, the identity header, the message, the reply and the answer. The
failures and races of the same steps are in `RequestReply`.

## Runs

| run | question | result |
|---|---|---|
| `pool_static` | 3 requests, 2 credentials, 1 slot, lifetime 2, idle 1: types, limit, counts, leases, closed pool, single flight | pass |
| `pool_rotation` | a rotating and a static credential, 2 slots, 3 attempts: isolation of credentials, no leak, nothing stranded, refinement of `LeaseService` | pass |
| `pool_fair` | fair; 2 requests keep leasing one connection: every acquire returns, the connection is retired, `close` closes all | pass |
| `pool_grant` | is a leased connection authenticated as the identity it was looked up under? | violated |
| `gateway` | fair; 2 protected calls and an operator call, 2 outages, 2 `Cleanup` calls: readiness, drain and return of `Cleanup`, nothing starts after it, everything comes to rest | pass |
| `sse_quota` | 3 streams, 2 slots, 2 connections, one of them refused | pass |
| `sse_buffer` | fair; one stream, four kinds of messages, both bounds reachable; refinement of `HandlerCall` | pass |
| `sse_denied` | is a refused subscription never served? | violated |
| `requests` | fair; 2 requests on a pooled connection whose credential rotates, one of its users refused, one request over HTTP/1: why each is answered, that it is; refinement of `HandlerCall` | pass |
| `requests_identity` | does the identity header name the sender? | violated |
| `configuration` | all triples of 15 overrides on profile, child, route; all `extends` links among 3 profiles; all Caddyfile routes of up to 3 lines from 20, profile blocks before and after their use | pass |
| `exchange` | eight families of configurations and requests (below) | pass |

The three violated runs are disagreements between the code and its documents,
each with the quotation under `findings` in `PROJECT.json`:

1. *Grant of a rotated connection* (`pool_grant`). The scan for changed
   identities and the grant are two steps; a reconnect with a new JWT in between
   is missed.
2. *Refused streams* (`sse_denied`). A permission callback after the last look
   at the setup context leaves a `200` stream without messages.
3. *Identity header* (`requests_identity`). A reconnect between the identity
   query and the publication sends the header of the previous user.

Further behaviours of the code, which the models show and no run is spent on:

* *Readiness at provisioning* (`gateway.go:299`). A disconnect callback between
  the read of `IsConnected` and its store is overwritten, and the handler
  reports ready until the next callback.
* *False flags* (`profiles.go:236`). `negotiate_accept: false` cannot override
  an inherited `true`; only `clear` resets it. This contradicts
  `docs/configuration.md:23-24` ("A value written by a child profile or route
  overrides the corresponding field"). `RoutesAgree` says nothing of the flag
  where an explicit false is its last word (`FalseLast`). An explicit zero or
  empty scalar is likewise not told from one left out; the overrides of the model
  contain none.
* *Judging a parameter early* (`internal/routes/routes.go:59`). `GET /{id}/a`,
  declared first, answers `400` to requests for `GET /a/b` when `a` does not
  match the pattern of `id`, although the two routes do not overlap and the second
  takes the request. This contradicts the comment of `Match`
  (`routes.go:36-37`, "A matching path with invalid input returns an error") and
  `docs/configuration.md:7-9`. `OneRouteAccepts` says nothing of a matching route
  that comes after one that answers `400`.
* *Shared tracker* (`gateway.go:78`). One pattern takes refused publications and
  refused subscriptions, and one tracker serves the requests and the streams of a
  connection. The refused subscription of a stream answers `403` to a request that
  waits on the same subject and connection, although its user may publish there,
  and the refused publication of a request does the same to a stream being set up.
  `ForbiddenJustified` and `ForbiddenIsOwn` promise no more than what remains: a
  refusal of the same connection and subject.
* *Stalled HTTP/1 body* (`internal/translation/translation.go:62`). The end of the
  context closes the body, but the body of an HTTP/1 request holds one mutex in
  `Read` and in `Close`. A client that stalls in its body keeps its handler, and
  on a protected route its lease, past the timeout, until it sends or leaves; a
  read of HTTP/2 is interrupted. `RequestsAnswered` leaves out a call that stalls
  for ever (`Stalled`).
* *A type without a slash* (`response.go:49`). `validateResponseMediaType`
  accepts a content type such as `png`; on a route that negotiates, any Accept
  header that can be parsed then makes `selectRepresentation` index a part that
  is not there, and the handler panics. `Negotiation` has the outcome `Panic`.
* *Accept as the identity header* (`gateway.go:447`). Together with
  `negotiate_accept` the name is in the forward list twice, and the service gets
  the identity twice where it expects the type. `MessageAsDeclared` leaves this
  configuration out.
* *Parameters of ranges* (`response.go:178`). Declared types have no
  parameters, so a range with one never matches, unless its value is empty; the
  comparison of parameter counts decides only among such ranges.
* *`use` and `extends`* (`config.go:757-764`) set the same field; a block with
  both keeps the later one.
* *Followers of a dial* (`security_context.go:105`). The dial has the remaining
  time of the request that started it; requests that joined fail with it,
  however much time they have left.
* *Random select* (`core_sse.go:175`). A stream that lost a message ends, but
  with several cases ready it may end with the duration event or with nothing
  instead of the slow consumer error.
* *Quotas* (`gateway.go:232-239`). Routes with equal `core_sse` policies share
  one quota, and routes with equal security contexts one pool.

**Bounds.** One slot and two credentials make requests meet at the limit, at
eviction and at a shared dial; two attempts let a dial run beside an entry, and
three let an entry be replaced while leased and a rotated dial meet another. A
lifetime of 2 with an idle timeout of 1 separates the two expiries. Two outages
give the callback queue a disconnect after a reconnect. Three streams on two
slots reach the refusal by the quota while two hold it, on pooled and on operator
connections. Two requests on one connection are enough for one of them to be
refused, to time out or to rotate the credential between two steps of the other;
a request on the operator connection takes the same steps without the acquire. A buffer of two messages
and three bytes is overrun by either measure. One rotation is what the rotating
properties need. In `gateway` one credential, one connection and two protected
calls make a call wait for what another holds while `Cleanup` runs; the operator
call takes the other branch of the gate. The proofs show that the pool's safety does not depend on any
of these bounds.

The inputs of `configuration` are exhaustive over short chains and short files;
three lines let an option be repeated with another between. Those of `exchange`
are: pairs of routes under every short request; every pattern of a small grammar
under every value; configurations with one field wrong at a time, each at its
boundary; every combination of forwarded, generated and negotiated headers;
every kind of reply on every response policy; Accept fields of up to three items
(the bound `MaxAcceptItems`, 64 in the code, is 3, so that longer ones exceed
it); every presentation of up to two credentials and texts up to one character
over the limit of 3; a type without a slash. Each family varies what one step
reads and keeps the rest fixed; the steps share nothing else.

`SYMMETRY` is used only in runs without temporal properties; `Observable`
ignores values that no action reads before they are written again. Deadlock is
checked in the pool runs (a pool can always go on); the other systems do end, so
their configurations turn it off.

**Fairness.** Goroutines that can run do run (Go's scheduler); a goroutine that
finds the mutex free again and again gets it (`sync.Mutex` does not starve
waiters): strong fairness of each
goroutine that locks (a request from `acquire` to `release`, a dial, an expiry); timers fire; every request
context has a timeout and `nats.Connect` returns within its own; a holder gives
its lease back, which `RequestsAnswered` and `StreamsEnd` justify in turn, except
for an HTTP/1 client that stalls in its body, of which it is an assumption;
`select` chooses at random among what is ready, so a case that is ready for ever
is taken: strong fairness of the duration case. In `gateway` weak fairness suffices: its
steps wait for no lock, and that calls end is what the runs of both kinds of
call show, with the same exception. So `EventuallyRetired` and
`ShutdownCompletes` rest on clients that do not stall in an HTTP/1 body for ever.
Nothing else is assumed of clients, and nothing of servers, services, drains or
the network.

## Proofs

TLC checks the instances above; TLAPS proves the theorems listed in
`PROJECT.json` for every value of the constants. A proof that an invariant holds
has a strengthening that is inductive, one lemma per action or per group of
actions that disturb the same conjuncts, and a step lemma that puts them
together. Each strengthening has been checked by TLC on the instance of its run.

**Assumptions on the constants.** They are named in the module that declares the
constants, and TLC evaluates them on every run. `PoolAssumption` and
`StreamAssumption` say that limits are positive, which the `validate` methods of
`config.go` enforce, and that a process has finitely many credentials and
requests. `RequestAssumption` and `LifecycleAssumption` only give types.
`PatternsAssumption` says that a pattern is a finite tree (`Size`) in which a loop
and a group have one part. `MatchingAssumption` and `ExchangeAssumption` say that
what is a slice in the code is a sequence, that a segment is a literal or a
parameter, that a value of safe characters is one token, that a media type has at most two parts around its slash, and that `Accept` is no protocol
header. `ProfilesAssumption` and `FilesAssumption` give the written routes the
types of their Go structs and the arguments of an option the type it is parsed
into, and say that "not written" (`None`) is no value of a field. No assumption bounds the number of routes, ranges, messages, streams,
requests or connections.

**The pool** (`SecurityContextPool_proofs`). None of its invariants is inductive
alone. `Invariant` is `Core /\ Safety`:

* `Core` is type correctness and *addressing*: an entry knows the key it is
  pooled under and its dial is over; a registered dial is a dial of that key and
  every dial is registered; what an acquire call may assume at each point; the
  mutex is held exactly between the scan and the lookup; an open connection is
  pooled or in a dial's hands. Without addressing, `release` and `expire` could
  hit another entry of the same key.
* `Safety` adds that leased entries stay pooled, counts equal the number of
  holders, a stopped pool is empty, entries have a way out, and the limit.
  Counts and leases need each other: an entry is removed only at count zero, and
  the count is zero only if nobody holds it.

The actions are divided into those that leave leases and entries alone
(`QuietSteps`), those that only retire unreferenced entries (`RetiringSteps`),
and lease, release, install and close, each with a lemma. The limit needs that a
dial gives up its place in `inflight` in the step that takes one in `entries`,
and that the check before the dial is made after the removals.
`CredentialsKeptApart` adds what a pooled connection has in common with the
contexts that may be given it: the credential it was dialled with, as long as
neither side has observed a change.

**Pool and lease service** (`PoolRefinement_proofs`). `Init` maps to `Init`, and
every step to a step of `LeaseService` or to a stutter. The pool's `Invariant`
does the work: addressing gives the credential of a lease, counts give that a
retired connection has no holder, the limit gives the guard of the abstract
opening.

**Lifecycle and composition** (`Gateway_proofs`). `LifecycleInvariant` says that
a connection is there once `Provision` has opened it, that the places of
`Cleanup` are ones of a stopping handler, that the closed callback is about a
closed connection, and that the last callback in the queue is about the state
the connection is in (`LastOwed`). The last one is what makes readiness right
whenever the queue is empty; it needs that every change of the connection
queues a callback. `GatewayIsLifecycle` shows that each step of the composition
is a step of the lifecycle or leaves it alone, so that its theorems hold of the
handler with all its calls. `CallsWithin` (no call before `Provision` is over,
pools closed from the draining on) gives `NothingStartsAfterCleanup`.

**Requests** (`RequestReply_proofs`). `SilentMeansGone`, `ForbiddenJustified` and
`DenialReported` are each about the cause of a context, which another step set
earlier. The invariant keeps what that step knew: a cause `canceled` means that
the client has gone, a message reported as refused was sent by a user without
the permission, a refusal that ended a wait is the cause of its context, and
the permissions of some user of the connection, to publish or to subscribe,
justify each denial although the user may have changed since.

**Streams** (`CoreSSE_proofs`). `Counted` (`used` is the number of active calls)
and `Unwound` (what a call still holds at each point of its return) give
`QuotaExact`. `BufferBounded` equates `buffer.bytes` with the total length of
what is queued or in the loop's hand. The total is stated by partial sums (a
function whose increments are the lengths) instead of a recursive operator, so
that appending, taking and releasing are lemmas (`AppendedTotal`,
`ReleasedTotal`). `LossKept` says that a loss has its reason recorded until the
loop returns.

**Handler calls.** Both kinds of call map their control places to the stages of
`HandlerCall`; `StageMoves` and `StageStays` state what a change of place does
to the mapped stage, and the step lemma goes through the actions. That a lease is
given back only after the waiter and the subscription are gone needs the
invariants: a request waits only between `register` and the end of its call, and
`Unwound` says that a stream past `unsubscribe` has neither. With
`LeaseService` and the lifecycle these are the parts `Gateway` is composed of.

**Matching** (`RouteMatching_proofs`). `MatchingIsUnique`: in a configuration
that passes `validateRoutes` two declared methods and paths cannot match one
request, because a path that fits both is itself the common path that the overlap
check excludes. `MatchMeans` says what the three answers of `Match` mean in terms
of `Matches`, `Accepts` and `Rejects`. The invariant of the candidate loop is that
every earlier candidate answered "no", and so does not match.

`SubjectAsDeclared` needs both recursive definitions of `ParameterPatterns` to be
functions that satisfy their equations for every set of patterns.
`RecursionHolds` gives this once for any definition that descends along a
measure: approximations of the function exist and agree below every number. The
measure is the constant `Size` of a pattern, and for matching the size with the
turns that a loop or a sequence has left (`StepsLeft`). `EndsAreReachable` is then
the argument about patterns, one case per operation: from any place in a value, a
match of a pattern that is not `Unsafe` passes over safe characters only and
ends no earlier than what is left of the minimum (`Least`) says. At the start
this is `AcceptedIsSafe`: an accepted pattern takes only values that are not
empty and safe. Such a value is one token, so after each substitution the subject
is the template with some names filled in (`OneMoreFilled`), and no value is
taken for a placeholder that comes later; after the last, all names are filled in
whatever the order (`SubjectIsFilled`).

**Exchange** (`Exchange_proofs`). An exchange is a matching
(`ExchangeIsMatching`), so `MatchingInvariant` is available; `ExchangeInvariant`
adds what each stage of `ServeHTTP` has established. The theorems then follow
from lemmas about the operators: which names can be in the forward list and how
often, that prefixing and dividing a text are inverse, that the three forms of
a key cannot be equal, and that the scan of the Accept ranges returns the
quality of the most specific range. The scan is a loop over a list; where a proof
needs induction over its length it takes the least number with a property
(`LeastNumber`), which the well-founded order on the naturals gives.

**Profiles** (`RouteProfiles_proofs`). `BrokenChainsRejected` says of a resolved
configuration that every parent named exists and that every nonempty set of
profiles has a member whose parent is outside the set: there is no cycle of any
length. The invariant describes the recursion: the names marked as visiting are
those of the calls under way, each once; a cached name is not under way; the
parent of a cached name is cached; no set of cached names is closed under
parents. It holds for configurations from JSON and for those the adapter emits
and resolves again.

`RoutesAgree` compares what `clearRouteField` and `mergeRoute` compute field by
field, on nested and shared objects, with the meaning of a history of clear,
write and extend events. `EventMeans` says what one more event does to a meaning
(`Effect`): the last decisive event moves, later extensions are appended, the
presence of an object follows what is inside it. `ClearMeans` and `MergeMeans`
then show that each statement of the two functions has the effect of the event
it stands for. The invariant along the recursion is that every cached profile is
what an injective chain of cached profiles means (`CacheAgrees`); injectivity
gives the bound on the length of a chain, and since the profile being merged is
not cached yet, it is on no chain of cached profiles and can extend its parent's.
The proof follows the code's flag, which an explicit false does not change
(`RoutesMerged`); `FlagAgrees` shows that it is the documented one unless such a
false is the last word, and `MergedIsMeant` concludes.

`BlocksAsWritten` needs to know what a half-read block means: `WithinBlock` says
that the Route under construction holds what the lines so far say and that their
options are in `seenOptions`. That a line adds its own value and disturbs no
other option's is `StoredAsWritten`, one case per option; that no line comes
twice follows from what is seen. Blocks of a kind are counted (`Count`, `Place`),
which gives each block its place among the declared routes or profiles. For
`AdaptationStable` the central fact is `EmittedResolves`: written as JSON, with
zero values omitted, and merged into the empty route, an effective route is
itself. It needs that merging yields typed routes, for every `clear` list and
every `extend` (`MergedIsRoute`). `Reresolving` then says that after `Emit` there
is no profile and every route resolves to the one emitted; that `Provision` does
not reject them is part of the property.

**Only model-checked.**

* Liveness and ENABLED are out of the prover's reach: `AcquireAnswered`,
  `EventuallyRetired`, `StopClosesAll`, `ShutdownCompletes`, `StreamsEnd`,
  `RequestsAnswered`.
* `ClientPreferenceHonoured`, checked and proved, leaves out readable Accept
  headers with a parameter of empty value (`Plainspoken`); for those see the
  behaviours listed above.

## Not modelled

Spelling: the grammar of names, URLs, media types, durations and numbers, base64
and the scanning of quoted header text are classes of atoms (well formed,
malformed, too long). SHA-256 and the regular expression engine are taken as
specified. Wording of errors, metrics and logs. TLS and NATS options. The
example services, the commands of the integration tests and the build targets
are programs of their own. JetStream streams are declared in the configuration
but refused by `Route.validate`.

## Plan

Done: the inventory, the modules above, both abstract specifications with their
refinements, the composition, and the proofs above: every safety property of
every component. Left: the liveness properties, which stay with TLC.
