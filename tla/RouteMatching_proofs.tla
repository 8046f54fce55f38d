------------------------ MODULE RouteMatching_proofs ------------------------
(***************************************************************************)
(* Two things about an accepted configuration.  At most one declared       *)
(* method and path match a request, and the loop of ServeHTTP comes to no  *)
(* other answer before it than a bad parameter: two routes that both match *)
(* have its method and its length, and literals in the same place equal    *)
(* the same decoded segment, so validateRoutes would have called their     *)
(* paths overlapping.  And the subject has the shape of its                *)
(* template: a match of an accepted pattern is at least as long as         *)
(* safePatternMinimumLength says and has safe characters only, so that     *)
(* each value is one token, in whatever order the values are put in.       *)
(***************************************************************************)
EXTENDS RouteMatching, SequenceTheorems, FiniteSetTheorems, WellFoundedInduction, TLAPS

\* What the loop of ServeHTTP has established: an accepted configuration is
\* being served, and every candidate before the current one was no match.
MatchingInvariant ==
    /\ input \in Inputs
    /\ next \in Nat /\ next >= 1
    /\ phase \in {"validate", "serve", "end"}
    /\ phase # "end" => outcome = None
    /\ phase # "validate" /\ outcome # "rejected" => Valid
    /\ \A j \in 1 .. next - 1 : Match(routes[j]) = "no"
    /\ outcome = "subject" => next \in DOMAIN routes /\ Match(routes[next]) = "yes"
    /\ outcome = "bad request" => next \in DOMAIN routes /\ Match(routes[next]) = "invalid"
    /\ outcome = "fallthrough" => next > Len(routes)

LEMMA LeastNumber ==
    ASSUME NEW T \in SUBSET Nat, T # {}
    PROVE  \E x \in T : \A y \in T : x <= y
<1>1. PICK x \in T : \A y \in T : ~(<<y, x>> \in OpToRel(<, Nat))
  BY NatLessThanWellFounded, WFMin
<1>2. \A y \in T : ~(y < x)
  BY <1>1 DEF OpToRel
<1> QED BY <1>2

\* Route.Match answers what the reference says of the route.
LEMMA MatchMeans ==
    ASSUME input \in Inputs, NEW k \in DOMAIN routes
    PROVE  /\ Match(routes[k]) = "yes" => Accepts(routes[k]) /\ Matches(routes[k])
           /\ Match(routes[k]) = "no" => ~Matches(routes[k])
           /\ Match(routes[k]) = "invalid" => Rejects(routes[k])
<1> DEFINE route == routes[k]
           first == CHOOSE i \in Fails(route) : \A j \in Fails(route) : i <= j
<1>1. Match(route) = IF ~SameShape(route) THEN "no"
                     ELSE IF Fails(route) # {}
                     THEN IF route.path[first].kind = "literal" THEN "no" ELSE "invalid"
                     ELSE IF QueryTaken(route) THEN "yes" ELSE "invalid"
  BY Zenon DEF Match
<1>2. IsTemplate(route.path)
  BY MatchingAssumption DEF routes
<1>3. Fails(route) \in SUBSET Nat /\ \A i \in Fails(route) : i \in DOMAIN route.path /\ ~Takes(route, i)
  <2> HIDE DEF route
  <2>1. DOMAIN route.path = 1 .. Len(route.path)
    BY <1>2 DEF IsTemplate, IsSequence
  <2> QED BY <2>1 DEF Fails
<1>4. ASSUME Fails(route) # {}
      PROVE  /\ first \in Fails(route)
             /\ \A j \in Fails(route) : first <= j
             /\ route.path[first].kind \in {"literal", "parameter"}
  <2>1. \E i \in Fails(route) : \A j \in Fails(route) : i <= j
    <3> HIDE DEF route
    <3> QED BY <1>3, <1>4, LeastNumber
  <2>2. first \in Fails(route) /\ \A j \in Fails(route) : first <= j
    <3> HIDE DEF route
    <3> QED BY <2>1
  <2> HIDE DEF first, route
  <2>3. route.path[first] \in {Literal(route.path[first].name), Parameter(route.path[first].name)}
    BY <1>2, <1>3, <2>2 DEF IsTemplate
  <2> QED BY <2>2, <2>3 DEF Literal, Parameter
<1> HIDE DEF first, route
<1>5. ASSUME Match(route) = "yes" PROVE Accepts(route) /\ Matches(route)
  <2>1. SameShape(route) /\ Fails(route) = {} /\ QueryTaken(route)
    BY <1>1, <1>5
  <2> QED BY <2>1 DEF Accepts, Matches, Fails
<1>6. ASSUME Match(route) = "no" PROVE ~Matches(route)
  <2>1. ~SameShape(route) \/ (Fails(route) # {} /\ route.path[first].kind = "literal")
    BY <1>1, <1>6
  <2> QED BY <1>3, <1>4, <2>1 DEF Matches
<1>7. ASSUME Match(route) = "invalid" PROVE Rejects(route)
  <2>1. SameShape(route)
    BY <1>1, <1>7
  <2>2. CASE Fails(route) = {}
    BY <1>1, <1>7, <2>1, <2>2 DEF Rejects
  <2>3. CASE Fails(route) # {}
    <3>1. first \in Fails(route) /\ route.path[first].kind = "parameter"
      BY <1>1, <1>4, <1>7, <2>3
    <3>2. \A j \in 1 .. first - 1 : j \notin Fails(route)
      <4>1. first \in Nat /\ \A j \in Fails(route) : first <= j
        BY <1>3, <1>4, <2>3
      <4> QED BY <4>1
    <3> QED BY <2>1, <3>1, <3>2 DEF Rejects
  <2> QED BY <2>2, <2>3
<1> QED BY <1>5, <1>6, <1>7 DEF route

\* The candidates are numbered from one.
LEMMA RoutesAreNumbered ==
    ASSUME input \in Inputs
    PROVE  /\ Len(routes) \in Nat
           /\ DOMAIN routes = 1 .. Len(routes)
<1>1. routes \in Seq(Range(routes))
  BY MatchingAssumption DEF routes, IsSequence
<1> QED BY <1>1

LEMMA RoutesAreTyped ==
    ASSUME input \in Inputs, NEW k \in DOMAIN routes
    PROVE  /\ IsTemplate(routes[k].path) /\ IsTemplate(routes[k].subject)
           /\ \A name \in DOMAIN routes[k].parameters :
                routes[k].parameters[name].pattern \in Expressions
BY MatchingAssumption DEF routes

\* Two templates that match the path of one request overlap.
LEMMA MatchingPathsOverlap ==
    ASSUME input \in Inputs, NEW i \in DOMAIN routes, NEW j \in DOMAIN routes,
           Matches(routes[i]), Matches(routes[j])
    PROVE  pathsOverlap(routes[i].path, routes[j].path)
<1> DEFINE left == routes[i].path
           right == routes[j].path
<1>1. left \in Seq(Range(left)) /\ right \in Seq(Range(right))
  BY RoutesAreTyped DEF IsTemplate, IsSequence
<1>2. Len(left) = Len(right)
  BY DEF Matches, SameShape
<1>3. DOMAIN left = DOMAIN right
  <2> HIDE DEF left, right
  <2> QED BY <1>1, <1>2
<1>4. ASSUME NEW k \in DOMAIN left, left[k].kind = "literal", right[k].kind = "literal"
      PROVE  left[k] = right[k]
  <2>1. k \in DOMAIN right
    BY <1>3
  <2>2. Takes(routes[i], k) /\ Takes(routes[j], k)
    BY <1>4, <2>1 DEF Matches
  <2>3. left[k].name = right[k].name
    BY <2>2, <1>4 DEF Takes
  <2>4. /\ left[k] \in {Literal(left[k].name), Parameter(left[k].name)}
        /\ right[k] \in {Literal(right[k].name), Parameter(right[k].name)}
    BY <2>1, RoutesAreTyped DEF IsTemplate
  <2>5. left[k] = Literal(left[k].name) /\ right[k] = Literal(right[k].name)
    <3> HIDE DEF left, right
    <3> QED BY <2>4, <1>4 DEF Literal, Parameter
  <2> QED BY <2>3, <2>5
<1> QED BY <1>2, <1>4 DEF pathsOverlap

\* No two routes of an accepted configuration match one request.
LEMMA MatchingIsUnique ==
    ASSUME input \in Inputs, Valid,
           NEW i \in DOMAIN routes, NEW j \in DOMAIN routes,
           Matches(routes[i]), Matches(routes[j])
    PROVE  i = j
<1>1. methodsOverlap(routes[i].methods, routes[j].methods) /\ methodsOverlap(routes[j].methods, routes[i].methods)
  BY DEF Matches, SameShape, methodsOverlap
<1>2. pathsOverlap(routes[i].path, routes[j].path) /\ pathsOverlap(routes[j].path, routes[i].path)
  BY MatchingPathsOverlap
<1>3. i \notin 1 .. j - 1 /\ j \notin 1 .. i - 1
  BY <1>1, <1>2, Zenon DEF Valid, validateRoutes
<1>4. i \in 1 .. Len(routes) /\ j \in 1 .. Len(routes) /\ Len(routes) \in Nat
  BY RoutesAreNumbered
<1> HIDE DEF routes
<1> QED BY <1>3, <1>4

\* The invariant gives the property.
LEMMA InvariantMeansOne ==
    ASSUME MatchingInvariant
    PROVE  OneRouteAccepts
<1> DEFINE matching == {i \in DOMAIN routes : Matches(routes[i])}
<1> SUFFICES ASSUME phase # "validate", outcome # "rejected"
             PROVE  /\ Cardinality(matching) <= 1
                    /\ outcome = "subject" => matching = {next} /\ Accepts(routes[next])
                    /\ outcome = "fallthrough" => matching = {}
                    /\ outcome = "bad request" =>
                        Rejects(routes[next]) /\ \A i \in matching : next <= i
  BY DEF OneRouteAccepts
<1>1. input \in Inputs /\ Valid
  BY DEF MatchingInvariant
<1>2. \A i, j \in matching : i = j
  BY <1>1, MatchingIsUnique
<1>3. Cardinality(matching) <= 1
  <2> HIDE DEF matching
  <2>1. CASE matching = {}
    BY <2>1, FS_EmptySet
  <2>2. CASE matching # {}
    <3>1. PICK x : x \in matching
      BY <2>2
    <3>2. matching = {x}
      BY <3>1, <1>2
    <3>3. Cardinality({x}) = 1
      BY FS_Singleton
    <3> QED BY <3>2, <3>3
  <2> QED BY <2>1, <2>2
\* The candidates that are left behind do not match.
<1>4. ASSUME NEW i \in matching PROVE i \in Nat /\ i <= Len(routes) /\ next <= i
  <2>1. i \in 1 .. Len(routes) /\ Len(routes) \in Nat /\ next \in Nat
    BY <1>1, RoutesAreNumbered DEF MatchingInvariant
  <2>2. Match(routes[i]) # "no"
    BY <1>1, MatchMeans
  <2>3. i \notin 1 .. next - 1
    BY <2>2 DEF MatchingInvariant
  <2> HIDE DEF routes, matching
  <2> QED BY <2>1, <2>3
<1>5. outcome = "subject" => matching = {next} /\ Accepts(routes[next])
  <2> SUFFICES ASSUME outcome = "subject" PROVE matching = {next} /\ Accepts(routes[next])
    OBVIOUS
  <2>1. next \in matching /\ Accepts(routes[next])
    BY <1>1, MatchMeans DEF MatchingInvariant
  <2> HIDE DEF matching
  <2> QED BY <2>1, <1>2
<1>6. outcome = "fallthrough" => matching = {}
  <2> SUFFICES ASSUME outcome = "fallthrough", NEW i \in matching PROVE FALSE
    OBVIOUS
  <2>1. next \in Nat /\ next > Len(routes) /\ Len(routes) \in Nat
    BY <1>1, RoutesAreNumbered DEF MatchingInvariant
  <2>2. i \in Nat /\ i <= Len(routes) /\ next <= i
    BY <1>4
  <2> HIDE DEF routes
  <2> QED BY <2>1, <2>2
<1>7. outcome = "bad request" => Rejects(routes[next])
  BY <1>1, MatchMeans DEF MatchingInvariant
<1> HIDE DEF matching
<1> QED BY <1>3, <1>4, <1>5, <1>6, <1>7

\* Nothing that matching reads changes while the input stays.
LEMMA MatchingReadsInput ==
    ASSUME input' = input
    PROVE  /\ routes' = routes
           /\ Valid' <=> Valid
           /\ \A k : Match(routes[k])' = Match(routes[k])
<1>1. routes' = routes /\ request' = request
  BY DEF routes, request
<1>2. Valid' <=> Valid
  BY <1>1 DEF Valid, validateRoutes
<1>3. ASSUME NEW k PROVE Match(routes[k])' = Match(routes[k])
  BY <1>1 DEF Match, SameShape, Fails, Takes, QueryTaken
<1> QED BY <1>1, <1>2, <1>3

LEMMA MatchingStep ==
    ASSUME MatchingInvariant, [Next]_vars
    PROVE  MatchingInvariant'
<1>1. input' = input
  BY DEF Next, Validate, TryCandidate, FallThrough, vars
<1>2. /\ routes' = routes
      /\ Valid' <=> Valid
      /\ \A k : Match(routes[k])' = Match(routes[k])
  BY <1>1, MatchingReadsInput
<1>3. CASE UNCHANGED vars
  BY <1>2, <1>3, Zenon DEF MatchingInvariant, vars
<1>4. CASE Validate
  <2>1. phase = "validate" /\ outcome = None /\ next' = next
    BY <1>4 DEF Validate, MatchingInvariant
  <2>2. CASE Valid /\ phase' = "serve" /\ UNCHANGED outcome
    BY <1>1, <1>2, <2>1, <2>2, MatchingAssumption DEF MatchingInvariant
  <2>3. CASE ~Valid /\ End("rejected")
    BY <1>1, <1>2, <2>1, <2>3 DEF MatchingInvariant, End
  <2> QED BY <1>4, <2>2, <2>3 DEF Validate
<1>5. CASE TryCandidate
  <2>1. phase = "serve" /\ next <= Len(routes) /\ outcome = None /\ Valid
    BY <1>5, MatchingAssumption DEF TryCandidate, MatchingInvariant
  <2>2. next \in DOMAIN routes
    <3>1. Len(routes) \in Nat /\ DOMAIN routes = 1 .. Len(routes)
      BY RoutesAreNumbered DEF MatchingInvariant
    <3>2. next \in Nat /\ next >= 1
      BY <1>5 DEF MatchingInvariant
    <3> QED BY <2>1, <3>1, <3>2
  <2>3. CASE Match(routes[next]) = "no" /\ next' = next + 1 /\ UNCHANGED <<phase, outcome, result>>
    <3>1. next' \in Nat /\ next' >= 1 /\ \A j \in 1 .. next' - 1 : j \in 1 .. next - 1 \/ j = next
      <4>1. next \in Nat /\ next >= 1 /\ next' = next + 1
        BY <2>3 DEF MatchingInvariant
      <4> QED BY <4>1
    <3>2. \A j \in 1 .. next' - 1 : Match(routes[j]) = "no"
      BY <2>3, <3>1 DEF MatchingInvariant
    <3>3. None \notin {"rejected", "bad request", "fallthrough", "subject"}
      BY MatchingAssumption
    <3>4. \A j \in 1 .. next' - 1 : Match(routes[j])' = "no"
      BY <1>2, <3>2
    <3> QED BY <1>1, <1>2, <2>1, <2>3, <3>1, <3>3, <3>4, Zenon DEF MatchingInvariant
  <2>4. CASE Match(routes[next]) = "invalid" /\ End("bad request") /\ UNCHANGED <<next, result>>
    BY <1>1, <1>2, <2>1, <2>2, <2>4 DEF MatchingInvariant, End
  <2>5. CASE Match(routes[next]) = "yes" /\ End("subject") /\ UNCHANGED next
    BY <1>1, <1>2, <2>1, <2>2, <2>5 DEF MatchingInvariant, End
  <2> QED BY <1>5, <2>3, <2>4, <2>5 DEF TryCandidate
<1>6. CASE FallThrough
  <2>1. phase = "serve" /\ next > Len(routes) /\ outcome = None /\ Valid
    BY <1>6, MatchingAssumption DEF FallThrough, MatchingInvariant
  <2> QED BY <1>1, <1>2, <1>6, <2>1 DEF FallThrough, MatchingInvariant, End
<1> QED BY <1>3, <1>4, <1>5, <1>6 DEF Next

LEMMA MatchingStart ==
    ASSUME Init
    PROVE  MatchingInvariant
<1>1. next \in Nat /\ next >= 1 /\ \A j \in 1 .. next - 1 : FALSE
  BY DEF Init
<1>2. None \notin {"bad request", "fallthrough", "subject"}
  BY MatchingAssumption
<1> QED BY <1>1, <1>2, Zenon DEF Init, MatchingInvariant

\* The declared method and path of at most one route of an accepted configuration
\* match a request; it decides the subject, a request that falls through to Caddy
\* is one that no route matches, and a 400 is for a bad parameter of a route that
\* no matching route comes before (validateRoutes, Route.Match, ServeHTTP).
THEOREM OneRouteDecides == Spec => []OneRouteAccepts
<1>1. Init => MatchingInvariant
  BY MatchingStart
<1>2. MatchingInvariant /\ [Next]_vars => MatchingInvariant'
  BY MatchingStep
<1>3. MatchingInvariant => OneRouteAccepts
  BY InvariantMeansOne
<1> QED BY <1>1, <1>2, <1>3, PTL DEF Spec

----------------------------------------------------------------------------
(* Recursion over a measure.                                               *)

\* What passes from the smaller arguments to each argument holds of all.
LEMMA MeasureInduction ==
    ASSUME NEW D, NEW M \in [D -> Nat], NEW T,
           \A d \in D : (\A c \in D : M[c] < M[d] => c \in T) => d \in T
    PROVE  D \subseteq T
<1> DEFINE bad == {M[d] : d \in D \ T}
<1> SUFFICES ASSUME bad # {} PROVE FALSE
  OBVIOUS
<1>1. PICK m \in bad : \A k \in bad : m <= k
  <2>1. bad \in SUBSET Nat
    OBVIOUS
  <2> HIDE DEF bad
  <2> QED BY <2>1, LeastNumber
<1>2. PICK d \in D \ T : M[d] = m
  OBVIOUS
<1>3. ASSUME NEW c \in D, M[c] < M[d] PROVE c \in T
  <2>1. c \notin T => M[c] \in bad
    OBVIOUS
  <2> HIDE DEF bad
  <2> QED BY <1>1, <1>2, <1>3, <2>1
<1> QED BY <1>2, <1>3

\* G defines f at d from what f is at smaller arguments.
IsLocal(G, D, R, M) ==
    \A f, g \in [D -> R], d \in D :
        (\A c \in D : M[c] < M[d] => f[c] = g[c]) => G[f][d] = G[g][d]

\* A function on the arguments below n, whatever it is elsewhere.
Approximates(f, G, D, R, M, n) ==
    f \in [D -> R] /\ \A d \in D : M[d] < n => f[d] = G[f][d]

LEMMA ApproximationsAgree ==
    ASSUME NEW D, NEW R, NEW M \in [D -> Nat], NEW G, IsLocal(G, D, R, M),
           NEW f, NEW g, NEW m \in Nat, NEW n \in Nat,
           Approximates(f, G, D, R, M, m), Approximates(g, G, D, R, M, n)
    PROVE  \A d \in D : M[d] < m /\ M[d] < n => f[d] = g[d]
<1> DEFINE T == {d \in D : M[d] < m /\ M[d] < n => f[d] = g[d]}
<1>1. ASSUME NEW d \in D, \A c \in D : M[c] < M[d] => c \in T
      PROVE  d \in T
  <2> SUFFICES ASSUME M[d] < m, M[d] < n PROVE f[d] = g[d]
    OBVIOUS
  <2>1. ASSUME NEW c \in D, M[c] < M[d] PROVE f[c] = g[c]
    <3>1. M[c] \in Nat /\ M[d] \in Nat
      OBVIOUS
    <3>2. M[c] < m /\ M[c] < n
      BY <2>1, <3>1
    <3> QED BY <1>1, <2>1, <3>2
  <2>2. f \in [D -> R] /\ g \in [D -> R]
    BY DEF Approximates
  <2>3. G[f][d] = G[g][d]
    BY <2>1, <2>2 DEF IsLocal
  <2> QED BY <2>3 DEF Approximates
<1>2. D \subseteq T
  <2> HIDE DEF T
  <2> QED BY <1>1, MeasureInduction
<1> QED BY <1>2

LEMMA ApproximationsExist ==
    ASSUME NEW D, NEW R, R # {}, NEW M \in [D -> Nat],
           NEW G \in [[D -> R] -> [D -> R]], IsLocal(G, D, R, M)
    PROVE  \A n \in Nat : \E f : Approximates(f, G, D, R, M, n)
<1> DEFINE T == {n \in Nat : \E f : Approximates(f, G, D, R, M, n)}
           I == [n \in Nat |-> n]
<1>1. ASSUME NEW n \in Nat, \A k \in Nat : I[k] < I[n] => k \in T
      PROVE  n \in T
  <2>1. CASE n = 0
    <3>1. PICK r \in R : TRUE
      OBVIOUS
    <3> DEFINE f == [d \in D |-> r]
    <3>2. f \in [D -> R] /\ \A d \in D : ~(M[d] < n)
      BY <2>1
    <3> HIDE DEF f
    <3>3. Approximates(f, G, D, R, M, n)
      BY <3>2 DEF Approximates
    <3> QED BY <3>3
  <2>2. CASE n # 0
    <3>1. n - 1 \in Nat /\ I[n - 1] < I[n]
      BY <2>2
    <3>2. PICK f : Approximates(f, G, D, R, M, n - 1)
      BY <1>1, <3>1
    <3> DEFINE g == G[f]
    <3>3. f \in [D -> R] /\ g \in [D -> R]
      BY <3>2 DEF Approximates
    <3>4. ASSUME NEW d \in D, M[d] < n PROVE g[d] = G[g][d]
      <4>1. ASSUME NEW c \in D, M[c] < M[d] PROVE f[c] = g[c]
        <5>1. M[c] < n - 1
          BY <3>4, <4>1
        <5> QED BY <3>2, <5>1 DEF Approximates
      <4> HIDE DEF g
      <4>2. G[f][d] = G[g][d]
        BY <3>3, <4>1 DEF IsLocal
      <4> QED BY <4>2 DEF g
    <3> HIDE DEF g
    <3>5. Approximates(g, G, D, R, M, n)
      BY <3>3, <3>4 DEF Approximates
    <3> QED BY <3>5
  <2> QED BY <2>1, <2>2
<1>2. Nat \subseteq T
  <2>1. I \in [Nat -> Nat]
    OBVIOUS
  <2> HIDE DEF T, I
  <2> QED BY <1>1, <2>1, MeasureInduction
<1> QED BY <1>2

Descends(G, D, R, M) ==
    R # {} /\ M \in [D -> Nat] /\ G \in [[D -> R] -> [D -> R]] /\ IsLocal(G, D, R, M)

\* A recursive definition whose recursion descends has a solution.
LEMMA RecursionHolds ==
    ASSUME NEW D, NEW R, NEW M, NEW G, Descends(G, D, R, M)
    PROVE  \E f \in [D -> R] : f = G[f]
<1> DEFINE h == [n \in Nat |-> CHOOSE f : Approximates(f, G, D, R, M, n)]
           F == [d \in D |-> h[M[d] + 1][d]]
<1>0. R # {} /\ M \in [D -> Nat] /\ G \in [[D -> R] -> [D -> R]] /\ IsLocal(G, D, R, M)
  BY DEF Descends
<1>1. ASSUME NEW n \in Nat PROVE Approximates(h[n], G, D, R, M, n)
  BY <1>0, ApproximationsExist
<1> HIDE DEF h
<1>2. \A d \in D : M[d] + 1 \in Nat /\ F[d] = h[M[d] + 1][d] /\ h[M[d] + 1] \in [D -> R]
  BY <1>0, <1>1 DEF Approximates
<1>3. F \in [D -> R]
  BY <1>2
<1> HIDE DEF F
<1>4. ASSUME NEW d \in D PROVE F[d] = G[F][d]
  <2> DEFINE f == h[M[d] + 1]
  <2>1. Approximates(f, G, D, R, M, M[d] + 1) /\ f \in [D -> R]
    BY <1>1, <1>2
  <2> HIDE DEF f
  <2>2. ASSUME NEW c \in D, M[c] < M[d] PROVE f[c] = F[c]
    <3>1. Approximates(h[M[c] + 1], G, D, R, M, M[c] + 1)
      BY <1>0, <1>1
    <3>2. M[c] \in Nat /\ M[d] \in Nat /\ M[c] + 1 \in Nat /\ M[d] + 1 \in Nat
      BY <1>0
    <3>3. M[c] < M[c] + 1 /\ M[c] < M[d] + 1
      BY <2>2, <3>2
    <3>4. f[c] = h[M[c] + 1][c]
      BY <1>0, <2>1, <3>1, <3>2, <3>3, ApproximationsAgree
    <3> QED BY <1>2, <3>4
  <2>3. G[f][d] = G[F][d]
    BY <1>0, <1>3, <2>1, <2>2 DEF IsLocal
  <2>4. f[d] = G[f][d]
    <3>1. M[d] < M[d] + 1
      BY <1>0
    <3> QED BY <2>1, <3>1 DEF Approximates
  <2>5. F[d] = f[d]
    BY <1>2 DEF f
  <2> QED BY <2>3, <2>4, <2>5
<1>5. G[F] \in [D -> R]
  BY <1>0, <1>3
<1>6. F = G[F]
  BY <1>3, <1>4, <1>5
<1> QED BY <1>3, <1>6

----------------------------------------------------------------------------
(* Concatenation and sums.                                                 *)

LEMMA PartsFlattened ==
    ASSUME NEW S, NEW s \in Seq(Seq(S)), Len(s) # 0
    PROVE  \E f \in [1 .. Len(s) -> Seq(S)] :
              /\ \A i \in 1 .. Len(s) : f[i] = IF i = 1 THEN s[i] ELSE f[i - 1] \o s[i]
              /\ FlattenSeq(s) = f[Len(s)]
<1> DEFINE D == 1 .. Len(s)
           R == Seq(S)
           M == [i \in D |-> i]
           G == [f \in [D -> R] |-> [i \in D |-> IF i = 1 THEN s[i] ELSE f[i - 1] \o s[i]]]
           F == CHOOSE f : f = [i \in D |-> IF i = 1 THEN s[i] ELSE f[i - 1] \o s[i]]
<1>1. Len(s) \in Nat /\ \A i \in D : s[i] \in R
  OBVIOUS
<1>2. M \in [D -> Nat] /\ R # {}
  <2>1. <<>> \in R
    OBVIOUS
  <2> QED BY <1>1, <2>1
<1>3. \A i \in D : i # 1 => i - 1 \in D /\ M[i - 1] < M[i]
  BY <1>1
<1>4. \A f \in [D -> R] : \A i \in D : (IF i = 1 THEN s[i] ELSE f[i - 1] \o s[i]) \in R
  <2> SUFFICES ASSUME NEW f \in [D -> R], NEW i \in D, i # 1 PROVE f[i - 1] \o s[i] \in R
    BY <1>1
  <2>1. f[i - 1] \in R /\ s[i] \in R
    BY <1>1, <1>3
  <2> HIDE DEF D
  <2> QED BY <2>1, ConcatProperties
<1>5. G \in [[D -> R] -> [D -> R]]
  <2> HIDE DEF D, R
  <2> QED BY <1>4
<1>6. \A f \in [D -> R], i \in D : G[f][i] = IF i = 1 THEN s[i] ELSE f[i - 1] \o s[i]
  <2> HIDE DEF D, R
  <2> QED OBVIOUS
<1> HIDE DEF G, M
<1>7. IsLocal(G, D, R, M)
  <2> HIDE DEF D, R
  <2>1. ASSUME NEW f \in [D -> R], NEW g \in [D -> R], NEW i \in D,
               \A c \in D : M[c] < M[i] => f[c] = g[c]
        PROVE  G[f][i] = G[g][i]
    <3>1. i # 1 => f[i - 1] = g[i - 1]
      BY <1>3, <2>1
    <3> QED BY <1>6, <3>1
  <2> QED BY <2>1 DEF IsLocal
<1>8. PICK f \in [D -> R] : f = G[f]
  <2> HIDE DEF D, R
  <2>1. Descends(G, D, R, M)
    BY <1>2, <1>5, <1>7 DEF Descends
  <2> QED BY <2>1, RecursionHolds
<1>9. f = [i \in D |-> IF i = 1 THEN s[i] ELSE f[i - 1] \o s[i]]
  <2> HIDE DEF D, R
  <2>1. G[f] = [i \in D |-> IF i = 1 THEN s[i] ELSE f[i - 1] \o s[i]]
    BY DEF G
  <2> QED BY <1>8, <2>1
<1>10. F = [i \in D |-> IF i = 1 THEN s[i] ELSE F[i - 1] \o s[i]]
  <2> HIDE DEF D, R
  <2> QED BY <1>9
<1>11. FlattenSeq(s) = F[Len(s)]
  <2>1. FlattenSeq(s) = IF Len(s) = 0 THEN s ELSE
          LET flatten[i \in 1 .. Len(s)] == IF i = 1 THEN s[i] ELSE flatten[i - 1] \o s[i]
          IN  flatten[Len(s)]
    BY DEF FlattenSeq
  <2> QED BY <2>1
<1> HIDE DEF F
<1> DEFINE T == {i \in D : F[i] \in R}
<1>12. ASSUME NEW i \in D, \A c \in D : M[c] < M[i] => c \in T
       PROVE  i \in T
  <2>1. F[i] = IF i = 1 THEN s[i] ELSE F[i - 1] \o s[i]
    BY <1>10
  <2>2. i # 1 => F[i - 1] \in R
    BY <1>3, <1>12
  <2>3. i # 1 => F[i - 1] \o s[i] \in R
    <3> HIDE DEF D
    <3> QED BY <1>1, <2>2, ConcatProperties
  <2>4. F[i] \in R
    <3> HIDE DEF D, R
    <3> QED BY <1>1, <2>1, <2>3
  <2> QED BY <2>4
<1>13. D \subseteq T
  <2> HIDE DEF D, R, T
  <2> QED BY <1>2, <1>12, MeasureInduction
<1>14. F \in [D -> R]
  <2> HIDE DEF D, R
  <2> QED BY <1>10, <1>13
<1>15. \A i \in D : F[i] = IF i = 1 THEN s[i] ELSE F[i - 1] \o s[i]
  <2> HIDE DEF D, R
  <2> QED BY <1>10
<1> QED BY <1>11, <1>14, <1>15

\* The concatenation of sequences is a sequence of their elements.
LEMMA FlattenedIsSequence ==
    ASSUME NEW S, NEW s \in Seq(Seq(S))
    PROVE  FlattenSeq(s) \in Seq(S)
<1>1. CASE Len(s) = 0
  <2>1. s = <<>> /\ FlattenSeq(s) = s
    BY <1>1 DEF FlattenSeq
  <2>2. <<>> \in Seq(S)
    OBVIOUS
  <2> QED BY <2>1, <2>2
<1>2. CASE Len(s) # 0
  <2>1. PICK f \in [1 .. Len(s) -> Seq(S)] : FlattenSeq(s) = f[Len(s)]
    BY <1>2, PartsFlattened
  <2>2. Len(s) \in 1 .. Len(s)
    BY <1>2
  <2> QED BY <2>1, <2>2
<1> QED BY <1>1, <1>2

LEMMA PrefixGrows ==
    ASSUME NEW S, NEW t \in Seq(S), NEW j \in Nat, j + 1 \in 1 .. Len(t)
    PROVE  [k \in 1 .. j |-> t[k]] \o <<t[j + 1]>> = [k \in 1 .. j + 1 |-> t[k]]
<1> DEFINE a == [k \in 1 .. j |-> t[k]]
           b == [k \in 1 .. j + 1 |-> t[k]]
<1>1. \A k \in 1 .. j + 1 : t[k] \in S /\ (k \in 1 .. j \/ k = j + 1)
  OBVIOUS
<1>2. a \in Seq(S) /\ Len(a) = j /\ \A k \in 1 .. j : a[k] = t[k]
  BY <1>1
<1>3. b \in Seq(S) /\ Len(b) = j + 1 /\ \A k \in 1 .. j + 1 : b[k] = t[k]
  BY <1>1
<1> HIDE DEF a, b
<1>4. a \o <<t[j + 1]>> = Append(a, t[j + 1])
  BY <1>1, <1>2
<1>5. b = Append(a, t[j + 1])
  <2> DEFINE c == Append(a, t[j + 1])
  <2>1. c \in Seq(S) /\ Len(c) = j + 1 /\ c[j + 1] = t[j + 1] /\ \A k \in 1 .. j : c[k] = a[k]
    BY <1>1, <1>2, AppendProperties
  <2> HIDE DEF c
  <2>2. \A k \in 1 .. j + 1 : b[k] = c[k]
    BY <1>1, <1>2, <1>3, <2>1
  <2> QED BY <1>3, <2>1, <2>2 DEF c
<1> QED BY <1>4, <1>5 DEF a, b

\* Tokens put side by side.
LEMMA SingletonsFlattened ==
    ASSUME NEW S, NEW t \in Seq(S)
    PROVE  FlattenSeq([i \in 1 .. Len(t) |-> <<t[i]>>]) = t
<1> DEFINE n == Len(t)
           One(i) == <<t[i]>>
           s == [i \in 1 .. n |-> One(i)]
<1>1. n \in Nat /\ t = [i \in 1 .. n |-> t[i]] /\ \A i \in 1 .. n : t[i] \in S
  OBVIOUS
<1>2. \A i \in 1 .. n : One(i) \in Seq(S)
  BY <1>1
<1> HIDE DEF n, One
<1>3. s \in Seq(Seq(S)) /\ Len(s) = n /\ \A i \in 1 .. n : s[i] = One(i)
  <2>1. DOMAIN s = 1 .. n /\ \A i \in 1 .. n : s[i] = One(i)
    OBVIOUS
  <2>2. s \in [1 .. n -> Seq(S)]
    BY <1>2
  <2> HIDE DEF s
  <2>3. s \in Seq(Seq(S)) /\ Len(s) = n
    <3>1. ASSUME NEW T, s \in [1 .. n -> T] PROVE s \in Seq(T) /\ Len(s) = n
      BY <1>1, <3>1
    <3> QED BY <2>2, <3>1
  <2> QED BY <2>1, <2>3
<1> SUFFICES FlattenSeq(s) = t
  BY DEF One, n
<1> HIDE DEF s
<1>4. CASE n = 0
  <2>1. s = <<>> /\ t = <<>>
    BY <1>1, <1>3, <1>4 DEF n
  <2>2. FlattenSeq(s) = s
    BY <1>3, <1>4 DEF FlattenSeq
  <2> QED BY <2>1, <2>2
<1>5. CASE n # 0
  <2>1. PICK f \in [1 .. n -> Seq(S)] :
           /\ \A i \in 1 .. n : f[i] = IF i = 1 THEN s[i] ELSE f[i - 1] \o s[i]
           /\ FlattenSeq(s) = f[n]
    BY <1>3, <1>5, PartsFlattened
  <2> DEFINE T == {i \in 1 .. n : f[i] = [k \in 1 .. i |-> t[k]]}
             M == [i \in 1 .. n |-> i]
  <2>2. ASSUME NEW i \in 1 .. n, \A c \in 1 .. n : M[c] < M[i] => c \in T
        PROVE  i \in T
    <3>1. CASE i = 1
      <4>1. f[i] = One(1)
        BY <1>3, <2>1, <3>1
      <4>2. One(1) = [k \in 1 .. 1 |-> t[k]]
        BY DEF One
      <4> QED BY <3>1, <4>1, <4>2
    <3>2. CASE i # 1
      <4> DEFINE j == i - 1
      <4>1. j \in 1 .. n /\ M[j] < M[i] /\ j \in Nat /\ j + 1 = i
        BY <1>1, <3>2
      <4>2. f[j] = [k \in 1 .. j |-> t[k]]
        BY <2>2, <4>1
      <4>3. f[i] = f[j] \o One(i)
        BY <1>3, <2>1, <3>2
      <4> HIDE DEF j, T, M
      <4>4. [k \in 1 .. j |-> t[k]] \o <<t[j + 1]>> = [k \in 1 .. j + 1 |-> t[k]]
        BY <4>1, PrefixGrows DEF n
      <4>5. f[i] = [k \in 1 .. i |-> t[k]]
        BY <4>1, <4>2, <4>3, <4>4 DEF One
      <4> QED BY <4>5 DEF T
    <3> QED BY <3>1, <3>2
  <2>3. 1 .. n \subseteq T
    <3> DEFINE D == 1 .. n
    <3>1. M \in [D -> Nat]
      BY <1>1
    <3>2. \A i \in D : (\A c \in D : M[c] < M[i] => c \in T) => i \in T
      BY <2>2
    <3> HIDE DEF T, M, D
    <3>3. D \subseteq T
      BY <3>1, <3>2, MeasureInduction
    <3> QED BY <3>3 DEF D
  <2>4. n \in 1 .. n
    BY <1>1, <1>5
  <2>5. f[n] = t
    BY <1>1, <2>3, <2>4
  <2> QED BY <2>1, <2>5
<1> QED BY <1>4, <1>5

LEMMA TotalAdds ==
    ASSUME NEW s \in Seq(Nat)
    PROVE  /\ Total(s) \in [0 .. Len(s) -> Nat] /\ Total(s)[0] = 0
           /\ \A k \in 1 .. Len(s) : Total(s)[k] = Total(s)[k - 1] + s[k]
<1> DEFINE D == 0 .. Len(s)
           M == [k \in D |-> k]
           G == [f \in [D -> Nat] |-> [k \in D |-> IF k = 0 THEN 0 ELSE f[k - 1] + s[k]]]
<1>1. Len(s) \in Nat /\ \A k \in 1 .. Len(s) : s[k] \in Nat
  OBVIOUS
<1>2. M \in [D -> Nat] /\ \A k \in D : k # 0 => k - 1 \in D /\ M[k - 1] < M[k] /\ k \in 1 .. Len(s)
  BY <1>1
<1>3. \A f \in [D -> Nat] : \A k \in D : (IF k = 0 THEN 0 ELSE f[k - 1] + s[k]) \in Nat
  <2> SUFFICES ASSUME NEW f \in [D -> Nat], NEW k \in D, k # 0 PROVE f[k - 1] + s[k] \in Nat
    OBVIOUS
  <2>1. f[k - 1] \in Nat /\ s[k] \in Nat
    BY <1>1, <1>2
  <2> QED BY <2>1
<1>4. G \in [[D -> Nat] -> [D -> Nat]]
  <2> HIDE DEF D
  <2> QED BY <1>3
<1>5. \A f \in [D -> Nat], k \in D : G[f][k] = IF k = 0 THEN 0 ELSE f[k - 1] + s[k]
  <2> HIDE DEF D
  <2> QED OBVIOUS
<1> HIDE DEF G, M
<1>6. IsLocal(G, D, Nat, M)
  <2> HIDE DEF D
  <2>1. ASSUME NEW f \in [D -> Nat], NEW g \in [D -> Nat], NEW k \in D,
               \A c \in D : M[c] < M[k] => f[c] = g[c]
        PROVE  G[f][k] = G[g][k]
    <3>1. k # 0 => f[k - 1] = g[k - 1]
      BY <1>2, <2>1
    <3> QED BY <1>5, <3>1
  <2> QED BY <2>1 DEF IsLocal
<1>7. PICK f \in [D -> Nat] : f = G[f]
  <2> HIDE DEF D
  <2>1. Descends(G, D, Nat, M)
    BY <1>2, <1>4, <1>6 DEF Descends
  <2> QED BY <2>1, RecursionHolds
<1>8. f = [k \in D |-> IF k = 0 THEN 0 ELSE f[k - 1] + s[k]]
  <2> HIDE DEF D
  <2>1. G[f] = [k \in D |-> IF k = 0 THEN 0 ELSE f[k - 1] + s[k]]
    BY DEF G
  <2> QED BY <1>7, <2>1
<1>9. Total(s) = CHOOSE g : g = [k \in D |-> IF k = 0 THEN 0 ELSE g[k - 1] + s[k]]
  BY DEF Total
<1>10. Total(s) = [k \in D |-> IF k = 0 THEN 0 ELSE Total(s)[k - 1] + s[k]]
  <2> HIDE DEF D
  <2> QED BY <1>8, <1>9
<1> DEFINE t == Total(s)
<1> HIDE DEF t
<1>11. t = [k \in D |-> IF k = 0 THEN 0 ELSE t[k - 1] + s[k]]
  BY <1>10 DEF t
<1> DEFINE T == {k \in D : t[k] \in Nat}
<1>12. ASSUME NEW k \in D, \A c \in D : M[c] < M[k] => c \in T
       PROVE  k \in T
  <2>1. t[k] = IF k = 0 THEN 0 ELSE t[k - 1] + s[k]
    BY <1>11
  <2>2. k # 0 => t[k - 1] \in Nat /\ s[k] \in Nat
    BY <1>1, <1>2, <1>12
  <2> QED BY <2>1, <2>2
<1>13. D \subseteq T
  <2> HIDE DEF D, T
  <2> QED BY <1>2, <1>12, MeasureInduction
<1>14. t \in [D -> Nat]
  <2> HIDE DEF D
  <2> QED BY <1>11, <1>13
<1>15. 0 \in D /\ \A k \in 1 .. Len(s) : k \in D /\ k # 0
  BY <1>1
<1>16. t[0] = 0 /\ \A k \in 1 .. Len(s) : t[k] = t[k - 1] + s[k]
  <2> HIDE DEF D
  <2> QED BY <1>11, <1>15
<1> QED BY <1>14, <1>16 DEF t

----------------------------------------------------------------------------
(* What safePatternMinimumLength computes.                                 *)

Lengths == Nat \cup {Unsafe}

\* The minima of the parts, when f says what they are.
Minima(f, e) == [k \in DOMAIN e.sub |-> f[e.sub[k]]]

LEMMA PartsAreTyped ==
    ASSUME NEW e \in Expressions
    PROVE  /\ Len(e.sub) \in Nat /\ DOMAIN e.sub = 1 .. Len(e.sub)
           /\ Len(e.runes) \in Nat /\ DOMAIN e.runes = 1 .. Len(e.runes)
           /\ e.min \in Nat /\ e.max \in Nat /\ Size[e] \in Nat /\ Turns(e) \in Nat
           /\ \A k \in DOMAIN e.sub :
                e.sub[k] \in Expressions /\ Size[e.sub[k]] + Turns(e.sub[k]) < Size[e]
           /\ e.op \in Loops \cup {"capture"} => Len(e.sub) = 1
           /\ e.op = "alternate" => Len(e.sub) # 0
           /\ e.op = "plus" => e.min = 1
<1>1. e.sub \in Seq(Range(e.sub)) /\ e.runes \in Seq(Range(e.runes))
  BY PatternsAssumption DEF IsSequence
<1>2. /\ e.min \in Nat /\ e.max \in Nat /\ Size[e] \in Nat
      /\ \A k \in DOMAIN e.sub :
            e.sub[k] \in Expressions /\ Size[e.sub[k]] + Turns(e.sub[k]) < Size[e]
      /\ e.op \in Loops \cup {"capture"} => Len(e.sub) = 1
      /\ e.op = "alternate" => e.sub # <<>>
      /\ e.op = "plus" => e.min = 1
  BY PatternsAssumption
<1>3. /\ Len(e.sub) \in Nat /\ DOMAIN e.sub = 1 .. Len(e.sub)
      /\ Len(e.runes) \in Nat /\ DOMAIN e.runes = 1 .. Len(e.runes)
  BY <1>1
<1>4. Turns(e) \in Nat
  BY <1>2, <1>3 DEF Turns
<1>5. e.sub # <<>> => Len(e.sub) # 0
  BY <1>1
<1> QED BY <1>2, <1>3, <1>4, <1>5

LEMMA MinimaAreTyped ==
    ASSUME NEW f \in [Expressions -> Lengths], NEW e \in Expressions
    PROVE  /\ Minima(f, e) \in Seq(Lengths) /\ Len(Minima(f, e)) = Len(e.sub)
           /\ \A k \in 1 .. Len(e.sub) : Minima(f, e)[k] = f[e.sub[k]]
           /\ Unsafe \notin Range(Minima(f, e)) => Minima(f, e) \in Seq(Nat)
<1> DEFINE n == Len(e.sub)
           m == Minima(f, e)
<1>1. n \in Nat /\ DOMAIN e.sub = 1 .. n /\ \A k \in 1 .. n : e.sub[k] \in Expressions
  BY PartsAreTyped
<1>2. m = [k \in 1 .. n |-> f[e.sub[k]]] /\ \A k \in 1 .. n : f[e.sub[k]] \in Lengths
  BY <1>1 DEF Minima
<1> HIDE DEF m, n
<1>3. m \in Seq(Lengths) /\ Len(m) = n /\ DOMAIN m = 1 .. n /\ \A k \in 1 .. n : m[k] = f[e.sub[k]] /\ m[k] \in Lengths
  BY <1>1, <1>2
<1>4. ASSUME Unsafe \notin Range(m) PROVE m \in Seq(Nat)
  <2>1. \A k \in 1 .. n : m[k] \in Nat
    BY <1>3, <1>4 DEF Range, Lengths
  <2>2. m = [k \in 1 .. n |-> m[k]]
    BY <1>2, <1>3
  <2> QED BY <1>1, <2>1, <2>2
<1> QED BY <1>3, <1>4 DEF m, n

LEMMA LeastOfNumbers ==
    ASSUME NEW s \in Seq(Nat), Len(s) # 0
    PROVE  Min(Range(s)) \in Nat /\ \A k \in 1 .. Len(s) : Min(Range(s)) <= s[k]
<1> DEFINE S == Range(s)
<1>1. Len(s) \in 1 .. Len(s) /\ \A k \in 1 .. Len(s) : s[k] \in S /\ s[k] \in Nat
  BY DEF Range
<1>2. S \in SUBSET Nat /\ S # {}
  BY <1>1 DEF Range
<1> HIDE DEF S
<1>3. \E x \in S : \A y \in S : x <= y
  BY <1>2, LeastNumber
<1>4. Min(S) \in S /\ \A y \in S : Min(S) <= y
  BY <1>3 DEF Min
<1> QED BY <1>1, <1>2, <1>4 DEF S

LEMMA MinimumIsLength ==
    ASSUME NEW f \in [Expressions -> Lengths], NEW e \in Expressions
    PROVE  MinimumLength(e, Minima(f, e)) \in Lengths
<1> DEFINE m == Minima(f, e)
<1> HIDE DEF m
<1> SUFFICES ASSUME Unsafe \notin Range(m) PROVE MinimumLength(e, m) \in Lengths
  BY DEF MinimumLength, Lengths, m
<1>1. m \in Seq(Nat) /\ Len(m) = Len(e.sub)
  BY MinimaAreTyped DEF m
<1>2. Len(e.runes) \in Nat /\ e.min \in Nat
  BY PartsAreTyped
<1>3. e.op \in {"capture", "plus", "repeat"} => m[1] \in Nat
  <2>1. e.op \in {"capture", "plus", "repeat"} => Len(e.sub) = 1
    BY PartsAreTyped DEF Loops
  <2> QED BY <1>1, <2>1
<1>4. e.op = "alternate" => Shortest(m) \in Nat
  <2>1. e.op = "alternate" => Len(m) # 0
    BY <1>1, PartsAreTyped
  <2> QED BY <1>1, <2>1, LeastOfNumbers DEF Shortest
<1>5. Total(m)[Len(m)] \in Nat
  <2>1. Total(m) \in [0 .. Len(m) -> Nat]
    BY <1>1, TotalAdds
  <2>2. Len(m) \in 0 .. Len(m)
    BY <1>1
  <2> QED BY <2>1, <2>2
<1>6. e.op = "repeat" => e.min * m[1] \in Nat
  BY <1>2, <1>3
<1> HIDE DEF Shortest
<1> QED BY <1>2, <1>3, <1>4, <1>5, <1>6 DEF MinimumLength, Lengths, Anchors

LEMMA MinimumDefined ==
    /\ safePatternMinimumLength \in [Expressions -> Lengths]
    /\ \A e \in Expressions :
        safePatternMinimumLength[e] = MinimumLength(e, Minima(safePatternMinimumLength, e))
<1> DEFINE M == [e \in Expressions |-> Size[e]]
           G == [f \in [Expressions -> Lengths] |-> [e \in Expressions |-> MinimumLength(e, Minima(f, e))]]
           F == safePatternMinimumLength
<1>1. M \in [Expressions -> Nat] /\ Lengths # {}
  BY PartsAreTyped DEF Lengths
<1>2. G \in [[Expressions -> Lengths] -> [Expressions -> Lengths]]
  BY MinimumIsLength
<1>3. IsLocal(G, Expressions, Lengths, M)
  <2>1. ASSUME NEW f \in [Expressions -> Lengths], NEW g \in [Expressions -> Lengths], NEW e \in Expressions,
               \A c \in Expressions : M[c] < M[e] => f[c] = g[c]
        PROVE  G[f][e] = G[g][e]
    <3>1. ASSUME NEW k \in DOMAIN e.sub PROVE f[e.sub[k]] = g[e.sub[k]]
      <4>1. e.sub[k] \in Expressions /\ Size[e.sub[k]] + Turns(e.sub[k]) < Size[e]
        BY PartsAreTyped
      <4>2. Size[e.sub[k]] \in Nat /\ Turns(e.sub[k]) \in Nat /\ Size[e] \in Nat
        BY <4>1, PartsAreTyped
      <4>3. M[e.sub[k]] < M[e]
        BY <4>1, <4>2
      <4> QED BY <2>1, <4>1, <4>3
    <3>2. Minima(f, e) = Minima(g, e)
      BY <3>1 DEF Minima
    <3> QED BY <3>2
  <2> HIDE DEF G, M
  <2> QED BY <2>1 DEF IsLocal
<1>4. PICK f \in [Expressions -> Lengths] : f = G[f]
  <2> HIDE DEF G, M
  <2>1. Descends(G, Expressions, Lengths, M)
    BY <1>1, <1>2, <1>3 DEF Descends
  <2> QED BY <2>1, RecursionHolds
<1>5. f = [e \in Expressions |-> MinimumLength(e, Minima(f, e))]
  BY <1>4
<1>6. F = CHOOSE g : g = [e \in Expressions |-> MinimumLength(e, Minima(g, e))]
  BY DEF safePatternMinimumLength, Minima
<1>7. F = [e \in Expressions |-> MinimumLength(e, Minima(F, e))]
  <2> HIDE DEF F
  <2> QED BY <1>5, <1>6
<1> HIDE DEF F
<1> DEFINE T == {e \in Expressions : F[e] \in Lengths}
<1>8. ASSUME NEW e \in Expressions, \A c \in Expressions : M[c] < M[e] => c \in T
      PROVE  e \in T
  <2> DEFINE g == [c \in Expressions |-> IF F[c] \in Lengths THEN F[c] ELSE Unsafe]
  <2>1. g \in [Expressions -> Lengths]
    BY DEF Lengths
  <2>2. ASSUME NEW k \in DOMAIN e.sub PROVE F[e.sub[k]] = g[e.sub[k]]
    <3>1. e.sub[k] \in Expressions /\ Size[e.sub[k]] + Turns(e.sub[k]) < Size[e]
      BY PartsAreTyped
    <3>2. Size[e.sub[k]] \in Nat /\ Turns(e.sub[k]) \in Nat /\ Size[e] \in Nat
      BY <3>1, PartsAreTyped
    <3>3. M[e.sub[k]] < M[e]
      BY <3>1, <3>2
    <3> QED BY <1>8, <3>1, <3>3
  <2> HIDE DEF g
  <2>3. Minima(F, e) = Minima(g, e)
    BY <2>2 DEF Minima
  <2>4. F[e] \in Lengths
    BY <1>7, <2>1, <2>3, MinimumIsLength
  <2> QED BY <2>4
<1>9. Expressions \subseteq T
  <2> HIDE DEF T, M
  <2> QED BY <1>1, <1>8, MeasureInduction
<1>10. F \in [Expressions -> Lengths]
  BY <1>7, <1>9
<1>11. \A e \in Expressions : F[e] = MinimumLength(e, Minima(F, e))
  BY <1>7
<1> QED BY <1>10, <1>11 DEF F

----------------------------------------------------------------------------
(* What a match of a pattern ends at.                                      *)

\* A bound on the places that a match goes through from at.
StepsLeft(at) ==
    Size[at.pattern]
        + IF at.turn < Turns(at.pattern) THEN Turns(at.pattern) - at.turn ELSE 0

LEMMA PlacesAreTyped ==
    /\ \A at \in Places :
        /\ at.pattern \in Expressions /\ at.value \in Values /\ at.from \in Nat /\ at.turn \in Nat
        /\ at = At(at.pattern, at.value, at.from, at.turn)
    /\ \A e \in Expressions, v \in Values, i \in Nat, n \in Nat :
        /\ At(e, v, i, n) \in Places
        /\ At(e, v, i, n).pattern = e /\ At(e, v, i, n).value = v
        /\ At(e, v, i, n).from = i /\ At(e, v, i, n).turn = n
BY DEF Places, At

LEMMA StepsFall ==
    ASSUME NEW at \in Places
    PROVE  /\ StepsLeft(at) \in Nat
           /\ \A k \in DOMAIN at.pattern.sub, i \in Nat :
                /\ At(at.pattern.sub[k], at.value, i, 0) \in Places
                /\ StepsLeft(At(at.pattern.sub[k], at.value, i, 0)) < StepsLeft(at)
           /\ at.turn < Turns(at.pattern) => \A i \in Nat :
                /\ At(at.pattern, at.value, i, at.turn + 1) \in Places
                /\ StepsLeft(At(at.pattern, at.value, i, at.turn + 1)) < StepsLeft(at)
<1> DEFINE e == at.pattern
           n == at.turn
           size == Size[e]
           turns == Turns(e)
<1>1. e \in Expressions /\ at.value \in Values /\ n \in Nat
  BY PlacesAreTyped
<1>2. size \in Nat /\ turns \in Nat
  BY <1>1, PartsAreTyped
<1>3. StepsLeft(at) = size + IF n < turns THEN turns - n ELSE 0
  BY DEF StepsLeft
<1> HIDE DEF size, turns, n
<1>4. StepsLeft(at) \in Nat /\ size <= StepsLeft(at)
  BY <1>1, <1>2, <1>3
<1>5. ASSUME NEW k \in DOMAIN e.sub, NEW i \in Nat
      PROVE  At(e.sub[k], at.value, i, 0) \in Places /\ StepsLeft(At(e.sub[k], at.value, i, 0)) < StepsLeft(at)
  <2> DEFINE p == e.sub[k]
             s == Size[p]
             t == Turns(p)
  <2>1. p \in Expressions /\ s + t < size
    BY <1>1, PartsAreTyped DEF size
  <2>2. s \in Nat /\ t \in Nat
    BY <2>1, PartsAreTyped
  <2>3. At(p, at.value, i, 0) \in Places
    BY <1>1, <2>1, PlacesAreTyped
  <2>4. StepsLeft(At(p, at.value, i, 0)) = s + IF 0 < t THEN t - 0 ELSE 0
    BY DEF StepsLeft, At
  <2> HIDE DEF p, s, t
  <2>5. s + (IF 0 < t THEN t - 0 ELSE 0) = s + t
    BY <2>2
  <2>6. s + t < StepsLeft(at)
    BY <1>2, <1>4, <2>1, <2>2
  <2>7. At(p, at.value, i, 0) \in Places /\ StepsLeft(At(p, at.value, i, 0)) < StepsLeft(at)
    BY <2>3, <2>4, <2>5, <2>6
  <2> QED BY <2>7 DEF p
<1>6. ASSUME n < turns, NEW i \in Nat
      PROVE  At(e, at.value, i, n + 1) \in Places /\ StepsLeft(At(e, at.value, i, n + 1)) < StepsLeft(at)
  <2>1. At(e, at.value, i, n + 1) \in Places
    BY <1>1, PlacesAreTyped
  <2>2. StepsLeft(At(e, at.value, i, n + 1)) = size + IF n + 1 < turns THEN turns - (n + 1) ELSE 0
    BY DEF StepsLeft, At, size, turns
  <2>3. size + (IF n + 1 < turns THEN turns - (n + 1) ELSE 0) < size + (turns - n)
    BY <1>1, <1>2, <1>6
  <2> QED BY <1>3, <1>6, <2>1, <2>2, <2>3
<1> QED BY <1>4, <1>5, <1>6 DEF n, turns

\* A loop that could stop does not go on from where it is.
Stays(at, j) == at.pattern.op \in Loops /\ j = at.from /\ at.turn >= at.pattern.min

\* If a turn leads to positions of P, and the others from there to positions of
\* S, so does the turn with the others.
LEMMA TurnLeads ==
    ASSUME NEW f, NEW at, NEW part, NEW P, NEW S,
           f[At(part, at.value, at.from, 0)] \in Seq(P),
           \A j \in P : ~Stays(at, j) => f[At(at.pattern, at.value, j, at.turn + 1)] \in Seq(S)
    PROVE  Turn(f, at, part) \in Seq(S)
<1> DEFINE moves == f[At(part, at.value, at.from, 0)]
           Onward(j) == f[At(at.pattern, at.value, j, at.turn + 1)]
           Piece(j) == IF Stays(at, j) THEN <<>> ELSE Onward(j)
           pieces == [k \in DOMAIN moves |-> Piece(moves[k])]
<1>1. Turn(f, at, part) = FlattenSeq(pieces)
  BY DEF Turn, Stays
<1>2. \A j \in P : Piece(j) \in Seq(S)
  <2>1. <<>> \in Seq(S)
    OBVIOUS
  <2> HIDE DEF Onward
  <2>2. \A j \in P : ~Stays(at, j) => Onward(j) \in Seq(S)
    BY DEF Onward
  <2> QED BY <2>1, <2>2
<1>3. moves \in Seq(P)
  OBVIOUS
<1> HIDE DEF moves, Piece
<1>4. Len(moves) \in Nat /\ DOMAIN moves = 1 .. Len(moves) /\ \A k \in 1 .. Len(moves) : moves[k] \in P
  BY <1>3
<1>5. \A k \in 1 .. Len(moves) : Piece(moves[k]) \in Seq(S)
  BY <1>2, <1>4
<1>6. pieces = [k \in 1 .. Len(moves) |-> Piece(moves[k])]
  BY <1>4
<1>7. pieces \in Seq(Seq(S))
  <2> HIDE DEF pieces
  <2> QED BY <1>4, <1>5, <1>6
<1> HIDE DEF pieces
<1> QED BY <1>1, <1>7, FlattenedIsSequence

Matched(at) ==
    /\ at.from + Len(at.pattern.runes) <= Len(at.value)
    /\ \A k \in DOMAIN at.pattern.runes : at.value[at.from + k] = at.pattern.runes[k]

\* Where each operation leads, if its parts lead to positions of S.
LEMMA RestLeads ==
    ASSUME NEW f, NEW at \in Places, NEW S,
           at.pattern.op \in {"empty", "begin", "end"} => at.from \in S,
           at.pattern.op = "literal" /\ Matched(at) => at.from + Len(at.pattern.runes) \in S,
           at.pattern.op = "class" /\ at.from < Len(at.value) /\ at.value[at.from + 1] \in Range(at.pattern.runes) =>
                at.from + 1 \in S,
           at.pattern.op = "any" /\ at.from < Len(at.value) => at.from + 1 \in S,
           at.pattern.op = "alternate" =>
                \A k \in DOMAIN at.pattern.sub : f[At(at.pattern.sub[k], at.value, at.from, 0)] \in Seq(S),
           at.pattern.op \in Series /\ at.turn < Len(at.pattern.sub) =>
                Turn(f, at, at.pattern.sub[at.turn + 1]) \in Seq(S),
           at.pattern.op \in Series /\ ~(at.turn < Len(at.pattern.sub)) => at.from \in S,
           at.pattern.op \in Loops /\ at.turn < at.pattern.max => Turn(f, at, at.pattern.sub[1]) \in Seq(S),
           at.pattern.op \in Loops /\ at.turn >= at.pattern.min => at.from \in S
    PROVE  Rest(f, at) \in Seq(S)
<1> DEFINE e == at.pattern
           v == at.value
           i == at.from
           Here(condition) == IF condition THEN <<i>> ELSE <<>>
           branches == [k \in DOMAIN e.sub |-> f[At(e.sub[k], v, i, 0)]]
           again == IF at.turn < e.max THEN Turn(f, at, e.sub[1]) ELSE <<>>
<1>1. <<>> \in Seq(S) /\ \A j \in S : <<j>> \in Seq(S)
  OBVIOUS
<1>2. CASE e.op \in {"empty", "begin", "end"}
  <2>1. <<i>> \in Seq(S)
    BY <1>1, <1>2
  <2>2. Rest(f, at) \in {<<i>>, <<>>}
    BY <1>2 DEF Rest, Series, Loops
  <2> QED BY <1>1, <2>1, <2>2
<1>3. CASE e.op \in {"literal", "class", "any"}
  <2>1. Rest(f, at) =
          CASE e.op = "literal" -> IF Matched(at) THEN <<i + Len(e.runes)>> ELSE <<>>
            [] e.op = "class" -> IF i < Len(v) /\ v[i + 1] \in Range(e.runes) THEN <<i + 1>> ELSE <<>>
            [] e.op = "any" -> IF i < Len(v) THEN <<i + 1>> ELSE <<>>
    BY <1>3 DEF Rest, Matched, Series, Loops
  <2>2. e.op = "literal" /\ Matched(at) => <<i + Len(e.runes)>> \in Seq(S)
    BY <1>1
  <2>3. e.op = "class" /\ i < Len(v) /\ v[i + 1] \in Range(e.runes) => <<i + 1>> \in Seq(S)
    BY <1>1
  <2>4. e.op = "any" /\ i < Len(v) => <<i + 1>> \in Seq(S)
    BY <1>1
  <2> QED BY <1>1, <1>3, <2>1, <2>2, <2>3, <2>4
<1>4. CASE e.op = "alternate"
  <2>1. Rest(f, at) = FlattenSeq(branches)
    BY <1>4 DEF Rest, Series, Loops
  <2>2. Len(e.sub) \in Nat /\ DOMAIN e.sub = 1 .. Len(e.sub)
    BY PlacesAreTyped, PartsAreTyped
  <2> DEFINE B(k) == f[At(e.sub[k], v, i, 0)]
  <2>3. \A k \in 1 .. Len(e.sub) : B(k) \in Seq(S)
    BY <1>4, <2>2
  <2>4. branches = [k \in 1 .. Len(e.sub) |-> B(k)]
    BY <2>2
  <2> HIDE DEF branches, B
  <2>5. branches \in Seq(Seq(S))
    BY <2>2, <2>3, <2>4
  <2> QED BY <2>1, <2>5, FlattenedIsSequence
<1>5. CASE e.op \in Series
  <2>1. Rest(f, at) = IF at.turn < Len(e.sub) THEN Turn(f, at, e.sub[at.turn + 1]) ELSE <<i>>
    BY <1>5 DEF Rest, Series, Loops
  <2>2. ~(at.turn < Len(e.sub)) => <<i>> \in Seq(S)
    BY <1>1, <1>5
  <2> QED BY <1>5, <2>1, <2>2
<1>6. CASE e.op \in Loops
  <2>1. Rest(f, at) = again \o Here(at.turn >= e.min)
    BY <1>6 DEF Rest, Loops, Series
  <2>2. again \in Seq(S)
    BY <1>1, <1>6
  <2>3. Here(at.turn >= e.min) \in Seq(S)
    BY <1>1, <1>6
  <2> HIDE DEF again, Here
  <2>4. again \o Here(at.turn >= e.min) \in Seq(S)
    BY <2>2, <2>3, ConcatProperties
  <2> QED BY <2>1, <2>4
<1>7. CASE e.op \notin {"empty", "begin", "end", "literal", "class", "any", "alternate"} \cup Series \cup Loops
  <2>1. Rest(f, at) = <<>>
    BY <1>7 DEF Rest
  <2> QED BY <1>1, <2>1
<1> QED BY <1>2, <1>3, <1>4, <1>5, <1>6, <1>7


Agree(f, g, at) == \A c \in Places : StepsLeft(c) < StepsLeft(at) => f[c] = g[c]

LEMMA TurnIsLocal ==
    ASSUME NEW f, NEW g, NEW at \in Places, Agree(f, g, at), at.turn < Turns(at.pattern),
           NEW k \in DOMAIN at.pattern.sub,
           f[At(at.pattern.sub[k], at.value, at.from, 0)] \in Seq(Nat)
    PROVE  Turn(f, at, at.pattern.sub[k]) = Turn(g, at, at.pattern.sub[k])
<1> DEFINE part == at.pattern.sub[k]
           moves == f[At(part, at.value, at.from, 0)]
           Piece(h, j) ==
               IF at.pattern.op \in Loops /\ j = at.from /\ at.turn >= at.pattern.min THEN <<>>
               ELSE h[At(at.pattern, at.value, j, at.turn + 1)]
<1>1. at.from \in Nat
  BY PlacesAreTyped
<1>2. moves = g[At(part, at.value, at.from, 0)]
  BY <1>1, StepsFall DEF Agree
<1>3. \A j \in Nat : f[At(at.pattern, at.value, j, at.turn + 1)] = g[At(at.pattern, at.value, j, at.turn + 1)]
  BY StepsFall DEF Agree
<1>4. \A n \in DOMAIN moves : moves[n] \in Nat
  OBVIOUS
<1>5. Turn(f, at, part) = FlattenSeq([n \in DOMAIN moves |-> Piece(f, moves[n])])
  BY DEF Turn
<1>6. Turn(g, at, part) = FlattenSeq([n \in DOMAIN moves |-> Piece(g, moves[n])])
  BY <1>2 DEF Turn
<1>7. \A j \in Nat : Piece(f, j) = Piece(g, j)
  BY <1>3
<1> HIDE DEF Piece, moves
<1>8. \A n \in DOMAIN moves : Piece(f, moves[n]) = Piece(g, moves[n])
  BY <1>4, <1>7
<1>9. [n \in DOMAIN moves |-> Piece(f, moves[n])] = [n \in DOMAIN moves |-> Piece(g, moves[n])]
  BY <1>8
<1> QED BY <1>5, <1>6, <1>9 DEF part

\* What part k of a match is at, when it is one of at's turns.
LEMMA PartOfTurn ==
    ASSUME NEW at \in Places
    PROVE  /\ at.pattern.op \in Series /\ at.turn < Len(at.pattern.sub) =>
                at.turn < Turns(at.pattern) /\ at.turn + 1 \in DOMAIN at.pattern.sub
           /\ at.pattern.op \in Loops =>
                1 \in DOMAIN at.pattern.sub /\ (at.turn < at.pattern.max => at.turn < Turns(at.pattern))
<1> DEFINE e == at.pattern
           n == at.turn
           l == Len(e.sub)
<1>1. e \in Expressions /\ n \in Nat
  BY PlacesAreTyped
<1>2. l \in Nat /\ DOMAIN e.sub = 1 .. l /\ (e.op \in Loops => l = 1)
  BY <1>1, PartsAreTyped
<1>3. e.op \in Series => Turns(e) = l
  BY DEF Turns, Series, Loops
<1>4. e.op \in Loops => Turns(e) = e.max
  BY DEF Turns, Series, Loops
<1>5. n < l => n + 1 \in 1 .. l
  BY <1>1, <1>2
<1>6. l = 1 => 1 \in 1 .. l
  OBVIOUS
<1> QED BY <1>2, <1>3, <1>4, <1>5, <1>6

LEMMA RestIsLocal ==
    ASSUME NEW f \in [Places -> Seq(Nat)], NEW g, NEW at \in Places, Agree(f, g, at)
    PROVE  Rest(f, at) = Rest(g, at)
<1> DEFINE e == at.pattern
           Branches(h) == [k \in DOMAIN e.sub |-> h[At(e.sub[k], at.value, at.from, 0)]]
<1>1. at.from \in Nat
  BY PlacesAreTyped
<1>2. ASSUME NEW k \in DOMAIN e.sub
      PROVE  /\ f[At(e.sub[k], at.value, at.from, 0)] = g[At(e.sub[k], at.value, at.from, 0)]
             /\ f[At(e.sub[k], at.value, at.from, 0)] \in Seq(Nat)
  <2>1. At(e.sub[k], at.value, at.from, 0) \in Places
    BY <1>1, StepsFall
  <2> QED BY <1>1, <2>1, StepsFall DEF Agree
<1>3. Branches(f) = Branches(g)
  BY <1>2
<1>4. e.op \in Series /\ at.turn < Len(e.sub) =>
        Turn(f, at, e.sub[at.turn + 1]) = Turn(g, at, e.sub[at.turn + 1])
  <2> SUFFICES ASSUME e.op \in Series, at.turn < Len(e.sub)
               PROVE  Turn(f, at, e.sub[at.turn + 1]) = Turn(g, at, e.sub[at.turn + 1])
    OBVIOUS
  <2>1. at.turn < Turns(e) /\ at.turn + 1 \in DOMAIN e.sub
    BY PartOfTurn
  <2> QED BY <1>2, <2>1, TurnIsLocal
<1>5. e.op \in Loops /\ at.turn < e.max => Turn(f, at, e.sub[1]) = Turn(g, at, e.sub[1])
  <2> SUFFICES ASSUME e.op \in Loops, at.turn < e.max
               PROVE  Turn(f, at, e.sub[1]) = Turn(g, at, e.sub[1])
    OBVIOUS
  <2>1. at.turn < Turns(e) /\ 1 \in DOMAIN e.sub
    BY PartOfTurn
  <2> QED BY <1>2, <2>1, TurnIsLocal
<1>6. CASE e.op = "alternate"
  <2>1. Rest(f, at) = FlattenSeq(Branches(f)) /\ Rest(g, at) = FlattenSeq(Branches(g))
    BY <1>6 DEF Rest, Series, Loops
  <2> QED BY <1>3, <2>1
<1>7. CASE e.op \in Series
  BY <1>4, <1>7 DEF Rest, Series, Loops
<1>8. CASE e.op \in Loops
  BY <1>5, <1>8 DEF Rest, Series, Loops
<1>9. CASE e.op \notin {"alternate"} \cup Series \cup Loops
  BY <1>9 DEF Rest, Series, Loops
<1> QED BY <1>6, <1>7, <1>8, <1>9

LEMMA RestIsTyped ==
    ASSUME NEW f \in [Places -> Seq(Nat)], NEW at \in Places
    PROVE  Rest(f, at) \in Seq(Nat)
<1> DEFINE e == at.pattern
<1>1. e \in Expressions /\ at.from \in Nat /\ at.turn \in Nat
  BY PlacesAreTyped
<1>2. \A k \in DOMAIN e.sub : f[At(e.sub[k], at.value, at.from, 0)] \in Seq(Nat)
  BY <1>1, StepsFall
<1>3. Len(e.runes) \in Nat
  BY <1>1, PartsAreTyped
<1>4. at.turn < Turns(e) => \A j \in Nat : f[At(e, at.value, j, at.turn + 1)] \in Seq(Nat)
  BY StepsFall
<1>5. at.turn < Turns(e) => \A k \in DOMAIN e.sub : Turn(f, at, e.sub[k]) \in Seq(Nat)
  BY <1>2, <1>4, TurnLeads
<1>6. e.op \in Series /\ at.turn < Len(e.sub) => Turn(f, at, e.sub[at.turn + 1]) \in Seq(Nat)
  BY <1>5, PartOfTurn
<1>7. e.op \in Loops /\ at.turn < e.max => Turn(f, at, e.sub[1]) \in Seq(Nat)
  BY <1>5, PartOfTurn
<1>8. at.from + Len(e.runes) \in Nat /\ at.from + 1 \in Nat
  BY <1>1, <1>3
<1> QED BY <1>1, <1>2, <1>6, <1>7, <1>8, RestLeads

LEMMA EndsDefined ==
    /\ Ends \in [Places -> Seq(Nat)]
    /\ \A at \in Places : Ends[at] = Rest(Ends, at)
<1> DEFINE M == [at \in Places |-> StepsLeft(at)]
           R == Seq(Nat)
           G == [f \in [Places -> R] |-> [at \in Places |-> Rest(f, at)]]
           F == Ends
<1>1. M \in [Places -> Nat] /\ R # {}
  <2>1. \A at \in Places : StepsLeft(at) \in Nat
    BY StepsFall
  <2>2. <<>> \in R
    OBVIOUS
  <2> QED BY <2>1, <2>2
<1>2. G \in [[Places -> R] -> [Places -> R]]
  BY RestIsTyped
<1>3. IsLocal(G, Places, R, M)
  <2>1. ASSUME NEW f \in [Places -> R], NEW g \in [Places -> R], NEW at \in Places,
               \A c \in Places : M[c] < M[at] => f[c] = g[c]
        PROVE  G[f][at] = G[g][at]
    <3>1. Agree(f, g, at)
      BY <2>1 DEF Agree
    <3>2. Rest(f, at) = Rest(g, at)
      BY <3>1, RestIsLocal
    <3> QED BY <3>2
  <2> HIDE DEF G, M
  <2> QED BY <2>1 DEF IsLocal
<1>4. PICK f \in [Places -> R] : f = G[f]
  <2> HIDE DEF G, M, R
  <2>1. Descends(G, Places, R, M)
    BY <1>1, <1>2, <1>3 DEF Descends
  <2> QED BY <2>1, RecursionHolds
<1>5. f = [at \in Places |-> Rest(f, at)]
  BY <1>4
<1>6. F = CHOOSE g : g = [at \in Places |-> Rest(g, at)]
  BY DEF Ends
<1>7. F = [at \in Places |-> Rest(F, at)]
  <2> HIDE DEF F
  <2> QED BY <1>5, <1>6
<1> HIDE DEF F
<1> DEFINE T == {at \in Places : F[at] \in Seq(Nat)}
<1>8. ASSUME NEW at \in Places, \A c \in Places : M[c] < M[at] => c \in T
      PROVE  at \in T
  <2> DEFINE g == [c \in Places |-> IF F[c] \in Seq(Nat) THEN F[c] ELSE <<>>]
  <2>1. g \in [Places -> Seq(Nat)]
    OBVIOUS
  <2>2. Agree(g, F, at)
    BY <1>8 DEF Agree
  <2> HIDE DEF g
  <2>3. F[at] = Rest(g, at)
    BY <1>7, <2>1, <2>2, RestIsLocal
  <2> QED BY <2>1, <2>3, RestIsTyped
<1>9. Places \subseteq T
  <2> HIDE DEF T, M
  <2> QED BY <1>1, <1>8, MeasureInduction
<1>10. F \in [Places -> Seq(Nat)] /\ \A at \in Places : F[at] = Rest(F, at)
  BY <1>7, <1>9
<1> QED BY <1>10 DEF F

----------------------------------------------------------------------------
(* A pattern that is accepted matches only values that are safe.           *)

MinimumOf(e) == safePatternMinimumLength[e]

Numbers(e) == Minima(safePatternMinimumLength, e)

\* What is still to come of the minimum after n turns.
Least(e, n) ==
    CASE e.op \in Series ->
            IF n < Len(e.sub) THEN Total(Numbers(e))[Len(e.sub)] - Total(Numbers(e))[n] ELSE 0
      [] e.op \in Loops -> IF n < e.min THEN (e.min - n) * Numbers(e)[1] ELSE 0
      [] OTHER -> MinimumOf(e)

LEMMA PartsAreSafe ==
    ASSUME NEW e \in Expressions, MinimumOf(e) # Unsafe
    PROVE  /\ MinimumOf(e) \in Nat /\ MinimumOf(e) = MinimumLength(e, Numbers(e))
           /\ Unsafe \notin Range(Numbers(e)) /\ Runes(e) \subseteq Safe
           /\ Numbers(e) \in Seq(Nat) /\ Len(Numbers(e)) = Len(e.sub)
           /\ \A k \in 1 .. Len(e.sub) :
                Numbers(e)[k] = MinimumOf(e.sub[k]) /\ MinimumOf(e.sub[k]) \in Nat
                /\ MinimumOf(e.sub[k]) # Unsafe
<1>1. MinimumOf(e) \in Nat /\ MinimumOf(e) = MinimumLength(e, Numbers(e))
  BY MinimumDefined DEF MinimumOf, Numbers, Lengths
<1>2. Unsafe \notin Range(Numbers(e)) /\ Runes(e) \subseteq Safe
  BY <1>1 DEF MinimumLength
<1>3. /\ Numbers(e) \in Seq(Nat) /\ Len(Numbers(e)) = Len(e.sub)
      /\ \A k \in 1 .. Len(e.sub) : Numbers(e)[k] = MinimumOf(e.sub[k])
  BY <1>2, MinimumDefined, MinimaAreTyped DEF MinimumOf, Numbers
<1>4. \A k \in 1 .. Len(e.sub) : Numbers(e)[k] \in Nat
  <2> DEFINE m == Numbers(e)
             n == Len(e.sub)
  <2>1. m \in Seq(Nat) /\ Len(m) = n
    BY <1>3
  <2> HIDE DEF m, n
  <2>2. \A k \in 1 .. n : m[k] \in Nat
    BY <2>1
  <2> QED BY <2>2 DEF m, n
<1> QED BY <1>1, <1>2, <1>3, <1>4, PatternsAssumption

LEMMA OneMore == \A a, b \in Nat : (a + 1) * b = a * b + b
OBVIOUS

LEMMA LeastFalls ==
    ASSUME NEW e \in Expressions, MinimumOf(e) # Unsafe
    PROVE  /\ \A n \in Nat : Least(e, n) \in Int
           /\ MinimumOf(e) <= Least(e, 0)
           /\ e.op \in Series => \A n \in Nat :
                IF n < Len(e.sub) THEN Least(e, n) = MinimumOf(e.sub[n + 1]) + Least(e, n + 1)
                ELSE Least(e, n) = 0
           /\ e.op \in Loops => \A n \in Nat :
                /\ Least(e, n) <= MinimumOf(e.sub[1]) + Least(e, n + 1)
                /\ n >= e.min => Least(e, n) = 0
           /\ e.op = "alternate" => \A k \in 1 .. Len(e.sub) : MinimumOf(e) <= MinimumOf(e.sub[k])
           /\ e.op \notin Series \cup Loops => \A n \in Nat : Least(e, n) = MinimumOf(e)
<1> DEFINE m == Numbers(e)
           l == Len(e.sub)
           total == Total(m)
<1>1. m \in Seq(Nat) /\ Len(m) = l /\ \A k \in 1 .. l : m[k] = MinimumOf(e.sub[k]) /\ m[k] \in Nat
  BY PartsAreSafe
<1>2. MinimumOf(e) \in Nat /\ MinimumOf(e) = MinimumLength(e, m)
      /\ Unsafe \notin Range(m) /\ Runes(e) \subseteq Safe
  BY PartsAreSafe
<1>3. /\ total \in [0 .. l -> Nat] /\ total[0] = 0
      /\ \A k \in 1 .. l : total[k] = total[k - 1] + m[k]
  BY <1>1, TotalAdds
<1>4. l \in Nat /\ e.min \in Nat /\ (e.op \in Loops \cup {"capture"} => l = 1)
      /\ (e.op = "plus" => e.min = 1)
  BY PartsAreTyped
<1> HIDE DEF m, l, total
<1>5. ASSUME e.op \in Series
      PROVE  \A n \in Nat : Least(e, n) = IF n < l THEN total[l] - total[n] ELSE 0
  BY <1>5 DEF Least, Series, Loops, m, l, total
<1>6. ASSUME e.op \in Loops
      PROVE  \A n \in Nat : Least(e, n) = IF n < e.min THEN (e.min - n) * m[1] ELSE 0
  BY <1>6 DEF Least, Series, Loops, m
<1>7. ASSUME e.op \notin Series \cup Loops
      PROVE  \A n \in Nat : Least(e, n) = MinimumOf(e)
  BY <1>7 DEF Least
<1>8. CASE e.op \in Series
  <2>1. total[l] \in Nat /\ \A n \in Nat : n < l => total[n] \in Nat
    BY <1>3, <1>4
  <2>2. \A n \in Nat : Least(e, n) \in Int
    BY <1>5, <1>8, <2>1
  <2>3. ASSUME NEW n \in Nat, n < l PROVE Least(e, n) = m[n + 1] + Least(e, n + 1)
    <3>1. n + 1 \in 1 .. l /\ n + 1 - 1 = n
      BY <1>4, <2>3
    <3>2. total[n + 1] = total[n] + m[n + 1] /\ total[n] \in Nat /\ m[n + 1] \in Nat
      BY <1>1, <1>3, <2>1, <2>3, <3>1
    <3>3. Least(e, n) = total[l] - total[n]
      BY <1>5, <1>8, <2>3
    <3>4. CASE n + 1 < l
      <4>1. Least(e, n + 1) = total[l] - total[n + 1]
        BY <1>5, <1>8, <3>4
      <4> QED BY <2>1, <3>2, <3>3, <4>1
    <3>5. CASE ~(n + 1 < l)
      <4>1. n + 1 = l
        BY <1>4, <2>3, <3>5
      <4>2. Least(e, n + 1) = 0
        BY <1>5, <1>8, <3>5
      <4> QED BY <2>1, <3>2, <3>3, <4>1, <4>2
    <3> QED BY <3>4, <3>5
  <2>4. \A n \in Nat : n < l => n + 1 \in 1 .. l
    BY <1>4
  <2>5. \A n \in Nat : IF n < l THEN Least(e, n) = MinimumOf(e.sub[n + 1]) + Least(e, n + 1)
                       ELSE Least(e, n) = 0
    BY <1>1, <1>5, <1>8, <2>3, <2>4
  <2>6. MinimumOf(e) <= Least(e, 0)
    <3>1. CASE e.op = "capture"
      <4>1. MinimumOf(e) = m[1]
        BY <1>2, <3>1 DEF MinimumLength, Anchors
      <4>2. l = 1 /\ 1 \in 1 .. l
        BY <1>4, <3>1
      <4>3. total[1] = total[0] + m[1]
        BY <1>3, <4>2
      <4>4. Least(e, 0) = total[1] - total[0]
        BY <1>5, <1>8, <4>2
      <4> QED BY <1>1, <1>2, <1>3, <4>1, <4>2, <4>3, <4>4
    <3>2. CASE e.op = "concat"
      <4>1. MinimumOf(e) = total[l]
        BY <1>1, <1>2, <3>2 DEF MinimumLength, Anchors, total
      <4>2. Least(e, 0) = IF 0 < l THEN total[l] - total[0] ELSE 0
        BY <1>5, <1>8
      <4>3. l = 0 => total[l] = 0
        BY <1>3
      <4> QED BY <1>3, <1>4, <2>1, <4>1, <4>2, <4>3
    <3> QED BY <1>8, <3>1, <3>2 DEF Series
  <2>7. e.op \notin Loops /\ e.op # "alternate"
    BY <1>8 DEF Series, Loops
  <2> QED BY <1>8, <2>2, <2>5, <2>6, <2>7 DEF l
<1>9. CASE e.op \in Loops
  <2>1. m[1] \in Nat /\ m[1] = MinimumOf(e.sub[1])
    <3>1. 1 \in 1 .. l
      BY <1>4, <1>9
    <3> QED BY <1>1, <3>1
  <2> DEFINE x == m[1]
  <2>2. \A a \in Nat : a * x \in Nat
    BY <2>1
  <2> HIDE DEF x
  <2>3. \A n \in Nat : n < e.min => e.min - n \in Nat
    BY <1>4
  <2>4. \A n \in Nat : Least(e, n) \in Nat
    BY <1>6, <1>9, <2>2, <2>3 DEF x
  <2>5. ASSUME NEW n \in Nat PROVE Least(e, n) <= x + Least(e, n + 1)
    <3>1. x \in Nat /\ Least(e, n + 1) \in Nat
      BY <2>1, <2>4 DEF x
    <3>2. CASE ~(n < e.min)
      BY <1>6, <1>9, <3>1, <3>2
    <3>3. CASE n < e.min
      <4> DEFINE a == e.min - (n + 1)
      <4>1. a \in Nat /\ a + 1 = e.min - n
        BY <1>4, <3>3
      <4>2. (a + 1) * x = a * x + x
        BY <3>1, <4>1, OneMore
      <4>3. Least(e, n) = (a + 1) * x
        BY <1>6, <1>9, <3>3, <4>1 DEF x
      <4>4. Least(e, n + 1) = a * x
        <5>1. CASE n + 1 < e.min
          BY <1>6, <1>9, <5>1 DEF x
        <5>2. CASE ~(n + 1 < e.min)
          <6>1. a = 0 /\ Least(e, n + 1) = 0
            BY <1>4, <1>6, <1>9, <3>3, <5>2
          <6>2. 0 * x = 0
            BY <3>1
          <6> QED BY <6>1, <6>2
        <5> QED BY <5>1, <5>2
      <4>5. a * x \in Nat
        BY <2>2, <4>1
      <4> HIDE DEF a
      <4> QED BY <3>1, <4>2, <4>3, <4>4, <4>5
    <3> QED BY <3>2, <3>3
  <2>6. MinimumOf(e) <= Least(e, 0)
    <3>1. CASE e.op \in {"star", "quest"}
      <4>1. MinimumOf(e) = 0
        BY <1>2, <3>1 DEF MinimumLength, Anchors
      <4> QED BY <2>4, <4>1
    <3>2. CASE e.op = "plus"
      <4>1. MinimumOf(e) = x
        BY <1>2, <3>2 DEF MinimumLength, Anchors, x
      <4>2. Least(e, 0) = (1 - 0) * x
        BY <1>4, <1>6, <1>9, <3>2 DEF x
      <4>3. x \in Nat /\ (1 - 0) * x = x
        BY <2>1 DEF x
      <4> QED BY <4>1, <4>2, <4>3
    <3>3. CASE e.op = "repeat"
      <4>1. MinimumOf(e) = e.min * x
        BY <1>2, <3>3 DEF MinimumLength, Anchors, x
      <4>2. Least(e, 0) = IF 0 < e.min THEN (e.min - 0) * x ELSE 0
        BY <1>6, <1>9 DEF x
      <4>3. e.min - 0 = e.min /\ e.min * x \in Nat
        BY <1>4, <2>2
      <4>4. 0 * x = 0
        BY <2>1 DEF x
      <4>5. e.min = 0 => e.min * x = 0
        BY <4>4
      <4> QED BY <1>4, <4>1, <4>2, <4>3, <4>5
    <3> QED BY <1>9, <3>1, <3>2, <3>3 DEF Loops
  <2>7. e.op \notin Series /\ e.op # "alternate"
    BY <1>9 DEF Series, Loops
  <2>8. \A n \in Nat : n >= e.min => Least(e, n) = 0
    BY <1>4, <1>6, <1>9
  <2>9. \A n \in Nat : Least(e, n) <= MinimumOf(e.sub[1]) + Least(e, n + 1)
    BY <2>1, <2>5 DEF x
  <2>10. \A n \in Nat : Least(e, n) \in Int
    BY <2>4
  <2>11. \A n \in Nat : /\ Least(e, n) <= MinimumOf(e.sub[1]) + Least(e, n + 1)
                        /\ n >= e.min => Least(e, n) = 0
    BY <2>8, <2>9
  <2> QED BY <1>9, <2>6, <2>7, <2>10, <2>11
<1>10. CASE e.op \notin Series \cup Loops
  <2>1. \A n \in Nat : Least(e, n) = MinimumOf(e)
    BY <1>7, <1>10
  <2>2. ASSUME e.op = "alternate" PROVE \A k \in 1 .. l : MinimumOf(e) <= MinimumOf(e.sub[k])
    <3>1. MinimumOf(e) = Min(Range(m))
      BY <1>2, <2>2 DEF MinimumLength, Anchors, Shortest
    <3>2. Len(m) # 0
      BY <1>1, <2>2, PartsAreTyped DEF l
    <3>3. \A k \in 1 .. l : Min(Range(m)) <= m[k]
      BY <1>1, <3>2, LeastOfNumbers
    <3> QED BY <1>1, <3>1, <3>3
  <2> QED BY <1>2, <1>10, <2>1, <2>2 DEF l
<1> QED BY <1>8, <1>9, <1>10

\* Where a match that has come to a place may end, if the pattern is accepted.
Reachable(at) ==
    {j \in Nat : /\ at.from <= j /\ j <= Len(at.value)
                 /\ \A k \in at.from + 1 .. j : at.value[k] \in Safe
                 /\ at.from + Least(at.pattern, at.turn) <= j}

\* What a match ends at after it was at j, it could have ended at from the start.
LEMMA ReachableOnwards ==
    ASSUME NEW at \in Places, NEW to \in Places, NEW j \in Nat, to.value = at.value, to.from = j,
           at.from <= j, \A k \in at.from + 1 .. j : at.value[k] \in Safe,
           Least(at.pattern, at.turn) \in Int, Least(to.pattern, to.turn) \in Int,
           at.from + Least(at.pattern, at.turn) <= j + Least(to.pattern, to.turn)
    PROVE  Reachable(to) \subseteq Reachable(at)
<1> SUFFICES ASSUME NEW i \in Reachable(to) PROVE i \in Reachable(at)
  OBVIOUS
<1>1. /\ i \in Nat /\ j <= i /\ i <= Len(at.value) /\ \A k \in j + 1 .. i : at.value[k] \in Safe
      /\ j + Least(to.pattern, to.turn) <= i
  BY DEF Reachable
<1>2. at.from \in Nat
  BY PlacesAreTyped
<1>3. at.from <= i /\ at.from + Least(at.pattern, at.turn) <= i
  BY <1>1, <1>2
<1>4. ASSUME NEW k \in at.from + 1 .. i PROVE at.value[k] \in Safe
  <2>1. k \in at.from + 1 .. j \/ k \in j + 1 .. i
    BY <1>1, <1>2
  <2> QED BY <1>1, <2>1
<1> QED BY <1>1, <1>3, <1>4 DEF Reachable

LEMMA ValuesAreTyped ==
    ASSUME NEW v \in Values
    PROVE  v \in Seq(Range(v)) /\ Len(v) \in Nat /\ DOMAIN v = 1 .. Len(v)
<1>1. v \in Seq(Range(v))
  BY PatternsAssumption DEF IsSequence
<1> QED BY <1>1

\* One turn of part k and the others, when both lead where they may.
LEMMA TurnReaches ==
    ASSUME NEW at \in Places, MinimumOf(at.pattern) # Unsafe, at.from <= Len(at.value),
           at.turn < Turns(at.pattern), NEW k \in 1 .. Len(at.pattern.sub),
           Least(at.pattern, at.turn)
               <= MinimumOf(at.pattern.sub[k]) + Least(at.pattern, at.turn + 1),
           \A c \in Places :
               StepsLeft(c) < StepsLeft(at) /\ MinimumOf(c.pattern) # Unsafe /\ c.from <= Len(c.value) =>
                   Ends[c] \in Seq(Reachable(c))
    PROVE  Turn(Ends, at, at.pattern.sub[k]) \in Seq(Reachable(at))
<1> DEFINE e == at.pattern
           p == at.pattern.sub[k]
           v == at.value
           there == At(p, v, at.from, 0)
           Onward(j) == At(e, v, j, at.turn + 1)
           P == Reachable(there)
           S == Reachable(at)
<1>1. e \in Expressions /\ v \in Values /\ at.from \in Nat /\ at.turn \in Nat
  BY PlacesAreTyped
<1>2. k \in DOMAIN e.sub /\ p \in Expressions
  BY <1>1, PartsAreTyped
<1>3. MinimumOf(p) \in Nat /\ MinimumOf(p) # Unsafe
  BY <1>1, PartsAreSafe
<1>4. /\ there \in Places /\ StepsLeft(there) < StepsLeft(at) /\ there.pattern = p
      /\ there.value = v /\ there.from = at.from /\ there.turn = 0
  <2>1. there \in Places /\ StepsLeft(there) < StepsLeft(at)
    BY <1>1, <1>2, StepsFall
  <2>2. /\ there.pattern = p /\ there.value = v /\ there.from = at.from /\ there.turn = 0
    BY DEF At
  <2> QED BY <2>1, <2>2
<1>5. /\ Least(p, 0) \in Int /\ MinimumOf(p) <= Least(p, 0)
      /\ Least(e, at.turn) \in Int /\ Least(e, at.turn + 1) \in Int
  <2>1. Least(p, 0) \in Int /\ MinimumOf(p) <= Least(p, 0)
    BY <1>2, <1>3, LeastFalls
  <2>2. at.turn + 1 \in Nat
    BY <1>1
  <2>3. \A n \in Nat : Least(e, n) \in Int
    BY <1>1, LeastFalls
  <2> QED BY <1>1, <2>1, <2>2, <2>3
<1> HIDE DEF there, p
<1>6. Ends[there] \in Seq(P)
  BY <1>3, <1>4
<1>7. ASSUME NEW j \in P PROVE Ends[Onward(j)] \in Seq(S)
  <2>1. /\ j \in Nat /\ at.from <= j /\ j <= Len(v) /\ \A i \in at.from + 1 .. j : v[i] \in Safe
        /\ at.from + Least(p, 0) <= j
    BY <1>4 DEF Reachable
  <2>2. /\ Onward(j) \in Places /\ StepsLeft(Onward(j)) < StepsLeft(at) /\ Onward(j).pattern = e
        /\ Onward(j).value = v /\ Onward(j).from = j /\ Onward(j).turn = at.turn + 1
    <3>1. Onward(j) \in Places /\ StepsLeft(Onward(j)) < StepsLeft(at)
      BY <2>1, StepsFall
    <3>2. /\ Onward(j).pattern = e /\ Onward(j).value = v /\ Onward(j).from = j
          /\ Onward(j).turn = at.turn + 1
      BY DEF At
    <3> QED BY <3>1, <3>2
  <2> HIDE DEF Onward
  <2>3. Ends[Onward(j)] \in Seq(Reachable(Onward(j)))
    BY <2>1, <2>2
  <2>4. at.from + Least(e, at.turn) <= j + Least(e, at.turn + 1)
    BY <1>1, <1>3, <1>5, <2>1 DEF p
  <2>5. Reachable(Onward(j)) \subseteq S
    BY <1>5, <2>1, <2>2, <2>4, ReachableOnwards
  <2> HIDE DEF S
  <2> QED BY <2>3, <2>5
<1> HIDE DEF P, S
<1>8. Turn(Ends, at, p) \in Seq(S)
  BY <1>6, <1>7, TurnLeads DEF there, Onward
<1> QED BY <1>8 DEF p, S

\* No match of an accepted pattern ends early or past a character that is not
\* safe.
LEMMA EndsAreReachable ==
    \A at \in Places :
        MinimumOf(at.pattern) # Unsafe /\ at.from <= Len(at.value) => Ends[at] \in Seq(Reachable(at))
<1> DEFINE M == [at \in Places |-> StepsLeft(at)]
           T == {at \in Places : MinimumOf(at.pattern) # Unsafe /\ at.from <= Len(at.value) =>
                    Ends[at] \in Seq(Reachable(at))}
<1>1. M \in [Places -> Nat]
  BY StepsFall
<1>2. ASSUME NEW at \in Places, \A c \in Places : M[c] < M[at] => c \in T PROVE at \in T
  <2> SUFFICES ASSUME MinimumOf(at.pattern) # Unsafe, at.from <= Len(at.value)
               PROVE  Ends[at] \in Seq(Reachable(at))
    OBVIOUS
  <2>1. \A c \in Places :
            StepsLeft(c) < StepsLeft(at) /\ MinimumOf(c.pattern) # Unsafe /\ c.from <= Len(c.value) =>
                Ends[c] \in Seq(Reachable(c))
    BY <1>2
  <2> HIDE DEF M, T
  <2> DEFINE e == at.pattern
             v == at.value
             i == at.from
             n == at.turn
             S == Reachable(at)
  <2>2. e \in Expressions /\ v \in Values /\ i \in Nat /\ n \in Nat
    BY PlacesAreTyped
  <2>3. v \in Seq(Range(v)) /\ Len(v) \in Nat
    BY <2>2, ValuesAreTyped
  <2>4. /\ MinimumOf(e) \in Nat /\ MinimumOf(e) = MinimumLength(e, Numbers(e))
        /\ Unsafe \notin Range(Numbers(e)) /\ Runes(e) \subseteq Safe
        /\ \A k \in 1 .. Len(e.sub) : MinimumOf(e.sub[k]) \in Nat /\ MinimumOf(e.sub[k]) # Unsafe
    BY <2>2, PartsAreSafe
  <2>5. Least(e, n) \in Int
    BY <2>2, LeastFalls
  <2>6. Least(e, n) <= 0 => i \in S
    <3>1. i + 1 .. i = {}
      BY <2>2
    <3> QED BY <2>2, <2>3, <2>5, <3>1 DEF Reachable
  <2>7. Len(e.runes) \in Nat /\ DOMAIN e.runes = 1 .. Len(e.runes) /\ DOMAIN e.sub = 1 .. Len(e.sub)
    BY <2>2, PartsAreTyped
  <2>8. CASE e.op \in Anchors \cup {"empty"}
    <3>1. e.op \notin Series \cup Loops /\ MinimumOf(e) = 0
      BY <2>4, <2>8 DEF MinimumLength, Anchors, Series, Loops
    <3>2. Least(e, n) = 0
      BY <2>2, <3>1, LeastFalls
    <3>3. i \in S
      BY <2>6, <3>2
    <3> HIDE DEF S
    <3>4. Rest(Ends, at) \in Seq(S)
      BY <2>8, <3>3, RestLeads DEF Anchors, Series, Loops
    <3> QED BY <3>4, EndsDefined DEF S
  <2>9. CASE e.op = "literal"
    <3>1. e.op \notin Series \cup Loops /\ MinimumOf(e) = Len(e.runes)
      BY <2>4, <2>9 DEF MinimumLength, Anchors, Series, Loops
    <3>2. Least(e, n) = Len(e.runes)
      BY <2>2, <3>1, LeastFalls
    <3>3. ASSUME Matched(at) PROVE i + Len(e.runes) \in S
      <4>1. i + Len(e.runes) <= Len(v) /\ \A k \in 1 .. Len(e.runes) : v[i + k] = e.runes[k]
        BY <2>7, <3>3 DEF Matched
      <4>2. \A k \in 1 .. Len(e.runes) : e.runes[k] \in Safe
        BY <2>4, <2>7, <2>9 DEF Runes, Range
      <4>3. ASSUME NEW k \in i + 1 .. i + Len(e.runes) PROVE v[k] \in Safe
        <5>1. k - i \in 1 .. Len(e.runes) /\ i + (k - i) = k
          BY <2>2, <2>7
        <5>2. v[i + (k - i)] \in Safe
          BY <4>1, <4>2, <5>1
        <5> QED BY <5>1, <5>2
      <4> QED BY <2>2, <2>7, <3>2, <4>1, <4>3 DEF Reachable
    <3> HIDE DEF S
    <3>4. Rest(Ends, at) \in Seq(S)
      BY <2>9, <3>3, RestLeads DEF Series, Loops
    <3> QED BY <3>4, EndsDefined DEF S
  <2>10. CASE e.op = "class"
    <3>1. e.op \notin Series \cup Loops /\ MinimumOf(e) = 1
      BY <2>4, <2>10 DEF MinimumLength, Anchors, Series, Loops
    <3>2. Least(e, n) = 1
      BY <2>2, <3>1, LeastFalls
    <3>3. ASSUME i < Len(v), v[i + 1] \in Range(e.runes) PROVE i + 1 \in S
      <4>1. v[i + 1] \in Safe
        BY <2>4, <2>10, <3>3 DEF Runes
      <4>2. i + 1 <= Len(v) /\ \A k \in i + 1 .. i + 1 : k = i + 1
        BY <2>2, <2>3, <3>3
      <4> QED BY <2>2, <3>2, <4>1, <4>2 DEF Reachable
    <3> HIDE DEF S
    <3>4. Rest(Ends, at) \in Seq(S)
      BY <2>10, <3>3, RestLeads DEF Series, Loops
    <3> QED BY <3>4, EndsDefined DEF S
  <2>11. CASE e.op = "alternate"
    <3>1. ASSUME NEW k \in DOMAIN e.sub PROVE Ends[At(e.sub[k], v, i, 0)] \in Seq(S)
      <4> DEFINE p == e.sub[k]
                 c == At(p, v, i, 0)
      <4>1. c \in Places /\ StepsLeft(c) < StepsLeft(at)
        BY <2>2, StepsFall
      <4>2. c.pattern = p /\ c.value = v /\ c.from = i /\ c.turn = 0
        BY DEF At
      <4>3. p \in Expressions /\ MinimumOf(p) \in Nat /\ MinimumOf(p) # Unsafe
        BY <2>2, <2>4, <2>7, PartsAreTyped
      <4>4. Least(p, 0) \in Int /\ MinimumOf(p) <= Least(p, 0)
        BY <4>3, LeastFalls
      <4>5. Least(e, n) <= MinimumOf(p)
        <5>1. e.op \notin Series \cup Loops
          BY <2>11 DEF Series, Loops
        <5>2. Least(e, n) = MinimumOf(e)
          BY <2>2, <5>1, LeastFalls
        <5>3. MinimumOf(e) <= MinimumOf(p)
          BY <2>2, <2>7, <2>11, LeastFalls
        <5> QED BY <5>2, <5>3
      <4> HIDE DEF p, c
      <4>6. Ends[c] \in Seq(Reachable(c))
        BY <2>1, <4>1, <4>2, <4>3
      <4>7. i + 1 .. i = {} /\ i <= i /\ i + Least(e, n) <= i + Least(p, 0)
        BY <2>2, <2>5, <4>3, <4>4, <4>5
      <4>8. Reachable(c) \subseteq S
        BY <2>2, <2>5, <4>1, <4>2, <4>4, <4>7, ReachableOnwards
      <4> HIDE DEF S
      <4>9. Ends[c] \in Seq(S)
        BY <4>6, <4>8
      <4> QED BY <4>9 DEF c, p
    <3> HIDE DEF S
    <3>2. Rest(Ends, at) \in Seq(S)
      BY <2>11, <3>1, RestLeads DEF Series, Loops
    <3> QED BY <3>2, EndsDefined DEF S
  <2>12. CASE e.op \in Series
    <3>1. n < Len(e.sub) => n < Turns(e) /\ n + 1 \in 1 .. Len(e.sub)
      BY <2>7, <2>12, PartOfTurn
    <3>2. ~(n < Len(e.sub)) => Least(e, n) = 0
      BY <2>2, <2>12, LeastFalls
    <3>3. ~(n < Len(e.sub)) => i \in S
      BY <2>6, <3>2
    <3>4. ASSUME n < Len(e.sub) PROVE Turn(Ends, at, e.sub[n + 1]) \in Seq(S)
      <4>1. Least(e, n) = MinimumOf(e.sub[n + 1]) + Least(e, n + 1)
        BY <2>2, <2>12, <3>4, LeastFalls
      <4>2. Least(e, n) <= MinimumOf(e.sub[n + 1]) + Least(e, n + 1)
        BY <2>5, <4>1
      <4> HIDE DEF S
      <4> QED BY <2>1, <3>1, <3>4, <4>2, TurnReaches DEF S
    <3> HIDE DEF S
    <3>5. Rest(Ends, at) \in Seq(S)
      BY <2>12, <3>3, <3>4, RestLeads DEF Series, Loops
    <3> QED BY <3>5, EndsDefined DEF S
  <2>13. CASE e.op \in Loops
    <3>1. 1 \in 1 .. Len(e.sub) /\ (n < e.max => n < Turns(e))
      BY <2>7, <2>13, PartOfTurn
    <3>2. n >= e.min => Least(e, n) = 0
      BY <2>2, <2>13, LeastFalls
    <3>3. n >= e.min => i \in S
      BY <2>6, <3>2
    <3>4. ASSUME n < e.max PROVE Turn(Ends, at, e.sub[1]) \in Seq(S)
      <4>1. Least(e, n) <= MinimumOf(e.sub[1]) + Least(e, n + 1)
        BY <2>2, <2>13, LeastFalls
      <4> HIDE DEF S
      <4> QED BY <2>1, <3>1, <3>4, <4>1, TurnReaches DEF S
    <3> HIDE DEF S
    <3>5. Rest(Ends, at) \in Seq(S)
      BY <2>13, <3>3, <3>4, RestLeads DEF Series, Loops
    <3> QED BY <3>5, EndsDefined DEF S
  <2>14. e.op \in Anchors \cup {"empty", "literal", "class", "alternate"} \cup Series \cup Loops
    BY <2>4, PatternsAssumption DEF MinimumLength, Anchors, Series, Loops
  <2> QED BY <2>8, <2>9, <2>10, <2>11, <2>12, <2>13, <2>14
<1>3. Places \subseteq T
  <2> HIDE DEF T, M
  <2> QED BY <1>1, <1>2, MeasureInduction
<1> QED BY <1>3

\* What an accepted pattern takes is not empty and has safe characters only.
LEMMA AcceptedIsSafe ==
    ASSUME NEW e \in Expressions, NEW v \in Values,
           validateSafeParameterPattern(e), matchesEntireValue(e, v)
    PROVE  v # <<>> /\ Range(v) \subseteq Safe
<1> DEFINE at == At(e, v, 0, 0)
           ends == Ends[at]
<1>1. Len(v) \in Nat /\ DOMAIN v = 1 .. Len(v) /\ v \in Seq(Range(v))
  BY ValuesAreTyped
<1>2. at \in Places
  BY PlacesAreTyped
<1>3. at.pattern = e /\ at.value = v /\ at.from = 0 /\ at.turn = 0
  BY DEF At
<1>4. MinimumOf(e) # Unsafe /\ MinimumOf(e) # 0
  BY DEF validateSafeParameterPattern, MinimumOf
<1>5. MinimumOf(e) \in Nat /\ Least(e, 0) \in Int /\ MinimumOf(e) <= Least(e, 0)
  BY <1>4, PartsAreSafe, LeastFalls
<1>6. ends # <<>> /\ Head(ends) = Len(v)
  BY DEF matchesEntireValue
<1> HIDE DEF at
<1>7. ends \in Seq(Reachable(at))
  BY <1>1, <1>2, <1>3, <1>4, EndsAreReachable
<1> HIDE DEF ends
<1>8. Len(v) \in Reachable(at)
  BY <1>6, <1>7, HeadTailProperties
<1>9. 0 + Least(e, 0) <= Len(v) /\ \A k \in 0 + 1 .. Len(v) : v[k] \in Safe
  BY <1>3, <1>8 DEF Reachable
<1>10. Len(v) # 0
  BY <1>1, <1>4, <1>5, <1>9
<1>11. \A k \in 1 .. Len(v) : v[k] \in Safe
  BY <1>9
<1> QED BY <1>1, <1>10, <1>11 DEF Range

----------------------------------------------------------------------------
(* The subject that is built of safe values.                               *)

LEMMA RequestIsTyped ==
    ASSUME input \in Inputs
    PROVE  /\ Len(request.path) \in Nat /\ DOMAIN request.path = 1 .. Len(request.path)
           /\ request.query \in Seq(Values)
           /\ \A j \in DOMAIN request.path : Decode[request.path[j]] \in Values
<1>1. request.path \in Seq(Range(request.path))
  BY MatchingAssumption DEF request, IsSequence
<1>2. /\ request.query \in Seq(Values)
      /\ \A j \in DOMAIN request.path : Decode[request.path[j]] \in Values
  BY MatchingAssumption DEF request
<1> QED BY <1>1, <1>2

LEMMA TemplatesAreTyped ==
    ASSUME NEW t, IsTemplate(t)
    PROVE  /\ t \in Seq(Range(t)) /\ Len(t) \in Nat /\ DOMAIN t = 1 .. Len(t)
           /\ \A j \in 1 .. Len(t) :
                /\ t[j].kind = "literal" \/ t[j] = Parameter(t[j].name)
                /\ t[j].kind = "literal" => \A name : t[j] # Parameter(name)
                /\ t[j].kind # "literal" => t[j].kind = "parameter"
<1>1. t \in Seq(Range(t)) /\ \A j \in DOMAIN t : t[j] \in {Literal(t[j].name), Parameter(t[j].name)}
  BY DEF IsTemplate, IsSequence
<1>2. Len(t) \in Nat /\ DOMAIN t = 1 .. Len(t)
  BY <1>1
<1>3. ASSUME NEW j \in 1 .. Len(t)
      PROVE  /\ t[j].kind = "literal" \/ t[j] = Parameter(t[j].name)
             /\ t[j].kind = "literal" => \A name : t[j] # Parameter(name)
             /\ t[j].kind # "literal" => t[j].kind = "parameter"
  <2> DEFINE s == t[j]
  <2>1. s \in {Literal(s.name), Parameter(s.name)}
    BY <1>1, <1>2
  <2> HIDE DEF s
  <2>2. /\ s.kind = "literal" \/ s = Parameter(s.name)
        /\ s.kind = "literal" => \A name : s # Parameter(name)
        /\ s.kind # "literal" => s.kind = "parameter"
    BY <2>1 DEF Literal, Parameter
  <2> QED BY <2>2 DEF s
<1> QED BY <1>1, <1>2, <1>3

\* The value that a parameter of a matching request gets becomes one token.
LEMMA TakenIsOneToken ==
    ASSUME input \in Inputs, Valid, NEW k \in DOMAIN routes, Accepts(routes[k]),
           NEW name \in DOMAIN routes[k].parameters
    PROVE  /\ value(routes[k], name) # <<>> /\ Range(value(routes[k], name)) \subseteq Safe
           /\ TokensOf[value(routes[k], name)] = <<Literal(value(routes[k], name))>>
<1> DEFINE route == routes[k]
           pattern == route.parameters[name].pattern
           taken == value(route, name)
<1>1. validateParameters(route)
  BY DEF Valid, validateRoutes, validateRoute
<1>2. pattern \in Expressions /\ IsTemplate(route.path)
  BY RoutesAreTyped
<1>3. validateSafeParameterPattern(pattern)
  BY <1>1 DEF validateParameters
<1>4. SameShape(route) /\ Fails(route) = {} /\ QueryTaken(route)
  BY DEF Accepts
<1> HIDE DEF pattern
<1>5. taken \in Values /\ matchesEntireValue(pattern, taken)
  <2>1. CASE name \in QueryParameters(route)
    <3>1. taken = request.query[1]
      BY <2>1 DEF value
    <3>2. Len(request.query) = 1 /\ matchesEntireValue(pattern, request.query[1])
      BY <1>4, <2>1 DEF QueryTaken, pattern
    <3>3. request.query[1] \in Values
      BY <3>2, RequestIsTyped
    <3> QED BY <3>1, <3>2, <3>3
  <2>2. CASE name \notin QueryParameters(route)
    <3>1. name \in ParametersIn(route.path)
      BY <1>1, <2>2 DEF QueryParameters, validateParameters
    <3>2. PICK i \in DOMAIN route.path : route.path[i].kind = "parameter" /\ name = route.path[i].name
      BY <3>1 DEF ParametersIn
    <3>3. route.path[i] = Parameter(name)
      BY <1>2, <3>2, TemplatesAreTyped
    <3> DEFINE j == CHOOSE i_1 \in DOMAIN route.path : route.path[i_1] = Parameter(name)
    <3>4. j \in DOMAIN route.path /\ route.path[j] = Parameter(name)
      BY <3>3
    <3>5. taken = Decode[request.path[j]]
      BY <2>2 DEF value
    <3> HIDE DEF j
    <3>6. route.path[j].kind # "literal" /\ route.path[j].name = name
      BY <3>4 DEF Parameter
    <3>7. Takes(route, j)
      BY <1>4, <3>4 DEF Fails
    <3>8. matchesEntireValue(pattern, Decode[request.path[j]])
      BY <3>6, <3>7 DEF Takes, pattern
    <3>9. j \in DOMAIN request.path
      <4>1. DOMAIN route.path = 1 .. Len(route.path)
        BY <1>2, TemplatesAreTyped
      <4>2. Len(route.path) = Len(request.path)
        BY <1>4 DEF SameShape
      <4>3. DOMAIN request.path = 1 .. Len(request.path)
        BY RequestIsTyped
      <4> QED BY <3>4, <4>1, <4>2, <4>3
    <3> QED BY <3>5, <3>8, <3>9, RequestIsTyped
  <2> QED BY <2>1, <2>2
<1> HIDE DEF taken
<1>6. taken # <<>> /\ Range(taken) \subseteq Safe
  BY <1>2, <1>3, <1>5, AcceptedIsSafe DEF pattern
<1>7. TokensOf[taken] = <<Literal(taken)>>
  BY <1>5, <1>6, MatchingAssumption
<1> QED BY <1>6, <1>7 DEF taken

LEMMA ParametersAreFinite ==
    ASSUME NEW t, IsTemplate(t)
    PROVE  IsFiniteSet(ParametersIn(t))
<1> DEFINE I == {j \in DOMAIN t : t[j].kind = "parameter"}
           names == {t[i].name : i \in I}
           f == [i \in I |-> t[i].name]
<1>1. Len(t) \in Nat /\ DOMAIN t = 1 .. Len(t)
  BY TemplatesAreTyped
<1>2. IsFiniteSet(1 .. Len(t))
  BY <1>1, FS_Interval
<1>3. IsFiniteSet(I)
  BY <1>1, <1>2, FS_Subset
<1>4. f \in Surjection(I, names)
  BY DEF Surjection
<1> HIDE DEF I, f
<1>5. IsFiniteSet(names)
  BY <1>3, <1>4, FS_Surjection
<1> QED BY <1>5 DEF ParametersIn, I

\* The template with the values of some names put in.
Filled(t, route, names) ==
    [i \in 1 .. Len(t) |->
        IF t[i].kind = "parameter" /\ t[i].name \in names THEN Literal(value(route, t[i].name)) ELSE t[i]]

\* Putting in one more name never touches a value that was put in before.
LEMMA OneMoreFilled ==
    ASSUME NEW t, IsTemplate(t), NEW route, NEW names, NEW name
    PROVE  Substituted(Filled(t, route, names), name, <<Literal(value(route, name))>>) = Filled(t, route, names \cup {name})
<1> DEFINE n == Len(t)
           before == Filled(t, route, names)
           after == Filled(t, route, names \cup {name})
           S == Range(after)
<1>1. n \in Nat
  BY TemplatesAreTyped
<1>2. after \in Seq(S) /\ Len(after) = n
  <2>1. DOMAIN after = 1 .. n
    BY DEF Filled
  <2>2. \A i \in 1 .. n : after[i] \in S
    BY <2>1 DEF Range
  <2>3. after = [i \in 1 .. n |-> after[i]]
    BY DEF Filled
  <2> HIDE DEF after, S, n
  <2> QED BY <1>1, <2>1, <2>2, <2>3
<1>3. ASSUME NEW i \in 1 .. n
      PROVE  (IF before[i] = Parameter(name) THEN <<Literal(value(route, name))>> ELSE <<before[i]>>) = <<after[i]>>
  <2> DEFINE s == t[i]
  <2>1. /\ s.kind = "literal" \/ s = Parameter(s.name)
        /\ s.kind = "literal" => s # Parameter(name)
        /\ s.kind # "literal" => s.kind = "parameter"
    BY TemplatesAreTyped
  <2>2. before[i] = IF s.kind = "parameter" /\ s.name \in names THEN Literal(value(route, s.name)) ELSE s
    BY DEF Filled
  <2>3. after[i] = IF s.kind = "parameter" /\ s.name \in names \cup {name} THEN Literal(value(route, s.name)) ELSE s
    BY DEF Filled
  <2>4. \A a, b : Literal(a) # Parameter(b)
    BY DEF Literal, Parameter
  <2>5. s = Parameter(name) => s.name = name /\ s.kind = "parameter"
    BY DEF Parameter
  <2> HIDE DEF s, before, after
  <2>6. CASE s.kind = "literal"
    BY <2>1, <2>2, <2>3, <2>6
  <2>7. CASE s.kind = "parameter" /\ s.name \in names
    BY <2>2, <2>3, <2>4, <2>7
  <2>8. CASE s.kind = "parameter" /\ s.name \notin names /\ s.name = name
    BY <2>1, <2>2, <2>3, <2>8
  <2>9. CASE s.kind = "parameter" /\ s.name \notin names /\ s.name # name
    BY <2>2, <2>3, <2>5, <2>9
  <2> QED BY <2>1, <2>6, <2>7, <2>8, <2>9
<1>4. DOMAIN before = 1 .. n
  BY DEF Filled
<1>5. Substituted(before, name, <<Literal(value(route, name))>>) = FlattenSeq([i \in 1 .. n |-> <<after[i]>>])
  <2>1. Substituted(before, name, <<Literal(value(route, name))>>) =
            FlattenSeq([i \in 1 .. n |->
                IF before[i] = Parameter(name) THEN <<Literal(value(route, name))>> ELSE <<before[i]>>])
    BY <1>4 DEF Substituted
  <2> HIDE DEF before, after, n
  <2>2. [i \in 1 .. n |-> IF before[i] = Parameter(name) THEN <<Literal(value(route, name))>> ELSE <<before[i]>>]
        = [i \in 1 .. n |-> <<after[i]>>]
    BY <1>3
  <2> QED BY <2>1, <2>2
<1>6. FlattenSeq([i \in 1 .. n |-> <<after[i]>>]) = after
  <2> HIDE DEF after, S, n
  <2> QED BY <1>2, SingletonsFlattened
<1> QED BY <1>5, <1>6

\* The subject is the template with the values of all its names.
LEMMA SubjectIsFilled ==
    ASSUME NEW route, IsTemplate(route.subject), NEW names, IsFiniteSet(names),
           NEW order \in Orders(names),
           \A name \in names : TokensOf[value(route, name)] = <<Literal(value(route, name))>>
    PROVE  Subject(route, order) = Filled(route.subject, route, names)
<1> DEFINE t == route.subject
           l == Len(order)
           D == 0 .. l
           Done(n) == {order[k] : k \in 1 .. n}
           F == [n \in D |-> Filled(t, route, Done(n))]
           Solves(f) == f = [n \in D |->
                IF n = 0 THEN t ELSE Substituted(f[n - 1], order[n], TokensOf[value(route, order[n])])]
           after == CHOOSE f : Solves(f)
<1>1. order \in [1 .. Cardinality(names) -> names] /\ Range(order) = names
  BY DEF Orders
<1>2. Cardinality(names) \in Nat
  BY FS_CardinalityType
<1>3. l = Cardinality(names) /\ l \in Nat /\ \A k \in 1 .. l : order[k] \in names
  BY <1>1, <1>2
<1>4. Done(l) = names
  BY <1>1, <1>3 DEF Range
<1>5. Filled(t, route, Done(0)) = t
  <2>1. Done(0) = {}
    OBVIOUS
  <2>2. t \in Seq(Range(t))
    BY TemplatesAreTyped
  <2>3. Filled(t, route, {}) = [i \in 1 .. Len(t) |-> t[i]]
    BY DEF Filled
  <2>4. [i \in 1 .. Len(t) |-> t[i]] = t
    <3> HIDE DEF t
    <3> QED BY <2>2
  <2> QED BY <2>1, <2>3, <2>4
<1>6. ASSUME NEW n \in D, n # 0
      PROVE  /\ n - 1 \in D /\ n - 1 < n
             /\ Substituted(Filled(t, route, Done(n - 1)), order[n], TokensOf[value(route, order[n])])
                    = Filled(t, route, Done(n))
  <2>1. n \in 1 .. l /\ n - 1 \in D /\ n - 1 < n
    BY <1>3, <1>6
  <2>2. TokensOf[value(route, order[n])] = <<Literal(value(route, order[n]))>>
    BY <1>3, <2>1
  <2>3. Done(n) = Done(n - 1) \cup {order[n]}
    <3>1. \A k \in 1 .. n : k \in 1 .. n - 1 \/ k = n
      BY <2>1
    <3>2. \A k \in 1 .. n - 1 : k \in 1 .. n
      BY <2>1
    <3>3. n \in 1 .. n
      BY <2>1
    <3> QED BY <3>1, <3>2, <3>3
  <2> HIDE DEF Done
  <2>4. Substituted(Filled(t, route, Done(n - 1)), order[n], <<Literal(value(route, order[n]))>>)
            = Filled(t, route, Done(n - 1) \cup {order[n]})
    BY OneMoreFilled
  <2> QED BY <2>1, <2>2, <2>3, <2>4
<1>7. Subject(route, order) = after[l]
  BY DEF Subject
<1>8. Solves(F)
  <2> HIDE DEF Done
  <2>1. \A n \in D : n # 0 => n - 1 \in D /\ F[n - 1] = Filled(t, route, Done(n - 1))
    BY <1>6
  <2>2. ASSUME NEW n \in D
        PROVE  Filled(t, route, Done(n)) =
                IF n = 0 THEN t ELSE Substituted(F[n - 1], order[n], TokensOf[value(route, order[n])])
    BY <1>5, <1>6, <2>1
  <2>3. F = [n \in D |-> IF n = 0 THEN t
                         ELSE Substituted(F[n - 1], order[n], TokensOf[value(route, order[n])])]
    BY <2>2
  <2> QED BY <2>3
<1>9. Solves(after)
  <2> HIDE DEF Solves, F
  <2> QED BY <1>8
<1>10. \A n \in D : after[n] =
            IF n = 0 THEN t ELSE Substituted(after[n - 1], order[n], TokensOf[value(route, order[n])])
  <2> HIDE DEF after
  <2> QED BY <1>9
<1> DEFINE M == [n \in D |-> n]
           T == {n \in D : after[n] = Filled(t, route, Done(n))}
<1>11. ASSUME NEW n \in D, \A c \in D : M[c] < M[n] => c \in T
       PROVE  n \in T
  <2> HIDE DEF after, Done
  <2>1. CASE n = 0
    BY <1>5, <1>10, <2>1
  <2>2. CASE n # 0
    <3>1. n - 1 \in D /\ n - 1 < n
      BY <1>6, <2>2
    <3>2. after[n - 1] = Filled(t, route, Done(n - 1))
      BY <1>11, <3>1
    <3> QED BY <1>6, <1>10, <2>2, <3>2
  <2> QED BY <2>1, <2>2
<1>12. D \subseteq T
  <2>1. M \in [D -> Nat]
    BY <1>3
  <2> HIDE DEF T, M, D
  <2> QED BY <1>11, <2>1, MeasureInduction
<1>13. l \in D
  BY <1>3
<1>14. after[l] = Filled(t, route, Done(l))
  BY <1>12, <1>13
<1> HIDE DEF after, Done
<1> QED BY <1>4, <1>7, <1>14

LEMMA SubjectMeans ==
    ASSUME input \in Inputs, Valid, NEW k \in DOMAIN routes, Accepts(routes[k]),
           NEW order \in Orders(DOMAIN routes[k].parameters)
    PROVE  /\ Len(Subject(routes[k], order)) = Len(routes[k].subject)
           /\ \A i \in DOMAIN routes[k].subject :
                IF routes[k].subject[i].kind = "literal"
                THEN Subject(routes[k], order)[i] = routes[k].subject[i]
                ELSE /\ Subject(routes[k], order)[i] = Literal(value(routes[k], routes[k].subject[i].name))
                     /\ value(routes[k], routes[k].subject[i].name) # <<>>
                     /\ Range(value(routes[k], routes[k].subject[i].name)) \subseteq Safe
<1> DEFINE route == routes[k]
           t == route.subject
           names == DOMAIN route.parameters
           built == Subject(route, order)
<1>1. validateParameters(route)
  BY DEF Valid, validateRoutes, validateRoute
<1>2. IsTemplate(route.path) /\ IsTemplate(t)
  BY RoutesAreTyped
<1>3. names = ParametersIn(route.path) \cup ParametersIn(t)
  BY <1>1 DEF validateParameters
<1>4. IsFiniteSet(names)
  BY <1>2, <1>3, ParametersAreFinite, FS_Union
<1>5. \A name \in names :
        /\ value(route, name) # <<>> /\ Range(value(route, name)) \subseteq Safe
        /\ TokensOf[value(route, name)] = <<Literal(value(route, name))>>
  BY TakenIsOneToken
<1>6. Len(t) \in Nat /\ DOMAIN t = 1 .. Len(t)
      /\ \A i \in 1 .. Len(t) : t[i].kind # "literal" => t[i].kind = "parameter"
  BY <1>2, TemplatesAreTyped
<1>7. \A i \in DOMAIN t : t[i].kind = "parameter" => t[i].name \in names
  BY <1>3 DEF ParametersIn
<1> HIDE DEF route, t, names
<1>8. built = Filled(t, route, names)
  BY <1>2, <1>4, <1>5, SubjectIsFilled DEF t, names, route
<1>9. built = [i \in 1 .. Len(t) |->
        IF t[i].kind = "parameter" /\ t[i].name \in names THEN Literal(value(route, t[i].name)) ELSE t[i]]
  BY <1>8 DEF Filled
<1> HIDE DEF built
<1>10. Len(built) = Len(t)
  BY <1>6, <1>9
<1>11. \A i \in DOMAIN t :
        IF t[i].kind = "literal" THEN built[i] = t[i]
        ELSE /\ built[i] = Literal(value(route, t[i].name))
             /\ value(route, t[i].name) # <<>> /\ Range(value(route, t[i].name)) \subseteq Safe
  BY <1>5, <1>6, <1>7, <1>9
<1> QED BY <1>10, <1>11 DEF built, t, route

\* A subject is only built by the candidate that matches.
LEMMA SubjectBuilt ==
    ASSUME MatchingInvariant, SubjectAsDeclared, [Next]_vars
    PROVE  SubjectAsDeclared'
<1>1. CASE UNCHANGED vars
  <2>1. UNCHANGED <<input, next, outcome, result>>
    BY <1>1 DEF vars
  <2>2. routes' = routes /\ \A name : value(routes[next], name)' = value(routes[next], name)
    BY <2>1 DEF routes, value, QueryParameters, request
  <2>3. CASE outcome # "subject"
    BY <2>1, <2>3 DEF SubjectAsDeclared
  <2>4. CASE outcome = "subject"
    BY <2>1, <2>2, <2>4 DEF SubjectAsDeclared
  <2> QED BY <2>3, <2>4
<1>2. CASE Validate \/ FallThrough
  <2>1. outcome' # "subject"
    BY <1>2, MatchingAssumption DEF Validate, FallThrough, End, MatchingInvariant
  <2> QED BY <2>1 DEF SubjectAsDeclared
<1>3. CASE TryCandidate
  <2>1. phase = "serve" /\ next <= Len(routes) /\ outcome = None /\ Valid /\ input \in Inputs
    BY <1>3, MatchingAssumption DEF TryCandidate, MatchingInvariant
  <2>2. CASE outcome' # "subject"
    BY <2>2 DEF SubjectAsDeclared
  <2>3. CASE outcome' = "subject"
    <3>1. /\ Match(routes[next]) = "yes"
          /\ \E order \in Orders(DOMAIN routes[next].parameters) : result' = Subject(routes[next], order)
          /\ next' = next /\ input' = input
      BY <1>3, <2>1, <2>3, MatchingAssumption DEF TryCandidate, End
    <3>2. PICK order \in Orders(DOMAIN routes[next].parameters) : result' = Subject(routes[next], order)
      BY <3>1
    <3>3. next \in DOMAIN routes
      <4>1. Len(routes) \in Nat /\ DOMAIN routes = 1 .. Len(routes)
        BY <2>1, RoutesAreNumbered
      <4>2. next \in Nat /\ next >= 1
        BY DEF MatchingInvariant
      <4> HIDE DEF routes
      <4> QED BY <2>1, <4>1, <4>2
    <3>4. Accepts(routes[next])
      BY <2>1, <3>1, <3>3, MatchMeans
    <3>5. routes' = routes /\ \A name : value(routes[next], name)' = value(routes[next], name)
      BY <3>1 DEF routes, value, QueryParameters, request
    <3>6. /\ Len(result') = Len(routes[next].subject)
          /\ \A i \in DOMAIN routes[next].subject :
                IF routes[next].subject[i].kind = "literal" THEN result'[i] = routes[next].subject[i]
                ELSE /\ result'[i] = Literal(value(routes[next], routes[next].subject[i].name))
                     /\ value(routes[next], routes[next].subject[i].name) # <<>>
                     /\ Range(value(routes[next], routes[next].subject[i].name)) \subseteq Safe
      BY <2>1, <3>2, <3>3, <3>4, SubjectMeans
    <3> QED BY <3>1, <3>5, <3>6 DEF SubjectAsDeclared
  <2> QED BY <2>2, <2>3
<1> QED BY <1>1, <1>2, <1>3 DEF Next

\* The subject has the tokens of the declared template, with one safe token for
\* each parameter: no pattern that validateSafeParameterPattern accepts and no
\* order in which Route.Match puts the values in gives it another shape.
THEOREM SubjectsAreDeclared == Spec => []SubjectAsDeclared
<1>1. Init => MatchingInvariant
  BY MatchingStart
<1>2. Init => SubjectAsDeclared
  BY MatchingAssumption DEF Init, SubjectAsDeclared
<1>3. MatchingInvariant /\ [Next]_vars => MatchingInvariant'
  BY MatchingStep
<1>4. MatchingInvariant /\ SubjectAsDeclared /\ [Next]_vars => SubjectAsDeclared'
  BY SubjectBuilt
<1> QED BY <1>1, <1>2, <1>3, <1>4, PTL DEF Spec

=============================================================================
