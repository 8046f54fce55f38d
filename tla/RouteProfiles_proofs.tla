------------------------- MODULE RouteProfiles_proofs -------------------------
(***************************************************************************)
(* What holds of every configuration, written as JSON or as a Caddyfile,   *)
(* of any size: profiles whose extends links are broken are never resolved *)
(* in any order in which Go iterates over them; an effective route is what *)
(* the history of its chain of overrides means; a block of a Caddyfile     *)
(* means what its lines say; and the routes that UnmarshalCaddyfile emits  *)
(* resolve to themselves when Provision reads them back.                   *)
(***************************************************************************)
EXTENDS CaddyfileAdapter, SequenceTheorems, FiniteSetTheorems, WellFoundedInduction, TLAPS

\* The names in the active calls of resolveProfile.
Active == {stack[i] : i \in DOMAIN stack}

\* Every resolved profile has a resolved parent or none.
ParentsFirst == \A name \in DOMAIN cache : profile(name).extends \in DOMAIN cache \cup {None}

\* Some profile of a set has no parent in it.
HasRoot(some) == \E name \in some : profile(name).extends \notin some

\* No resolved profiles are a cycle.
NoCycle == \A some \in SUBSET DOMAIN cache : some # {} => HasRoot(some)

\* While the loop of lines 66-70 runs.  That the visiting mark is exactly on the
\* names of the active calls keeps a call from being entered twice, and that
\* none of these is cached keeps a profile from being its own ancestor.
Resolving ==
    /\ None \notin Names
    /\ pending \subseteq Names
    /\ stack \in Seq(Names) /\ IsInjective(stack)
    /\ visiting = Active
    /\ DOMAIN cache \subseteq Names /\ DOMAIN cache \cap Active = {}
    /\ Names \subseteq pending \cup DOMAIN cache \cup Active
    /\ ParentsFirst /\ NoCycle

Unresolved == stack = <<>> /\ visiting = {} /\ DOMAIN cache = {}

ProfilesInvariant ==
    /\ phase \in {"read", "declare"} => Unresolved
    /\ phase \in {"profiles", "routes", "done"} => Resolving
    /\ phase \in {"routes", "done"} => Names \subseteq DOMAIN cache

\* profile finds a profile of the name.
LEMMA ProfileFound ==
    ASSUME NEW name \in Names
    PROVE  profile(name).name = name
<1>1. \E p \in ToSet(config.profiles) : p.name = name
  BY DEF Names, ToSet
<1> QED BY <1>1, Zenon DEF profile

\* The configuration and what is read of it stay while it is resolved.
LEMMA ProfilesStay ==
    ASSUME UNCHANGED config
    PROVE  Names' = Names /\ \A name : profile(name)' = profile(name)
BY DEF Names, profile

LEMMA ResolvingStays ==
    ASSUME UNCHANGED <<config, pending, stack, visiting, cache>>
    PROVE  (Resolving' <=> Resolving) /\ (Unresolved' <=> Unresolved) /\ Names' = Names
<1>1. Names' = Names /\ \A name : profile(name)' = profile(name)
  BY ProfilesStay
<1>2. Active' = Active /\ (ParentsFirst' <=> ParentsFirst)
  BY <1>1 DEF Active, ParentsFirst
<1>3. NoCycle' <=> NoCycle
  BY <1>1 DEF NoCycle, HasRoot
<1> QED BY <1>1, <1>2, <1>3 DEF Resolving, Unresolved

\* A call enters a profile that no active call has entered.
LEMMA CallEntered ==
    ASSUME Resolving, NEW name \in Names, name \notin Active, name \notin DOMAIN cache,
           stack' = Append(stack, name), visiting' = visiting \cup {name},
           UNCHANGED <<config, cache>>,
           pending' \subseteq pending, pending \subseteq pending' \cup {name}
    PROVE  Resolving'
<1>1. Names' = Names /\ \A n : profile(n)' = profile(n)
  BY ProfilesStay
<1>2. stack \in Seq(Names) /\ Len(stack) \in Nat /\ DOMAIN stack = 1 .. Len(stack)
  BY DEF Resolving
<1>3. /\ stack' \in Seq(Names)
      /\ DOMAIN stack' = 1 .. Len(stack) + 1
      /\ \A i \in 1 .. Len(stack) : stack'[i] = stack[i]
      /\ stack'[Len(stack) + 1] = name
  BY <1>2
<1>4. Active' = Active \cup {name}
  BY <1>2, <1>3 DEF Active
<1>5. IsInjective(stack)'
  <2> SUFFICES ASSUME NEW i \in DOMAIN stack', NEW j \in DOMAIN stack', stack'[i] = stack'[j]
               PROVE  i = j
    BY DEF IsInjective
  <2>1. \A k \in 1 .. Len(stack) : stack[k] # name
    BY <1>2 DEF Active
  <2>2. \A k, l \in 1 .. Len(stack) : stack[k] = stack[l] => k = l
    BY <1>2 DEF Resolving, IsInjective
  <2>3. \A k \in DOMAIN stack' : k \in 1 .. Len(stack) \/ k = Len(stack) + 1
    BY <1>2, <1>3
  <2> QED BY <1>3, <2>1, <2>2, <2>3
<1>6. (ParentsFirst' <=> ParentsFirst) /\ (NoCycle' <=> NoCycle)
  BY <1>1 DEF ParentsFirst, NoCycle, HasRoot
<1> QED BY <1>1, <1>3, <1>4, <1>5, <1>6 DEF Resolving

\* A profile whose parent is resolved, or that has none, closes no cycle.
LEMMA RootsRemain ==
    ASSUME NEW D, NEW name, name \notin D, name # None,
           profile(name).extends \in D \cup {None},
           \A n \in D : profile(n).extends \in D \cup {None},
           \A some \in SUBSET D : some # {} => HasRoot(some),
           NEW some \in SUBSET (D \cup {name}), some # {}
    PROVE  HasRoot(some)
<1>1. CASE name \notin some
  <2>1. some \in SUBSET D
    BY <1>1
  <2> QED BY <2>1
<1>2. CASE name \in some /\ some \ {name} = {}
  BY <1>2 DEF HasRoot
<1>3. CASE name \in some /\ some \ {name} # {}
  <2>1. some \ {name} \in SUBSET D
    OBVIOUS
  <2>2. PICK n \in some \ {name} : profile(n).extends \notin some \ {name}
    BY <1>3, <2>1 DEF HasRoot
  <2>3. profile(n).extends # name
    BY <2>1, <2>2
  <2> QED BY <2>2, <2>3 DEF HasRoot
<1> QED BY <1>1, <1>2, <1>3

\* A call returns once its profile is merged over its parent.
LEMMA CallReturns ==
    ASSUME Resolving, stack # <<>>, Current.extends \in DOMAIN cache \cup {None},
           DOMAIN cache' = DOMAIN cache \cup {Current.name},
           stack' = Front(stack), visiting' = visiting \ {Current.name},
           UNCHANGED <<config, pending>>
    PROVE  Resolving'
<1> DEFINE name == Last(stack)
           D == DOMAIN cache
<1>1. Names' = Names /\ \A n : profile(n)' = profile(n)
  BY ProfilesStay
<1>2. /\ stack \in Seq(Names) /\ Len(stack) \in Nat \ {0} /\ DOMAIN stack = 1 .. Len(stack)
      /\ name = stack[Len(stack)] /\ name \in Names /\ name \in Active
  BY DEF Resolving, Last, Active
<1>3. Current.name = name /\ profile(name).extends = Current.extends
  BY <1>2, ProfileFound DEF Current
<1>4. /\ stack' \in Seq(Names)
      /\ DOMAIN stack' = 1 .. Len(stack) - 1
      /\ \A i \in 1 .. Len(stack) - 1 : stack'[i] = stack[i]
  <2>1. Len(stack) - 1 \in Nat /\ \A i \in 1 .. Len(stack) - 1 : stack[i] \in Names
    BY <1>2
  <2> QED BY <1>2, <2>1 DEF Front
<1>5. \A k, l \in 1 .. Len(stack) : stack[k] = stack[l] => k = l
  BY <1>2 DEF Resolving, IsInjective
<1>6. Active' = Active \ {name}
  <2>1. Active' = {stack[i] : i \in 1 .. Len(stack) - 1}
    BY <1>4 DEF Active
  <2>2. \A i \in 1 .. Len(stack) : i \in 1 .. Len(stack) - 1 <=> stack[i] # name
    BY <1>2, <1>5
  <2>3. 1 .. Len(stack) - 1 \subseteq 1 .. Len(stack)
    BY <1>2
  <2>4. Active = {stack[i] : i \in 1 .. Len(stack)}
    BY <1>2 DEF Active
  <2> HIDE DEF name
  <2> QED BY <2>1, <2>2, <2>3, <2>4
<1>7. IsInjective(stack)'
  <2>1. \A i \in 1 .. Len(stack) - 1 : i \in 1 .. Len(stack)
    BY <1>2
  <2> QED BY <1>4, <1>5, <2>1 DEF IsInjective
<1>8. name \notin D /\ name # None
  BY <1>2 DEF Resolving
<1>9. ParentsFirst'
  BY <1>1, <1>3 DEF Resolving, ParentsFirst
<1>10. NoCycle'
  <2> SUFFICES ASSUME NEW some \in SUBSET (D \cup {name}), some # {} PROVE HasRoot(some)
    BY <1>1, <1>3 DEF NoCycle, HasRoot
  <2> HIDE DEF name, D
  <2>1. /\ \A n \in D : profile(n).extends \in D \cup {None}
        /\ \A s \in SUBSET D : s # {} => HasRoot(s)
    BY DEF Resolving, ParentsFirst, NoCycle, D
  <2>2. profile(name).extends \in D \cup {None}
    BY <1>3 DEF D
  <2> QED BY <1>8, <2>1, <2>2, RootsRemain
<1> HIDE DEF name
<1> QED BY <1>1, <1>2, <1>3, <1>4, <1>6, <1>7, <1>9, <1>10 DEF Resolving

\* Every step of resolvedRoutes keeps the invariant.
LEMMA ResolutionKeeps ==
    ASSUME ProfilesInvariant, Next
    PROVE  ProfilesInvariant'
<1>1. CASE Declare
  <2>1. CASE phase' = "profiles"
    <3>1. /\ phase = "declare" /\ WellDeclared /\ pending' = Names
          /\ UNCHANGED <<config, stack, visiting, cache, resolved>>
      BY <1>1, <2>1 DEF Declare, Reject
    <3>2. Unresolved /\ Names' = Names
      BY <3>1, ProfilesStay DEF ProfilesInvariant
    <3>3. Active' = {} /\ stack' = <<>> /\ visiting' = {} /\ DOMAIN cache' = {}
      BY <3>1, <3>2 DEF Unresolved, Active
    <3>4. stack' \in Seq(Names) /\ IsInjective(stack)'
      BY <3>3 DEF IsInjective
    <3>5. ParentsFirst' /\ NoCycle'
      BY <3>3 DEF ParentsFirst, NoCycle
    <3> QED BY <2>1, <3>1, <3>2, <3>3, <3>4, <3>5 DEF ProfilesInvariant, Resolving, WellDeclared
  <2>2. CASE phase' = "rejected"
    BY <2>2 DEF ProfilesInvariant
  <2> QED BY <1>1, <2>1, <2>2 DEF Declare, Reject
<1>2. ASSUME NEW name \in pending, ResolveNext(name)
      PROVE  ProfilesInvariant'
  <2>1. Resolving /\ phase = "profiles" /\ phase' = phase /\ name \in Names
    BY <1>2 DEF ResolveNext, ProfilesInvariant, Resolving
  <2>2. stack = <<>> /\ Active = {} /\ pending' = pending \ {name}
    BY <1>2 DEF ResolveNext, Active
  <2>3. CASE name \in DOMAIN cache
    <3>1. UNCHANGED <<config, stack, visiting, cache>>
      BY <1>2, <2>3 DEF ResolveNext
    <3>2. Names' = Names /\ \A n : profile(n)' = profile(n)
      BY <3>1, ProfilesStay
    <3>3. Active' = Active /\ (ParentsFirst' <=> ParentsFirst) /\ (NoCycle' <=> NoCycle)
      BY <3>1, <3>2 DEF Active, ParentsFirst, NoCycle, HasRoot
    <3>4. Resolving'
      BY <2>1, <2>2, <2>3, <3>1, <3>2, <3>3 DEF Resolving
    <3> QED BY <2>1, <3>4 DEF ProfilesInvariant
  <2>4. CASE name \notin DOMAIN cache
    <3>1. stack' = Append(stack, name)
      BY <1>2, <2>2, <2>4 DEF ResolveNext
    <3>2. Resolving'
      BY <1>2, <2>1, <2>2, <2>4, <3>1, CallEntered DEF ResolveNext
    <3> QED BY <2>1, <3>2 DEF ProfilesInvariant
  <2> QED BY <2>3, <2>4
<1>3. CASE ResolveParent
  <2>1. CASE phase' = "rejected"
    BY <2>1 DEF ProfilesInvariant
  <2>2. CASE phase' # "rejected"
    <3>1. /\ phase = "profiles" /\ phase' = phase
          /\ Current.extends \in Names /\ Current.extends \notin visiting
          /\ Current.extends \notin DOMAIN cache
          /\ stack' = Append(stack, Current.extends)
          /\ visiting' = visiting \cup {Current.extends}
          /\ UNCHANGED <<config, pending, cache>>
      BY <1>3, <2>2 DEF ResolveParent, Reject, isVisiting
    <3>2. Resolving
      BY <3>1 DEF ProfilesInvariant
    <3>3. Current.extends \notin Active
      BY <3>1, <3>2 DEF Resolving
    <3> HIDE DEF Current
    <3>4. Resolving'
      BY <3>1, <3>2, <3>3, CallEntered
    <3> QED BY <3>1, <3>4 DEF ProfilesInvariant
  <2> QED BY <2>1, <2>2
<1>4. CASE MergeProfile
  <2>1. CASE phase' = "rejected"
    BY <2>1 DEF ProfilesInvariant
  <2>2. CASE phase' # "rejected"
    <3>1. /\ phase = "profiles" /\ phase' = phase /\ stack # <<>>
          /\ Current.extends \in DOMAIN cache \cup {None}
          /\ DOMAIN cache' = DOMAIN cache \cup {Current.name}
          /\ stack' = Front(stack)
          /\ visiting' = visiting \ {Current.name}
          /\ UNCHANGED <<config, pending>>
      BY <1>4, <2>2 DEF MergeProfile, Reject, Joined
    <3>2. Resolving'
      BY <3>1, CallReturns DEF ProfilesInvariant
    <3> QED BY <3>1, <3>2 DEF ProfilesInvariant
  <2> QED BY <2>1, <2>2
<1>5. CASE ProfilesDone
  <2>1. Resolving /\ phase' = "routes" /\ stack = <<>> /\ pending = {}
        /\ UNCHANGED <<config, pending, stack, visiting, cache, resolved>>
    BY <1>5 DEF ProfilesDone, ProfilesInvariant
  <2>2. Resolving' /\ Names' = Names
    BY <2>1, ResolvingStays
  <2>3. Active = {}
    BY <2>1 DEF Active
  <2>4. Names' \subseteq DOMAIN cache'
    BY <2>1, <2>2, <2>3 DEF Resolving
  <2> QED BY <2>1, <2>2, <2>4 DEF ProfilesInvariant
<1>6. CASE ResolveRoute \/ RoutesDone
  <2>1. CASE phase' = "rejected"
    BY <2>1 DEF ProfilesInvariant
  <2>2. CASE phase' # "rejected"
    <3>1. /\ phase = "routes" /\ phase' \in {"routes", "done"}
          /\ UNCHANGED <<config, pending, stack, visiting, cache>>
      BY <1>6, <2>2 DEF ResolveRoute, RoutesDone, Reject
    <3>2. Resolving' /\ Names' = Names
      BY <3>1, ResolvingStays DEF ProfilesInvariant
    <3> QED BY <3>1, <3>2 DEF ProfilesInvariant
  <2> QED BY <2>1, <2>2
<1> QED BY <1>1, <1>2, <1>3, <1>4, <1>5, <1>6 DEF Next

\* So does every step of the adapter.
LEMMA AdapterKeeps ==
    ASSUME ProfilesInvariant, [AdapterNext]_adapterVars
    PROVE  ProfilesInvariant'
<1>1. CASE UNCHANGED <<phase, config, pending, stack, visiting, cache>>
  <2>1. (Resolving' <=> Resolving) /\ (Unresolved' <=> Unresolved) /\ Names' = Names
    BY <1>1, ResolvingStays
  <2> QED BY <1>1, <2>1 DEF ProfilesInvariant
<1>2. CASE phase' = "rejected"
  BY <1>2 DEF ProfilesInvariant
<1>3. CASE BeginRoute \/ HandlerOption \/ ReadOption
  BY <1>1, <1>2, <1>3 DEF BeginRoute, HandlerOption, ReadOption, Reject, vars
<1>4. CASE EndRoute \/ EndFile
  <2>1. phase = "read" /\ phase' \in {"read", "declare"} /\ UNCHANGED <<stack, visiting, cache>>
    BY <1>4 DEF EndRoute, EndFile, resolution
  <2> QED BY <2>1 DEF ProfilesInvariant, Unresolved
<1>5. CASE Emit
  <2>1. /\ phase = "done" /\ phase' = "declare" /\ DOMAIN cache' = {}
        /\ UNCHANGED <<pending, stack, visiting>>
    BY <1>5 DEF Emit, Map
  <2>2. Resolving /\ Names \subseteq DOMAIN cache
    BY <2>1 DEF ProfilesInvariant
  <2>3. Active = {}
    <3>1. Active \subseteq Names
      BY <2>2 DEF Resolving, Active
    <3> QED BY <2>2, <3>1 DEF Resolving
  <2>4. stack = <<>> /\ visiting = {}
    BY <2>2, <2>3 DEF Resolving, Active
  <2> QED BY <2>1, <2>4 DEF ProfilesInvariant, Unresolved
<1>6. CASE Next
  BY <1>6, ResolutionKeeps
<1> QED BY <1>1, <1>3, <1>4, <1>5, <1>6 DEF AdapterNext, adapterVars, vars

\* A configuration that is resolved has no unknown parent and no cycle, of JSON or
\* of a Caddyfile, whatever the order of the loop of lines 66-70.
THEOREM BrokenChainsAreRejected == AdapterSpec => []BrokenChainsRejected
<1>1. AdapterInit => ProfilesInvariant
  BY DEF AdapterInit, Init, Map, ProfilesInvariant, Unresolved
<1>2. ProfilesInvariant /\ [AdapterNext]_adapterVars => ProfilesInvariant'
  BY AdapterKeeps
<1>3. ProfilesInvariant => BrokenChainsRejected
  BY DEF ProfilesInvariant, Resolving, ParentsFirst, NoCycle, HasRoot, BrokenChainsRejected
<1> QED BY <1>1, <1>2, <1>3, PTL DEF AdapterSpec

----------------------------------------------------------------------------
(* The Caddyfile adapter: the lines of a block, one after the other.       *)

\* What appending a line does to the lines with an option.
WithLine(longer, lines, l, option) ==
    /\ l.option = option =>
        /\ LinesWith(longer, option) = LinesWith(lines, option) \cup {Len(lines) + 1}
        /\ ValuesOf(longer, option) = ValuesOf(lines, option) \cup {l.value}
    /\ l.option # option =>
        /\ LinesWith(longer, option) = LinesWith(lines, option)
        /\ ValuesOf(longer, option) = ValuesOf(lines, option)

LEMMA LineAppended ==
    ASSUME NEW S, NEW lines \in Seq(S), NEW l \in S, NEW option
    PROVE  WithLine(Append(lines, l), lines, l, option)
<1> DEFINE longer == Append(lines, l)
           n == Len(lines)
<1>1. /\ n \in Nat /\ DOMAIN lines = 1 .. n /\ DOMAIN longer = 1 .. n + 1
      /\ longer[n + 1] = l /\ \A i \in 1 .. n : longer[i] = lines[i]
  OBVIOUS
<1>2. \A i : i \in 1 .. n + 1 <=> i \in 1 .. n \/ i = n + 1
  BY <1>1
<1>3. n + 1 \notin 1 .. n
  BY <1>1
<1> HIDE DEF longer, n
<1>4. /\ l.option = option => LinesWith(longer, option) = LinesWith(lines, option) \cup {n + 1}
      /\ l.option # option => LinesWith(longer, option) = LinesWith(lines, option)
  <2>1. \A i : i \in LinesWith(longer, option) <=>
                 i \in LinesWith(lines, option) \/ (l.option = option /\ i = n + 1)
    BY <1>1, <1>2 DEF LinesWith
  <2> QED BY <2>1
<1>5. \A v : v \in ValuesOf(longer, option) <=>
               v \in ValuesOf(lines, option) \/ (l.option = option /\ v = l.value)
  <2>1. ASSUME NEW v, v \in ValuesOf(longer, option)
        PROVE  v \in ValuesOf(lines, option) \/ (l.option = option /\ v = l.value)
    <3>1. PICK i \in LinesWith(longer, option) : v = longer[i].value
      BY <2>1 DEF ValuesOf
    <3>2. CASE i \in LinesWith(lines, option)
      <4>1. longer[i] = lines[i]
        BY <1>1, <3>2 DEF LinesWith
      <4> QED BY <3>1, <3>2, <4>1 DEF ValuesOf
    <3>3. CASE l.option = option /\ i = n + 1
      BY <1>1, <3>1, <3>3
    <3> QED BY <1>4, <3>1, <3>2, <3>3
  <2>2. ASSUME NEW v, v \in ValuesOf(lines, option)
        PROVE  v \in ValuesOf(longer, option)
    <3>1. PICK i \in LinesWith(lines, option) : v = lines[i].value
      BY <2>2 DEF ValuesOf
    <3>2. longer[i] = lines[i] /\ i \in LinesWith(longer, option)
      BY <1>1, <1>4, <3>1 DEF LinesWith
    <3> QED BY <3>1, <3>2 DEF ValuesOf
  <2>3. ASSUME l.option = option
        PROVE  l.value \in ValuesOf(longer, option)
    <3>1. n + 1 \in LinesWith(longer, option)
      BY <1>4, <2>3
    <3> QED BY <1>1, <3>1 DEF ValuesOf
  <2> QED BY <2>1, <2>2, <2>3
<1>6. /\ l.option = option => ValuesOf(longer, option) = ValuesOf(lines, option) \cup {l.value}
      /\ l.option # option => ValuesOf(longer, option) = ValuesOf(lines, option)
  BY <1>5
<1> QED BY <1>4, <1>6 DEF WithLine, longer, n

\* What it does to the value written for an option.
LEMMA ValueAppended ==
    ASSUME NEW S, NEW lines \in Seq(S), NEW l \in S, NEW option, NEW default,
           l.option = option => LinesWith(lines, option) = {}
    PROVE  WrittenFor(Append(lines, l), option, default) =
             IF l.option = option THEN l.value ELSE WrittenFor(lines, option, default)
<1> DEFINE longer == Append(lines, l)
<1>1. CASE l.option = option
  <2>1. LinesWith(longer, option) # {}
    <3>1. LinesWith(longer, option) = LinesWith(lines, option) \cup {Len(lines) + 1}
      BY <1>1, LineAppended DEF WithLine
    <3> QED BY <3>1
  <2>2. ValuesOf(lines, option) = {}
    BY <1>1 DEF ValuesOf
  <2>3. ValuesOf(longer, option) = {l.value}
    <3>1. ValuesOf(longer, option) = ValuesOf(lines, option) \cup {l.value}
      BY <1>1, LineAppended DEF WithLine
    <3> QED BY <2>2, <3>1
  <2> QED BY <1>1, <2>1, <2>3 DEF WrittenFor
<1>2. CASE l.option # option
  <2>1. LinesWith(longer, option) = LinesWith(lines, option) /\ ValuesOf(longer, option) = ValuesOf(lines, option)
    BY <1>2, LineAppended DEF WithLine
  <2> QED BY <1>2, <2>1 DEF WrittenFor
<1> QED BY <1>1, <1>2

\* Joining maps.
LEMMA JoinedMap ==
    ASSUME NEW f \in Maps, NEW g \in Maps
    PROVE  Joined(f, g) \in Maps /\ DOMAIN Joined(f, g) = DOMAIN f \cup DOMAIN g
<1>1. PICK S \in SUBSET ParameterNames, T \in SUBSET ParameterNames :
        f \in [S -> {"path"}] /\ g \in [T -> {"path"}]
  BY DEF Maps
<1>2. Joined(f, g) \in [S \cup T -> {"path"}]
  BY <1>1 DEF Joined
<1>3. S \cup T \in SUBSET ParameterNames
  OBVIOUS
<1>4. DOMAIN Joined(f, g) = DOMAIN f \cup DOMAIN g
  BY DEF Joined
<1> QED BY <1>2, <1>3, <1>4 DEF Maps

LEMMA ParameterAdded ==
    ASSUME NEW map \in Maps, NEW name \in ParameterNames
    PROVE  WithParameter(map, name) \in Maps /\ DOMAIN WithParameter(map, name) = DOMAIN map \cup {name}
<1>1. [n \in {name} |-> "path"] \in [{name} -> {"path"}] /\ {name} \in SUBSET ParameterNames
  OBVIOUS
<1>2. [n \in {name} |-> "path"] \in Maps
  BY <1>1 DEF Maps
<1>3. /\ WithParameter(map, name) \in Maps
      /\ DOMAIN WithParameter(map, name) = {name} \cup DOMAIN map
  BY <1>2, JoinedMap DEF WithParameter
<1> QED BY <1>3

\* The fields of a Route once a line has been stored in it.
FieldsStored(o, l, new) ==
    /\ new.timeout = IF l.option = "timeout" THEN l.value ELSE o.timeout
    /\ new.clear = IF l.option = "clear" THEN l.value ELSE o.clear
    /\ new.negotiate_accept = IF l.option = "negotiate_accept" THEN l.value ELSE o.negotiate_accept
    /\ new.request_headers =
         IF l.option = "request_headers" THEN Omitted(l.value, <<>>) ELSE o.request_headers
    /\ new.parameters =
         IF l.option = "parameter"
         THEN WithParameter(IF o.parameters = None THEN Map ELSE o.parameters, l.value)
         ELSE o.parameters
    /\ new.security_context =
         IF l.option = "credential_mechanism"
         THEN [ensureSecurityContext(o) EXCEPT !.mechanism = l.value]
         ELSE IF l.option = "downstream_identity_header"
         THEN [ensureSecurityContext(o) EXCEPT !.downstream_identity =
                 [ensureDownstreamIdentity(ensureSecurityContext(o)) EXCEPT !.header = l.value]]
         ELSE o.security_context
    /\ new.extend = [request_headers |-> new.extend.request_headers,
                     parameters |-> new.extend.parameters]
    /\ new.extend.request_headers =
         IF l.option = "extend_request_headers" THEN l.value ELSE o.extend.request_headers
    /\ new.extend.parameters =
         IF l.option = "extend_parameter" THEN WithParameter(o.extend.parameters, l.value)
         ELSE o.extend.parameters
    /\ new = [timeout |-> new.timeout, request_headers |-> new.request_headers,
              parameters |-> new.parameters, negotiate_accept |-> new.negotiate_accept,
              security_context |-> new.security_context, clear |-> new.clear,
              extend |-> new.extend]

LEMMA StoredFields ==
    ASSUME NEW o \in Overrides, NEW l, l.option \in Known
    PROVE  FieldsStored(o, l, Stored(o, l))
<1> USE DEF Overrides, Stored, FieldsStored
<1>1. CASE l.option = "clear"
  BY <1>1
<1>2. CASE l.option = "timeout"
  BY <1>2
<1>3. CASE l.option = "request_headers"
  BY <1>3
<1>4. CASE l.option = "negotiate_accept"
  BY <1>4
<1>5. CASE l.option = "parameter"
  BY <1>5
<1>6. CASE l.option = "credential_mechanism"
  BY <1>6
<1>7. CASE l.option = "downstream_identity_header"
  BY <1>7
<1>8. CASE l.option = "extend_request_headers"
  BY <1>8
<1>9. CASE l.option = "extend_parameter"
  BY <1>9
<1>10. CASE l.option \in {"use", "extends", "path"}
  BY <1>10
<1> QED
  BY <1>1, <1>2, <1>3, <1>4, <1>5, <1>6, <1>7, <1>8, <1>9, <1>10 DEF Known, LineOptions

LEMMA ArgumentTypes ==
    /\ ValuesFor("timeout") = Nat /\ ValuesFor("credential_mechanism") = Nat
    /\ ValuesFor("downstream_identity_header") = Nat
    /\ ValuesFor("clear") \subseteq Seq(STRING)
    /\ ValuesFor("request_headers") = Seq(HeaderNames)
    /\ ValuesFor("extend_request_headers") = Seq(HeaderNames)
    /\ ValuesFor("negotiate_accept") = {"true", "false"}
    /\ ValuesFor("parameter") = ParameterNames /\ ValuesFor("extend_parameter") = ParameterNames
BY DEF ValuesFor

LEMMA EmptyMap == Map \in Maps /\ DOMAIN Map = {}
<1>1. Map \in [{} -> {"path"}] /\ {} \in SUBSET ParameterNames /\ DOMAIN Map = {}
  BY DEF Map
<1> QED BY <1>1 DEF Maps

LEMMA EnsuredSecurity ==
    ASSUME NEW o, o.security_context \in Securities \cup {None}
    PROVE  ensureSecurityContext(o) \in Securities
BY DEF ensureSecurityContext, EmptySecurity, Securities

\* A line that is stored leaves a Route.
LEMMA StoredOverride ==
    ASSUME NEW o \in Overrides, NEW l, l.option \in Known,
           l.option \in LineOptions => l.value \in ValuesFor(l.option)
    PROVE  /\ Stored(o, l) \in Overrides
           /\ l.option = "parameter" =>
                /\ Stored(o, l).parameters \in Maps
                /\ DOMAIN Stored(o, l).parameters =
                    (IF o.parameters = None THEN {} ELSE DOMAIN o.parameters) \cup {l.value}
           /\ l.option = "extend_parameter" =>
                DOMAIN Stored(o, l).extend.parameters = DOMAIN o.extend.parameters \cup {l.value}
<1> DEFINE new == Stored(o, l)
           base == IF o.parameters = None THEN Map ELSE o.parameters
           security == ensureSecurityContext(o)
           identity == ensureDownstreamIdentity(security)
<1>0. FieldsStored(o, l, new)
  BY StoredFields
<1>1. /\ o.timeout \in Nat /\ o.request_headers \in Seq(HeaderNames) \cup {None}
      /\ o.parameters \in Maps \cup {None}
      /\ o.negotiate_accept \in {"true", "false", "omitted"}
      /\ o.security_context \in Securities \cup {None}
      /\ o.clear \in Seq(STRING)
      /\ o.extend.request_headers \in Seq(HeaderNames) /\ o.extend.parameters \in Maps
  BY DEF Overrides
<1> HIDE DEF new
<1>2. new.timeout \in Nat
  BY <1>0, <1>1, ArgumentTypes DEF LineOptions, FieldsStored
<1>3. new.clear \in Seq(STRING)
  BY <1>0, <1>1, ArgumentTypes DEF LineOptions, FieldsStored
<1>4. new.negotiate_accept \in {"true", "false", "omitted"}
  BY <1>0, <1>1, ArgumentTypes DEF LineOptions, FieldsStored
<1>5. new.request_headers \in Seq(HeaderNames) \cup {None}
  BY <1>0, <1>1, ArgumentTypes DEF LineOptions, Omitted, FieldsStored
<1>6. base \in Maps /\ DOMAIN base = IF o.parameters = None THEN {} ELSE DOMAIN o.parameters
  BY <1>1, EmptyMap
<1>7. l.option = "parameter" =>
        /\ new.parameters \in Maps
        /\ DOMAIN new.parameters = (IF o.parameters = None THEN {} ELSE DOMAIN o.parameters) \cup {l.value}
  <2> SUFFICES ASSUME l.option = "parameter"
               PROVE  /\ new.parameters \in Maps
                      /\ DOMAIN new.parameters =
                            (IF o.parameters = None THEN {} ELSE DOMAIN o.parameters) \cup {l.value}
    OBVIOUS
  <2>1. new.parameters = WithParameter(base, l.value) /\ l.value \in ParameterNames
    BY <1>0, ArgumentTypes DEF LineOptions, FieldsStored
  <2>2. new.parameters \in Maps /\ DOMAIN new.parameters = DOMAIN base \cup {l.value}
    <3> HIDE DEF base
    <3> QED BY <1>6, <2>1, ParameterAdded
  <2> QED BY <1>6, <2>2
<1>8. new.parameters \in Maps \cup {None}
  BY <1>0, <1>1, <1>7 DEF FieldsStored
<1>10. l.option = "extend_parameter" =>
        /\ new.extend.parameters \in Maps
        /\ DOMAIN new.extend.parameters = DOMAIN o.extend.parameters \cup {l.value}
  <2> SUFFICES ASSUME l.option = "extend_parameter"
               PROVE  /\ new.extend.parameters \in Maps
                      /\ DOMAIN new.extend.parameters = DOMAIN o.extend.parameters \cup {l.value}
    OBVIOUS
  <2>1. new.extend.parameters = WithParameter(o.extend.parameters, l.value) /\ l.value \in ParameterNames
    BY <1>0, ArgumentTypes DEF LineOptions, FieldsStored
  <2> QED BY <1>1, <2>1, ParameterAdded
<1>11. new.extend.parameters \in Maps /\ new.extend.request_headers \in Seq(HeaderNames)
  BY <1>0, <1>1, <1>10, ArgumentTypes DEF LineOptions, FieldsStored
<1>12. new.extend \in [request_headers : Seq(HeaderNames), parameters : Maps]
  <2>1. new.extend = [request_headers |-> new.extend.request_headers, parameters |-> new.extend.parameters]
    BY <1>0 DEF FieldsStored
  <2> QED BY <1>11, <2>1
<1>13. new.security_context \in Securities \cup {None}
  <2>1. security \in Securities
    BY <1>1, EnsuredSecurity
  <2>2. identity \in Identities
    BY <2>1 DEF ensureDownstreamIdentity, Securities, Identities
  <2> HIDE DEF security, identity
  <2>3. ASSUME NEW v \in Nat
        PROVE  /\ [security EXCEPT !.mechanism = v] \in Securities
               /\ [security EXCEPT !.downstream_identity = [identity EXCEPT !.header = v]] \in Securities
    BY <2>1, <2>2 DEF Securities, Identities
  <2>4. CASE l.option = "credential_mechanism"
    <3>1. new.security_context = [security EXCEPT !.mechanism = l.value] /\ l.value \in Nat
      BY <1>0, <2>4, ArgumentTypes DEF LineOptions, security, FieldsStored
    <3> QED BY <2>3, <3>1
  <2>5. CASE l.option = "downstream_identity_header"
    <3>1. /\ new.security_context =
                [security EXCEPT !.downstream_identity = [identity EXCEPT !.header = l.value]]
          /\ l.value \in Nat
      BY <1>0, <2>5, ArgumentTypes DEF LineOptions, security, identity, FieldsStored
    <3> QED BY <2>3, <3>1
  <2>6. CASE l.option \notin {"credential_mechanism", "downstream_identity_header"}
    BY <1>0, <1>1, <2>6 DEF FieldsStored
  <2> QED BY <2>4, <2>5, <2>6
<1>14. new = [timeout |-> new.timeout, request_headers |-> new.request_headers,
              parameters |-> new.parameters, negotiate_accept |-> new.negotiate_accept,
              security_context |-> new.security_context, clear |-> new.clear,
              extend |-> new.extend]
  BY <1>0 DEF FieldsStored
<1>15. new \in Overrides
  BY <1>2, <1>3, <1>4, <1>5, <1>8, <1>12, <1>13, <1>14 DEF Overrides
<1> QED BY <1>7, <1>10, <1>15 DEF new

\* Storing a line that is no repetition keeps the Route what its lines say.
LEMMA StoredAsWritten ==
    ASSUME NEW S, NEW lines \in Seq(S), NEW l \in S, NEW o \in Overrides, AsWritten(lines, o),
           l.option \in Known, l.option \in LineOptions => l.value \in ValuesFor(l.option),
           l.option \notin Repeatable => LinesWith(lines, l.option) = {},
           l.option \in Repeatable => l.value \notin ValuesOf(lines, l.option)
    PROVE  AsWritten(Append(lines, l), Stored(o, l))
<1> DEFINE new == Stored(o, l)
           longer == Append(lines, l)
           security == ensureSecurityContext(o)
<1>0. FieldsStored(o, l, new) /\ new \in Overrides
  BY StoredFields, StoredOverride
<1>1. ASSUME NEW option, NEW default, option \notin Repeatable
      PROVE  WrittenFor(longer, option, default) =
                IF l.option = option THEN l.value ELSE WrittenFor(lines, option, default)
  BY <1>1, ValueAppended
<1>2. ASSUME NEW option
      PROVE  /\ l.option = option => LinesWith(longer, option) # {}
             /\ l.option = option => ValuesOf(longer, option) = ValuesOf(lines, option) \cup {l.value}
             /\ l.option # option => LinesWith(longer, option) = LinesWith(lines, option)
             /\ l.option # option => ValuesOf(longer, option) = ValuesOf(lines, option)
  <2>1. /\ l.option = option =>
              /\ LinesWith(longer, option) = LinesWith(lines, option) \cup {Len(lines) + 1}
              /\ ValuesOf(longer, option) = ValuesOf(lines, option) \cup {l.value}
        /\ l.option # option =>
              /\ LinesWith(longer, option) = LinesWith(lines, option)
              /\ ValuesOf(longer, option) = ValuesOf(lines, option)
    <3>1. WithLine(longer, lines, l, option)
      BY LineAppended
    <3> HIDE DEF longer
    <3> QED BY <3>1 DEF WithLine
  <2> HIDE DEF longer
  <2> QED BY <2>1
<1>3. ASSUME NEW i \in DOMAIN longer, NEW j \in DOMAIN longer, i # j, longer[i].option = longer[j].option
      PROVE  longer[i].option \in Repeatable /\ longer[i].value # longer[j].value
  <2> DEFINE n == Len(lines)
  <2>1. /\ n \in Nat /\ DOMAIN lines = 1 .. n /\ DOMAIN longer = 1 .. n + 1
        /\ longer[n + 1] = l /\ \A k \in 1 .. n : longer[k] = lines[k]
    OBVIOUS
  <2>2. \A k : k \in 1 .. n + 1 <=> k \in 1 .. n \/ k = n + 1
    BY <2>1
  <2> HIDE DEF longer, n
  <2>3. ASSUME NEW k \in 1 .. n, lines[k].option = l.option
        PROVE  l.option \in Repeatable /\ lines[k].value # l.value
    <3>1. k \in LinesWith(lines, l.option)
      BY <2>1, <2>3 DEF LinesWith
    <3>2. lines[k].value \in ValuesOf(lines, l.option)
      BY <3>1 DEF ValuesOf
    <3> QED BY <3>1, <3>2
  <2>4. CASE i \in 1 .. n /\ j \in 1 .. n
    <3>1. lines[i].option \in Repeatable /\ lines[i].value # lines[j].value
      BY <1>3, <2>1, <2>4 DEF AsWritten
    <3> QED BY <2>1, <2>4, <3>1
  <2>5. CASE i \in 1 .. n /\ j = n + 1
    BY <1>3, <2>1, <2>3, <2>5
  <2>6. CASE i = n + 1 /\ j \in 1 .. n
    BY <1>3, <2>1, <2>3, <2>6
  <2> QED BY <1>3, <2>1, <2>2, <2>4, <2>5, <2>6
<1> HIDE DEF longer, new
<1>4. new.timeout = WrittenFor(longer, "timeout", 0)
  BY <1>0, <1>1 DEF FieldsStored, AsWritten, Repeatable
<1>5. new.clear = WrittenFor(longer, "clear", <<>>)
  BY <1>0, <1>1 DEF FieldsStored, AsWritten, Repeatable
<1>6. new.negotiate_accept = WrittenFor(longer, "negotiate_accept", "omitted")
  BY <1>0, <1>1 DEF FieldsStored, AsWritten, Repeatable
<1>7. new.request_headers = Omitted(WrittenFor(longer, "request_headers", <<>>), <<>>)
  BY <1>0, <1>1 DEF FieldsStored, AsWritten, Repeatable
<1>8. new.extend.request_headers = WrittenFor(longer, "extend_request_headers", <<>>)
  BY <1>0, <1>1 DEF FieldsStored, AsWritten, Repeatable
<1>9. DOMAIN new.extend.parameters = ValuesOf(longer, "extend_parameter")
  <2>1. CASE l.option = "extend_parameter"
    <3>1. DOMAIN new.extend.parameters = DOMAIN o.extend.parameters \cup {l.value}
      BY <2>1, StoredOverride DEF new
    <3> QED BY <1>2, <2>1, <3>1 DEF AsWritten
  <2>2. CASE l.option # "extend_parameter"
    BY <1>0, <1>2, <2>2 DEF FieldsStored, AsWritten
  <2> QED BY <2>1, <2>2
<1>10. (IF new.parameters = None THEN {} ELSE DOMAIN new.parameters) = ValuesOf(longer, "parameter")
  <2>1. CASE l.option = "parameter"
    <3>1. /\ new.parameters \in Maps
          /\ DOMAIN new.parameters = (IF o.parameters = None THEN {} ELSE DOMAIN o.parameters) \cup {l.value}
      BY <2>1, StoredOverride DEF new
    <3>2. new.parameters # None
      BY <3>1, ProfilesAssumption
    <3> QED BY <1>2, <2>1, <3>1, <3>2 DEF AsWritten
  <2>2. CASE l.option # "parameter"
    BY <1>0, <1>2, <2>2 DEF FieldsStored, AsWritten
  <2> QED BY <2>1, <2>2
<1>11. security \in Securities /\ security # None
  <2>1. security \in Securities
    BY EnsuredSecurity DEF Overrides
  <2> QED BY <2>1, ProfilesAssumption
<1>12. /\ o.security_context = None =>
            /\ LinesWith(lines, "credential_mechanism") = {}
            /\ LinesWith(lines, "downstream_identity_header") = {}
       /\ o.security_context # None =>
            \/ LinesWith(lines, "credential_mechanism") # {}
            \/ LinesWith(lines, "downstream_identity_header") # {}
  BY DEF AsWritten
<1>13. security = [mechanism |-> WrittenFor(lines, "credential_mechanism", 0),
                   downstream_identity |->
                        IF LinesWith(lines, "downstream_identity_header") = {} THEN None
                        ELSE [header |-> WrittenFor(lines, "downstream_identity_header", 0)]]
  <2>1. CASE o.security_context = None
    BY <1>12, <2>1 DEF security, ensureSecurityContext, EmptySecurity, WrittenFor
  <2>2. CASE o.security_context # None
    <3>1. security = o.security_context /\ security \in Securities
      BY <1>11, <2>2 DEF ensureSecurityContext
    <3>2. security = [mechanism |-> security.mechanism, downstream_identity |-> security.downstream_identity]
      BY <3>1 DEF Securities
    <3> HIDE DEF security
    <3>3. /\ security.mechanism = WrittenFor(lines, "credential_mechanism", 0)
          /\ security.downstream_identity =
                IF LinesWith(lines, "downstream_identity_header") = {} THEN None
                ELSE [header |-> WrittenFor(lines, "downstream_identity_header", 0)]
      BY <2>2, <3>1 DEF AsWritten
    <3> QED BY <3>2, <3>3
  <2> QED BY <2>1, <2>2
<1> HIDE DEF security
<1>14. /\ (new.security_context # None) =
            (LinesWith(longer, "credential_mechanism") \cup LinesWith(longer, "downstream_identity_header") # {})
       /\ new.security_context # None =>
            /\ new.security_context.mechanism = WrittenFor(longer, "credential_mechanism", 0)
            /\ new.security_context.downstream_identity =
                IF LinesWith(longer, "downstream_identity_header") = {} THEN None
                ELSE [header |-> WrittenFor(longer, "downstream_identity_header", 0)]
  <2>1. CASE l.option = "credential_mechanism"
    <3>1. new.security_context = [security EXCEPT !.mechanism = l.value] /\ new.security_context # None
      <4>1. new.security_context = [security EXCEPT !.mechanism = l.value]
        BY <1>0, <2>1 DEF FieldsStored, security
      <4>2. new.security_context \in Securities
        BY <1>11, <2>1, <4>1, ArgumentTypes DEF LineOptions, Securities
      <4> QED BY <4>1, <4>2, ProfilesAssumption
    <3>2. new.security_context.mechanism = l.value
      BY <1>13, <3>1
    <3>3. new.security_context.downstream_identity = security.downstream_identity
      BY <1>13, <3>1
    <3>4. /\ LinesWith(longer, "credential_mechanism") # {}
          /\ WrittenFor(longer, "credential_mechanism", 0) = l.value
          /\ LinesWith(longer, "downstream_identity_header") = LinesWith(lines, "downstream_identity_header")
          /\ WrittenFor(longer, "downstream_identity_header", 0) =
                WrittenFor(lines, "downstream_identity_header", 0)
      BY <1>1, <1>2, <2>1 DEF Repeatable
    <3>5. security.downstream_identity =
            IF LinesWith(lines, "downstream_identity_header") = {} THEN None
            ELSE [header |-> WrittenFor(lines, "downstream_identity_header", 0)]
      BY <1>13
    <3>6. (new.security_context # None) =
            (LinesWith(longer, "credential_mechanism") \cup LinesWith(longer, "downstream_identity_header") # {})
      BY <3>1, <3>4
    <3> QED BY <3>2, <3>3, <3>4, <3>5, <3>6
  <2>2. CASE l.option = "downstream_identity_header"
    <3> DEFINE identity == ensureDownstreamIdentity(security)
    <3>1. new.security_context = [security EXCEPT !.downstream_identity = [identity EXCEPT !.header = l.value]]
      BY <1>0, <2>2 DEF FieldsStored, security
    <3>2. identity \in Identities /\ l.value \in Nat
      BY <1>11, <2>2, ArgumentTypes DEF ensureDownstreamIdentity, Securities, Identities, LineOptions
    <3> HIDE DEF identity
    <3>3. [identity EXCEPT !.header = l.value] = [header |-> l.value]
      BY <3>2 DEF Identities
    <3>4. new.security_context = [security EXCEPT !.downstream_identity = [header |-> l.value]]
      BY <3>1, <3>3
    <3>5. new.security_context \in Securities
      BY <1>11, <3>2, <3>4 DEF Securities, Identities
    <3>6. new.security_context # None
      BY <3>5, ProfilesAssumption
    <3>7. /\ new.security_context.mechanism = security.mechanism
          /\ new.security_context.downstream_identity = [header |-> l.value]
      BY <1>13, <3>4
    <3>8. /\ LinesWith(longer, "downstream_identity_header") # {}
          /\ WrittenFor(longer, "downstream_identity_header", 0) = l.value
          /\ WrittenFor(longer, "credential_mechanism", 0) = WrittenFor(lines, "credential_mechanism", 0)
      BY <1>1, <1>2, <2>2 DEF Repeatable
    <3>9. security.mechanism = WrittenFor(lines, "credential_mechanism", 0)
      BY <1>13
    <3>10. (new.security_context # None) =
            (LinesWith(longer, "credential_mechanism") \cup LinesWith(longer, "downstream_identity_header") # {})
      BY <3>6, <3>8
    <3> QED BY <3>7, <3>8, <3>9, <3>10
  <2>3. CASE l.option \notin {"credential_mechanism", "downstream_identity_header"}
    <3>1. new.security_context = o.security_context
      BY <1>0, <2>3 DEF FieldsStored
    <3>2. /\ LinesWith(longer, "downstream_identity_header") = LinesWith(lines, "downstream_identity_header")
          /\ LinesWith(longer, "credential_mechanism") = LinesWith(lines, "credential_mechanism")
          /\ WrittenFor(longer, "downstream_identity_header", 0) =
                WrittenFor(lines, "downstream_identity_header", 0)
          /\ WrittenFor(longer, "credential_mechanism", 0) = WrittenFor(lines, "credential_mechanism", 0)
      BY <1>1, <1>2, <2>3 DEF Repeatable
    <3> QED BY <3>1, <3>2 DEF AsWritten
  <2> QED BY <2>1, <2>2, <2>3
<1>15. AsWritten(longer, new)
  BY <1>3, <1>4, <1>5, <1>6, <1>7, <1>8, <1>9, <1>10, <1>14 DEF AsWritten
<1> QED BY <1>15 DEF longer, new

----------------------------------------------------------------------------
(* Routes: what mergeRoute returns, and what it makes of an emitted route. *)

\* A set of natural numbers that is not empty has a least element.
LEMMA LeastNumber ==
    ASSUME NEW T \in SUBSET Nat, T # {}
    PROVE  \E x \in T : \A y \in T : x <= y
<1>1. PICK x \in T : \A y \in T : ~(<<y, x>> \in OpToRel(<, Nat))
  BY NatLessThanWellFounded, WFMin
<1>2. \A y \in T : ~(y < x)
  BY <1>1 DEF OpToRel
<1> QED BY <1>2

LEMMA FieldCleared ==
    ASSUME NEW r \in EffectiveRoutes, NEW field
    PROVE  clearRouteField(r, field) \in EffectiveRoutes
<1> DEFINE security == ensureSecurityContext(r)
<1>1. security \in Securities
  BY EnsuredSecurity DEF EffectiveRoutes
<1>2. /\ [security EXCEPT !.mechanism = 0] \in Securities
      /\ [security EXCEPT !.downstream_identity = None] \in Securities
      /\ [security EXCEPT !.downstream_identity = [header |-> 0]] \in Securities
  <2> HIDE DEF security
  <2> QED BY <1>1 DEF Securities, Identities
<1>3. \A s \in Securities \cup {None} : [r EXCEPT !.security_context = s] \in EffectiveRoutes
  BY DEF EffectiveRoutes
<1>4. /\ [r EXCEPT !.timeout = 0] \in EffectiveRoutes
      /\ [r EXCEPT !.request_headers = <<>>] \in EffectiveRoutes
      /\ [r EXCEPT !.parameters = Map] \in EffectiveRoutes
      /\ [r EXCEPT !.negotiate_accept = FALSE] \in EffectiveRoutes
  <2>1. <<>> \in Seq(HeaderNames) /\ Map \in Maps /\ 0 \in Nat /\ FALSE \in BOOLEAN
    BY EmptyMap
  <2> HIDE DEF Map
  <2> QED BY <2>1 DEF EffectiveRoutes
<1> HIDE DEF security
<1>5. /\ [r EXCEPT !.security_context = None] \in EffectiveRoutes
      /\ [r EXCEPT !.security_context = [security EXCEPT !.mechanism = 0]] \in EffectiveRoutes
      /\ [r EXCEPT !.security_context = [security EXCEPT !.downstream_identity = None]] \in EffectiveRoutes
      /\ [r EXCEPT !.security_context =
            [security EXCEPT !.downstream_identity = [header |-> 0]]] \in EffectiveRoutes
  BY <1>2, <1>3
<1> QED BY <1>4, <1>5 DEF clearRouteField, security

\* The routes in the course of clearing.
Clears(c, r, fields) ==
    c = [i \in 0 .. Len(fields) |-> IF i = 0 THEN r ELSE clearRouteField(c[i - 1], fields[i])]

LEMMA ClearsExists ==
    ASSUME NEW r, NEW fields, Len(fields) \in Nat
    PROVE  \E c : Clears(c, r, fields)
<1> DEFINE n == Len(fields)
           Steps(f, m) ==
                /\ f = [i \in 0 .. m |-> f[i]]
                /\ \A i \in 0 .. m : f[i] = IF i = 0 THEN r ELSE clearRouteField(f[i - 1], fields[i])
           T == {m \in 0 .. n : ~\E f : Steps(f, m)}
<1>1. T = {}
  <2> SUFFICES ASSUME T # {} PROVE FALSE
    OBVIOUS
  <2>1. PICK m \in T : \A k \in T : m <= k
    <3>1. T \in SUBSET Nat
      OBVIOUS
    <3> HIDE DEF T
    <3> QED BY <3>1, LeastNumber
  <2>2. CASE m = 0
    <3> DEFINE f == [i \in 0 .. 0 |-> r]
    <3>1. Steps(f, 0)
      OBVIOUS
    <3> QED BY <2>1, <2>2, <3>1
  <2>3. CASE m # 0
    <3>1. m \in 1 .. n /\ m - 1 \in 0 .. n /\ m - 1 \notin T
      <4>1. m \in 0 .. n
        BY <2>1
      <4> HIDE DEF T
      <4> QED BY <2>1, <2>3, <4>1
    <3>2. PICK g : Steps(g, m - 1)
      BY <3>1
    <3> DEFINE f == [i \in 0 .. m |-> IF i # m THEN g[i] ELSE clearRouteField(g[m - 1], fields[m])]
    <3>3. ASSUME NEW i \in 0 .. m
          PROVE  f[i] = IF i = 0 THEN r ELSE clearRouteField(f[i - 1], fields[i])
      <4>1. CASE i # m
        <5>1. i \in 0 .. m - 1 /\ (i # 0 => i - 1 \in 0 .. m /\ i - 1 # m)
          BY <3>1, <4>1
        <5>2. g[i] = IF i = 0 THEN r ELSE clearRouteField(g[i - 1], fields[i])
          BY <3>2, <5>1
        <5>3. f[i] = g[i] /\ (i # 0 => f[i - 1] = g[i - 1])
          BY <4>1, <5>1
        <5> HIDE DEF f
        <5> QED BY <5>2, <5>3
      <4>2. CASE i = m
        <5>1. m - 1 \in 0 .. m /\ m - 1 # m /\ i # 0
          BY <3>1, <4>2
        <5>2. f[i] = clearRouteField(g[m - 1], fields[m]) /\ f[i - 1] = g[m - 1]
          BY <4>2, <5>1
        <5> HIDE DEF f
        <5> QED BY <4>2, <5>1, <5>2
      <4> QED BY <4>1, <4>2
    <3>4. f = [i \in 0 .. m |-> f[i]]
      OBVIOUS
    <3>5. Steps(f, m)
      <4> HIDE DEF f
      <4> QED BY <3>3, <3>4
    <3> QED BY <2>1, <3>5
  <2> QED BY <2>2, <2>3
<1>2. n \in 0 .. n /\ n \notin T
  <2> HIDE DEF T
  <2> QED BY <1>1
<1>3. PICK f : Steps(f, n)
  BY <1>2
<1>4. Clears(f, r, fields)
  BY <1>3 DEF Clears
<1> QED BY <1>4

\* A route stays a route when fields are cleared, and the same when none is.
LEMMA ClearedIsRoute ==
    ASSUME NEW r \in EffectiveRoutes, NEW fields \in Seq(STRING)
    PROVE  /\ Cleared(r, fields) \in EffectiveRoutes
           /\ fields = <<>> => Cleared(r, fields) = r
<1> DEFINE n == Len(fields)
           c == CHOOSE c : Clears(c, r, fields)
<1>1. n \in Nat
  OBVIOUS
<1>2. Clears(c, r, fields)
  BY <1>1, ClearsExists
<1>3. Cleared(r, fields) = c[n]
  <2>1. Cleared(r, fields) =
            LET cleared[i \in 0 .. Len(fields)] ==
                    IF i = 0 THEN r ELSE clearRouteField(cleared[i - 1], fields[i])
            IN  cleared[Len(fields)]
    BY DEF Cleared
  <2> QED BY <2>1 DEF Clears
<1> HIDE DEF c
<1>4. \A i \in 0 .. n : c[i] = IF i = 0 THEN r ELSE clearRouteField(c[i - 1], fields[i])
  BY <1>2 DEF Clears
<1> DEFINE T == {i \in 0 .. n : c[i] \notin EffectiveRoutes}
<1>5. T = {}
  <2> SUFFICES ASSUME T # {} PROVE FALSE
    OBVIOUS
  <2>1. PICK m \in T : \A k \in T : m <= k
    <3>1. T \in SUBSET Nat
      OBVIOUS
    <3> HIDE DEF T
    <3> QED BY <3>1, LeastNumber
  <2>2. m \in 0 .. n /\ c[m] \notin EffectiveRoutes
    OBVIOUS
  <2>3. m # 0
    BY <1>4, <2>2
  <2>4. m - 1 \in 0 .. n /\ m - 1 \notin T
    <3> HIDE DEF T
    <3> QED BY <1>1, <2>1, <2>2, <2>3
  <2>5. c[m - 1] \in EffectiveRoutes
    BY <2>4
  <2> QED BY <1>4, <2>2, <2>3, <2>5, FieldCleared
<1>6. c[n] \in EffectiveRoutes
  <2>1. n \in 0 .. n
    BY <1>1
  <2> QED BY <1>5, <2>1
<1>7. ASSUME fields = <<>> PROVE c[n] = r
  <2>1. n = 0 /\ 0 \in 0 .. n
    BY <1>7
  <2> QED BY <1>4, <2>1
<1> QED BY <1>3, <1>6, <1>7

LEMMA EmptyIsRoute == EmptyRoute \in EffectiveRoutes
<1>1. <<>> \in Seq(HeaderNames) /\ Map \in Maps
  BY EmptyMap
<1> QED BY <1>1 DEF EmptyRoute, EffectiveRoutes

LEMMA FieldsMerged ==
    ASSUME NEW r \in EffectiveRoutes, NEW o \in Overrides
    PROVE  MergedFields(r, o) \in EffectiveRoutes
<1>1. /\ r.timeout \in Nat /\ r.request_headers \in Seq(HeaderNames) /\ r.parameters \in Maps
      /\ r.negotiate_accept \in BOOLEAN /\ r.security_context \in Securities \cup {None}
  BY DEF EffectiveRoutes
<1>2. /\ o.timeout \in Nat /\ o.request_headers \in Seq(HeaderNames) \cup {None}
      /\ o.parameters \in Maps \cup {None}
      /\ o.security_context \in Securities \cup {None}
  BY DEF Overrides
<1>3. ASSUME NEW S, NEW zero, NEW base \in S, NEW value \in S \cup {zero}
      PROVE  Overridden(base, zero, value) \in S
  BY <1>3 DEF Overridden
<1>4. mergeSecurityContext(r, o.security_context) \in Securities \cup {None}
  <2>1. CASE o.security_context = None
    BY <1>1, <2>1 DEF mergeSecurityContext
  <2>2. CASE o.security_context # None
    <3> DEFINE base == ensureSecurityContext(r)
               written == o.security_context
    <3>1. base \in Securities /\ written \in Securities
      BY <1>1, <1>2, <2>2, EnsuredSecurity
    <3>2. mergeSecurityContext(r, written) =
            [mechanism |-> Overridden(base.mechanism, 0, written.mechanism),
             downstream_identity |-> mergeIdentity(base.downstream_identity, written.downstream_identity)]
      BY <2>2 DEF mergeSecurityContext
    <3> HIDE DEF base, written
    <3>3. Overridden(base.mechanism, 0, written.mechanism) \in Nat
      BY <3>1 DEF Overridden, Securities
    <3>4. mergeIdentity(base.downstream_identity, written.downstream_identity) \in Identities \cup {None}
      BY <3>1 DEF Overridden, mergeIdentity, Securities, Identities
    <3>5. mergeSecurityContext(r, written) \in Securities
      BY <3>2, <3>3, <3>4 DEF Securities
    <3> QED BY <3>5 DEF written
  <2> QED BY <2>1, <2>2
<1>5. /\ Overridden(r.timeout, 0, o.timeout) \in Nat
      /\ Overridden(r.request_headers, None, o.request_headers) \in Seq(HeaderNames)
      /\ Overridden(r.parameters, None, o.parameters) \in Maps
      /\ (r.negotiate_accept \/ decoded(o.negotiate_accept)) \in BOOLEAN
  BY <1>1, <1>2 DEF Overridden, decoded
<1> QED BY <1>4, <1>5 DEF MergedFields, EffectiveRoutes

\* mergeRoute returns a route, unless it returns an error.
LEMMA MergedIsRoute ==
    ASSUME NEW r \in EffectiveRoutes, NEW o \in Overrides
    PROVE  mergeRoute(r, o) \in EffectiveRoutes \cup {None}
<1> DEFINE cleared == Cleared(r, o.clear)
           merged == MergedFields(cleared, o)
<1>1. cleared \in EffectiveRoutes
  BY ClearedIsRoute DEF Overrides
<1>2. merged \in EffectiveRoutes
  <2> HIDE DEF cleared
  <2> QED BY <1>1, FieldsMerged
<1>3. mergeRoute(r, o) \in {extendRoute(merged, o.extend), None}
  BY DEF mergeRoute
<1> HIDE DEF merged
<1>4. extendRoute(merged, o.extend) \in EffectiveRoutes
  <2>1. /\ merged.request_headers \in Seq(HeaderNames) /\ merged.parameters \in Maps
        /\ o.extend.request_headers \in Seq(HeaderNames) /\ o.extend.parameters \in Maps
    BY <1>2 DEF EffectiveRoutes, Overrides
  <2>2. /\ merged.request_headers \o o.extend.request_headers \in Seq(HeaderNames)
        /\ Joined(merged.parameters, o.extend.parameters) \in Maps
    BY <2>1, ConcatProperties, JoinedMap
  <2>3. \A h \in Seq(HeaderNames), m \in Maps :
            [merged EXCEPT !.request_headers = h, !.parameters = m] \in EffectiveRoutes
    BY <1>2 DEF EffectiveRoutes
  <2> QED BY <2>2, <2>3 DEF extendRoute
<1> QED BY <1>3, <1>4

\* An emitted route is resolved to the route it was emitted for.
LEMMA EmittedResolves ==
    ASSUME NEW r \in EffectiveRoutes, NEW original
    PROVE  LET o == Emitted(r, original).override
           IN  o \in Overrides /\ mergeRoute(EmptyRoute, o) = r
<1> DEFINE o == Emitted(r, original).override
<1>1. /\ r.timeout \in Nat /\ r.request_headers \in Seq(HeaderNames) /\ r.parameters \in Maps
      /\ r.negotiate_accept \in BOOLEAN /\ r.security_context \in Securities \cup {None}
      /\ r.request_headers # None /\ r.parameters # None
      /\ r = [timeout |-> r.timeout, request_headers |-> r.request_headers,
              parameters |-> r.parameters, negotiate_accept |-> r.negotiate_accept,
              security_context |-> r.security_context]
  BY ProfilesAssumption DEF EffectiveRoutes
<1>2. o = [timeout |-> r.timeout,
           request_headers |-> Omitted(r.request_headers, <<>>),
           parameters |-> Omitted(r.parameters, Map),
           negotiate_accept |-> IF r.negotiate_accept THEN "true" ELSE "omitted",
           security_context |-> r.security_context, clear |-> <<>>,
           extend |-> [request_headers |-> <<>>, parameters |-> Map]]
  <2> HIDE DEF Map
  <2> QED BY DEF Emitted, NoOverride
<1> HIDE DEF o
<1>3. o \in Overrides
  <2>1. /\ Omitted(r.request_headers, <<>>) \in Seq(HeaderNames) \cup {None}
        /\ Omitted(r.parameters, Map) \in Maps \cup {None}
        /\ (IF r.negotiate_accept THEN "true" ELSE "omitted") \in {"true", "false", "omitted"}
    BY <1>1 DEF Omitted
  <2>2. <<>> \in Seq(STRING) /\ <<>> \in Seq(HeaderNames) /\ Map \in Maps
    BY EmptyMap
  <2> HIDE DEF Map
  <2> QED BY <1>1, <1>2, <2>1, <2>2 DEF Overrides
<1>4. Cleared(EmptyRoute, o.clear) = EmptyRoute
  <2>1. o.clear = <<>> /\ o.clear \in Seq(STRING)
    BY <1>2
  <2> QED BY <2>1, ClearedIsRoute, EmptyIsRoute
<1>5. mergeSecurityContext(EmptyRoute, r.security_context) = r.security_context
  <2>1. CASE r.security_context = None
    BY <2>1 DEF mergeSecurityContext, EmptyRoute
  <2>2. CASE r.security_context # None
    <3> DEFINE written == r.security_context
    <3>1. written \in Securities
      BY <1>1, <2>2
    <3>2. ensureSecurityContext(EmptyRoute) = [mechanism |-> 0, downstream_identity |-> None]
      BY DEF ensureSecurityContext, EmptyRoute, EmptySecurity
    <3>3. mergeSecurityContext(EmptyRoute, written) =
            [mechanism |-> Overridden(0, 0, written.mechanism),
             downstream_identity |-> mergeIdentity(None, written.downstream_identity)]
      BY <2>2, <3>2 DEF mergeSecurityContext
    <3> HIDE DEF written
    <3>4. Overridden(0, 0, written.mechanism) = written.mechanism
      BY DEF Overridden
    <3>5. mergeIdentity(None, written.downstream_identity) = written.downstream_identity
      <4>1. CASE written.downstream_identity = None
        BY <4>1 DEF mergeIdentity
      <4>2. CASE written.downstream_identity # None
        <5>1. written.downstream_identity = [header |-> written.downstream_identity.header]
          BY <3>1, <4>2 DEF Securities, Identities
        <5>2. Overridden(0, 0, written.downstream_identity.header) = written.downstream_identity.header
          BY DEF Overridden
        <5> QED BY <4>2, <5>1, <5>2 DEF mergeIdentity
      <4> QED BY <4>1, <4>2
    <3>6. written = [mechanism |-> written.mechanism, downstream_identity |-> written.downstream_identity]
      BY <3>1 DEF Securities
    <3> QED BY <3>3, <3>4, <3>5, <3>6 DEF written
  <2> QED BY <2>1, <2>2
<1>6. MergedFields(EmptyRoute, o) = r
  <2>1. /\ Overridden(0, 0, o.timeout) = r.timeout
        /\ Overridden(<<>>, None, o.request_headers) = r.request_headers
        /\ Overridden(Map, None, o.parameters) = r.parameters
        /\ (FALSE \/ decoded(o.negotiate_accept)) = r.negotiate_accept
    <3> HIDE DEF Map
    <3> QED BY <1>1, <1>2 DEF Overridden, Omitted, decoded
  <2>2. o.security_context = r.security_context
    BY <1>2
  <2>3. MergedFields(EmptyRoute, o) =
          [timeout |-> Overridden(0, 0, o.timeout),
           request_headers |-> Overridden(<<>>, None, o.request_headers),
           parameters |-> Overridden(Map, None, o.parameters),
           negotiate_accept |-> FALSE \/ decoded(o.negotiate_accept),
           security_context |-> mergeSecurityContext(EmptyRoute, o.security_context)]
    <3> HIDE DEF Map
    <3> QED BY DEF MergedFields, EmptyRoute
  <2> QED BY <1>1, <1>5, <2>1, <2>2, <2>3
<1>7. extendRoute(r, o.extend) = r
  <2>1. o.extend.request_headers = <<>> /\ o.extend.parameters = Map
    BY <1>2
  <2>2. r.request_headers \o <<>> = r.request_headers
    BY <1>1, ConcatEmptySeq
  <2>3. Joined(r.parameters, Map) = r.parameters
    <3>1. PICK S \in SUBSET ParameterNames : r.parameters \in [S -> {"path"}]
      BY <1>1 DEF Maps
    <3>2. DOMAIN r.parameters \cup DOMAIN Map = S
      BY <3>1, EmptyMap
    <3>3. Joined(r.parameters, Map) = [x \in S |-> r.parameters[x]]
      BY <3>1, <3>2 DEF Joined
    <3> QED BY <3>1, <3>3
  <2> QED BY <1>1, <2>1, <2>2, <2>3 DEF extendRoute
<1>8. /\ \A i \in DOMAIN o.clear : o.clear[i] \in shareableRouteFields
      /\ IsInjective(o.clear)
      /\ DOMAIN r.parameters \cap DOMAIN o.extend.parameters = {}
  <2>1. o.clear = <<>> /\ DOMAIN o.extend.parameters = {}
    BY <1>2, EmptyMap
  <2> QED BY <2>1 DEF IsInjective
<1>9. mergeRoute(EmptyRoute, o) = r
  BY <1>4, <1>6, <1>7, <1>8 DEF mergeRoute
<1> QED BY <1>3, <1>9 DEF o

----------------------------------------------------------------------------
(* The invariant of the adapter.                                           *)

\* What is resolved, and what has been resolved, has the shape of routes.
Typed ==
    /\ WrittenAs(config.profiles) /\ WrittenAs(config.routes)
    /\ \A name \in DOMAIN cache : cache[name] \in EffectiveRoutes
    /\ resolved \in Seq(EffectiveRoutes)

\* The blocks of a kind among the first n.
Count(kind, n) == Cardinality({j \in 1 .. n : file[j].kind = kind})

\* Within a block, the Route holds what the lines so far say.
WithinBlock ==
    line > 0 =>
        /\ block <= Len(file) /\ Block.kind # "option" /\ line <= Len(Block.lines) + 1
        /\ route.override \in Overrides
        /\ AsWritten(SubSeq(Block.lines, 1, line - 1), route.override)
        /\ \A i \in 1 .. line - 1 : Block.lines[i].option \in seen

\* While a file is read, each block of it has added one route or one profile.
Read ==
    /\ file \in Files /\ adapted = None
    /\ block \in Nat \ {0} /\ block <= Len(file) + 1 /\ line \in Nat
    /\ config = [profiles |-> config.profiles, routes |-> config.routes]
    /\ Len(config.routes) = Count("route", block - 1)
    /\ Len(config.profiles) = Count("route_profile", block - 1)
    /\ WithinBlock

\* Once the effective routes are emitted, they are all there is to resolve, and
\* they are resolved to themselves.
Reresolving ==
    /\ phase \in {"declare", "profiles", "routes", "done"}
    /\ adapted \in Seq(EffectiveRoutes)
    /\ config.profiles = <<>> /\ stack = <<>> /\ (phase = "profiles" => pending = {})
    /\ Len(config.routes) = Len(adapted) /\ Len(resolved) <= Len(adapted)
    /\ \A i \in DOMAIN adapted :
        /\ config.routes[i].profile = None
        /\ mergeRoute(EmptyRoute, config.routes[i].override) = adapted[i]
    /\ \A i \in DOMAIN resolved : resolved[i] = adapted[i]

AdapterInvariant ==
    /\ ProfilesInvariant
    /\ Typed
    /\ phase = "read" => Read
    /\ BlocksAsWritten
    /\ adapted # None => Reresolving

\* Appending a declaration.
LEMMA DeclarationAppended ==
    ASSUME NEW s, WrittenAs(s), NEW d, d.override \in Overrides
    PROVE  /\ WrittenAs(Append(s, d)) /\ Len(s) \in Nat
           /\ Len(Append(s, d)) = Len(s) + 1 /\ Append(s, d)[Len(s) + 1] = d
           /\ \A i \in 1 .. Len(s) : Append(s, d)[i] = s[i]
<1> DEFINE S == ToSet(s) \cup {d}
           longer == Append(s, d)
<1>1. s \in Seq(S) /\ d \in S
  <2>1. s \in Seq(ToSet(s))
    BY DEF WrittenAs
  <2>2. ToSet(s) \subseteq S
    OBVIOUS
  <2> QED BY <2>1, <2>2
<1>2. /\ Len(s) \in Nat /\ DOMAIN s = 1 .. Len(s)
      /\ longer \in Seq(S) /\ DOMAIN longer = 1 .. Len(s) + 1
      /\ Len(longer) = Len(s) + 1 /\ longer[Len(s) + 1] = d
      /\ \A i \in 1 .. Len(s) : longer[i] = s[i]
  BY <1>1
<1> HIDE DEF longer, S
<1>3. \A i \in DOMAIN longer : longer[i].override \in Overrides
  <2>1. \A i \in 1 .. Len(s) : s[i].override \in Overrides
    BY <1>2 DEF WrittenAs
  <2>2. \A i \in 1 .. Len(s) + 1 : i \in 1 .. Len(s) \/ i = Len(s) + 1
    BY <1>2
  <2> QED BY <1>2, <2>1, <2>2
<1>4. longer \in Seq(ToSet(longer))
  <2>1. longer = [i \in 1 .. Len(longer) |-> longer[i]] /\ Len(longer) \in Nat
    BY <1>2
  <2>2. \A i \in 1 .. Len(longer) : longer[i] \in ToSet(longer)
    BY <1>2 DEF ToSet
  <2> QED BY <1>2, <2>2
<1> QED BY <1>2, <1>3, <1>4 DEF WrittenAs, longer

\* Counting one more block.
LEMMA CountNext ==
    ASSUME NEW n \in Nat, NEW kind
    PROVE  /\ Count(kind, n) \in Nat
           /\ file[n + 1].kind = kind => Count(kind, n + 1) = Count(kind, n) + 1
           /\ file[n + 1].kind # kind => Count(kind, n + 1) = Count(kind, n)
<1> DEFINE blocks(m) == {j \in 1 .. m : file[j].kind = kind}
<1>1. IsFiniteSet(blocks(n)) /\ n + 1 \notin blocks(n)
  <2>1. IsFiniteSet(1 .. n) /\ blocks(n) \subseteq 1 .. n
    BY FS_Interval
  <2>2. n + 1 \notin 1 .. n
    OBVIOUS
  <2> QED BY <2>1, <2>2, FS_Subset
<1>2. \A j : j \in 1 .. n + 1 <=> j \in 1 .. n \/ j = n + 1
  OBVIOUS
<1>3. file[n + 1].kind = kind => blocks(n + 1) = blocks(n) \cup {n + 1}
  BY <1>2
<1>4. file[n + 1].kind # kind => blocks(n + 1) = blocks(n)
  BY <1>2
<1>5. Cardinality(blocks(n)) \in Nat /\ Cardinality(blocks(n) \cup {n + 1}) = Cardinality(blocks(n)) + 1
  <2> HIDE DEF blocks
  <2> QED BY <1>1, FS_CardinalityType, FS_AddElement
<1> HIDE DEF blocks
<1>6. Count(kind, n) = Cardinality(blocks(n)) /\ Count(kind, n + 1) = Cardinality(blocks(n + 1))
  BY DEF Count, blocks
<1> QED BY <1>3, <1>4, <1>5, <1>6

\* The position of a block among those of its kind.
LEMMA PlaceCounted ==
    ASSUME NEW n \in Nat, NEW k \in 1 .. n
    PROVE  Place(k) \in 1 .. Count(file[k].kind, n) /\ Place(k) = Count(file[k].kind, k)
<1> DEFINE kind == file[k].kind
           blocks(m) == {j \in 1 .. m : file[j].kind = kind}
<1>1. Place(k) = Cardinality(blocks(k)) /\ Count(kind, n) = Cardinality(blocks(n))
      /\ Place(k) = Count(kind, k)
  BY DEF Place, Count
<1>2. blocks(k) \subseteq blocks(n) /\ k \in blocks(k) /\ blocks(n) \subseteq 1 .. n
  <2>1. \A j \in 1 .. k : j \in 1 .. n
    OBVIOUS
  <2> QED BY <2>1
<1> HIDE DEF blocks, kind
<1>3. IsFiniteSet(blocks(n))
  <2>1. IsFiniteSet(1 .. n)
    BY FS_Interval
  <2> QED BY <1>2, <2>1, FS_Subset
<1>4. IsFiniteSet(blocks(k)) /\ Cardinality(blocks(k)) <= Cardinality(blocks(n))
  BY <1>2, <1>3, FS_Subset
<1>5. Cardinality(blocks(k)) \in Nat /\ Cardinality(blocks(n)) \in Nat /\ Cardinality(blocks(k)) # 0
  BY <1>2, <1>3, <1>4, FS_CardinalityType, FS_EmptySet
<1> QED BY <1>1, <1>4, <1>5 DEF kind

\* The block that is being read.
LEMMA FileBlock ==
    ASSUME file \in Files, block \in Nat \ {0}, block <= Len(file)
    PROVE  /\ Block.kind \in {"route", "route_profile", "option"}
           /\ Block.kind # "option" =>
                /\ Block.lines \in Seq(ToSet(Block.lines))
                /\ \A i \in 1 .. Len(Block.lines) :
                    /\ Block.lines[i] \in ToSet(Block.lines)
                    /\ Block.lines[i].option \in LineOptions /\ Block.lines[i].parses =>
                        Block.lines[i].value \in ValuesFor(Block.lines[i].option)
<1>1. file \in Seq(ToSet(file))
  BY FilesAssumption
<1>2. block \in DOMAIN file
  BY <1>1
<1>3. /\ Block.kind \in {"route", "route_profile", "option"}
      /\ Block.kind # "option" =>
            /\ Block.lines \in Seq(ToSet(Block.lines))
            /\ \A i \in DOMAIN Block.lines :
                Block.lines[i].option \in LineOptions /\ Block.lines[i].parses =>
                    Block.lines[i].value \in ValuesFor(Block.lines[i].option)
  BY <1>2, FilesAssumption DEF Block
<1>4. Block.kind # "option" =>
        \A i \in 1 .. Len(Block.lines) : i \in DOMAIN Block.lines /\ Block.lines[i] \in ToSet(Block.lines)
  BY <1>3 DEF ToSet
<1> QED BY <1>3, <1>4

\* A block of no lines.
LEMMA NothingWritten == NoOverride \in Overrides /\ AsWritten(<<>>, NoOverride)
<1>1. NoOverride \in Overrides
  <2>1. <<>> \in Seq(STRING) /\ <<>> \in Seq(HeaderNames) /\ Map \in Maps
    BY EmptyMap
  <2> HIDE DEF Map
  <2> QED BY <2>1 DEF NoOverride, Overrides
<1>2. ASSUME NEW option PROVE LinesWith(<<>>, option) = {} /\ ValuesOf(<<>>, option) = {}
  BY DEF LinesWith, ValuesOf
<1>3. ASSUME NEW option, NEW default PROVE WrittenFor(<<>>, option, default) = default
  BY <1>2 DEF WrittenFor
<1>4. /\ NoOverride.timeout = 0 /\ NoOverride.request_headers = None /\ NoOverride.parameters = None
      /\ NoOverride.negotiate_accept = "omitted" /\ NoOverride.security_context = None
      /\ NoOverride.clear = <<>>
      /\ NoOverride.extend.request_headers = <<>> /\ DOMAIN NoOverride.extend.parameters = {}
  BY EmptyMap DEF NoOverride
<1>5. DOMAIN <<>> = {} /\ Omitted(<<>>, <<>>) = None
  BY DEF Omitted
<1> QED BY <1>1, <1>2, <1>3, <1>4, <1>5 DEF AsWritten

\* What a line that only fills in the Route leaves alone.
LEMMA ConfigurationStays ==
    ASSUME AdapterInvariant, UNCHANGED <<vars, file, block, adapted>>
    PROVE  ProfilesInvariant' /\ Typed' /\ BlocksAsWritten' /\ (adapted # None => Reresolving)'
BY ProfilesStay, ResolvingStays
   DEF AdapterInvariant, vars, ProfilesInvariant, Typed, BlocksAsWritten, Place, Reresolving

\* A block begins.
LEMMA BeginRouteKeeps ==
    ASSUME AdapterInvariant, BeginRoute
    PROVE  AdapterInvariant'
<1>1. /\ phase = "read" /\ Read /\ block <= Len(file) /\ Block.kind # "option"
      /\ route' = EmptyBlock /\ seen' = {} /\ line' = 1
      /\ UNCHANGED <<vars, file, block, natsSeen, adapted>>
  BY DEF BeginRoute, AdapterInvariant
<1>2. ProfilesInvariant' /\ Typed' /\ BlocksAsWritten' /\ (adapted # None => Reresolving)'
  BY <1>1, ConfigurationStays
<1>3. Block.lines \in Seq(ToSet(Block.lines)) /\ Len(Block.lines) \in Nat
  BY <1>1, FileBlock DEF Read
<1>4. SubSeq(Block.lines, 1, 0) = <<>>
  BY <1>3
<1>5. WithinBlock'
  <2>1. Block' = Block
    BY <1>1 DEF Block
  <2> HIDE DEF Block
  <2>2. /\ route.override' = NoOverride /\ line' - 1 = 0 /\ 1 .. line' - 1 = {}
    BY <1>1 DEF EmptyBlock
  <2>3. AsWritten(SubSeq(Block.lines, 1, line' - 1), NoOverride)
    BY <1>4, <2>2, NothingWritten
  <2> QED BY <1>1, <1>3, <2>1, <2>2, <2>3, NothingWritten DEF WithinBlock
<1>6. Read'
  BY <1>1, <1>5 DEF Read, Count, vars
<1> QED BY <1>2, <1>6 DEF AdapterInvariant

\* A line of a block is stored or refused.
LEMMA ReadOptionKeeps ==
    ASSUME AdapterInvariant, ReadOption, phase' # "rejected"
    PROVE  AdapterInvariant'
<1> DEFINE l == Block.lines[line]
           S == ToSet(Block.lines)
           before == SubSeq(Block.lines, 1, line - 1)
<1>1. /\ phase = "read" /\ Read /\ WithinBlock /\ block <= Len(file)
      /\ line > 0 /\ line <= Len(Block.lines) /\ Acceptable(l)
      /\ route'.override = Stored(route.override, l) /\ seen' = seen \cup {l.option}
      /\ line' = line + 1
      /\ UNCHANGED <<vars, file, block, natsSeen, adapted>>
  BY DEF ReadOption, AdapterInvariant, Read, Reject, vars
<1>2. /\ Block.kind # "option" /\ Block.lines \in Seq(S) /\ line \in Nat /\ Len(Block.lines) \in Nat
      /\ route.override \in Overrides /\ AsWritten(before, route.override)
      /\ \A i \in 1 .. line - 1 : Block.lines[i].option \in seen
      /\ l \in S /\ l.option \in Known /\ l.parses /\ ~Duplicate(l)
      /\ l.option \in LineOptions => l.value \in ValuesFor(l.option)
  <2>1. Block.kind # "option" /\ line \in Nat
    BY <1>1 DEF Read, WithinBlock
  <2>2. Block.lines \in Seq(S) /\ Len(Block.lines) \in Nat
    BY <1>1, <2>1, FileBlock DEF Read
  <2>3. line \in 1 .. Len(Block.lines)
    BY <1>1, <2>1, <2>2
  <2>4. l \in S /\ (l.option \in LineOptions /\ l.parses => l.value \in ValuesFor(l.option))
    BY <1>1, <2>1, <2>3, FileBlock DEF Read
  <2> HIDE DEF Block
  <2> QED BY <1>1, <2>1, <2>2, <2>4 DEF WithinBlock, Acceptable
<1> HIDE DEF l, S
<1>3. /\ before \in Seq(S) /\ Len(before) = line - 1 /\ DOMAIN before = 1 .. line - 1
      /\ \A i \in 1 .. line - 1 : before[i] = Block.lines[i]
  <2> HIDE DEF Block
  <2>1. line - 1 \in Nat /\ line - 1 <= Len(Block.lines)
    BY <1>1, <1>2
  <2> QED BY <1>2, <2>1
<1>4. SubSeq(Block.lines, 1, line) = Append(before, l)
  <2> HIDE DEF Block
  <2> DEFINE upto == SubSeq(Block.lines, 1, line)
  <2>1. line \in 1 .. Len(Block.lines)
    BY <1>1, <1>2
  <2>2. /\ upto \in Seq(S) /\ Len(upto) = line
        /\ \A i \in 1 .. line : upto[i] = Block.lines[i]
    BY <1>2, <2>1
  <2> HIDE DEF before, upto
  <2>3. /\ Append(before, l) \in Seq(S) /\ Len(Append(before, l)) = line
        /\ Append(before, l)[line] = l
        /\ \A i \in 1 .. line - 1 : Append(before, l)[i] = before[i]
    BY <1>2, <1>3
  <2>4. \A i \in 1 .. line : i \in 1 .. line - 1 \/ i = line
    BY <1>2
  <2>5. \A i \in 1 .. line : upto[i] = Append(before, l)[i]
    BY <1>3, <2>2, <2>3, <2>4 DEF l
  <2>6. upto = Append(before, l)
    BY <2>2, <2>3, <2>5, SeqEqual
  <2> QED BY <2>6 DEF upto
<1> HIDE DEF before
<1>5. l.option \notin Repeatable => LinesWith(before, l.option) = {}
  <2> SUFFICES ASSUME l.option \notin Repeatable, NEW i \in LinesWith(before, l.option) PROVE FALSE
    OBVIOUS
  <2>1. i \in 1 .. line - 1 /\ before[i].option = l.option
    BY <1>3 DEF LinesWith
  <2>2. l.option \in seen
    BY <1>2, <1>3, <2>1
  <2> QED BY <1>2, <2>2 DEF Duplicate, Repeatable
<1>6. l.option \in Repeatable => l.value \notin ValuesOf(before, l.option)
  <2>1. CASE l.option = "parameter"
    BY <1>2, <2>1 DEF Duplicate, AsWritten
  <2>2. CASE l.option = "extend_parameter"
    BY <1>2, <2>2 DEF Duplicate, AsWritten
  <2> QED BY <2>1, <2>2 DEF Repeatable
<1>7. Stored(route.override, l) \in Overrides
  BY <1>2, StoredOverride
<1>8. AsWritten(Append(before, l), Stored(route.override, l))
  BY <1>2, <1>3, <1>5, <1>6, StoredAsWritten
<1>9. \A i \in 1 .. line : Block.lines[i].option \in seen'
  <2> HIDE DEF Block
  <2>1. \A i \in 1 .. line : i \in 1 .. line - 1 \/ i = line
    BY <1>2
  <2> QED BY <1>1, <1>2, <2>1 DEF l
<1>10. WithinBlock'
  <2>1. Block' = Block /\ line' - 1 = line /\ line' <= Len(Block.lines) + 1
    <3>1. Block' = Block
      BY <1>1 DEF Block
    <3> HIDE DEF Block
    <3> QED BY <1>1, <1>2, <3>1
  <2> HIDE DEF Block
  <2>2. AsWritten(SubSeq(Block.lines, 1, line' - 1), route'.override)
    BY <1>1, <1>4, <1>8, <2>1
  <2> QED BY <1>1, <1>2, <1>7, <1>9, <2>1, <2>2 DEF WithinBlock
<1>11. Read'
  <2>1. line' \in Nat
    BY <1>1, <1>2
  <2> QED BY <1>1, <1>10, <2>1 DEF Read, Count, vars
<1> QED BY <1>1, <1>11, ConfigurationStays DEF AdapterInvariant

\* An option of the handler is no declaration.
LEMMA HandlerOptionKeeps ==
    ASSUME AdapterInvariant, HandlerOption, phase' # "rejected"
    PROVE  AdapterInvariant'
<1>1. /\ phase = "read" /\ Read /\ block <= Len(file) /\ line = 0 /\ Block.kind = "option"
      /\ block' = block + 1 /\ UNCHANGED <<vars, file, line, route, seen, adapted>>
  BY DEF HandlerOption, AdapterInvariant, Reject, vars, reading
<1>2. block \in Nat /\ block - 1 \in Nat /\ block >= 1
  BY <1>1 DEF Read
<1>3. /\ Count("route", block) = Count("route", block - 1)
      /\ Count("route_profile", block) = Count("route_profile", block - 1)
  <2>1. file[block - 1 + 1].kind = "option" /\ block - 1 + 1 = block
    BY <1>1, <1>2 DEF Block
  <2> QED BY <1>2, <2>1, CountNext
<1>4. file \in Seq(ToSet(file))
  BY <1>1, FilesAssumption DEF Read
<1>5. Read'
  <2>1. /\ Count("route", block)' = Count("route", block') /\ block' - 1 = block
        /\ Count("route_profile", block)' = Count("route_profile", block')
    BY <1>1, <1>2 DEF Count
  <2>2. block' \in Nat \ {0} /\ block' <= Len(file) + 1
    BY <1>1, <1>2, <1>4
  <2>3. /\ Len(config.routes) = Count("route", block) /\ Len(config.profiles) = Count("route_profile", block)
        /\ config = [profiles |-> config.profiles, routes |-> config.routes]
    BY <1>1, <1>3 DEF Read
  <2>4. WithinBlock'
    BY <1>1 DEF WithinBlock
  <2> QED BY <1>1, <2>1, <2>2, <2>3, <2>4 DEF Read, Count, vars
<1>6. BlocksAsWritten'
  <2> SUFFICES ASSUME NEW k \in 1 .. block' - 1
               PROVE  /\ file[k].kind = "route" =>
                            AsWritten(file[k].lines, config.routes[Place(k)].override)
                      /\ file[k].kind = "route_profile" =>
                            AsWritten(file[k].lines, config.profiles[Place(k)].override)
    BY <1>1 DEF BlocksAsWritten, Place, vars
  <2>1. k \in 1 .. block - 1 \/ k = block
    BY <1>1, <1>2
  <2>2. CASE k = block
    BY <1>1, <2>2 DEF Block
  <2>3. CASE k \in 1 .. block - 1
    BY <1>1, <2>3 DEF AdapterInvariant, BlocksAsWritten, Read
  <2> QED BY <2>1, <2>2, <2>3
<1>7. ProfilesInvariant' /\ Typed' /\ (adapted # None => Reresolving)'
  BY <1>1, ProfilesStay, ResolvingStays
     DEF AdapterInvariant, vars, ProfilesInvariant, Typed, Reresolving
<1> QED BY <1>5, <1>6, <1>7 DEF AdapterInvariant

\* A block ends: it has added one route, or one profile.
LEMMA EndRouteKeeps ==
    ASSUME AdapterInvariant, EndRoute
    PROVE  AdapterInvariant'
<1> DEFINE lines == Block.lines
           kind == Block.kind
           added == IF kind = "route"
                    THEN [profile |-> route.link, override |-> route.override]
                    ELSE [name |-> Block.name, extends |-> route.link,
                          override |-> route.override, shareable |-> ~route.specific]
<1>1. /\ phase = "read" /\ Read /\ WithinBlock /\ block <= Len(file)
      /\ line > 0 /\ line > Len(lines) /\ block' = block + 1 /\ line' = 0
      /\ UNCHANGED <<phase, pending, stack, visiting, cache, resolved, file, route, seen, adapted>>
      /\ config' = IF kind = "route"
                   THEN [config EXCEPT !.routes = Append(@, added)]
                   ELSE [config EXCEPT !.profiles = Append(@, added)]
  BY DEF EndRoute, AdapterInvariant, Read, resolution
<1>2. /\ kind \in {"route", "route_profile"} /\ lines \in Seq(ToSet(lines))
      /\ route.override \in Overrides /\ AsWritten(lines, route.override)
  <2>1. /\ kind \in {"route", "route_profile"} /\ lines \in Seq(ToSet(lines)) /\ line \in Nat
        /\ line <= Len(lines) + 1
        /\ route.override \in Overrides
        /\ AsWritten(SubSeq(lines, 1, line - 1), route.override)
    BY <1>1, FileBlock DEF Read, WithinBlock
  <2> HIDE DEF lines
  <2>2. line - 1 = Len(lines) /\ SubSeq(lines, 1, Len(lines)) = lines
    BY <1>1, <2>1, SubSeqFull
  <2> QED BY <2>1, <2>2
<1>3. added.override \in Overrides /\ added.override = route.override
  BY <1>2
<1>4. /\ config = [profiles |-> config.profiles, routes |-> config.routes]
      /\ Len(config.routes) = Count("route", block - 1)
      /\ Len(config.profiles) = Count("route_profile", block - 1)
      /\ WrittenAs(config.routes) /\ WrittenAs(config.profiles)
      /\ block \in Nat /\ block - 1 \in Nat /\ block >= 1 /\ adapted = None /\ file \in Files
  BY <1>1 DEF Read, AdapterInvariant, Typed
<1> HIDE DEF added
<1>5. /\ kind = "route" => config'.routes = Append(config.routes, added) /\ config'.profiles = config.profiles
      /\ kind = "route_profile" =>
            config'.profiles = Append(config.profiles, added) /\ config'.routes = config.routes
      /\ config' = [profiles |-> config'.profiles, routes |-> config'.routes]
  BY <1>1, <1>2, <1>4
<1>6. /\ WrittenAs(config'.routes) /\ WrittenAs(config'.profiles)
      /\ Len(config.routes) \in Nat /\ Len(config.profiles) \in Nat
      /\ kind = "route" =>
            /\ Len(config'.routes) = Len(config.routes) + 1
            /\ config'.routes[Len(config.routes) + 1] = added
      /\ kind = "route_profile" =>
            /\ Len(config'.profiles) = Len(config.profiles) + 1
            /\ config'.profiles[Len(config.profiles) + 1] = added
      /\ \A i \in 1 .. Len(config.routes) : config'.routes[i] = config.routes[i]
      /\ \A i \in 1 .. Len(config.profiles) : config'.profiles[i] = config.profiles[i]
  <2> HIDE DEF kind
  <2>1. ASSUME NEW s, WrittenAs(s)
        PROVE  /\ WrittenAs(Append(s, added)) /\ Len(s) \in Nat
               /\ Len(Append(s, added)) = Len(s) + 1 /\ Append(s, added)[Len(s) + 1] = added
               /\ \A i \in 1 .. Len(s) : Append(s, added)[i] = s[i]
    BY <1>3, <2>1, DeclarationAppended
  <2>2. CASE kind = "route"
    BY <1>4, <1>5, <2>1, <2>2
  <2>3. CASE kind = "route_profile"
    BY <1>4, <1>5, <2>1, <2>3
  <2> QED BY <1>2, <2>2, <2>3
<1>7. /\ Count(kind, block) = Count(kind, block - 1) + 1
      /\ \A k \in {"route", "route_profile"} : k # kind => Count(k, block) = Count(k, block - 1)
  <2>1. file[block - 1 + 1].kind = kind /\ block - 1 + 1 = block
    BY <1>4 DEF Block
  <2> HIDE DEF kind
  <2> QED BY <1>4, <2>1, CountNext
<1>8. Len(config'.routes) = Count("route", block) /\ Len(config'.profiles) = Count("route_profile", block)
  <2> HIDE DEF kind
  <2> QED BY <1>2, <1>4, <1>5, <1>6, <1>7
<1>9. Read'
  <2>1. /\ Count("route", block)' = Count("route", block') /\ block' - 1 = block
        /\ Count("route_profile", block)' = Count("route_profile", block')
    BY <1>1, <1>4 DEF Count
  <2>2. block' \in Nat \ {0} /\ block' <= Len(file) + 1
    <3>1. file \in Seq(ToSet(file))
      BY <1>4, FilesAssumption
    <3> QED BY <1>1, <1>4, <3>1
  <2>3. WithinBlock'
    BY <1>1 DEF WithinBlock
  <2> HIDE DEF kind, lines
  <2> QED BY <1>1, <1>4, <1>5, <1>8, <2>1, <2>2, <2>3 DEF Read, Count
<1>10. BlocksAsWritten'
  <2> SUFFICES ASSUME NEW k \in 1 .. block' - 1
               PROVE  /\ file[k].kind = "route" =>
                            AsWritten(file[k].lines, config'.routes[Place(k)].override)
                      /\ file[k].kind = "route_profile" =>
                            AsWritten(file[k].lines, config'.profiles[Place(k)].override)
    BY <1>1 DEF BlocksAsWritten, Place
  <2>1. k \in 1 .. block - 1 \/ k = block
    BY <1>1, <1>4
  <2>2. CASE k = block
    <3>1. Place(block) = Count(kind, block) /\ file[block].kind = kind /\ file[block].lines = lines
      <4>1. block \in 1 .. block
        BY <1>4
      <4> QED BY <1>4, <4>1, PlaceCounted DEF Block
    <3> HIDE DEF kind, lines
    <3>2. CASE kind = "route"
      <4>1. Place(block) = Len(config.routes) + 1
        BY <1>4, <1>7, <3>1, <3>2
      <4>2. config'.routes[Place(block)].override = route.override
        BY <1>3, <1>6, <3>2, <4>1
      <4> QED BY <1>2, <2>2, <3>1, <3>2, <4>2
    <3>3. CASE kind = "route_profile"
      <4>1. Place(block) = Len(config.profiles) + 1
        BY <1>4, <1>7, <3>1, <3>3
      <4>2. config'.profiles[Place(block)].override = route.override
        BY <1>3, <1>6, <3>3, <4>1
      <4> QED BY <1>2, <2>2, <3>1, <3>3, <4>2
    <3> QED BY <1>2, <3>2, <3>3
  <2>3. CASE k \in 1 .. block - 1
    <3>1. Place(k) \in 1 .. Count(file[k].kind, block - 1)
      BY <1>4, <2>3, PlaceCounted
    <3>2. /\ file[k].kind = "route" => AsWritten(file[k].lines, config.routes[Place(k)].override)
          /\ file[k].kind = "route_profile" => AsWritten(file[k].lines, config.profiles[Place(k)].override)
      BY <1>4, <2>3 DEF AdapterInvariant, BlocksAsWritten
    <3>3. file[k].kind = "route" => config'.routes[Place(k)] = config.routes[Place(k)]
      BY <1>4, <1>6, <3>1
    <3>4. file[k].kind = "route_profile" => config'.profiles[Place(k)] = config.profiles[Place(k)]
      BY <1>4, <1>6, <3>1
    <3> QED BY <3>2, <3>3, <3>4
  <2> QED BY <2>1, <2>2, <2>3
<1>11. Typed'
  BY <1>1, <1>6 DEF Typed, AdapterInvariant
<1>12. ProfilesInvariant'
  BY <1>1 DEF ProfilesInvariant, Unresolved, AdapterInvariant
<1> QED BY <1>1, <1>4, <1>9, <1>10, <1>11, <1>12 DEF AdapterInvariant

\* The file is read, and its effective routes are emitted.
LEMMA EndFileKeeps ==
    ASSUME AdapterInvariant, EndFile
    PROVE  AdapterInvariant'
<1>1. /\ phase = "read" /\ Read /\ phase' = "declare" /\ adapted' = None
      /\ UNCHANGED <<config, pending, stack, visiting, cache, resolved, file, block, adapted>>
  BY DEF EndFile, AdapterInvariant, Read, resolution, reading
<1>2. Typed' /\ BlocksAsWritten'
  BY <1>1 DEF Typed, BlocksAsWritten, Place, AdapterInvariant
<1>3. ProfilesInvariant'
  BY <1>1 DEF ProfilesInvariant, Unresolved, AdapterInvariant
<1> QED BY <1>1, <1>2, <1>3 DEF AdapterInvariant

LEMMA EmitKeeps ==
    ASSUME AdapterInvariant, Emit
    PROVE  AdapterInvariant'
<1> DEFINE emitted == [i \in DOMAIN resolved |-> Emitted(resolved[i], config.routes[i].override)]
<1>1. /\ phase = "done" /\ phase' = "declare" /\ adapted' = resolved
      /\ config' = [profiles |-> <<>>, routes |-> emitted]
      /\ cache' = Map /\ resolved' = <<>>
      /\ UNCHANGED <<pending, stack, visiting, file, reading>>
  BY DEF Emit
<1>2. /\ resolved \in Seq(EffectiveRoutes) /\ Len(resolved) \in Nat /\ DOMAIN resolved = 1 .. Len(resolved)
      /\ \A i \in DOMAIN resolved : resolved[i] \in EffectiveRoutes
  BY DEF AdapterInvariant, Typed
<1>3. ASSUME NEW i \in DOMAIN resolved
      PROVE  /\ emitted[i].profile = None /\ emitted[i].override \in Overrides
             /\ mergeRoute(EmptyRoute, emitted[i].override) = resolved[i]
  <2>1. Emitted(resolved[i], config.routes[i].override).profile = None
    BY DEF Emitted
  <2> QED BY <1>2, <2>1, EmittedResolves
<1>4. emitted = [i \in 1 .. Len(resolved) |-> emitted[i]] /\ DOMAIN emitted = DOMAIN resolved
  BY <1>2
<1> HIDE DEF emitted
<1>5. emitted \in Seq(ToSet(emitted)) /\ Len(emitted) = Len(resolved)
  <2>1. \A i \in 1 .. Len(resolved) : emitted[i] \in ToSet(emitted)
    BY <1>2, <1>4 DEF ToSet
  <2> QED BY <1>2, <1>4, <2>1
<1>6. Typed'
  <2>1. WrittenAs(emitted)
    BY <1>3, <1>4, <1>5 DEF WrittenAs
  <2>2. WrittenAs(<<>>)
    BY DEF WrittenAs
  <2>3. DOMAIN Map = {}
    BY EmptyMap
  <2> QED BY <1>1, <2>1, <2>2, <2>3 DEF Typed
<1>7. ProfilesInvariant' /\ stack' = <<>>
  <2>1. [AdapterNext]_adapterVars
    BY DEF AdapterNext
  <2>2. ProfilesInvariant'
    BY <2>1, AdapterKeeps DEF AdapterInvariant
  <2> QED BY <1>1, <2>2 DEF ProfilesInvariant, Unresolved
<1>8. adapted' # None
  BY <1>1, <1>2, ProfilesAssumption
<1>9. Reresolving'
  <2>1. \A i \in DOMAIN resolved : /\ emitted[i].profile = None
                                   /\ mergeRoute(EmptyRoute, emitted[i].override) = resolved[i]
    BY <1>3
  <2> QED BY <1>1, <1>2, <1>5, <1>7, <2>1 DEF Reresolving
<1> QED BY <1>1, <1>6, <1>7, <1>8, <1>9 DEF AdapterInvariant, BlocksAsWritten

\* The profile that is merged next, and the route.
LEMMA CurrentIsWritten ==
    ASSUME Typed, Resolving, stack # <<>>
    PROVE  Current.override \in Overrides
<1>1. Last(stack) \in Names
  BY DEF Resolving, Last
<1>2. Current \in ToSet(config.profiles)
  <2>1. \E p \in ToSet(config.profiles) : p.name = Last(stack)
    BY <1>1 DEF Names, ToSet
  <2> QED BY <2>1, Zenon DEF Current, profile
<1> QED BY <1>2 DEF Typed, WrittenAs, ToSet

\* A step of resolvedRoutes returns routes.
LEMMA TypedKeeps ==
    ASSUME AdapterInvariant, Next
    PROVE  Typed'
<1>1. UNCHANGED config /\ WrittenAs(config'.profiles) /\ WrittenAs(config'.routes)
  BY DEF AdapterInvariant, Typed, Next, Declare, ResolveNext, ResolveParent, MergeProfile,
         ProfilesDone, ResolveRoute, RoutesDone, Reject
<1>2. CASE UNCHANGED <<cache, resolved>>
  BY <1>1, <1>2 DEF AdapterInvariant, Typed
<1>3. CASE MergeProfile /\ ~Reject
  <2> DEFINE base == IF Current.extends = None THEN EmptyRoute ELSE cache[Current.extends]
             result == mergeRoute(base, Current.override)
  <2>1. /\ phase = "profiles" /\ stack # <<>>
        /\ Current.extends = None \/ Current.extends \in DOMAIN cache
        /\ result # None /\ cache' = Joined([n \in {Current.name} |-> result], cache)
        /\ UNCHANGED resolved
    BY <1>3 DEF MergeProfile
  <2>2. Typed /\ Resolving
    BY <2>1 DEF AdapterInvariant, ProfilesInvariant
  <2>3. base \in EffectiveRoutes
    BY <2>1, <2>2, EmptyIsRoute DEF Typed
  <2>4. Current.override \in Overrides
    BY <2>1, <2>2, CurrentIsWritten
  <2>5. result \in EffectiveRoutes
    <3> HIDE DEF base
    <3> QED BY <2>1, <2>3, <2>4, MergedIsRoute
  <2> HIDE DEF result
  <2>6. \A name \in DOMAIN cache' : cache'[name] \in EffectiveRoutes
    BY <2>1, <2>2, <2>5 DEF Joined, Typed
  <2> QED BY <1>1, <2>1, <2>2, <2>6 DEF Typed
<1>4. CASE ResolveRoute /\ ~Reject
  <2> DEFINE chosen == config.routes[Len(resolved) + 1]
             base == IF chosen.profile = None THEN EmptyRoute ELSE cache[chosen.profile]
             result == mergeRoute(base, chosen.override)
  <2>1. /\ chosen.profile = None \/ chosen.profile \in DOMAIN cache
        /\ result # None /\ resolved' = Append(resolved, result) /\ UNCHANGED cache
        /\ Len(resolved) < Len(config.routes)
    BY <1>4 DEF ResolveRoute
  <2>2. Typed
    BY DEF AdapterInvariant
  <2>3. base \in EffectiveRoutes
    BY <2>1, <2>2, EmptyIsRoute DEF Typed
  <2>4. chosen.override \in Overrides
    <3>1. config.routes \in Seq(ToSet(config.routes)) /\ resolved \in Seq(EffectiveRoutes)
      BY <2>2 DEF Typed, WrittenAs
    <3>2. Len(resolved) + 1 \in DOMAIN config.routes
      BY <2>1, <3>1
    <3> QED BY <2>2, <3>2 DEF Typed, WrittenAs
  <2>5. result \in EffectiveRoutes
    <3> HIDE DEF base, chosen
    <3> QED BY <2>1, <2>3, <2>4, MergedIsRoute
  <2> HIDE DEF result
  <2>6. resolved' \in Seq(EffectiveRoutes)
    BY <2>1, <2>2, <2>5 DEF Typed
  <2> QED BY <1>1, <2>1, <2>2, <2>6 DEF Typed
<1>5. CASE Reject
  BY <1>2, <1>5 DEF Reject
<1> QED BY <1>2, <1>3, <1>4, <1>5
    DEF Next, Declare, ResolveNext, ResolveParent, ProfilesDone, RoutesDone

\* Emitted routes are never rejected, and are resolved to themselves.
LEMMA ReresolvingKeeps ==
    ASSUME AdapterInvariant, adapted # None, Next, UNCHANGED adapted
    PROVE  Reresolving'
<1>1. /\ phase \in {"declare", "profiles", "routes", "done"}
      /\ adapted \in Seq(EffectiveRoutes)
      /\ config.profiles = <<>> /\ stack = <<>> /\ (phase = "profiles" => pending = {})
      /\ Len(config.routes) = Len(adapted) /\ Len(resolved) <= Len(adapted)
      /\ \A i \in DOMAIN adapted :
            /\ config.routes[i].profile = None
            /\ mergeRoute(EmptyRoute, config.routes[i].override) = adapted[i]
      /\ \A i \in DOMAIN resolved : resolved[i] = adapted[i]
      /\ resolved \in Seq(EffectiveRoutes)
  BY DEF AdapterInvariant, Reresolving, Typed
<1>2. Names = {} /\ WellDeclared
  <2>1. Names = {}
    BY <1>1 DEF Names
  <2> QED BY <1>1, <2>1, FS_EmptySet DEF WellDeclared
<1>3. CASE Declare
  <2>1. phase' = "profiles" /\ pending' = {} /\ UNCHANGED <<config, stack, resolved>>
    BY <1>2, <1>3 DEF Declare
  <2> QED BY <1>1, <2>1 DEF Reresolving
<1>4. CASE \E name \in pending : ResolveNext(name)
  BY <1>1, <1>4 DEF ResolveNext
<1>5. CASE ResolveParent \/ MergeProfile
  BY <1>1, <1>5 DEF ResolveParent, MergeProfile
<1>6. CASE ProfilesDone
  <2>1. phase' = "routes" /\ UNCHANGED <<config, stack, resolved>>
    BY <1>6 DEF ProfilesDone
  <2> QED BY <1>1, <2>1 DEF Reresolving
<1>7. CASE ResolveRoute
  <2> DEFINE n == Len(resolved) + 1
             result == mergeRoute(EmptyRoute, config.routes[n].override)
  <2>1. n \in DOMAIN adapted
    BY <1>1, <1>7 DEF ResolveRoute
  <2>2. config.routes[n].profile = None /\ result = adapted[n] /\ result \in EffectiveRoutes
    BY <1>1, <2>1
  <2>3. result # None
    <3> HIDE DEF result
    <3> QED BY <2>2, ProfilesAssumption
  <2>4. phase = "routes" /\ resolved' = Append(resolved, result) /\ UNCHANGED <<config, phase, pending, stack>>
    BY <1>7, <2>2, <2>3 DEF ResolveRoute
  <2> HIDE DEF result
  <2>5. Len(resolved') <= Len(adapted)
    BY <1>1, <2>1, <2>2, <2>4
  <2>6. \A i \in DOMAIN resolved' : resolved'[i] = adapted[i]
    <3>1. /\ DOMAIN resolved = 1 .. n - 1 /\ DOMAIN resolved' = 1 .. n /\ n \in Nat
          /\ resolved'[n] = result /\ \A i \in 1 .. n - 1 : resolved'[i] = resolved[i]
      BY <1>1, <2>2, <2>4
    <3> HIDE DEF n
    <3>2. \A i \in 1 .. n : i \in 1 .. n - 1 \/ i = n
      BY <3>1
    <3> QED BY <1>1, <2>2, <3>1, <3>2
  <2> QED BY <1>1, <2>4, <2>5, <2>6 DEF Reresolving
<1>8. CASE RoutesDone
  <2>1. phase' = "done" /\ UNCHANGED <<config, stack, resolved>>
    BY <1>8 DEF RoutesDone
  <2> QED BY <1>1, <2>1 DEF Reresolving
<1> QED BY <1>3, <1>4, <1>5, <1>6, <1>7, <1>8 DEF Next

\* Every step of the adapter keeps the invariant.
LEMMA AdapterStep ==
    ASSUME AdapterInvariant, [AdapterNext]_adapterVars
    PROVE  AdapterInvariant'
<1>1. ProfilesInvariant'
  BY AdapterKeeps DEF AdapterInvariant
<1>2. CASE UNCHANGED adapterVars
  <2>1. UNCHANGED <<vars, file, block, adapted>> /\ UNCHANGED <<phase, line, route, seen, config>>
    BY <1>2 DEF adapterVars, reading, vars
  <2>2. Read' <=> Read
    BY <2>1 DEF Read, Count, WithinBlock, Block
  <2> QED BY <2>1, <2>2, ConfigurationStays DEF AdapterInvariant
<1>3. CASE Reject /\ UNCHANGED <<file, block, adapted>> /\ adapted = None
  BY <1>1, <1>3 DEF Reject, AdapterInvariant, Typed, BlocksAsWritten, Place
<1>4. CASE BeginRoute
  BY <1>4, BeginRouteKeeps
<1>5. CASE HandlerOption
  <2>1. CASE phase' # "rejected"
    BY <1>5, <2>1, HandlerOptionKeeps
  <2>2. CASE phase' = "rejected"
    <3>1. Reject /\ UNCHANGED <<file, block, adapted>> /\ adapted = None
      BY <1>5, <2>2 DEF HandlerOption, reading, vars, AdapterInvariant, Read
    <3> QED BY <1>3, <3>1
  <2> QED BY <2>1, <2>2
<1>6. CASE ReadOption
  <2>1. CASE phase' # "rejected"
    BY <1>6, <2>1, ReadOptionKeeps
  <2>2. CASE phase' = "rejected"
    <3>1. Reject /\ UNCHANGED <<file, block, adapted>> /\ adapted = None
      BY <1>6, <2>2 DEF ReadOption, reading, vars, AdapterInvariant, Read
    <3> QED BY <1>3, <3>1
  <2> QED BY <2>1, <2>2
<1>7. CASE EndRoute
  BY <1>7, EndRouteKeeps
<1>8. CASE EndFile
  BY <1>8, EndFileKeeps
<1>9. CASE Emit
  BY <1>9, EmitKeeps
<1>10. CASE Next /\ UNCHANGED <<file, reading, adapted>>
  <2>1. Typed'
    BY <1>10, TypedKeeps
  <2>2. UNCHANGED <<config, file, block, adapted>> /\ phase' # "read"
    BY <1>10 DEF reading, Next, Declare, ResolveNext, ResolveParent, MergeProfile,
        ProfilesDone, ResolveRoute, RoutesDone, Reject
  <2>3. BlocksAsWritten'
    BY <2>2 DEF AdapterInvariant, BlocksAsWritten, Place
  <2>4. adapted # None => Reresolving'
    BY <1>10, ReresolvingKeeps
  <2> QED BY <1>1, <2>1, <2>2, <2>3, <2>4 DEF AdapterInvariant
<1> QED BY <1>2, <1>4, <1>5, <1>6, <1>7, <1>8, <1>9, <1>10 DEF AdapterNext

LEMMA AdapterInitially == AdapterInit => AdapterInvariant
<1> SUFFICES ASSUME AdapterInit PROVE AdapterInvariant
  OBVIOUS
<1>1. /\ block = 1 /\ line = 0 /\ adapted = None /\ resolved = <<>> /\ cache = Map
      /\ stack = <<>> /\ visiting = {} /\ DOMAIN cache = {}
  BY EmptyMap DEF AdapterInit, Init, Reading
<1>2. WrittenAs(<<>>)
  BY DEF WrittenAs
<1>3. CASE Init /\ Reading(<<>>)
  <2>1. Typed /\ phase = "declare"
    BY <1>1, <1>3, ProfilesAssumption DEF Init, Typed
  <2> QED BY <1>1, <2>1 DEF AdapterInvariant, ProfilesInvariant, Unresolved, BlocksAsWritten
<1>4. CASE /\ \E f \in Files : Reading(f)
           /\ config = [profiles |-> <<>>, routes |-> <<>>]
           /\ phase = "read"
  <2>1. Typed
    BY <1>1, <1>2, <1>4 DEF Typed
  <2>2. ASSUME NEW kind PROVE Count(kind, 0) = 0
    <3>1. {j \in 1 .. 0 : file[j].kind = kind} = {}
      OBVIOUS
    <3> QED BY <3>1, FS_EmptySet DEF Count
  <2>3. file \in Files /\ 1 <= Len(file) + 1
    <3>1. file \in Files
      BY <1>4 DEF Reading
    <3>2. file \in Seq(ToSet(file))
      BY <3>1, FilesAssumption
    <3> QED BY <3>1, <3>2
  <2>4. Read
    BY <1>1, <1>4, <2>2, <2>3 DEF Read, WithinBlock
  <2> QED BY <1>1, <1>4, <2>1, <2>4 DEF AdapterInvariant, ProfilesInvariant, Unresolved, BlocksAsWritten
<1> QED BY <1>3, <1>4 DEF AdapterInit

LEMMA AdapterInvariantHolds == AdapterSpec => []AdapterInvariant
<1> QED BY AdapterInitially, AdapterStep, PTL DEF AdapterSpec

\* Every block that has been read means what its lines say, whatever the length
\* of the file and the order of its lines (config.go 742-955).
THEOREM BlocksMeanTheirLines == AdapterSpec => []BlocksAsWritten
<1>1. AdapterInvariant => BlocksAsWritten
  BY DEF AdapterInvariant
<1> QED BY <1>1, AdapterInvariantHolds, PTL

\* Provision accepts what the adapter has emitted and resolves it to the same
\* routes (config.go 719-727).
THEOREM EmittedRoutesAreStable == AdapterSpec => []AdaptationStable
<1>1. AdapterInvariant => AdaptationStable
  BY DEF AdapterInvariant, Reresolving, AdaptationStable
<1> QED BY <1>1, AdapterInvariantHolds, PTL

----------------------------------------------------------------------------
(* Histories: what one more event means.                                   *)

LEMMA UpTo ==
    ASSUME NEW n \in Nat, NEW T, 0 \in T,
           \A i \in 0 .. n : i < n /\ i \in T => i + 1 \in T
    PROVE  0 .. n \subseteq T
<1> DEFINE missing == (0 .. n) \ T
<1>1. SUFFICES ASSUME missing # {} PROVE FALSE
  OBVIOUS
<1>2. PICK m \in missing : \A k \in missing : m <= k
  <2>1. missing \in SUBSET Nat
    OBVIOUS
  <2> HIDE DEF missing
  <2> QED BY <1>1, <2>1, LeastNumber
<1>3. m \in 0 .. n /\ m # 0
  OBVIOUS
<1>4. m - 1 \in 0 .. n /\ m - 1 < n /\ ~(m <= m - 1) /\ (m - 1) + 1 = m
  BY <1>3
<1>5. m - 1 \in T
  BY <1>2, <1>4
<1> QED BY <1>3, <1>4, <1>5

\* The sequences in the course of flattening.
Flattens(f, seqs) ==
    f = [i \in 1 .. Len(seqs) |-> IF i = 1 THEN seqs[i] ELSE f[i - 1] \o seqs[i]]

LEMMA FlattensExists ==
    ASSUME NEW seqs, Len(seqs) \in Nat
    PROVE  \E f : Flattens(f, seqs)
<1> DEFINE n == Len(seqs)
           Steps(f, m) ==
                /\ f = [i \in 1 .. m |-> f[i]]
                /\ \A i \in 1 .. m : f[i] = IF i = 1 THEN seqs[i] ELSE f[i - 1] \o seqs[i]
           T == {m \in 0 .. n : \E f : Steps(f, m)}
<1>1. 0 \in T
  <2> DEFINE f == [i \in 1 .. 0 |-> i]
  <2>1. f = [i \in 1 .. 0 |-> f[i]] /\ 0 \in 0 .. n /\ 1 .. 0 = {}
    OBVIOUS
  <2> HIDE DEF f, n
  <2> QED BY <2>1
<1>2. ASSUME NEW m \in 0 .. n, m < n, m \in T
      PROVE  m + 1 \in T
  <2>1. PICK g : Steps(g, m)
    BY <1>2
  <2> DEFINE last == IF m = 0 THEN seqs[1] ELSE g[m] \o seqs[m + 1]
             f == [i \in 1 .. m + 1 |-> IF i = m + 1 THEN last ELSE g[i]]
  <2>2. ASSUME NEW i \in 1 .. m + 1
        PROVE  f[i] = IF i = 1 THEN seqs[i] ELSE f[i - 1] \o seqs[i]
    <3>1. i # 1 => i - 1 \in 1 .. m + 1 /\ i - 1 # m + 1
      OBVIOUS
    <3>2. f[i] = (IF i = m + 1 THEN last ELSE g[i]) /\ (i # 1 => f[i - 1] = g[i - 1])
      BY <3>1
    <3>3. CASE i = m + 1
      <4>1. m = 0 <=> i = 1
        BY <3>3
      <4>2. m # 0 => i - 1 = m
        BY <3>3
      <4> HIDE DEF f
      <4> QED BY <3>2, <3>3, <4>1, <4>2
    <3>4. CASE i # m + 1
      <4>1. i \in 1 .. m
        BY <3>4
      <4> HIDE DEF f
      <4> QED BY <2>1, <3>2, <3>4, <4>1
    <3> QED BY <3>3, <3>4
  <2>3. f = [i \in 1 .. m + 1 |-> f[i]]
    OBVIOUS
  <2>4. Steps(f, m + 1)
    <3> HIDE DEF f
    <3> QED BY <2>2, <2>3
  <2>5. m + 1 \in 0 .. n
    BY <1>2
  <2> HIDE DEF f
  <2> QED BY <2>4, <2>5
<1>3. 0 .. n \subseteq T
  <2> HIDE DEF T
  <2> QED BY <1>1, <1>2, UpTo
<1>4. PICK f : Steps(f, n)
  <2>1. n \in 0 .. n
    OBVIOUS
  <2> QED BY <1>3, <2>1
<1>5. Flattens(f, seqs)
  BY <1>4 DEF Flattens
<1> QED BY <1>5

LEMMA FlattenedBy ==
    ASSUME NEW seqs, Len(seqs) \in Nat
    PROVE  \E f : /\ \A i \in 1 .. Len(seqs) : f[i] = IF i = 1 THEN seqs[i] ELSE f[i - 1] \o seqs[i]
                  /\ FlattenSeq(seqs) = IF Len(seqs) = 0 THEN seqs ELSE f[Len(seqs)]
<1> DEFINE f == CHOOSE f : Flattens(f, seqs)
<1>1. Flattens(f, seqs)
  BY FlattensExists
<1>2. FlattenSeq(seqs) = IF Len(seqs) = 0 THEN seqs ELSE f[Len(seqs)]
  <2>1. FlattenSeq(seqs) =
            IF Len(seqs) = 0 THEN seqs
            ELSE LET flatten[i \in 1 .. Len(seqs)] ==
                        IF i = 1 THEN seqs[i] ELSE flatten[i - 1] \o seqs[i]
                 IN  flatten[Len(seqs)]
    BY DEF FlattenSeq
  <2> QED BY <2>1 DEF Flattens
<1> HIDE DEF f
<1>3. \A i \in 1 .. Len(seqs) : f[i] = IF i = 1 THEN seqs[i] ELSE f[i - 1] \o seqs[i]
  BY <1>1 DEF Flattens
<1> QED BY <1>2, <1>3

LEMMA Flattened ==
    ASSUME NEW S, NEW seqs \in Seq(Seq(S)), NEW s \in Seq(S)
    PROVE  /\ FlattenSeq(seqs) \in Seq(S)
           /\ FlattenSeq(Append(seqs, s)) = FlattenSeq(seqs) \o s
<1> DEFINE n == Len(seqs)
           longer == Append(seqs, s)
<1>1. /\ n \in Nat /\ Len(longer) = n + 1 /\ longer[n + 1] = s
      /\ \A i \in 1 .. n : longer[i] = seqs[i] /\ seqs[i] \in Seq(S)
  OBVIOUS
<1>2. PICK f : /\ \A i \in 1 .. n : f[i] = IF i = 1 THEN seqs[i] ELSE f[i - 1] \o seqs[i]
               /\ FlattenSeq(seqs) = IF n = 0 THEN seqs ELSE f[n]
  BY <1>1, FlattenedBy
<1> HIDE DEF longer
<1>3. PICK g : /\ \A i \in 1 .. n + 1 : g[i] = IF i = 1 THEN longer[i] ELSE g[i - 1] \o longer[i]
               /\ FlattenSeq(longer) = IF n + 1 = 0 THEN longer ELSE g[n + 1]
  <2>1. \E g : /\ \A i \in 1 .. Len(longer) : g[i] = IF i = 1 THEN longer[i] ELSE g[i - 1] \o longer[i]
               /\ FlattenSeq(longer) = IF Len(longer) = 0 THEN longer ELSE g[Len(longer)]
    <3>1. Len(longer) \in Nat
      BY <1>1
    <3> QED BY <3>1, FlattenedBy
  <2> QED BY <1>1, <2>1
<1> DEFINE T == {i \in 0 .. n : i = 0 \/ (f[i] \in Seq(S) /\ f[i] = g[i])}
<1>4. 0 \in T
  BY <1>1
<1>5. ASSUME NEW i \in 0 .. n, i < n, i \in T PROVE i + 1 \in T
  <2>1. i + 1 \in 1 .. n /\ i + 1 \in 1 .. n + 1 /\ i + 1 \in 0 .. n /\ (i + 1) - 1 = i /\ (i + 1 = 1 <=> i = 0)
    BY <1>1, <1>5
  <2>2. f[i + 1] = (IF i = 0 THEN seqs[i + 1] ELSE f[i] \o seqs[i + 1])
    BY <1>2, <2>1
  <2>3. g[i + 1] = (IF i = 0 THEN longer[i + 1] ELSE g[i] \o longer[i + 1])
    BY <1>3, <2>1
  <2>4. longer[i + 1] = seqs[i + 1] /\ seqs[i + 1] \in Seq(S)
    BY <1>1, <2>1
  <2>5. i # 0 => f[i] \in Seq(S) /\ f[i] = g[i]
    BY <1>5
  <2>6. f[i + 1] \in Seq(S) /\ f[i + 1] = g[i + 1]
    BY <2>2, <2>3, <2>4, <2>5
  <2> QED BY <2>1, <2>6
<1>6. 0 .. n \subseteq T
  <2> HIDE DEF T
  <2> QED BY <1>1, <1>4, <1>5, UpTo
<1>7. n # 0 => f[n] \in Seq(S) /\ f[n] = g[n]
  <2>1. n \in 0 .. n
    BY <1>1
  <2> QED BY <1>6, <2>1
<1>8. FlattenSeq(longer) = IF n = 0 THEN s ELSE g[n] \o s
  <2>1. n + 1 \in 1 .. n + 1 /\ (n + 1) - 1 = n /\ n + 1 # 0 /\ (n + 1 = 1 <=> n = 0)
    BY <1>1
  <2> QED BY <1>1, <1>3, <2>1
<1>9. CASE n = 0
  <2>1. seqs = <<>>
    BY <1>9
  <2>2. <<>> \o s = s
    OBVIOUS
  <2> QED BY <1>2, <1>8, <1>9, <2>1, <2>2 DEF longer
<1>10. CASE n # 0
  BY <1>2, <1>7, <1>8, <1>10 DEF longer
<1> QED BY <1>9, <1>10

\* What an event carries.
Carried ==
    Nat \cup Seq(HeaderNames) \cup Maps \cup Securities \cup Identities
        \cup {"true", "false", "omitted", None}

Occurrences ==
    {e \in [op : {"write", "clear", "extend"}, field : shareableRouteFields, value : Carried] :
        /\ e.op # "clear" =>
            /\ e.field = "request_headers" => e.value \in Seq(HeaderNames)
            /\ e.field = "parameters" => e.value \in Maps
        /\ e.op = "extend" => e.field \in {"request_headers", "parameters"}}

\* The flag as mergeRoute computes it: once set it stays set until it is cleared,
\* since an explicit false is not written (line 236).
FlagMerged(events, field) ==
    \E i \in LastEmptied(events, field) + 1 .. Len(events) :
        events[i].field = field /\ events[i].value = "true"

\* What the statements of mergeRoute make of a history.
MergedMeaning(events) ==
    [Meaning(events) EXCEPT !.negotiate_accept = FlagMerged(events, "response.negotiate_accept")]

LEMMA LastOfPositions ==
    ASSUME NEW n \in Nat, NEW I \in SUBSET (1 .. n)
    PROVE  /\ LastOf(I) \in 0 .. n
           /\ LastOf(I) = 0 <=> I = {}
           /\ I # {} => LastOf(I) \in I
           /\ \A i \in I : i <= LastOf(I)
           /\ LastOf(I \cup {n + 1}) = n + 1
<1>1. ASSUME NEW m \in Nat, NEW J \in SUBSET (1 .. m), J # {}
      PROVE  Max(J) \in J /\ \A j \in J : j <= Max(J)
  <2> DEFINE T == {m - j : j \in J}
  <2>1. T \in SUBSET Nat /\ T # {}
    BY <1>1
  <2>2. PICK x \in T : \A y \in T : x <= y
    <3> HIDE DEF T
    <3> QED BY <2>1, LeastNumber
  <2>3. PICK j \in J : x = m - j
    OBVIOUS
  <2>4. \A k \in J : k <= j
    <3>1. ASSUME NEW k \in J PROVE k <= j
      <4>1. m - k \in T
        OBVIOUS
      <4>2. m - j <= m - k
        BY <2>2, <2>3, <4>1
      <4>3. j \in Nat /\ k \in Nat
        OBVIOUS
      <4> HIDE DEF T
      <4> QED BY <4>2, <4>3
    <3> QED BY <3>1
  <2>5. \E y \in J : \A k \in J : y >= k
    <3> HIDE DEF T
    <3>1. \A k \in J : j >= k
      BY <2>4
    <3> QED BY <3>1
  <2>6. Max(J) \in J /\ \A k \in J : Max(J) >= k
    <3> HIDE DEF T
    <3> QED BY <2>5, Zenon DEF Max
  <2> QED BY <2>6
<1>2. CASE I = {}
  <2>1. LastOf(I) = 0
    BY <1>2 DEF LastOf
  <2>2. I \cup {n + 1} \in SUBSET (1 .. n + 1) /\ I \cup {n + 1} # {} /\ n + 1 \in Nat
    OBVIOUS
  <2>3. Max(I \cup {n + 1}) \in I \cup {n + 1}
    BY <1>1, <2>2
  <2> QED BY <1>2, <2>1, <2>2, <2>3 DEF LastOf
<1>3. CASE I # {}
  <2>1. Max(I) \in I /\ \A i \in I : i <= Max(I)
    BY <1>1, <1>3
  <2>2. I \cup {n + 1} \in SUBSET (1 .. n + 1) /\ I \cup {n + 1} # {} /\ n + 1 \in Nat
    OBVIOUS
  <2>3. Max(I \cup {n + 1}) \in I \cup {n + 1} /\ \A i \in I \cup {n + 1} : i <= Max(I \cup {n + 1})
    BY <1>1, <2>2
  <2> DEFINE m == Max(I \cup {n + 1})
  <2>4. m = n + 1
    <3>1. n + 1 <= m /\ (m \in 1 .. n \/ m = n + 1)
      <4> HIDE DEF m
      <4> QED BY <2>3 DEF m
    <3> HIDE DEF m
    <3> QED BY <3>1
  <2>5. LastOf(I \cup {n + 1}) = n + 1
    BY <2>2, <2>4 DEF LastOf
  <2>6. LastOf(I) = Max(I)
    BY <1>3 DEF LastOf
  <2> HIDE DEF m
  <2>7. Max(I) \in 1 .. n
    BY <2>1
  <2> QED BY <1>3, <2>1, <2>5, <2>6, <2>7
<1> QED BY <1>2, <1>3

\* The last event of a kind, with one event more.
LEMMA LastAfter ==
    ASSUME NEW S, NEW events \in Seq(S), NEW e \in S, NEW field
    PROVE  LET longer == Append(events, e)
               n == Len(events)
           IN  /\ n \in Nat /\ DOMAIN events = 1 .. n
               /\ Len(longer) = n + 1 /\ longer[n + 1] = e /\ \A i \in 1 .. n : longer[i] = events[i]
               /\ Decisive(events, field) \in 0 .. n
               /\ LastEmptied(events, field) \in 0 .. n
               /\ Decisive(longer, field) =
                    IF Decides(e, field) THEN n + 1 ELSE Decisive(events, field)
               /\ LastEmptied(longer, field) =
                    IF Empties(e, field) THEN n + 1 ELSE LastEmptied(events, field)
<1> DEFINE longer == Append(events, e)
           n == Len(events)
           I == {i \in DOMAIN events : Decides(events[i], field)}
           J == {i \in DOMAIN events : Empties(events[i], field)}
           I2 == {i \in DOMAIN longer : Decides(longer[i], field)}
           J2 == {i \in DOMAIN longer : Empties(longer[i], field)}
<1>1. /\ n \in Nat /\ DOMAIN events = 1 .. n /\ DOMAIN longer = 1 .. n + 1 /\ Len(longer) = n + 1
      /\ longer[n + 1] = e /\ \A i \in 1 .. n : longer[i] = events[i]
  OBVIOUS
<1>2. \A i : i \in 1 .. n + 1 <=> i \in 1 .. n \/ i = n + 1
  BY <1>1
<1>3. n + 1 \notin 1 .. n
  BY <1>1
<1> HIDE DEF longer, n
<1>4. I2 = IF Decides(e, field) THEN I \cup {n + 1} ELSE I
  <2>1. \A i : i \in I2 <=> i \in I \/ (i = n + 1 /\ Decides(e, field))
    BY <1>1, <1>2, <1>3
  <2> HIDE DEF I, I2
  <2>2. CASE Decides(e, field)
    BY <2>1, <2>2
  <2>3. CASE ~Decides(e, field)
    BY <2>1, <2>3
  <2> QED BY <2>2, <2>3
<1>5. J2 = IF Empties(e, field) THEN J \cup {n + 1} ELSE J
  <2>1. \A i : i \in J2 <=> i \in J \/ (i = n + 1 /\ Empties(e, field))
    BY <1>1, <1>2, <1>3
  <2> HIDE DEF J, J2
  <2>2. CASE Empties(e, field)
    BY <2>1, <2>2
  <2>3. CASE ~Empties(e, field)
    BY <2>1, <2>3
  <2> QED BY <2>2, <2>3
<1>6. I \in SUBSET (1 .. n) /\ J \in SUBSET (1 .. n)
  BY <1>1
<1>7. /\ Decisive(events, field) = LastOf(I) /\ LastEmptied(events, field) = LastOf(J)
      /\ Decisive(longer, field) = LastOf(I2) /\ LastEmptied(longer, field) = LastOf(J2)
  BY DEF Decisive, LastEmptied
<1> HIDE DEF I, J, I2, J2
<1>8. /\ LastOf(I) \in 0 .. n /\ LastOf(I \cup {n + 1}) = n + 1
      /\ LastOf(J) \in 0 .. n /\ LastOf(J \cup {n + 1}) = n + 1
  BY <1>1, <1>6, LastOfPositions
<1>9. /\ LastOf(I2) = IF Decides(e, field) THEN n + 1 ELSE LastOf(I)
      /\ LastOf(J2) = IF Empties(e, field) THEN n + 1 ELSE LastOf(J)
  BY <1>4, <1>5, <1>8
<1> QED BY <1>1, <1>7, <1>8, <1>9 DEF longer, n

LEMMA Typing ==
    /\ \A s \in Seq(HeaderNames) : <<>> \o s = s /\ s \o <<>> = s
    /\ <<>> \in Seq(HeaderNames)
<1> QED BY ConcatEmptySeq

\* What one event more does to the value of a field.
LEMMA ValueAfter ==
    ASSUME NEW S, NEW events \in Seq(S), NEW e \in S, NEW field, NEW zero,
           e.op \in {"write", "clear", "extend"}
    PROVE  ValueOf(Append(events, e), field, zero) =
             IF Empties(e, field) THEN zero
             ELSE IF e.op = "write" /\ e.field = field THEN e.value
             ELSE ValueOf(events, field, zero)
<1> DEFINE longer == Append(events, e)
           n == Len(events)
           d == Decisive(events, field)
<1>1. /\ n \in Nat /\ d \in 0 .. n /\ longer[n + 1] = e /\ \A i \in 1 .. n : longer[i] = events[i]
      /\ Decisive(longer, field) = IF Decides(e, field) THEN n + 1 ELSE d
  BY LastAfter
<1> HIDE DEF longer, n, d
<1>2. CASE Empties(e, field)
  <2>1. e.op = "clear"
    BY <1>2 DEF Empties
  <2>2. Decisive(longer, field) = n + 1
    BY <1>1, <1>2 DEF Decides
  <2> QED BY <1>1, <1>2, <2>1, <2>2 DEF ValueOf, longer
<1>3. CASE ~Empties(e, field) /\ e.op = "write" /\ e.field = field
  <2>1. Decisive(longer, field) = n + 1
    BY <1>1, <1>3 DEF Decides
  <2>2. n + 1 # 0 /\ longer[n + 1].op # "clear" /\ longer[n + 1].value = e.value
    BY <1>1, <1>3
  <2> QED BY <1>3, <2>1, <2>2 DEF ValueOf, longer
<1>4. CASE ~Decides(e, field)
  <2>1. Decisive(longer, field) = d
    BY <1>1, <1>4
  <2>2. d # 0 => longer[d] = events[d]
    BY <1>1
  <2>3. ValueOf(longer, field, zero) = ValueOf(events, field, zero)
    BY <2>1, <2>2 DEF ValueOf, d
  <2> QED BY <1>4, <2>3 DEF Decides, longer
<1> QED BY <1>2, <1>3, <1>4 DEF Decides

\* What it does to the presence of an object, and to a flag.
LEMMA PresenceAfter ==
    ASSUME NEW S, NEW events \in Seq(S), NEW e \in S, NEW field
    PROVE  Present(Append(events, e), field) =
             (/\ ~Empties(e, field)
              /\ \/ e.field \in Inside(field)
                 \/ e.field = field /\ e.op = "write"
                 \/ Present(events, field))
<1> DEFINE longer == Append(events, e)
           n == Len(events)
           d == LastEmptied(events, field)
           Says(x) == x.field \in Inside(field) \/ (x.field = field /\ x.op = "write")
<1>1. /\ n \in Nat /\ d \in 0 .. n /\ longer[n + 1] = e /\ \A i \in 1 .. n : longer[i] = events[i]
      /\ Len(longer) = n + 1
      /\ LastEmptied(longer, field) = IF Empties(e, field) THEN n + 1 ELSE d
  BY LastAfter
<1>2. /\ Present(longer, field) = \E i \in LastEmptied(longer, field) + 1 .. Len(longer) : Says(longer[i])
      /\ Present(events, field) = \E i \in d + 1 .. n : Says(events[i])
  BY DEF Present
<1>3. Says(e) = (e.field \in Inside(field) \/ (e.field = field /\ e.op = "write"))
  OBVIOUS
<1> HIDE DEF longer, n, d, Says
<1>4. CASE Empties(e, field)
  <2>1. LastEmptied(longer, field) + 1 .. Len(longer) = {}
    BY <1>1, <1>4
  <2> QED BY <1>2, <1>4, <2>1 DEF longer
<1>5. CASE ~Empties(e, field)
  <2>1. Present(longer, field) = \E i \in d + 1 .. n + 1 : Says(longer[i])
    BY <1>1, <1>2, <1>5
  <2>2. \A i : i \in d + 1 .. n + 1 <=> i \in d + 1 .. n \/ i = n + 1
    BY <1>1
  <2>3. \A i \in d + 1 .. n : longer[i] = events[i]
    BY <1>1
  <2>4. (\E i \in d + 1 .. n + 1 : Says(longer[i])) <=> Says(e) \/ \E i \in d + 1 .. n : Says(events[i])
    BY <1>1, <2>2, <2>3
  <2> QED BY <1>2, <1>3, <1>5, <2>1, <2>4 DEF longer
<1> QED BY <1>4, <1>5

LEMMA FlagAfter ==
    ASSUME NEW S, NEW events \in Seq(S), NEW e \in S, NEW field
    PROVE  FlagMerged(Append(events, e), field) =
             (/\ ~Empties(e, field)
              /\ (e.field = field /\ e.value = "true") \/ FlagMerged(events, field))
<1> DEFINE longer == Append(events, e)
           n == Len(events)
           d == LastEmptied(events, field)
           Says(x) == x.field = field /\ x.value = "true"
<1>1. /\ n \in Nat /\ d \in 0 .. n /\ longer[n + 1] = e /\ \A i \in 1 .. n : longer[i] = events[i]
      /\ Len(longer) = n + 1
      /\ LastEmptied(longer, field) = IF Empties(e, field) THEN n + 1 ELSE d
  BY LastAfter
<1>2. /\ FlagMerged(longer, field) = \E i \in LastEmptied(longer, field) + 1 .. Len(longer) : Says(longer[i])
      /\ FlagMerged(events, field) = \E i \in d + 1 .. n : Says(events[i])
  BY DEF FlagMerged
<1>3. Says(e) = (e.field = field /\ e.value = "true")
  OBVIOUS
<1> HIDE DEF longer, n, d, Says
<1>4. CASE Empties(e, field)
  <2>1. LastEmptied(longer, field) + 1 .. Len(longer) = {}
    BY <1>1, <1>4
  <2> QED BY <1>2, <1>4, <2>1 DEF longer
<1>5. CASE ~Empties(e, field)
  <2>1. FlagMerged(longer, field) = \E i \in d + 1 .. n + 1 : Says(longer[i])
    BY <1>1, <1>2, <1>5
  <2>2. \A i : i \in d + 1 .. n + 1 <=> i \in d + 1 .. n \/ i = n + 1
    BY <1>1
  <2>3. \A i \in d + 1 .. n : longer[i] = events[i]
    BY <1>1
  <2>4. (\E i \in d + 1 .. n + 1 : Says(longer[i])) <=> Says(e) \/ \E i \in d + 1 .. n : Says(events[i])
    BY <1>1, <2>2, <2>3
  <2> QED BY <1>2, <1>3, <1>5, <2>1, <2>4 DEF longer
<1> QED BY <1>4, <1>5

\* Unless the last word on the flag is an explicit false, the flag that is merged
\* is the last one written.
LEMMA FlagAgrees ==
    ASSUME NEW events \in Seq(Occurrences), ~FalseLast(events)
    PROVE  MergedMeaning(events) = Meaning(events)
<1> DEFINE field == "response.negotiate_accept"
           n == Len(events)
           I == {i \in DOMAIN events : Decides(events[i], field)}
           J == {i \in DOMAIN events : Empties(events[i], field)}
           d == Decisive(events, field)
           l == LastEmptied(events, field)
           Says(x) == x.field = field /\ x.value = "true"
<1>1. /\ n \in Nat /\ DOMAIN events = 1 .. n
      /\ \A i \in 1 .. n : events[i] \in Occurrences
  OBVIOUS
<1>2. /\ d = LastOf(I) /\ l = LastOf(J)
      /\ d \in 0 .. n /\ (d = 0 <=> I = {}) /\ (I # {} => d \in I) /\ \A i \in I : i <= d
      /\ l \in 0 .. n /\ (J # {} => l \in J) /\ (l = 0 <=> J = {}) /\ \A i \in J : i <= l
  <2>1. I \in SUBSET (1 .. n) /\ J \in SUBSET (1 .. n)
    BY <1>1
  <2>2. d = LastOf(I) /\ l = LastOf(J)
    BY DEF Decisive, LastEmptied
  <2> HIDE DEF I, J, d, l, n
  <2> QED BY <1>1, <2>1, <2>2, LastOfPositions
<1>3. \A i \in J : i \in I /\ events[i].op = "clear"
  BY DEF Decides, Empties
\* An event that sets the flag is a write of it.
<1>4. ASSUME NEW i \in 1 .. n, Says(events[i])
      PROVE  events[i].op = "write" \/ i \in J
  <2>1. events[i] \in Occurrences /\ events[i].field = field
    BY <1>1, <1>4
  <2>2. events[i].op # "extend"
    BY <2>1 DEF Occurrences
  <2>3. events[i].op \in {"write", "clear", "extend"}
    BY <2>1 DEF Occurrences
  <2>4. CASE events[i].op = "clear"
    BY <1>1, <2>1, <2>4 DEF Empties
  <2> QED BY <2>2, <2>3, <2>4
<1>5. ASSUME NEW i \in l + 1 .. n, Says(events[i])
      PROVE  i \in I /\ i \notin J /\ events[i].op = "write"
  <2>1. i \in 1 .. n /\ ~(i <= l)
    BY <1>1, <1>2
  <2>2. i \notin J
    BY <1>2, <2>1
  <2>3. events[i].op = "write"
    BY <1>4, <1>5, <2>1, <2>2
  <2>4. i \in I
    BY <1>1, <1>5, <2>1, <2>3 DEF Decides
  <2> QED BY <2>2, <2>3, <2>4
<1>6. ~(d # 0 /\ events[d].op = "write" /\ events[d].value # "true")
  BY DEF FalseLast
<1>7. /\ ValueOf(events, field, "omitted") =
            IF d = 0 \/ events[d].op = "clear" THEN "omitted" ELSE events[d].value
      /\ FlagMerged(events, field) = \E i \in l + 1 .. n : Says(events[i])
  BY DEF ValueOf, FlagMerged
<1>8. d # 0 => d \in I /\ (events[d].op = "clear" \/ (events[d].op = "write" /\ events[d].field = field))
  BY <1>2 DEF Decides, Empties
<1>9. (d # 0 /\ events[d].op = "clear") => d \in J
  BY <1>2 DEF Decides
<1> HIDE DEF I, J, d, l, n, Says
<1>10. FlagMerged(events, field) = (ValueOf(events, field, "omitted") = "true")
  <2>1. CASE d = 0
    <3>1. ~ \E i \in l + 1 .. n : Says(events[i])
      BY <1>2, <1>5, <2>1
    <3> QED BY <1>7, <2>1, <3>1
  <2>2. CASE d # 0 /\ events[d].op = "clear"
    <3>1. d <= l
      BY <1>2, <1>9, <2>2
    <3>2. ~ \E i \in l + 1 .. n : Says(events[i])
      <4> SUFFICES ASSUME NEW i \in l + 1 .. n, Says(events[i]) PROVE FALSE
        OBVIOUS
      <4>1. i \in I
        BY <1>5
      <4> QED BY <1>1, <1>2, <3>1, <4>1
    <3> QED BY <1>7, <2>2, <3>2
  <2>3. CASE d # 0 /\ events[d].op # "clear"
    <3>1. events[d].op = "write" /\ events[d].field = field /\ events[d].value = "true"
      BY <1>6, <1>8, <2>3
    <3>2. l # d
      BY <1>2, <1>3, <2>3
    <3>3. l <= d
      BY <1>1, <1>2, <1>3
    <3>4. d \in l + 1 .. n
      BY <1>1, <1>2, <3>2, <3>3
    <3>5. Says(events[d])
      BY <3>1 DEF Says
    <3> QED BY <1>7, <2>3, <3>1, <3>4, <3>5
  <2> QED BY <2>1, <2>2, <2>3
<1> QED BY <1>10 DEF MergedMeaning, Meaning

LEMMA NothingFlattened == FlattenSeq(<<>>) = <<>>
<1>1. Len(<<>>) = 0
  OBVIOUS
<1> QED BY <1>1 DEF FlattenSeq

\* What it does to the list.
LEMMA ListAfter ==
    ASSUME NEW events \in Seq(Occurrences), NEW e \in Occurrences
    PROVE  /\ ListOf(events, "request_headers") \in Seq(HeaderNames)
           /\ ListOf(Append(events, e), "request_headers") =
                IF Empties(e, "request_headers") THEN <<>>
                ELSE IF e.op = "write" /\ e.field = "request_headers" THEN e.value
                ELSE IF Extends(e, "request_headers")
                THEN ListOf(events, "request_headers") \o e.value
                ELSE ListOf(events, "request_headers")
<1> DEFINE field == "request_headers"
           longer == Append(events, e)
           n == Len(events)
           d == Decisive(events, field)
           Piece(x) == IF Extends(x, field) THEN x.value ELSE <<>>
           pieces == [i \in 1 .. n - d |-> Piece(events[d + i])]
           more == [i \in 1 .. Len(longer) - Decisive(longer, field) |->
                        Piece(longer[Decisive(longer, field) + i])]
           value == ValueOf(events, field, <<>>)
<1>1. /\ n \in Nat /\ d \in 0 .. n /\ longer[n + 1] = e /\ \A i \in 1 .. n : longer[i] = events[i]
      /\ Len(longer) = n + 1 /\ DOMAIN events = 1 .. n
      /\ Decisive(longer, field) = IF Decides(e, field) THEN n + 1 ELSE d
  BY LastAfter
<1>2. /\ ListOf(events, field) = value \o FlattenSeq(pieces)
      /\ ListOf(longer, field) = ValueOf(longer, field, <<>>) \o FlattenSeq(more)
  BY DEF ListOf
<1>3. \A x \in Occurrences : Piece(x) \in Seq(HeaderNames)
  BY Typing DEF Occurrences, Extends
<1>4. \A i \in 1 .. n : events[i] \in Occurrences
  OBVIOUS
<1>5. pieces \in Seq(Seq(HeaderNames)) /\ Len(pieces) = n - d
  <2>1. n - d \in Nat /\ \A i \in 1 .. n - d : d + i \in 1 .. n
    BY <1>1
  <2>2. \A i \in 1 .. n - d : Piece(events[d + i]) \in Seq(HeaderNames)
    BY <1>3, <1>4, <2>1
  <2> HIDE DEF Piece, n, d
  <2> QED BY <2>1, <2>2
<1>6. value \in Seq(HeaderNames)
  <2>1. CASE d = 0 \/ events[d].op = "clear"
    BY <2>1, Typing DEF ValueOf
  <2>2. CASE d # 0 /\ events[d].op # "clear"
    <3> DEFINE I == {i \in DOMAIN events : Decides(events[i], field)}
    <3>1. I \in SUBSET (1 .. n) /\ d = LastOf(I)
      BY <1>1 DEF Decisive
    <3>2. d \in I
      <4> HIDE DEF I, d, n
      <4> QED BY <1>1, <2>2, <3>1, LastOfPositions
    <3>3. events[d] \in Occurrences /\ events[d].field = field
      BY <2>2, <3>2 DEF Decides, Empties
    <3>4. events[d].value \in Seq(HeaderNames)
      <4> HIDE DEF d
      <4> QED BY <2>2, <3>3 DEF Occurrences
    <3> QED BY <2>2, <3>4 DEF ValueOf
  <2> QED BY <2>1, <2>2
<1>7. ValueOf(longer, field, <<>>) =
        IF Empties(e, field) THEN <<>>
        ELSE IF e.op = "write" /\ e.field = field THEN e.value
        ELSE value
  <2>1. e.op \in {"write", "clear", "extend"}
    BY DEF Occurrences
  <2> QED BY <2>1, ValueAfter
<1> HIDE DEF longer, n, d, value
<1>8. FlattenSeq(pieces) \in Seq(HeaderNames)
  <2> HIDE DEF pieces
  <2> QED BY <1>5, Typing, Flattened
<1>9. ListOf(events, field) \in Seq(HeaderNames)
  BY <1>2, <1>6, <1>8, ConcatProperties
<1>10. CASE Decides(e, field)
  <2>1. Len(longer) - Decisive(longer, field) = 0
    BY <1>1, <1>10
  <2>2. more = <<>>
    <3>1. 1 .. Len(longer) - Decisive(longer, field) = {}
      BY <2>1
    <3> QED BY <3>1
  <2>3. FlattenSeq(more) = <<>>
    <3> HIDE DEF more
    <3> QED BY <2>2, NothingFlattened
  <2>4. ValueOf(longer, field, <<>>) \in Seq(HeaderNames)
    BY <1>7, <1>10, Typing DEF Decides, Occurrences, Empties
  <2>5. ListOf(longer, field) = ValueOf(longer, field, <<>>)
    BY <1>2, <2>3, <2>4, Typing
  <2> QED BY <1>7, <1>9, <1>10, <2>5 DEF Decides, longer
<1>11. CASE ~Decides(e, field)
  <2>1. Decisive(longer, field) = d /\ Len(longer) - d = (n - d) + 1
    BY <1>1, <1>11
  <2>2. more = [i \in 1 .. (n - d) + 1 |-> Piece(longer[d + i])]
    BY <2>1
  <2>3. more = Append(pieces, Piece(e))
    <3>1. n - d \in Nat /\ d + ((n - d) + 1) = n + 1
      BY <1>1
    <3>2. \A i \in 1 .. n - d : d + i \in 1 .. n /\ pieces[i] = Piece(events[d + i]) /\ longer[d + i] = events[d + i]
      BY <1>1
    <3>3. Len(pieces) = n - d
      BY <1>5
    <3> HIDE DEF Piece, pieces, more
    <3>4. \A i \in 1 .. n - d : more[i] = pieces[i]
      BY <2>2, <3>1, <3>2
    <3>5. more[(n - d) + 1] = Piece(e)
      BY <1>1, <2>2, <3>1
    <3>6. more \in Seq(Seq(HeaderNames)) /\ Len(more) = (n - d) + 1
      <4>1. \A i \in 1 .. (n - d) + 1 : Piece(longer[d + i]) \in Seq(HeaderNames)
        <5>1. \A i \in 1 .. (n - d) + 1 : longer[d + i] \in Occurrences
          BY <1>1, <1>4
        <5> QED BY <1>3, <5>1
      <4>2. (n - d) + 1 \in Nat
        BY <3>1
      <4> DEFINE k == (n - d) + 1
                 Q == Seq(HeaderNames)
      <4> HIDE DEF k, Q
      <4>3. more = [i \in 1 .. k |-> Piece(longer[d + i])] /\ k \in Nat
            /\ \A i \in 1 .. k : Piece(longer[d + i]) \in Q
        BY <2>2, <4>1, <4>2 DEF k, Q
      <4>4. more \in Seq(Q) /\ Len(more) = k
        BY <4>3
      <4> QED BY <4>4 DEF k, Q
    <3>7. Piece(e) \in Seq(HeaderNames)
      BY <1>3
    <3>8. Append(pieces, Piece(e)) \in Seq(Seq(HeaderNames)) /\ Len(Append(pieces, Piece(e))) = (n - d) + 1
          /\ \A i \in 1 .. n - d : Append(pieces, Piece(e))[i] = pieces[i]
          /\ Append(pieces, Piece(e))[(n - d) + 1] = Piece(e)
      BY <1>5, <3>3, <3>7, AppendProperties
    <3>9. \A i \in 1 .. (n - d) + 1 : more[i] = Append(pieces, Piece(e))[i]
      BY <3>1, <3>4, <3>5, <3>8
    <3> QED BY <3>6, <3>8, <3>9, SeqEqual
  <2>4. FlattenSeq(more) = FlattenSeq(pieces) \o Piece(e)
    <3>1. Piece(e) \in Seq(HeaderNames)
      BY <1>3
    <3> HIDE DEF more, pieces, Piece
    <3> QED BY <1>5, <2>3, <3>1, Flattened
  <2>5. ListOf(longer, field) = value \o (FlattenSeq(pieces) \o Piece(e))
    BY <1>2, <1>7, <1>11, <2>4 DEF Decides
  <2>6. ListOf(longer, field) = ListOf(events, field) \o Piece(e)
    <3>1. Piece(e) \in Seq(HeaderNames)
      BY <1>3
    <3> HIDE DEF more, pieces, Piece
    <3>2. (value \o FlattenSeq(pieces)) \o Piece(e) = value \o (FlattenSeq(pieces) \o Piece(e))
      BY <1>6, <1>8, <3>1, ConcatAssociative
    <3> QED BY <1>2, <2>5, <3>2
  <2>7. CASE Extends(e, field)
    BY <1>9, <1>11, <2>6, <2>7 DEF longer, Decides
  <2>8. CASE ~Extends(e, field)
    BY <1>9, <1>11, <2>6, <2>8, Typing DEF longer, Decides
  <2> QED BY <2>7, <2>8
<1> QED BY <1>10, <1>11

\* What it does to the keys of the map.
LEMMA KeysAfter ==
    ASSUME NEW events \in Seq(Occurrences), NEW e \in Occurrences, NEW field
    PROVE  KeysOf(Append(events, e), field) =
             IF Empties(e, field) THEN {}
             ELSE IF e.op = "write" /\ e.field = field THEN DOMAIN e.value
             ELSE IF Extends(e, field) THEN KeysOf(events, field) \cup DOMAIN e.value
             ELSE KeysOf(events, field)
<1> DEFINE longer == Append(events, e)
           n == Len(events)
           d == Decisive(events, field)
           D == Decisive(longer, field)
           value == ValueOf(events, field, Map)
           Added(h, from, to) == UNION {DOMAIN h[i].value : i \in {j \in from .. to : Extends(h[j], field)}}
<1>1. /\ n \in Nat /\ d \in 0 .. n /\ longer[n + 1] = e /\ \A i \in 1 .. n : longer[i] = events[i]
      /\ Len(longer) = n + 1
      /\ D = IF Decides(e, field) THEN n + 1 ELSE d
  BY LastAfter
<1>2. /\ KeysOf(events, field) = DOMAIN value \cup Added(events, d + 1, n)
      /\ KeysOf(longer, field) = DOMAIN ValueOf(longer, field, Map) \cup Added(longer, D + 1, Len(longer))
  BY DEF KeysOf
<1>3. ValueOf(longer, field, Map) =
        IF Empties(e, field) THEN Map
        ELSE IF e.op = "write" /\ e.field = field THEN e.value
        ELSE value
  <2>1. e.op \in {"write", "clear", "extend"}
    BY DEF Occurrences
  <2> QED BY <2>1, ValueAfter
<1> HIDE DEF longer, n, d, D, value
<1>4. CASE Decides(e, field)
  <2>1. D + 1 .. Len(longer) = {}
    BY <1>1, <1>4
  <2>2. Added(longer, D + 1, Len(longer)) = {}
    BY <2>1
  <2>3. KeysOf(longer, field) = DOMAIN ValueOf(longer, field, Map)
    BY <1>2, <2>2
  <2> QED BY <1>3, <1>4, <2>3, EmptyMap DEF Decides, longer
<1>5. CASE ~Decides(e, field)
  <2>1. \A i : i \in d + 1 .. n + 1 <=> i \in d + 1 .. n \/ i = n + 1
    BY <1>1
  <2>2. \A i \in d + 1 .. n : longer[i] = events[i]
    BY <1>1
  <2>3. \A x : x \in Added(longer, d + 1, n + 1) <=>
                 x \in Added(events, d + 1, n) \/ (Extends(e, field) /\ x \in DOMAIN e.value)
    BY <1>1, <2>1, <2>2
  <2>4. DOMAIN ValueOf(longer, field, Map) = DOMAIN value
    BY <1>3, <1>5 DEF Decides
  <2>5. D = d
    BY <1>1, <1>5
  <2> HIDE DEF Added
  <2>6. \A x : x \in KeysOf(longer, field) <=>
                 x \in KeysOf(events, field) \/ (Extends(e, field) /\ x \in DOMAIN e.value)
    BY <1>1, <1>2, <2>3, <2>4, <2>5
  <2>7. CASE Extends(e, field)
    <3>1. KeysOf(longer, field) = KeysOf(events, field) \cup DOMAIN e.value
      BY <2>6, <2>7
    <3> QED BY <1>5, <2>7, <3>1 DEF longer, Decides
  <2>8. CASE ~Extends(e, field)
    <3>1. \A x : x \in KeysOf(longer, field) <=> x \in KeysOf(events, field)
      BY <2>6, <2>8
    <3>2. KeysOf(longer, field) = KeysOf(events, field)
      <4>1. /\ KeysOf(longer, field) = {x \in KeysOf(longer, field) : TRUE}
            /\ KeysOf(events, field) = {x \in KeysOf(events, field) : TRUE}
        BY <1>2
      <4> QED BY <3>1, <4>1
    <3> QED BY <1>5, <2>8, <3>2 DEF longer, Decides
  <2> QED BY <2>7, <2>8
<1> QED BY <1>4, <1>5

\* The effect of one event on a meaning.
Effect(m, e) ==
    LET Value(field, zero, old) ==
            IF Empties(e, field) THEN zero
            ELSE IF e.op = "write" /\ e.field = field THEN e.value ELSE old
        There(field, old) ==
            ~Empties(e, field)
                /\ (e.field \in Inside(field) \/ (e.field = field /\ e.op = "write") \/ old)
    IN  [timeout |-> Value("timeout", 0, m.timeout),
         request_headers |->
            IF Extends(e, "request_headers") THEN m.request_headers \o e.value
            ELSE Value("request_headers", <<>>, m.request_headers),
         parameters |->
            IF Empties(e, "parameters") THEN {}
            ELSE IF e.op = "write" /\ e.field = "parameters" THEN DOMAIN e.value
            ELSE IF Extends(e, "parameters") THEN m.parameters \cup DOMAIN e.value
            ELSE m.parameters,
         negotiate_accept |->
            /\ ~Empties(e, "response.negotiate_accept")
            /\ (e.field = "response.negotiate_accept" /\ e.value = "true") \/ m.negotiate_accept,
         security_context |-> There("security_context", m.security_context),
         mechanism |-> Value("security_context.mechanism", 0, m.mechanism),
         identity |-> There("security_context.downstream_identity", m.identity),
         header |-> Value("security_context.downstream_identity.header", 0, m.header)]

LEMMA EventMeans ==
    ASSUME NEW events \in Seq(Occurrences), NEW e \in Occurrences
    PROVE  MergedMeaning(Append(events, e)) = Effect(MergedMeaning(events), e)
<1> DEFINE longer == Append(events, e)
           m == MergedMeaning(events)
           Value(field, zero, old) ==
                IF Empties(e, field) THEN zero
                ELSE IF e.op = "write" /\ e.field = field THEN e.value ELSE old
           There(field, old) ==
                ~Empties(e, field)
                    /\ (e.field \in Inside(field) \/ (e.field = field /\ e.op = "write") \/ old)
<1>1. e.op \in {"write", "clear", "extend"}
  BY DEF Occurrences
<1>2. \A field, zero : ValueOf(longer, field, zero) = Value(field, zero, ValueOf(events, field, zero))
  BY <1>1, ValueAfter
<1>3. \A field : Present(longer, field) = There(field, Present(events, field))
  <2>1. ASSUME NEW field
        PROVE  Present(longer, field) =
                 (/\ ~Empties(e, field)
                  /\ \/ e.field \in Inside(field)
                     \/ e.field = field /\ e.op = "write"
                     \/ Present(events, field))
    BY PresenceAfter
  <2> HIDE DEF longer
  <2> QED BY <2>1, Zenon
<1>4. ListOf(longer, "request_headers") =
        IF Extends(e, "request_headers") THEN ListOf(events, "request_headers") \o e.value
        ELSE Value("request_headers", <<>>, ListOf(events, "request_headers"))
  BY ListAfter DEF Extends, Empties
<1>5. /\ FlagMerged(longer, "response.negotiate_accept") =
            (/\ ~Empties(e, "response.negotiate_accept")
             /\ (e.field = "response.negotiate_accept" /\ e.value = "true")
                \/ FlagMerged(events, "response.negotiate_accept"))
      /\ KeysOf(longer, "parameters") =
            IF Empties(e, "parameters") THEN {}
            ELSE IF e.op = "write" /\ e.field = "parameters" THEN DOMAIN e.value
            ELSE IF Extends(e, "parameters") THEN KeysOf(events, "parameters") \cup DOMAIN e.value
            ELSE KeysOf(events, "parameters")
  BY FlagAfter, KeysAfter
<1>6. /\ m.timeout = ValueOf(events, "timeout", 0)
      /\ m.request_headers = ListOf(events, "request_headers")
      /\ m.parameters = KeysOf(events, "parameters")
      /\ m.negotiate_accept = FlagMerged(events, "response.negotiate_accept")
      /\ m.security_context = Present(events, "security_context")
      /\ m.mechanism = ValueOf(events, "security_context.mechanism", 0)
      /\ m.identity = Present(events, "security_context.downstream_identity")
      /\ m.header = ValueOf(events, "security_context.downstream_identity.header", 0)
  BY DEF MergedMeaning, Meaning
<1>7. Effect(m, e) =
        [timeout |-> Value("timeout", 0, m.timeout),
         request_headers |->
            IF Extends(e, "request_headers") THEN m.request_headers \o e.value
            ELSE Value("request_headers", <<>>, m.request_headers),
         parameters |->
            IF Empties(e, "parameters") THEN {}
            ELSE IF e.op = "write" /\ e.field = "parameters" THEN DOMAIN e.value
            ELSE IF Extends(e, "parameters") THEN m.parameters \cup DOMAIN e.value
            ELSE m.parameters,
         negotiate_accept |->
            /\ ~Empties(e, "response.negotiate_accept")
            /\ (e.field = "response.negotiate_accept" /\ e.value = "true") \/ m.negotiate_accept,
         security_context |-> There("security_context", m.security_context),
         mechanism |-> Value("security_context.mechanism", 0, m.mechanism),
         identity |-> There("security_context.downstream_identity", m.identity),
         header |-> Value("security_context.downstream_identity.header", 0, m.header)]
  <2> HIDE DEF m
  <2> QED BY DEF Effect
<1> HIDE DEF Value, There, longer, m
<1>8. Effect(m, e) =
        [timeout |-> ValueOf(longer, "timeout", 0),
         request_headers |-> ListOf(longer, "request_headers"),
         parameters |-> KeysOf(longer, "parameters"),
         negotiate_accept |-> FlagMerged(longer, "response.negotiate_accept"),
         security_context |-> Present(longer, "security_context"),
         mechanism |-> ValueOf(longer, "security_context.mechanism", 0),
         identity |-> Present(longer, "security_context.downstream_identity"),
         header |-> ValueOf(longer, "security_context.downstream_identity.header", 0)]
  BY <1>2, <1>3, <1>4, <1>5, <1>6, <1>7
<1> QED BY <1>8 DEF MergedMeaning, Meaning, longer, m

----------------------------------------------------------------------------
(* Routes and their histories, statement by statement.                     *)

\* What is shown of a security context.
HeaderOf(security) ==
    IF security.downstream_identity = None THEN 0 ELSE security.downstream_identity.header

Shown(timeout, request_headers, parameters, negotiate_accept, present, mechanism, identity, header) ==
    [timeout |-> timeout, request_headers |-> request_headers, parameters |-> parameters,
     negotiate_accept |-> negotiate_accept, security_context |-> present,
     mechanism |-> mechanism, identity |-> identity, header |-> header]

LEMMA ObservedIs ==
    ASSUME NEW r
    PROVE  Observed(r) =
             Shown(r.timeout, r.request_headers, DOMAIN r.parameters, r.negotiate_accept,
                   r.security_context # None, ensureSecurityContext(r).mechanism,
                   ensureSecurityContext(r).downstream_identity # None,
                   HeaderOf(ensureSecurityContext(r)))
<1> QED BY DEF Observed, Shown, HeaderOf

\* The statements of clearRouteField are clear events.
LEMMA ClearMeans ==
    ASSUME NEW r \in EffectiveRoutes, NEW field \in shareableRouteFields
    PROVE  Observed(clearRouteField(r, field)) =
             Effect(Observed(r), [op |-> "clear", field |-> field, value |-> None])
<1> DEFINE e == [op |-> "clear", field |-> field, value |-> None]
           q == clearRouteField(r, field)
           security == ensureSecurityContext(r)
           cleared == ensureSecurityContext(q)
           m == Observed(r)
           timeout == IF Empties(e, "timeout") THEN 0 ELSE m.timeout
           headers == IF Empties(e, "request_headers") THEN <<>> ELSE m.request_headers
           keys == IF Empties(e, "parameters") THEN {} ELSE m.parameters
           flag == /\ ~Empties(e, "response.negotiate_accept")
                   /\ (field = "response.negotiate_accept" /\ None = "true") \/ m.negotiate_accept
           present == /\ ~Empties(e, "security_context")
                      /\ field \in Inside("security_context") \/ m.security_context
           mechanism == IF Empties(e, "security_context.mechanism") THEN 0 ELSE m.mechanism
           identity == /\ ~Empties(e, "security_context.downstream_identity")
                       /\ field \in Inside("security_context.downstream_identity") \/ m.identity
           header == IF Empties(e, "security_context.downstream_identity.header") THEN 0 ELSE m.header
<1>1. /\ security \in Securities
      /\ security = IF r.security_context = None THEN EmptySecurity ELSE r.security_context
      /\ \A s \in Securities : s # None
      /\ EmptySecurity.mechanism = 0 /\ EmptySecurity.downstream_identity = None
      /\ r.negotiate_accept \in BOOLEAN
      /\ \A s \in Identities : s # None
  BY EnsuredSecurity, ProfilesAssumption DEF EffectiveRoutes, EmptySecurity, Securities, ensureSecurityContext
<1>2. /\ m.timeout = r.timeout /\ m.request_headers = r.request_headers
      /\ m.parameters = DOMAIN r.parameters /\ m.negotiate_accept = r.negotiate_accept
      /\ m.security_context = (r.security_context # None)
      /\ m.mechanism = security.mechanism
      /\ m.identity = (security.downstream_identity # None) /\ m.header = HeaderOf(security)
  BY ObservedIs DEF Shown
<1>14. /\ m.security_context <=> r.security_context # None
       /\ m.identity <=> security.downstream_identity # None
  BY <1>2
<1>3. /\ e.op = "clear" /\ e.field = field /\ e.value = None
      /\ \A f : ~Extends(e, f) /\ (Empties(e, f) <=> field = f \/ f \in Inside(field))
  BY DEF Extends, Empties
<1> HIDE DEF e, m
<1>4. Effect(m, e) = Shown(timeout, headers, keys, flag, present, mechanism, identity, header)
  BY <1>3 DEF Effect, Shown
<1>5. Observed(q) =
        Shown(q.timeout, q.request_headers, DOMAIN q.parameters, q.negotiate_accept,
              q.security_context # None, cleared.mechanism, cleared.downstream_identity # None,
              HeaderOf(cleared))
  BY ObservedIs
<1> SUFFICES /\ q.timeout = timeout /\ q.request_headers = headers
             /\ DOMAIN q.parameters = keys /\ q.negotiate_accept = flag
             /\ (q.security_context # None) = present
             /\ cleared.mechanism = mechanism
             /\ (cleared.downstream_identity # None) = identity
             /\ HeaderOf(cleared) = header
  <2>1. Effect(Observed(r), [op |-> "clear", field |-> field, value |-> None]) = Effect(m, e)
    BY DEF e, m
  <2> HIDE DEF q, cleared, timeout, headers, keys, flag, present, mechanism, identity, header
  <2> QED BY <1>4, <1>5, <2>1 DEF q
<1>6. CASE field = "timeout"
  <2>1. /\ \A f : Empties(e, f) <=> f = field
        /\ field \notin Inside("security_context") /\ field \notin Inside("security_context.downstream_identity")
    BY <1>3, <1>6 DEF Inside
  <2>2. q = [r EXCEPT !.timeout = 0]
    BY <1>6 DEF clearRouteField
  <2> HIDE DEF q, security, cleared
  <2>3. /\ q.timeout = 0 /\ q.security_context = r.security_context
        /\ q.request_headers = r.request_headers /\ q.parameters = r.parameters /\ q.negotiate_accept = r.negotiate_accept
    <3> HIDE DEF Map
    <3> QED BY <2>2 DEF EffectiveRoutes
  <2>4. cleared = security
    BY <2>3 DEF cleared, security, ensureSecurityContext
  <2> QED BY <1>1, <1>2, <1>6, <2>1, <2>3, <2>4, EmptyMap
<1>7. CASE field = "request_headers"
  <2>1. /\ \A f : Empties(e, f) <=> f = field
        /\ field \notin Inside("security_context") /\ field \notin Inside("security_context.downstream_identity")
    BY <1>3, <1>7 DEF Inside
  <2>2. q = [r EXCEPT !.request_headers = <<>>]
    BY <1>7 DEF clearRouteField
  <2> HIDE DEF q, security, cleared
  <2>3. /\ q.request_headers = <<>> /\ q.security_context = r.security_context
        /\ q.timeout = r.timeout /\ q.parameters = r.parameters /\ q.negotiate_accept = r.negotiate_accept
    <3> HIDE DEF Map
    <3> QED BY <2>2 DEF EffectiveRoutes
  <2>4. cleared = security
    BY <2>3 DEF cleared, security, ensureSecurityContext
  <2> QED BY <1>1, <1>2, <1>7, <2>1, <2>3, <2>4, EmptyMap
<1>8. CASE field = "parameters"
  <2>1. /\ \A f : Empties(e, f) <=> f = field
        /\ field \notin Inside("security_context") /\ field \notin Inside("security_context.downstream_identity")
    BY <1>3, <1>8 DEF Inside
  <2>2. q = [r EXCEPT !.parameters = Map]
    BY <1>8 DEF clearRouteField
  <2> HIDE DEF q, security, cleared
  <2>3. /\ q.parameters = Map /\ q.security_context = r.security_context
        /\ q.timeout = r.timeout /\ q.request_headers = r.request_headers /\ q.negotiate_accept = r.negotiate_accept
    <3> HIDE DEF Map
    <3> QED BY <2>2 DEF EffectiveRoutes
  <2>4. cleared = security
    BY <2>3 DEF cleared, security, ensureSecurityContext
  <2> QED BY <1>1, <1>2, <1>8, <2>1, <2>3, <2>4, EmptyMap
<1>9. CASE field = "response.negotiate_accept"
  <2>1. /\ \A f : Empties(e, f) <=> f = field
        /\ field \notin Inside("security_context") /\ field \notin Inside("security_context.downstream_identity")
    BY <1>3, <1>9 DEF Inside
  <2>2. q = [r EXCEPT !.negotiate_accept = FALSE]
    BY <1>9 DEF clearRouteField
  <2> HIDE DEF q, security, cleared
  <2>3. /\ q.negotiate_accept = FALSE /\ q.security_context = r.security_context
        /\ q.timeout = r.timeout /\ q.request_headers = r.request_headers /\ q.parameters = r.parameters
    <3> HIDE DEF Map
    <3> QED BY <2>2 DEF EffectiveRoutes
  <2>4. cleared = security
    BY <2>3 DEF cleared, security, ensureSecurityContext
  <2> QED BY <1>1, <1>2, <1>9, <2>1, <2>3, <2>4, EmptyMap
<1>10. CASE field = "security_context"
  <2>1. /\ \A f : Empties(e, f) <=> f \in {"security_context", "security_context.mechanism", "security_context.downstream_identity",
                                   "security_context.downstream_identity.header"}
        /\ field \in Inside("security_context") <=> FALSE
        /\ field \in Inside("security_context.downstream_identity") <=> FALSE
    BY <1>3, <1>10 DEF Inside
  <2> DEFINE new == None
  <2>2. q = [r EXCEPT !.security_context = new]
    BY <1>10 DEF clearRouteField
  <2>3. new = None
    <3> HIDE DEF security
    <3> QED BY <1>1 DEF Securities, Identities, HeaderOf
  <2> HIDE DEF q, security, cleared, new
  <2>4. /\ q.timeout = r.timeout /\ q.request_headers = r.request_headers /\ q.parameters = r.parameters
        /\ q.negotiate_accept = r.negotiate_accept /\ q.security_context = new
    BY <2>2 DEF EffectiveRoutes
  <2>5. cleared = IF new = None THEN EmptySecurity ELSE new
    BY <2>4 DEF cleared, ensureSecurityContext
  <2>6. timeout = m.timeout /\ headers = m.request_headers /\ keys = m.parameters
    BY <1>1, <1>2, <1>10, <2>1
  <2>7. flag = r.negotiate_accept
    <3>1. ~Empties(e, "response.negotiate_accept") /\ field # "response.negotiate_accept"
      BY <1>10, <2>1
    <3>2. flag <=> m.negotiate_accept
      BY <3>1
    <3>3. r.negotiate_accept = TRUE \/ r.negotiate_accept = FALSE
      BY <1>1
    <3> HIDE DEF flag
    <3> QED BY <1>2, <3>2, <3>3 DEF flag
  <2>9. present = (new # None)
    <3>1. present <=> new # None
      BY <1>14, <1>10, <2>1, <2>3
    <3> QED BY <3>1
  <2>10. mechanism = cleared.mechanism
    BY <1>1, <1>2, <1>10, <2>1, <2>3, <2>5
  <2>11. identity = (cleared.downstream_identity # None)
    <3>1. identity <=> cleared.downstream_identity # None
      BY <1>1, <1>14, <1>10, <2>1, <2>3, <2>5
    <3> QED BY <3>1
  <2>8. header = HeaderOf(cleared)
    BY <1>1, <1>2, <1>10, <2>1, <2>3, <2>5 DEF HeaderOf
  <2> HIDE DEF timeout, headers, keys, flag, present, mechanism, identity, header
  <2> QED BY <1>2, <2>4, <2>6, <2>7, <2>8, <2>9, <2>10, <2>11
<1>11. CASE field = "security_context.mechanism"
  <2>1. /\ \A f : Empties(e, f) <=> f \in {"security_context.mechanism"}
        /\ field \in Inside("security_context") <=> TRUE
        /\ field \in Inside("security_context.downstream_identity") <=> FALSE
    BY <1>3, <1>11 DEF Inside
  <2> DEFINE new == [security EXCEPT !.mechanism = 0]
  <2>2. q = [r EXCEPT !.security_context = new]
    BY <1>11 DEF clearRouteField
  <2>3. /\ new # None /\ new.mechanism = 0 /\ new.downstream_identity = security.downstream_identity
        /\ HeaderOf(new) = HeaderOf(security)
    <3> HIDE DEF security
    <3> QED BY <1>1 DEF Securities, Identities, HeaderOf
  <2> HIDE DEF q, security, cleared, new
  <2>4. /\ q.timeout = r.timeout /\ q.request_headers = r.request_headers /\ q.parameters = r.parameters
        /\ q.negotiate_accept = r.negotiate_accept /\ q.security_context = new
    BY <2>2 DEF EffectiveRoutes
  <2>5. cleared = IF new = None THEN EmptySecurity ELSE new
    BY <2>4 DEF cleared, ensureSecurityContext
  <2>6. timeout = m.timeout /\ headers = m.request_headers /\ keys = m.parameters
    BY <1>1, <1>2, <1>11, <2>1
  <2>7. flag = r.negotiate_accept
    <3>1. ~Empties(e, "response.negotiate_accept") /\ field # "response.negotiate_accept"
      BY <1>11, <2>1
    <3>2. flag <=> m.negotiate_accept
      BY <3>1
    <3>3. r.negotiate_accept = TRUE \/ r.negotiate_accept = FALSE
      BY <1>1
    <3> HIDE DEF flag
    <3> QED BY <1>2, <3>2, <3>3 DEF flag
  <2>9. present = (new # None)
    <3>1. present <=> new # None
      BY <1>14, <1>11, <2>1, <2>3
    <3> QED BY <3>1
  <2>10. mechanism = cleared.mechanism
    BY <1>1, <1>2, <1>11, <2>1, <2>3, <2>5
  <2>11. identity = (cleared.downstream_identity # None)
    <3>1. identity <=> cleared.downstream_identity # None
      BY <1>1, <1>14, <1>11, <2>1, <2>3, <2>5
    <3> QED BY <3>1
  <2>8. header = HeaderOf(cleared)
    BY <1>1, <1>2, <1>11, <2>1, <2>3, <2>5 DEF HeaderOf
  <2> HIDE DEF timeout, headers, keys, flag, present, mechanism, identity, header
  <2> QED BY <1>2, <2>4, <2>6, <2>7, <2>8, <2>9, <2>10, <2>11
<1>12. CASE field = "security_context.downstream_identity"
  <2>1. /\ \A f : Empties(e, f) <=> f \in {"security_context.downstream_identity", "security_context.downstream_identity.header"}
        /\ field \in Inside("security_context") <=> TRUE
        /\ field \in Inside("security_context.downstream_identity") <=> FALSE
    BY <1>3, <1>12 DEF Inside
  <2> DEFINE new == [security EXCEPT !.downstream_identity = None]
  <2>2. q = [r EXCEPT !.security_context = new]
    BY <1>12 DEF clearRouteField
  <2>3. /\ new # None /\ new.mechanism = security.mechanism /\ new.downstream_identity = None
        /\ HeaderOf(new) = 0
    <3> HIDE DEF security
    <3> QED BY <1>1 DEF Securities, Identities, HeaderOf
  <2> HIDE DEF q, security, cleared, new
  <2>4. /\ q.timeout = r.timeout /\ q.request_headers = r.request_headers /\ q.parameters = r.parameters
        /\ q.negotiate_accept = r.negotiate_accept /\ q.security_context = new
    BY <2>2 DEF EffectiveRoutes
  <2>5. cleared = IF new = None THEN EmptySecurity ELSE new
    BY <2>4 DEF cleared, ensureSecurityContext
  <2>6. timeout = m.timeout /\ headers = m.request_headers /\ keys = m.parameters
    BY <1>1, <1>2, <1>12, <2>1
  <2>7. flag = r.negotiate_accept
    <3>1. ~Empties(e, "response.negotiate_accept") /\ field # "response.negotiate_accept"
      BY <1>12, <2>1
    <3>2. flag <=> m.negotiate_accept
      BY <3>1
    <3>3. r.negotiate_accept = TRUE \/ r.negotiate_accept = FALSE
      BY <1>1
    <3> HIDE DEF flag
    <3> QED BY <1>2, <3>2, <3>3 DEF flag
  <2>9. present = (new # None)
    <3>1. present <=> new # None
      BY <1>14, <1>12, <2>1, <2>3
    <3> QED BY <3>1
  <2>10. mechanism = cleared.mechanism
    BY <1>1, <1>2, <1>12, <2>1, <2>3, <2>5
  <2>11. identity = (cleared.downstream_identity # None)
    <3>1. identity <=> cleared.downstream_identity # None
      BY <1>1, <1>14, <1>12, <2>1, <2>3, <2>5
    <3> QED BY <3>1
  <2>8. header = HeaderOf(cleared)
    BY <1>1, <1>2, <1>12, <2>1, <2>3, <2>5 DEF HeaderOf
  <2> HIDE DEF timeout, headers, keys, flag, present, mechanism, identity, header
  <2> QED BY <1>2, <2>4, <2>6, <2>7, <2>8, <2>9, <2>10, <2>11
<1>13. CASE field = "security_context.downstream_identity.header"
  <2>1. /\ \A f : Empties(e, f) <=> f \in {"security_context.downstream_identity.header"}
        /\ field \in Inside("security_context") <=> TRUE
        /\ field \in Inside("security_context.downstream_identity") <=> TRUE
    BY <1>3, <1>13 DEF Inside
  <2> DEFINE new == [security EXCEPT !.downstream_identity = [header |-> 0]]
  <2>2. q = [r EXCEPT !.security_context = new]
    BY <1>13 DEF clearRouteField
  <2>3. /\ new # None /\ new.mechanism = security.mechanism /\ new.downstream_identity # None
        /\ HeaderOf(new) = 0
    <3> HIDE DEF security
    <3> QED BY <1>1 DEF Securities, Identities, HeaderOf
  <2> HIDE DEF q, security, cleared, new
  <2>4. /\ q.timeout = r.timeout /\ q.request_headers = r.request_headers /\ q.parameters = r.parameters
        /\ q.negotiate_accept = r.negotiate_accept /\ q.security_context = new
    BY <2>2 DEF EffectiveRoutes
  <2>5. cleared = IF new = None THEN EmptySecurity ELSE new
    BY <2>4 DEF cleared, ensureSecurityContext
  <2>6. timeout = m.timeout /\ headers = m.request_headers /\ keys = m.parameters
    BY <1>1, <1>2, <1>13, <2>1
  <2>7. flag = r.negotiate_accept
    <3>1. ~Empties(e, "response.negotiate_accept") /\ field # "response.negotiate_accept"
      BY <1>13, <2>1
    <3>2. flag <=> m.negotiate_accept
      BY <3>1
    <3>3. r.negotiate_accept = TRUE \/ r.negotiate_accept = FALSE
      BY <1>1
    <3> HIDE DEF flag
    <3> QED BY <1>2, <3>2, <3>3 DEF flag
  <2>9. present = (new # None)
    <3>1. present <=> new # None
      BY <1>14, <1>13, <2>1, <2>3
    <3> QED BY <3>1
  <2>10. mechanism = cleared.mechanism
    BY <1>1, <1>2, <1>13, <2>1, <2>3, <2>5
  <2>11. identity = (cleared.downstream_identity # None)
    <3>1. identity <=> cleared.downstream_identity # None
      BY <1>1, <1>14, <1>13, <2>1, <2>3, <2>5
    <3> QED BY <3>1
  <2>8. header = HeaderOf(cleared)
    BY <1>1, <1>2, <1>13, <2>1, <2>3, <2>5 DEF HeaderOf
  <2> HIDE DEF timeout, headers, keys, flag, present, mechanism, identity, header
  <2> QED BY <1>2, <2>4, <2>6, <2>7, <2>8, <2>9, <2>10, <2>11
<1> QED BY <1>6, <1>7, <1>8, <1>9, <1>10, <1>11, <1>12, <1>13 DEF shareableRouteFields

LEMMA ConcatExtended ==
    ASSUME NEW S, NEW s \in Seq(S), NEW t \in Seq(S), NEW i \in 0 .. Len(t), i < Len(t)
    PROVE  /\ s \o SubSeq(t, 1, i) \in Seq(S) /\ t[i + 1] \in S
           /\ s \o SubSeq(t, 1, i + 1) = Append(s \o SubSeq(t, 1, i), t[i + 1])
<1> DEFINE a == SubSeq(t, 1, i)
           b == SubSeq(t, 1, i + 1)
<1>1. /\ a \in Seq(S) /\ b \in Seq(S) /\ i \in Nat /\ i + 1 \in 1 .. Len(t) /\ t[i + 1] \in S
      /\ Len(a) = i /\ Len(b) = i + 1
      /\ \A j \in 1 .. i : a[j] = t[j]
      /\ \A j \in 1 .. i + 1 : b[j] = t[j]
  OBVIOUS
<1> HIDE DEF a, b
<1>2. b = Append(a, t[i + 1])
  <2>1. /\ Append(a, t[i + 1]) \in Seq(S) /\ Len(Append(a, t[i + 1])) = i + 1
        /\ \A j \in 1 .. i : Append(a, t[i + 1])[j] = t[j]
        /\ Append(a, t[i + 1])[i + 1] = t[i + 1]
    BY <1>1, AppendProperties
  <2>2. \A j \in 1 .. i + 1 : Append(a, t[i + 1])[j] = b[j]
    BY <1>1, <2>1
  <2> QED BY <1>1, <2>1, <2>2, SeqEqual
<1>3. b = a \o <<t[i + 1]>>
  BY <1>1, <1>2, AppendIsConcat
<1>4. s \o b = (s \o a) \o <<t[i + 1]>>
  <2> DEFINE u == <<t[i + 1]>>
  <2>1. u \in Seq(S)
    BY <1>1
  <2> HIDE DEF u
  <2>2. (s \o a) \o u = s \o (a \o u)
    <3>1. a \in Seq(S)
      BY <1>1
    <3> QED BY <2>1, <3>1, ConcatAssociative
  <2> QED BY <1>3, <2>2 DEF u
<1>5. s \o a \in Seq(S)
  BY <1>1, ConcatProperties
<1>6. s \o b = Append(s \o a, t[i + 1])
  BY <1>1, <1>4, <1>5, AppendIsConcat
<1> QED BY <1>1, <1>5, <1>6 DEF a, b

Clearings(fields) == [i \in DOMAIN fields |-> Event("clear", fields[i], None)[1]]

\* The loop over a clear list is the list's events.
LEMMA ClearedMeans ==
    ASSUME NEW r \in EffectiveRoutes, NEW fields \in Seq(STRING), NEW events \in Seq(Occurrences),
           \A i \in DOMAIN fields : fields[i] \in shareableRouteFields,
           Observed(r) = MergedMeaning(events)
    PROVE  /\ Clearings(fields) \in Seq(Occurrences)
           /\ Observed(Cleared(r, fields)) = MergedMeaning(events \o Clearings(fields))
<1> DEFINE n == Len(fields)
           c == CHOOSE c : Clears(c, r, fields)
           clears == Clearings(fields)
           Clear(field) == [op |-> "clear", field |-> field, value |-> None]
<1>1. n \in Nat /\ DOMAIN fields = 1 .. n /\ \A i \in 1 .. n : fields[i] \in STRING /\ fields[i] \in shareableRouteFields
  OBVIOUS
<1>2. Clears(c, r, fields)
  BY <1>1, ClearsExists
<1>3. Cleared(r, fields) = c[n]
  <2>1. Cleared(r, fields) =
            LET cleared[i \in 0 .. Len(fields)] ==
                    IF i = 0 THEN r ELSE clearRouteField(cleared[i - 1], fields[i])
            IN  cleared[Len(fields)]
    BY DEF Cleared
  <2> QED BY <2>1 DEF Clears
<1> HIDE DEF c
<1>4. \A i \in 0 .. n : c[i] = IF i = 0 THEN r ELSE clearRouteField(c[i - 1], fields[i])
  BY <1>2 DEF Clears
<1>5. clears \in Seq(Occurrences) /\ Len(clears) = n /\ \A i \in 1 .. n : clears[i] = Clear(fields[i])
  <2>1. clears = [i \in 1 .. n |-> Clear(fields[i])]
    BY <1>1 DEF Clearings, Event
  <2>2. \A i \in 1 .. n : Clear(fields[i]) \in Occurrences
    BY <1>1 DEF Occurrences, Carried
  <2> HIDE DEF clears, Clear, n
  <2> QED BY <1>1, <2>1, <2>2
<1> HIDE DEF clears
<1> DEFINE T == {i \in 0 .. n : /\ c[i] \in EffectiveRoutes
                                /\ Observed(c[i]) = MergedMeaning(events \o SubSeq(clears, 1, i))}
<1>6. 0 \in T
  <2>1. SubSeq(clears, 1, 0) = <<>> /\ events \o <<>> = events
    BY <1>5, ConcatEmptySeq
  <2>2. c[0] = r /\ 0 \in 0 .. n
    BY <1>1, <1>4
  <2> QED BY <2>1, <2>2
<1>7. ASSUME NEW i \in 0 .. n, i < n, i \in T PROVE i + 1 \in T
  <2>1. i + 1 \in 1 .. n /\ i + 1 \in 0 .. n /\ (i + 1) - 1 = i /\ i + 1 # 0
    BY <1>1, <1>7
  <2>2. c[i + 1] = clearRouteField(c[i], fields[i + 1]) /\ clears[i + 1] = Clear(fields[i + 1])
    BY <1>4, <1>5, <2>1
  <2> DEFINE before == events \o SubSeq(clears, 1, i)
  <2>3. c[i] \in EffectiveRoutes /\ Observed(c[i]) = MergedMeaning(before)
    BY <1>7
  <2>4. before \in Seq(Occurrences) /\ clears[i + 1] \in Occurrences
        /\ events \o SubSeq(clears, 1, i + 1) = Append(before, clears[i + 1])
    <3>1. i \in 0 .. Len(clears) /\ i < Len(clears)
      BY <1>5, <1>7
    <3> QED BY <1>5, <3>1, ConcatExtended
  <2> HIDE DEF before
  <2>5. fields[i + 1] \in shareableRouteFields
    BY <1>1, <2>1
  <2>6. c[i + 1] \in EffectiveRoutes
    BY <2>2, <2>3, FieldCleared
  <2>7. Observed(c[i + 1]) = Effect(MergedMeaning(before), clears[i + 1])
    BY <2>2, <2>3, <2>5, ClearMeans
  <2>8. Observed(c[i + 1]) = MergedMeaning(events \o SubSeq(clears, 1, i + 1))
    BY <2>4, <2>7, EventMeans
  <2> QED BY <2>1, <2>6, <2>8
<1>8. 0 .. n \subseteq T
  <2> HIDE DEF T, n
  <2> QED BY <1>1, <1>6, <1>7, UpTo
<1>9. Observed(c[n]) = MergedMeaning(events \o SubSeq(clears, 1, n))
  <2>1. n \in 0 .. n
    BY <1>1
  <2> QED BY <1>8, <2>1
<1>10. SubSeq(clears, 1, n) = clears
  BY <1>5, SubSeqFull
<1> QED BY <1>3, <1>5, <1>9, <1>10 DEF clears

Writing(field, value) == [op |-> "write", field |-> field, value |-> value]

\* What a written field adds to a meaning.
After(m, field, zero, value) == IF value = zero THEN m ELSE Effect(m, Writing(field, value))

LEMMA WrittenMeans ==
    ASSUME NEW events \in Seq(Occurrences), NEW field, NEW zero, NEW value,
           value # zero => Writing(field, value) \in Occurrences
    PROVE  /\ Written(field, zero, value) \in Seq(Occurrences)
           /\ events \o Written(field, zero, value) \in Seq(Occurrences)
           /\ MergedMeaning(events \o Written(field, zero, value)) = After(MergedMeaning(events), field, zero, value)
<1> DEFINE w == Written(field, zero, value)
           e == Writing(field, value)
<1>1. CASE value = zero
  <2>1. w = <<>>
    BY <1>1 DEF Written
  <2>2. events \o <<>> = events /\ <<>> \in Seq(Occurrences)
    BY ConcatEmptySeq
  <2> QED BY <1>1, <2>1, <2>2 DEF After
<1>2. CASE value # zero
  <2>1. w = <<e>> /\ e \in Occurrences
    BY <1>2 DEF Written, Event, Writing
  <2> HIDE DEF w, e
  <2>2. <<e>> \in Seq(Occurrences) /\ events \o <<e>> = Append(events, e) /\ Append(events, e) \in Seq(Occurrences)
    BY <2>1, AppendIsConcat, AppendProperties
  <2>3. MergedMeaning(Append(events, e)) = Effect(MergedMeaning(events), e)
    BY <2>1, EventMeans
  <2> QED BY <1>2, <2>1, <2>2, <2>3 DEF After, w, e
<1> QED BY <1>1, <1>2

LEMMA ExtensionMeans ==
    ASSUME NEW events \in Seq(Occurrences), NEW field, NEW value,
           [op |-> "extend", field |-> field, value |-> value] \in Occurrences
    PROVE  /\ Event("extend", field, value) \in Seq(Occurrences)
           /\ events \o Event("extend", field, value) \in Seq(Occurrences)
           /\ MergedMeaning(events \o Event("extend", field, value)) =
                Effect(MergedMeaning(events), [op |-> "extend", field |-> field, value |-> value])
<1> DEFINE e == [op |-> "extend", field |-> field, value |-> value]
<1>1. Event("extend", field, value) = <<e>>
  BY DEF Event
<1> HIDE DEF e
<1>2. <<e>> \in Seq(Occurrences) /\ events \o <<e>> = Append(events, e) /\ Append(events, e) \in Seq(Occurrences)
  BY AppendIsConcat, AppendProperties DEF e
<1>3. MergedMeaning(Append(events, e)) = Effect(MergedMeaning(events), e)
  BY EventMeans DEF e
<1> QED BY <1>1, <1>2, <1>3 DEF e

\* The flags of a meaning are flags.
Flagged(m) ==
    m.negotiate_accept \in BOOLEAN /\ m.security_context \in BOOLEAN /\ m.identity \in BOOLEAN

\* The effect of each kind of event.
LEMMA Effects ==
    ASSUME NEW m, Flagged(m), NEW value
    PROVE  /\ Effect(m, Writing("timeout", value)) =
                Shown(value, m.request_headers, m.parameters,
                      m.negotiate_accept, m.security_context, m.mechanism, m.identity, m.header)
           /\ Effect(m, Writing("request_headers", value)) =
                Shown(m.timeout, value, m.parameters,
                      m.negotiate_accept, m.security_context, m.mechanism, m.identity, m.header)
           /\ Effect(m, Writing("parameters", value)) =
                Shown(m.timeout, m.request_headers, DOMAIN value,
                      m.negotiate_accept, m.security_context, m.mechanism, m.identity, m.header)
           /\ Effect(m, Writing("response.negotiate_accept", value)) =
                Shown(m.timeout, m.request_headers, m.parameters, value = "true" \/
                      m.negotiate_accept, m.security_context, m.mechanism, m.identity, m.header)
           /\ Effect(m, Writing("security_context", value)) =
                Shown(m.timeout, m.request_headers, m.parameters,
                      m.negotiate_accept, TRUE, m.mechanism, m.identity, m.header)
           /\ Effect(m, Writing("security_context.mechanism", value)) =
                Shown(m.timeout, m.request_headers, m.parameters,
                      m.negotiate_accept, TRUE, value, m.identity, m.header)
           /\ Effect(m, Writing("security_context.downstream_identity", value)) =
                Shown(m.timeout, m.request_headers, m.parameters,
                      m.negotiate_accept, TRUE, m.mechanism, TRUE, m.header)
           /\ Effect(m, Writing("security_context.downstream_identity.header", value)) =
                Shown(m.timeout, m.request_headers, m.parameters,
                      m.negotiate_accept, TRUE, m.mechanism, TRUE, value)
           /\ Effect(m, [op |-> "extend", field |-> "request_headers", value |-> value]) =
                Shown(m.timeout, m.request_headers \o value, m.parameters,
                      m.negotiate_accept, m.security_context, m.mechanism, m.identity, m.header)
           /\ Effect(m, [op |-> "extend", field |-> "parameters", value |-> value]) =
                Shown(m.timeout, m.request_headers, m.parameters \cup DOMAIN value,
                      m.negotiate_accept, m.security_context, m.mechanism, m.identity, m.header)
<1>1. ASSUME NEW field
      PROVE  LET Value(g, old) == IF field = g THEN value ELSE old
                 There(o, old) == field \in Inside(o) \/ field = o \/ old
             IN  Effect(m, Writing(field, value)) =
                    Shown(Value("timeout", m.timeout), Value("request_headers", m.request_headers),
                          IF field = "parameters" THEN DOMAIN value ELSE m.parameters,
                          (field = "response.negotiate_accept" /\ value = "true") \/ m.negotiate_accept,
                          There("security_context", m.security_context),
                          Value("security_context.mechanism", m.mechanism),
                          There("security_context.downstream_identity", m.identity),
                          Value("security_context.downstream_identity.header", m.header))
  <2> DEFINE e == Writing(field, value)
  <2>1. /\ e.op = "write" /\ e.field = field /\ e.value = value
        /\ \A x : ~Empties(e, x) /\ ~Extends(e, x)
    BY DEF Writing, Empties, Extends
  <2> HIDE DEF e
  <2> QED BY <2>1 DEF Effect, Shown, Flagged, e
<1>2. Effect(m, Writing("timeout", value)) =
        Shown(value, m.request_headers, m.parameters,
              m.negotiate_accept, m.security_context, m.mechanism, m.identity, m.header)
  BY <1>1 DEF Flagged, Inside
<1>3. Effect(m, Writing("request_headers", value)) =
        Shown(m.timeout, value, m.parameters,
              m.negotiate_accept, m.security_context, m.mechanism, m.identity, m.header)
  BY <1>1 DEF Flagged, Inside
<1>4. Effect(m, Writing("parameters", value)) =
        Shown(m.timeout, m.request_headers, DOMAIN value,
              m.negotiate_accept, m.security_context, m.mechanism, m.identity, m.header)
  BY <1>1 DEF Flagged, Inside
<1>5. Effect(m, Writing("response.negotiate_accept", value)) =
        Shown(m.timeout, m.request_headers, m.parameters, value = "true" \/
              m.negotiate_accept, m.security_context, m.mechanism, m.identity, m.header)
  BY <1>1 DEF Flagged, Inside
<1>6. Effect(m, Writing("security_context", value)) =
        Shown(m.timeout, m.request_headers, m.parameters,
              m.negotiate_accept, TRUE, m.mechanism, m.identity, m.header)
  BY <1>1 DEF Flagged, Inside
<1>7. Effect(m, Writing("security_context.mechanism", value)) =
        Shown(m.timeout, m.request_headers, m.parameters,
              m.negotiate_accept, TRUE, value, m.identity, m.header)
  BY <1>1 DEF Flagged, Inside
<1>8. Effect(m, Writing("security_context.downstream_identity", value)) =
        Shown(m.timeout, m.request_headers, m.parameters,
              m.negotiate_accept, TRUE, m.mechanism, TRUE, m.header)
  BY <1>1 DEF Flagged, Inside
<1>9. Effect(m, Writing("security_context.downstream_identity.header", value)) =
        Shown(m.timeout, m.request_headers, m.parameters,
              m.negotiate_accept, TRUE, m.mechanism, TRUE, value)
  BY <1>1 DEF Flagged, Inside
<1>10. /\ Effect(m, [op |-> "extend", field |-> "request_headers", value |-> value]) =
           Shown(m.timeout, m.request_headers \o value, m.parameters,
                 m.negotiate_accept, m.security_context, m.mechanism, m.identity, m.header)
      /\ Effect(m, [op |-> "extend", field |-> "parameters", value |-> value]) =
           Shown(m.timeout, m.request_headers, m.parameters \cup DOMAIN value,
                 m.negotiate_accept, m.security_context, m.mechanism, m.identity, m.header)
  BY DEF Effect, Shown, Empties, Extends, Flagged, Inside
<1> QED BY <1>2, <1>3, <1>4, <1>5, <1>6, <1>7, <1>8, <1>9, <1>10

LEMMA Associative == \A s, t, u \in Seq(Occurrences) : (s \o t) \o u = s \o (t \o u)
BY ConcatAssociative

\* A field written after the history so far.
LEMMA WrittenNext ==
    ASSUME NEW events \in Seq(Occurrences), NEW sofar \in Seq(Occurrences), NEW field, NEW zero, NEW value,
           value # zero => Writing(field, value) \in Occurrences
    PROVE  /\ sofar \o Written(field, zero, value) \in Seq(Occurrences)
           /\ MergedMeaning(events \o (sofar \o Written(field, zero, value))) =
                After(MergedMeaning(events \o sofar), field, zero, value)
<1> DEFINE w == Written(field, zero, value)
           before == events \o sofar
<1>1. before \in Seq(Occurrences)
  BY ConcatProperties
<1>2. w \in Seq(Occurrences) /\ MergedMeaning(before \o w) = After(MergedMeaning(before), field, zero, value)
  <2> HIDE DEF before
  <2>1. /\ Written(field, zero, value) \in Seq(Occurrences)
        /\ MergedMeaning(before \o Written(field, zero, value)) = After(MergedMeaning(before), field, zero, value)
    BY <1>1, WrittenMeans
  <2> QED BY <2>1
<1> HIDE DEF w
<1>3. (events \o sofar) \o w = events \o (sofar \o w)
  <2>1. w \in Seq(Occurrences)
    BY <1>2
  <2> QED BY <2>1, Associative
<1>4. sofar \o w \in Seq(Occurrences)
  BY <1>2, ConcatProperties
<1> QED BY <1>2, <1>3, <1>4 DEF w

LEMMA ExtendedNext ==
    ASSUME NEW events \in Seq(Occurrences), NEW sofar \in Seq(Occurrences), NEW field, NEW value,
           [op |-> "extend", field |-> field, value |-> value] \in Occurrences
    PROVE  /\ sofar \o Event("extend", field, value) \in Seq(Occurrences)
           /\ MergedMeaning(events \o (sofar \o Event("extend", field, value))) =
                Effect(MergedMeaning(events \o sofar), [op |-> "extend", field |-> field, value |-> value])
<1> DEFINE w == Event("extend", field, value)
           before == events \o sofar
<1>1. before \in Seq(Occurrences)
  BY ConcatProperties
<1>2. w \in Seq(Occurrences)
      /\ MergedMeaning(before \o w) = Effect(MergedMeaning(before), [op |-> "extend", field |-> field, value |-> value])
  <2> HIDE DEF before
  <2> QED BY <1>1, ExtensionMeans
<1> HIDE DEF w
<1>3. (events \o sofar) \o w = events \o (sofar \o w)
  <2>1. w \in Seq(Occurrences)
    BY <1>2
  <2> QED BY <2>1, Associative
<1>4. sofar \o w \in Seq(Occurrences)
  BY <1>2, ConcatProperties
<1> QED BY <1>2, <1>3, <1>4 DEF w

\* The identity and the header that an override writes, if any.
IdentityIn(security) == IF security = None THEN None ELSE security.downstream_identity

HeaderIn(identity) == IF identity = None THEN 0 ELSE identity.header

\* The four writes of a security context.
SecurityWritten(m, written) ==
    LET identity == IdentityIn(written)
        m1 == After(m, "security_context", None, written)
        m2 == After(m1, "security_context.mechanism", 0, IF written = None THEN 0 ELSE written.mechanism)
        m3 == After(m2, "security_context.downstream_identity", None, identity)
    IN  After(m3, "security_context.downstream_identity.header", 0, HeaderIn(identity))

\* What is shown of a security context that may be missing.
ShownWith(t, l, k, f, security) ==
    LET ensured == IF security = None THEN EmptySecurity ELSE security
    IN  Shown(t, l, k, f, security # None, ensured.mechanism,
              ensured.downstream_identity # None, HeaderOf(ensured))

\* They are mergeSecurityContext.
LEMMA SecurityMeans ==
    ASSUME NEW c, c.security_context \in Securities \cup {None}, NEW written \in Securities \cup {None},
           NEW t, NEW l, NEW k, NEW f, f \in BOOLEAN
    PROVE  SecurityWritten(ShownWith(t, l, k, f, c.security_context), written) =
             ShownWith(t, l, k, f, mergeSecurityContext(c, written))
<1> DEFINE s == ensureSecurityContext(c)
           q == mergeSecurityContext(c, written)
           ensured == IF q = None THEN EmptySecurity ELSE q
           identity == IdentityIn(written)
           p == c.security_context # None
           g == s.mechanism
           i == s.downstream_identity # None
           h == HeaderOf(s)
           m1 == After(Shown(t, l, k, f, p, g, i, h), "security_context", None, written)
           mechanism == IF written = None THEN 0 ELSE written.mechanism
           m2 == After(m1, "security_context.mechanism", 0, mechanism)
           m3 == After(m2, "security_context.downstream_identity", None, identity)
           m4 == After(m3, "security_context.downstream_identity.header", 0, HeaderIn(identity))
<1> SUFFICES m4 = Shown(t, l, k, f, q # None, ensured.mechanism,
                        ensured.downstream_identity # None, HeaderOf(ensured))
  <2>1. Shown(t, l, k, f, p, g, i, h) = ShownWith(t, l, k, f, c.security_context)
    BY DEF ShownWith, ensureSecurityContext
  <2>2. m4 = SecurityWritten(Shown(t, l, k, f, p, g, i, h), written)
    <3> HIDE DEF p, g, i, h
    <3> QED BY DEF SecurityWritten
  <2> QED BY <2>1, <2>2 DEF ShownWith
<1>1. s \in Securities /\ p \in BOOLEAN /\ i \in BOOLEAN
  BY EnsuredSecurity
<1>2. CASE written = None
  <2>1. mechanism = 0 /\ identity = None /\ HeaderIn(identity) = 0
    BY <1>2 DEF IdentityIn, HeaderIn
  <2>2. m4 = Shown(t, l, k, f, p, g, i, h)
    <3> HIDE DEF mechanism, identity, p, g, i, h
    <3> QED BY <1>2, <2>1 DEF After
  <2>3. q = c.security_context /\ ensured = s
    BY <1>2 DEF mergeSecurityContext, ensureSecurityContext
  <2> HIDE DEF q, ensured, s, m4
  <2> QED BY <2>2, <2>3
<1>3. CASE written # None
  <2>1. written \in Securities /\ mechanism = written.mechanism /\ identity = written.downstream_identity
    BY <1>3 DEF IdentityIn
  <2>2. q = [mechanism |-> Overridden(g, 0, mechanism),
             downstream_identity |-> mergeIdentity(s.downstream_identity, identity)]
    <3> HIDE DEF s, identity, mechanism
    <3> QED BY <1>3, <2>1 DEF mergeSecurityContext, s
  <2>3. g \in Nat /\ mechanism \in Nat /\ identity \in Identities \cup {None}
        /\ s.downstream_identity \in Identities \cup {None}
    <3> HIDE DEF s, identity, mechanism
    <3> QED BY <1>1, <2>1 DEF Securities
  <2> HIDE DEF s, identity, mechanism
  <2>4. mergeIdentity(s.downstream_identity, identity) \in Identities \cup {None}
    BY <2>3 DEF mergeIdentity, Overridden, Identities
  <2>5. q # None /\ ensured = q
    <3>1. Overridden(g, 0, mechanism) \in Nat
      BY <2>3 DEF Overridden
    <3> HIDE DEF g, q
    <3>2. q \in Securities
      BY <2>2, <2>4, <3>1 DEF Securities
    <3> QED BY <3>2, ProfilesAssumption
  <2>6. /\ q.mechanism = Overridden(g, 0, mechanism)
        /\ q.downstream_identity = mergeIdentity(s.downstream_identity, identity)
    <3> HIDE DEF q
    <3> QED BY <2>2
  <2> HIDE DEF q, ensured
  <2>7. m1 = Shown(t, l, k, f, TRUE, g, i, h)
    <3> HIDE DEF p, g, i, h
    <3> DEFINE m0 == Shown(t, l, k, f, p, g, i, h)
    <3>1. /\ m0.timeout = t /\ m0.request_headers = l /\ m0.parameters = k /\ m0.negotiate_accept = f
          /\ m0.security_context = p /\ m0.mechanism = g /\ m0.identity = i /\ m0.header = h
      BY DEF Shown
    <3>2. m1 = Effect(m0, Writing("security_context", written))
      BY <1>3 DEF After, m1
    <3> HIDE DEF m0
    <3>3. Flagged(m0)
      BY <1>1, <3>1 DEF Flagged
    <3>4. Effect(m0, Writing("security_context", written)) =
            Shown(m0.timeout, m0.request_headers, m0.parameters,
                  m0.negotiate_accept, TRUE, m0.mechanism, m0.identity, m0.header)
      BY <3>3, Effects
    <3> QED BY <3>1, <3>2, <3>4
  <2> HIDE DEF m1
  <2>8. m2 = Shown(t, l, k, f, TRUE, Overridden(g, 0, mechanism), i, h)
    <3> HIDE DEF p, g, i, h
    <3>1. Effect(m1, Writing("security_context.mechanism", mechanism)) =
            Shown(t, l, k, f, TRUE, mechanism, i, h)
      <4>1. /\ m1.timeout = t /\ m1.request_headers = l /\ m1.parameters = k /\ m1.negotiate_accept = f
            /\ m1.security_context = TRUE /\ m1.mechanism = g /\ m1.identity = i /\ m1.header = h
        BY <2>7 DEF Shown
      <4>2. Flagged(m1)
        BY <1>1, <4>1 DEF Flagged
      <4>3. Effect(m1, Writing("security_context.mechanism", mechanism)) =
              Shown(m1.timeout, m1.request_headers, m1.parameters,
                    m1.negotiate_accept, TRUE, mechanism, m1.identity, m1.header)
        BY <4>2, Effects
      <4> QED BY <4>1, <4>3
    <3> QED BY <2>7, <3>1 DEF After, Overridden
  <2> HIDE DEF m2
  <2>9. CASE identity = None
    <3>1. HeaderIn(identity) = 0
      BY <2>9 DEF HeaderIn
    <3>2. m4 = m2
      BY <2>9, <3>1 DEF After
    <3>3. q.downstream_identity = s.downstream_identity
      BY <2>6, <2>9 DEF mergeIdentity
    <3>4. HeaderOf(q) = h
      BY <3>3 DEF HeaderOf
    <3>5. (q.downstream_identity # None) = i
      BY <3>3
    <3>6. (q # None) = TRUE
      BY <2>5
    <3> HIDE DEF i, m4
    <3> QED BY <2>5, <2>6, <2>8, <3>2, <3>4, <3>5, <3>6
  <2>10. CASE identity # None
    <3> DEFINE header == Overridden(h, 0, identity.header)
    <3>1. q.downstream_identity = [header |-> header]
      <4>1. h = IF s.downstream_identity = None THEN 0 ELSE s.downstream_identity.header
        BY DEF HeaderOf
      <4> HIDE DEF h
      <4> QED BY <2>6, <2>10, <4>1 DEF mergeIdentity
    <3>2. h \in Nat /\ identity.header \in Nat
      BY <2>3, <2>10 DEF Identities, HeaderOf
    <3>3. header \in Nat
      <4> HIDE DEF h
      <4> QED BY <3>2 DEF Overridden
    <3> HIDE DEF header
    <3>4. q.downstream_identity # None /\ HeaderOf(q) = header
      <4>1. q.downstream_identity \in Identities
        BY <3>1, <3>3 DEF Identities
      <4>2. q.downstream_identity # None
        BY <4>1, ProfilesAssumption
      <4> QED BY <3>1, <4>2 DEF HeaderOf
    <3>5. m3 = Shown(t, l, k, f, TRUE, Overridden(g, 0, mechanism), TRUE, h)
      <4> HIDE DEF p, g, i, h
      <4>1. /\ m2.timeout = t /\ m2.request_headers = l /\ m2.parameters = k /\ m2.negotiate_accept = f
            /\ m2.security_context = TRUE /\ m2.mechanism = Overridden(g, 0, mechanism)
            /\ m2.identity = i /\ m2.header = h
        BY <2>8 DEF Shown
      <4>2. m3 = Effect(m2, Writing("security_context.downstream_identity", identity))
        BY <2>10 DEF After, m3
      <4>3. Flagged(m2)
        BY <1>1, <4>1 DEF Flagged
      <4>4. Effect(m2, Writing("security_context.downstream_identity", identity)) =
              Shown(m2.timeout, m2.request_headers, m2.parameters,
                    m2.negotiate_accept, TRUE, m2.mechanism, TRUE, m2.header)
        BY <4>3, Effects
      <4> QED BY <4>1, <4>2, <4>4
    <3> HIDE DEF m3
    <3>6. m4 = Shown(t, l, k, f, TRUE, Overridden(g, 0, mechanism), TRUE, header)
      <4>1. HeaderIn(identity) = identity.header
        BY <2>10 DEF HeaderIn
      <4> HIDE DEF p, g, i, h
      <4>2. Effect(m3, Writing("security_context.downstream_identity.header", identity.header)) =
              Shown(t, l, k, f, TRUE, Overridden(g, 0, mechanism), TRUE, identity.header)
        <5>1. /\ m3.timeout = t /\ m3.request_headers = l /\ m3.parameters = k /\ m3.negotiate_accept = f
              /\ m3.security_context = TRUE /\ m3.mechanism = Overridden(g, 0, mechanism)
              /\ m3.identity = TRUE /\ m3.header = h
          BY <3>5 DEF Shown
        <5>2. Flagged(m3)
          BY <5>1 DEF Flagged
        <5> DEFINE named == identity.header
        <5> HIDE DEF named
        <5>3. Effect(m3, Writing("security_context.downstream_identity.header", named)) =
                Shown(m3.timeout, m3.request_headers, m3.parameters,
                      m3.negotiate_accept, TRUE, m3.mechanism, TRUE, named)
          BY <5>2, Effects
        <5> QED BY <5>1, <5>3 DEF named
      <4> QED BY <3>5, <4>1, <4>2 DEF After, Overridden, header
    <3>7. (q # None) = TRUE /\ (q.downstream_identity # None) = TRUE
      BY <2>5, <3>4
    <3> HIDE DEF m4
    <3> QED BY <2>5, <2>6, <3>4, <3>6, <3>7
  <2> QED BY <2>9, <2>10
<1> QED BY <1>2, <1>3

LEMMA Occurs ==
    ASSUME NEW op \in {"write", "clear", "extend"}, NEW field \in shareableRouteFields, NEW value \in Carried,
           field = "request_headers" => value \in Seq(HeaderNames),
           field = "parameters" => value \in Maps,
           op = "extend" => field \in {"request_headers", "parameters"}
    PROVE  [op |-> op, field |-> field, value |-> value] \in Occurrences
<1> DEFINE e == [op |-> op, field |-> field, value |-> value]
<1>1. e \in [op : {"write", "clear", "extend"}, field : shareableRouteFields, value : Carried]
  OBVIOUS
<1>2. e.op = op /\ e.field = field /\ e.value = value
  OBVIOUS
<1> HIDE DEF e
<1>3. e \in Occurrences
  BY <1>1, <1>2 DEF Occurrences
<1> QED BY <1>3 DEF e

\* What an override writes may be written.
LEMMA WritingsTyped ==
    ASSUME NEW o \in Overrides
    PROVE  LET security == o.security_context
               identity == IdentityIn(security)
               mechanism == IF security = None THEN 0 ELSE security.mechanism
           IN  /\ Writing("timeout", o.timeout) \in Occurrences
               /\ o.request_headers # None => Writing("request_headers", o.request_headers) \in Occurrences
               /\ o.parameters # None => Writing("parameters", o.parameters) \in Occurrences
               /\ Writing("response.negotiate_accept", o.negotiate_accept) \in Occurrences
               /\ security # None => Writing("security_context", security) \in Occurrences
               /\ Writing("security_context.mechanism", mechanism) \in Occurrences
               /\ identity # None =>
                    Writing("security_context.downstream_identity", identity) \in Occurrences
               /\ Writing("security_context.downstream_identity.header", HeaderIn(identity)) \in Occurrences
               /\ [op |-> "extend", field |-> "request_headers", value |-> o.extend.request_headers]
                    \in Occurrences
               /\ [op |-> "extend", field |-> "parameters", value |-> o.extend.parameters] \in Occurrences
<1> DEFINE security == o.security_context
           identity == IdentityIn(security)
           mechanism == IF security = None THEN 0 ELSE security.mechanism
<1>1. /\ o.timeout \in Nat /\ o.request_headers \in Seq(HeaderNames) \cup {None}
      /\ o.parameters \in Maps \cup {None}
      /\ o.negotiate_accept \in {"true", "false", "omitted"}
      /\ security \in Securities \cup {None}
      /\ o.extend.request_headers \in Seq(HeaderNames) /\ o.extend.parameters \in Maps
  BY DEF Overrides
<1>2. identity \in Identities \cup {None} /\ mechanism \in Nat
  <2> HIDE DEF security
  <2> QED BY <1>1 DEF IdentityIn, Securities
<1>3. HeaderIn(identity) \in Nat
  <2> HIDE DEF identity
  <2> QED BY <1>2 DEF HeaderIn, Identities
<1> HIDE DEF security, identity, mechanism
<1>4. ASSUME NEW value \in Carried
      PROVE  /\ Writing("timeout", value) \in Occurrences
             /\ Writing("response.negotiate_accept", value) \in Occurrences
             /\ Writing("security_context", value) \in Occurrences
             /\ Writing("security_context.mechanism", value) \in Occurrences
             /\ Writing("security_context.downstream_identity", value) \in Occurrences
             /\ Writing("security_context.downstream_identity.header", value) \in Occurrences
  <2>1. Writing("timeout", value) \in Occurrences
    BY Occurs DEF Writing, shareableRouteFields
  <2>2. Writing("response.negotiate_accept", value) \in Occurrences
    BY Occurs DEF Writing, shareableRouteFields
  <2>3. Writing("security_context", value) \in Occurrences
    BY Occurs DEF Writing, shareableRouteFields
  <2>4. Writing("security_context.mechanism", value) \in Occurrences
    BY Occurs DEF Writing, shareableRouteFields
  <2>5. Writing("security_context.downstream_identity", value) \in Occurrences
    BY Occurs DEF Writing, shareableRouteFields
  <2>6. Writing("security_context.downstream_identity.header", value) \in Occurrences
    BY Occurs DEF Writing, shareableRouteFields
  <2> QED BY <2>1, <2>2, <2>3, <2>4, <2>5, <2>6
<1>5. /\ \A value \in Nat \cup Securities \cup Identities \cup {"true", "false", "omitted"} : value \in Carried
      /\ \A value \in Seq(HeaderNames) \cup Maps : value \in Carried
  BY DEF Carried
<1>6. /\ \A value \in Seq(HeaderNames) :
            /\ Writing("request_headers", value) \in Occurrences
            /\ [op |-> "extend", field |-> "request_headers", value |-> value] \in Occurrences
      /\ \A value \in Maps :
            /\ Writing("parameters", value) \in Occurrences
            /\ [op |-> "extend", field |-> "parameters", value |-> value] \in Occurrences
  <2>1. ASSUME NEW value \in Seq(HeaderNames)
        PROVE  /\ Writing("request_headers", value) \in Occurrences
               /\ [op |-> "extend", field |-> "request_headers", value |-> value] \in Occurrences
    <3>1. value \in Carried
      BY <1>5
    <3> QED BY <3>1, Occurs DEF Writing, shareableRouteFields
  <2>2. ASSUME NEW value \in Maps
        PROVE  /\ Writing("parameters", value) \in Occurrences
               /\ [op |-> "extend", field |-> "parameters", value |-> value] \in Occurrences
    <3>1. value \in Carried
      BY <1>5
    <3> QED BY <3>1, Occurs DEF Writing, shareableRouteFields
  <2> QED BY <2>1, <2>2
<1>7. /\ Writing("timeout", o.timeout) \in Occurrences
      /\ Writing("response.negotiate_accept", o.negotiate_accept) \in Occurrences
      /\ security # None => Writing("security_context", security) \in Occurrences
      /\ Writing("security_context.mechanism", mechanism) \in Occurrences
      /\ identity # None => Writing("security_context.downstream_identity", identity) \in Occurrences
      /\ Writing("security_context.downstream_identity.header", HeaderIn(identity)) \in Occurrences
  BY <1>1, <1>2, <1>3, <1>4, <1>5
<1>8. /\ o.request_headers # None => Writing("request_headers", o.request_headers) \in Occurrences
      /\ o.parameters # None => Writing("parameters", o.parameters) \in Occurrences
      /\ [op |-> "extend", field |-> "request_headers", value |-> o.extend.request_headers] \in Occurrences
      /\ [op |-> "extend", field |-> "parameters", value |-> o.extend.parameters] \in Occurrences
  BY <1>1, <1>6
<1> QED BY <1>7, <1>8 DEF security, identity, mechanism

\* A merge is the history of its override: the clear list, the statements of
\* mergeRoute for the fields that are written, and the extensions.
LEMMA MergeMeans ==
    ASSUME NEW r \in EffectiveRoutes, NEW o \in Overrides, NEW events \in Seq(Occurrences),
           Observed(r) = MergedMeaning(events), mergeRoute(r, o) # None
    PROVE  /\ History(o) \in Seq(Occurrences)
           /\ Observed(mergeRoute(r, o)) = MergedMeaning(events \o History(o))
<1> DEFINE c == Cleared(r, o.clear)
           merged == MergedFields(c, o)
           written == o.security_context
           identity == IdentityIn(written)
           mechanism == IF written = None THEN 0 ELSE written.mechanism
           q == mergeSecurityContext(c, written)
           ensured == IF q = None THEN EmptySecurity ELSE q
           x0 == Clearings(o.clear)
           x1 == x0 \o Written("timeout", 0, o.timeout)
           x2 == x1 \o Written("request_headers", None, o.request_headers)
           x3 == x2 \o Written("parameters", None, o.parameters)
           x4 == x3 \o Written("response.negotiate_accept", "omitted", o.negotiate_accept)
           x5 == x4 \o Written("security_context", None, written)
           x6 == x5 \o Written("security_context.mechanism", 0, mechanism)
           x7 == x6 \o Written("security_context.downstream_identity", None, identity)
           x8 == x7 \o Written("security_context.downstream_identity.header", 0, HeaderIn(identity))
           x9 == x8 \o Event("extend", "request_headers", o.extend.request_headers)
           x10 == x9 \o Event("extend", "parameters", o.extend.parameters)
<1>1. History(o) = x10
  BY DEF History, Clearings, IdentityIn, HeaderIn
<1>2. /\ mergeRoute(r, o) = extendRoute(merged, o.extend)
      /\ \A i \in DOMAIN o.clear : o.clear[i] \in shareableRouteFields
      /\ o.clear \in Seq(STRING)
  BY DEF mergeRoute, Overrides
<1>3. x0 \in Seq(Occurrences) /\ Observed(c) = MergedMeaning(events \o x0) /\ c \in EffectiveRoutes
  BY <1>2, ClearedMeans, ClearedIsRoute
<1>4. /\ Writing("timeout", o.timeout) \in Occurrences
      /\ o.request_headers # None => Writing("request_headers", o.request_headers) \in Occurrences
      /\ o.parameters # None => Writing("parameters", o.parameters) \in Occurrences
      /\ Writing("response.negotiate_accept", o.negotiate_accept) \in Occurrences
      /\ written # None => Writing("security_context", written) \in Occurrences
      /\ Writing("security_context.mechanism", mechanism) \in Occurrences
      /\ identity # None => Writing("security_context.downstream_identity", identity) \in Occurrences
      /\ Writing("security_context.downstream_identity.header", HeaderIn(identity)) \in Occurrences
      /\ [op |-> "extend", field |-> "request_headers", value |-> o.extend.request_headers] \in Occurrences
      /\ [op |-> "extend", field |-> "parameters", value |-> o.extend.parameters] \in Occurrences
  BY WritingsTyped
<1>5. /\ o.timeout \in Nat /\ o.request_headers \in Seq(HeaderNames) \cup {None}
      /\ o.parameters \in Maps \cup {None}
      /\ o.negotiate_accept \in {"true", "false", "omitted"}
      /\ written \in Securities \cup {None}
      /\ o.extend.request_headers \in Seq(HeaderNames) /\ o.extend.parameters \in Maps
  BY DEF Overrides
<1>6. /\ c.request_headers \in Seq(HeaderNames) /\ c.parameters \in Maps
      /\ c.negotiate_accept \in BOOLEAN /\ c.security_context \in Securities \cup {None}
  BY <1>3 DEF EffectiveRoutes
<1> HIDE DEF c, written, identity, mechanism, x0
<1>7. /\ x1 \in Seq(Occurrences)
      /\ MergedMeaning(events \o x1) = After(MergedMeaning(events \o x0), "timeout", 0, o.timeout)
  BY <1>3, <1>4, WrittenNext
<1> HIDE DEF x1
<1>8. /\ x2 \in Seq(Occurrences)
      /\ MergedMeaning(events \o x2) = After(MergedMeaning(events \o x1), "request_headers", None, o.request_headers)
  BY <1>4, <1>7, WrittenNext
<1> HIDE DEF x2
<1>9. /\ x3 \in Seq(Occurrences)
      /\ MergedMeaning(events \o x3) = After(MergedMeaning(events \o x2), "parameters", None, o.parameters)
  BY <1>4, <1>8, WrittenNext
<1> HIDE DEF x3
<1>10. /\ x4 \in Seq(Occurrences)
       /\ MergedMeaning(events \o x4) =
            After(MergedMeaning(events \o x3), "response.negotiate_accept", "omitted", o.negotiate_accept)
  BY <1>4, <1>9, WrittenNext
<1> HIDE DEF x4
<1>11. /\ x5 \in Seq(Occurrences)
       /\ MergedMeaning(events \o x5) = After(MergedMeaning(events \o x4), "security_context", None, written)
  BY <1>4, <1>10, WrittenNext
<1> HIDE DEF x5
<1>12. /\ x6 \in Seq(Occurrences)
       /\ MergedMeaning(events \o x6) = After(MergedMeaning(events \o x5), "security_context.mechanism", 0, mechanism)
  BY <1>4, <1>11, WrittenNext
<1> HIDE DEF x6
<1>13. /\ x7 \in Seq(Occurrences)
       /\ MergedMeaning(events \o x7) =
            After(MergedMeaning(events \o x6), "security_context.downstream_identity", None, identity)
  BY <1>4, <1>12, WrittenNext
<1> HIDE DEF x7
<1>14. /\ x8 \in Seq(Occurrences)
       /\ MergedMeaning(events \o x8) =
            After(MergedMeaning(events \o x7), "security_context.downstream_identity.header", 0, HeaderIn(identity))
  BY <1>4, <1>13, WrittenNext
<1> HIDE DEF x8
<1>15. /\ x9 \in Seq(Occurrences)
       /\ MergedMeaning(events \o x9) =
            Effect(MergedMeaning(events \o x8),
                   [op |-> "extend", field |-> "request_headers", value |-> o.extend.request_headers])
  BY <1>4, <1>14, ExtendedNext
<1> HIDE DEF x9
<1>16. /\ x10 \in Seq(Occurrences)
       /\ MergedMeaning(events \o x10) =
            Effect(MergedMeaning(events \o x9),
                   [op |-> "extend", field |-> "parameters", value |-> o.extend.parameters])
  BY <1>4, <1>15, ExtendedNext
<1> HIDE DEF x10
<1> DEFINE s == ensureSecurityContext(c)
           p == c.security_context # None
           i == s.downstream_identity # None
           timeout == Overridden(c.timeout, 0, o.timeout)
           headers == Overridden(c.request_headers, None, o.request_headers)
           map == Overridden(c.parameters, None, o.parameters)
           flag == c.negotiate_accept \/ decoded(o.negotiate_accept)
<1>17. MergedMeaning(events \o x0) =
         Shown(c.timeout, c.request_headers, DOMAIN c.parameters, c.negotiate_accept,
               p, s.mechanism, i, HeaderOf(s))
  BY <1>3, ObservedIs
<1>18. p \in BOOLEAN /\ i \in BOOLEAN /\ flag \in BOOLEAN
  BY <1>6
<1> HIDE DEF s, p, i
<1>19. MergedMeaning(events \o x1) =
         Shown(timeout, c.request_headers, DOMAIN c.parameters, c.negotiate_accept,
               p, s.mechanism, i, HeaderOf(s))
  <2> DEFINE m == MergedMeaning(events \o x0)
  <2>1. /\ m.timeout = c.timeout /\ m.request_headers = c.request_headers
        /\ m.parameters = DOMAIN c.parameters /\ m.negotiate_accept = c.negotiate_accept
        /\ m.security_context = p /\ m.mechanism = s.mechanism /\ m.identity = i /\ m.header = HeaderOf(s)
    BY <1>17 DEF Shown
  <2> HIDE DEF m
  <2>2. Flagged(m)
    BY <1>6, <1>18, <2>1 DEF Flagged
  <2>3. \A v : Effect(m, Writing("timeout", v)) =
                 Shown(v, m.request_headers, m.parameters,
                       m.negotiate_accept, m.security_context, m.mechanism, m.identity, m.header)
    BY <2>2, Effects
  <2>4. MergedMeaning(events \o x1) = IF o.timeout = 0 THEN m ELSE Effect(m, Writing("timeout", o.timeout))
    BY <1>7 DEF After, m
  <2>5. CASE o.timeout = 0
    <3>1. timeout = c.timeout
      BY <2>5 DEF Overridden
    <3> QED BY <1>17, <2>4, <2>5, <3>1 DEF m
  <2>6. CASE o.timeout # 0
    <3>1. timeout = o.timeout
      BY <2>6 DEF Overridden
    <3> HIDE DEF timeout
    <3> QED BY <2>1, <2>3, <2>4, <2>6, <3>1
  <2> QED BY <2>5, <2>6
<1> HIDE DEF timeout
<1>20. MergedMeaning(events \o x2) =
         Shown(timeout, headers, DOMAIN c.parameters, c.negotiate_accept,
               p, s.mechanism, i, HeaderOf(s))
  <2> DEFINE m == MergedMeaning(events \o x1)
  <2>1. /\ m.timeout = timeout /\ m.request_headers = c.request_headers
        /\ m.parameters = DOMAIN c.parameters /\ m.negotiate_accept = c.negotiate_accept
        /\ m.security_context = p /\ m.mechanism = s.mechanism /\ m.identity = i /\ m.header = HeaderOf(s)
    BY <1>19 DEF Shown
  <2> HIDE DEF m
  <2>2. Flagged(m)
    BY <1>6, <1>18, <2>1 DEF Flagged
  <2>3. \A v : Effect(m, Writing("request_headers", v)) =
                 Shown(m.timeout, v, m.parameters,
                       m.negotiate_accept, m.security_context, m.mechanism, m.identity, m.header)
    BY <2>2, Effects
  <2>4. MergedMeaning(events \o x2) =
          IF o.request_headers = None THEN m ELSE Effect(m, Writing("request_headers", o.request_headers))
    BY <1>8 DEF After, m
  <2>5. CASE o.request_headers = None
    <3>1. headers = c.request_headers
      BY <2>5 DEF Overridden
    <3> QED BY <1>19, <2>4, <2>5, <3>1 DEF m
  <2>6. CASE o.request_headers # None
    <3>1. headers = o.request_headers
      BY <2>6 DEF Overridden
    <3> HIDE DEF headers
    <3> QED BY <2>1, <2>3, <2>4, <2>6, <3>1
  <2> QED BY <2>5, <2>6
<1>21. headers \in Seq(HeaderNames) /\ map \in Maps
  BY <1>5, <1>6 DEF Overridden
<1> HIDE DEF headers
<1>22. MergedMeaning(events \o x3) =
         Shown(timeout, headers, DOMAIN map, c.negotiate_accept, p, s.mechanism, i, HeaderOf(s))
  <2> DEFINE m == MergedMeaning(events \o x2)
  <2>1. /\ m.timeout = timeout /\ m.request_headers = headers
        /\ m.parameters = DOMAIN c.parameters /\ m.negotiate_accept = c.negotiate_accept
        /\ m.security_context = p /\ m.mechanism = s.mechanism /\ m.identity = i /\ m.header = HeaderOf(s)
    BY <1>20 DEF Shown
  <2> HIDE DEF m
  <2>2. Flagged(m)
    BY <1>6, <1>18, <2>1 DEF Flagged
  <2>3. \A v : Effect(m, Writing("parameters", v)) =
                 Shown(m.timeout, m.request_headers, DOMAIN v,
                       m.negotiate_accept, m.security_context, m.mechanism, m.identity, m.header)
    BY <2>2, Effects
  <2>4. MergedMeaning(events \o x3) =
          IF o.parameters = None THEN m ELSE Effect(m, Writing("parameters", o.parameters))
    BY <1>9 DEF After, m
  <2>5. CASE o.parameters = None
    <3>1. map = c.parameters
      BY <2>5 DEF Overridden
    <3> QED BY <1>20, <2>4, <2>5, <3>1 DEF m
  <2>6. CASE o.parameters # None
    <3>1. map = o.parameters
      BY <2>6 DEF Overridden
    <3> HIDE DEF map
    <3> QED BY <2>1, <2>3, <2>4, <2>6, <3>1
  <2> QED BY <2>5, <2>6
<1> HIDE DEF map
<1>23. MergedMeaning(events \o x4) =
         Shown(timeout, headers, DOMAIN map, flag, p, s.mechanism, i, HeaderOf(s))
  <2> DEFINE m == MergedMeaning(events \o x3)
             v == o.negotiate_accept
  <2>1. /\ m.timeout = timeout /\ m.request_headers = headers
        /\ m.parameters = DOMAIN map /\ m.negotiate_accept = c.negotiate_accept
        /\ m.security_context = p /\ m.mechanism = s.mechanism /\ m.identity = i /\ m.header = HeaderOf(s)
    BY <1>22 DEF Shown
  <2> HIDE DEF m
  <2>2. Flagged(m)
    BY <1>6, <1>18, <2>1 DEF Flagged
  <2>3. Effect(m, Writing("response.negotiate_accept", v)) =
          Shown(m.timeout, m.request_headers, m.parameters, v = "true" \/
                m.negotiate_accept, m.security_context, m.mechanism, m.identity, m.header)
    BY <2>2, Effects
  <2>4. MergedMeaning(events \o x4) =
          IF v = "omitted" THEN m ELSE Effect(m, Writing("response.negotiate_accept", v))
    BY <1>10 DEF After, m
  <2>5. CASE v = "omitted"
    <3>1. flag = c.negotiate_accept
      <4>1. flag <=> c.negotiate_accept
        BY <2>5 DEF decoded
      <4> QED BY <1>6, <4>1
    <3> QED BY <1>22, <2>4, <2>5, <3>1 DEF m
  <2>6. CASE v # "omitted"
    <3>1. (v = "true" \/ m.negotiate_accept) = flag
      <4>1. (v = "true" \/ m.negotiate_accept) <=> flag
        BY <2>1 DEF decoded
      <4> QED BY <4>1
    <3> HIDE DEF v, flag
    <3> QED BY <2>1, <2>3, <2>4, <2>6, <3>1
  <2> QED BY <2>5, <2>6
<1> HIDE DEF flag
<1>24. MergedMeaning(events \o x8) =
         Shown(timeout, headers, DOMAIN map, flag, q # None, ensured.mechanism,
               ensured.downstream_identity # None, HeaderOf(ensured))
  <2>1. MergedMeaning(events \o x8) =
          After(After(After(After(Shown(timeout, headers, DOMAIN map, flag, p, s.mechanism, i, HeaderOf(s)),
                                  "security_context", None, written),
                            "security_context.mechanism", 0, mechanism),
                      "security_context.downstream_identity", None, identity),
                "security_context.downstream_identity.header", 0, HeaderIn(identity))
    BY <1>11, <1>12, <1>13, <1>14, <1>23
  <2>2. MergedMeaning(events \o x8) =
          SecurityWritten(Shown(timeout, headers, DOMAIN map, flag, p, s.mechanism, i, HeaderOf(s)), written)
    BY <2>1 DEF SecurityWritten, mechanism, identity
  <2>3. Shown(timeout, headers, DOMAIN map, flag, p, s.mechanism, i, HeaderOf(s)) =
          ShownWith(timeout, headers, DOMAIN map, flag, c.security_context)
    BY DEF ShownWith, ensureSecurityContext, s, p, i
  <2>4. SecurityWritten(ShownWith(timeout, headers, DOMAIN map, flag, c.security_context), written) =
          ShownWith(timeout, headers, DOMAIN map, flag, mergeSecurityContext(c, written))
    BY <1>5, <1>6, <1>18, SecurityMeans
  <2> QED BY <2>2, <2>3, <2>4 DEF ShownWith
<1> DEFINE present == q # None
           there == ensured.downstream_identity # None
<1>25. present \in BOOLEAN /\ there \in BOOLEAN
  OBVIOUS
<1>26. merged = [timeout |-> timeout, request_headers |-> headers, parameters |-> map,
                 negotiate_accept |-> flag, security_context |-> q]
  BY DEF MergedFields, timeout, headers, map, flag, written
<1> HIDE DEF q, merged
<1>27. Observed(mergeRoute(r, o)) =
         Shown(timeout, headers \o o.extend.request_headers, DOMAIN map \cup DOMAIN o.extend.parameters,
               flag, present, ensured.mechanism, there, HeaderOf(ensured))
  <2> DEFINE R == extendRoute(merged, o.extend)
  <2>1. /\ R.timeout = timeout /\ R.request_headers = headers \o o.extend.request_headers
        /\ R.parameters = Joined(map, o.extend.parameters)
        /\ R.negotiate_accept = flag /\ R.security_context = q
    BY <1>26 DEF extendRoute
  <2>2. DOMAIN R.parameters = DOMAIN map \cup DOMAIN o.extend.parameters
    BY <2>1 DEF Joined
  <2> HIDE DEF R
  <2>3. ensureSecurityContext(R) = ensured
    BY <2>1 DEF ensureSecurityContext
  <2> HIDE DEF ensured
  <2>4. Observed(R) =
          Shown(R.timeout, R.request_headers, DOMAIN R.parameters, R.negotiate_accept,
                R.security_context # None, ensured.mechanism, ensured.downstream_identity # None,
                HeaderOf(ensured))
    BY <2>3, ObservedIs
  <2> QED BY <1>2, <2>1, <2>2, <2>4 DEF R
<1> HIDE DEF ensured, present, there
<1>28. MergedMeaning(events \o x9) =
         Shown(timeout, headers \o o.extend.request_headers, DOMAIN map,
               flag, present, ensured.mechanism, there, HeaderOf(ensured))
  <2> DEFINE m == MergedMeaning(events \o x8)
  <2>1. /\ m.timeout = timeout /\ m.request_headers = headers
        /\ m.parameters = DOMAIN map /\ m.negotiate_accept = flag
        /\ m.security_context = present /\ m.mechanism = ensured.mechanism
        /\ m.identity = there /\ m.header = HeaderOf(ensured)
    BY <1>24 DEF Shown, present, there
  <2>2. MergedMeaning(events \o x9) =
          Effect(m, [op |-> "extend", field |-> "request_headers", value |-> o.extend.request_headers])
    BY <1>15
  <2> HIDE DEF m
  <2>3. Flagged(m)
    BY <1>18, <1>25, <2>1 DEF Flagged
  <2>4. \A v : Effect(m, [op |-> "extend", field |-> "request_headers", value |-> v]) =
                 Shown(m.timeout, m.request_headers \o v, m.parameters,
                       m.negotiate_accept, m.security_context, m.mechanism, m.identity, m.header)
    BY <2>3, Effects
  <2> QED BY <2>1, <2>2, <2>4
<1>29. MergedMeaning(events \o x10) =
         Shown(timeout, headers \o o.extend.request_headers, DOMAIN map \cup DOMAIN o.extend.parameters,
               flag, present, ensured.mechanism, there, HeaderOf(ensured))
  <2> DEFINE m == MergedMeaning(events \o x9)
  <2>1. /\ m.timeout = timeout /\ m.request_headers = headers \o o.extend.request_headers
        /\ m.parameters = DOMAIN map /\ m.negotiate_accept = flag
        /\ m.security_context = present /\ m.mechanism = ensured.mechanism
        /\ m.identity = there /\ m.header = HeaderOf(ensured)
    BY <1>28 DEF Shown
  <2>2. MergedMeaning(events \o x10) =
          Effect(m, [op |-> "extend", field |-> "parameters", value |-> o.extend.parameters])
    BY <1>16
  <2> HIDE DEF m
  <2>3. Flagged(m)
    BY <1>18, <1>25, <2>1 DEF Flagged
  <2>4. \A v : Effect(m, [op |-> "extend", field |-> "parameters", value |-> v]) =
                 Shown(m.timeout, m.request_headers, m.parameters \cup DOMAIN v,
                       m.negotiate_accept, m.security_context, m.mechanism, m.identity, m.header)
    BY <2>3, Effects
  <2> QED BY <2>1, <2>2, <2>4
<1> QED BY <1>1, <1>16, <1>27, <1>29

----------------------------------------------------------------------------
(* Chains and the invariant.                                               *)

\* One override more adds its history.
LEMMA EventsAppended ==
    ASSUME NEW S, NEW overrides \in Seq(S), NEW o \in S, History(o) \in Seq(Occurrences),
           \A i \in DOMAIN overrides : History(overrides[i]) \in Seq(Occurrences)
    PROVE  /\ Events(overrides) \in Seq(Occurrences)
           /\ Events(Append(overrides, o)) = Events(overrides) \o History(o)
<1> DEFINE n == Len(overrides)
           longer == Append(overrides, o)
           histories == [i \in 1 .. n |-> History(overrides[i])]
           all == [i \in 1 .. n + 1 |-> History(longer[i])]
<1>1. /\ n \in Nat /\ DOMAIN overrides = 1 .. n /\ DOMAIN longer = 1 .. n + 1
      /\ longer[n + 1] = o /\ \A i \in 1 .. n : longer[i] = overrides[i]
  OBVIOUS
<1> HIDE DEF n, longer
<1>2. /\ Events(overrides) = FlattenSeq(histories)
      /\ Events(longer) = FlattenSeq(all)
  BY <1>1 DEF Events
<1>3. histories \in Seq(Seq(Occurrences)) /\ Len(histories) = n
  BY <1>1
<1>4. all = Append(histories, History(o))
  <2> DEFINE appended == Append(histories, History(o))
  <2>1. /\ appended \in Seq(Seq(Occurrences)) /\ Len(appended) = n + 1
        /\ appended[n + 1] = History(o)
        /\ \A i \in 1 .. n : appended[i] = histories[i]
    <3> HIDE DEF histories
    <3> QED BY <1>3, AppendProperties
  <2>2. ASSUME NEW i \in 1 .. n + 1
        PROVE  History(longer[i]) \in Seq(Occurrences) /\ (i \in 1 .. n \/ i = n + 1)
    <3>1. i \in 1 .. n \/ i = n + 1
      BY <1>1
    <3>2. i \in 1 .. n => longer[i] = overrides[i] /\ History(overrides[i]) \in Seq(Occurrences)
      BY <1>1
    <3>3. i = n + 1 => longer[i] = o
      BY <1>1
    <3> QED BY <3>1, <3>2, <3>3
  <2>3. all \in Seq(Seq(Occurrences)) /\ Len(all) = n + 1
    BY <1>1, <2>2
  <2>4. \A i \in 1 .. n + 1 : all[i] = appended[i]
    <3> HIDE DEF appended
    <3> QED BY <1>1, <2>1, <2>2
  <2> HIDE DEF all, appended
  <2>5. all = appended
    BY <2>1, <2>3, <2>4, SeqEqual
  <2> QED BY <2>5 DEF appended
<1> HIDE DEF histories, all
<1> QED BY <1>2, <1>3, <1>4, Flattened DEF longer

\* No override means the empty route.
LEMMA NothingMeans == Events(<<>>) = <<>> /\ Observed(EmptyRoute) = MergedMeaning(<<>>)
<1>1. Events(<<>>) = <<>>
  <2>1. [i \in DOMAIN <<>> |-> History(<<>>[i])] = <<>>
    OBVIOUS
  <2> QED BY <2>1, NothingFlattened DEF Events
<1>2. ASSUME NEW field
      PROVE  Decisive(<<>>, field) = 0 /\ LastEmptied(<<>>, field) = 0
  <2>1. /\ {i \in DOMAIN <<>> : Decides(<<>>[i], field)} = {}
        /\ {i \in DOMAIN <<>> : Empties(<<>>[i], field)} = {}
    OBVIOUS
  <2> QED BY <2>1 DEF Decisive, LastEmptied, LastOf
<1>3. Len(<<>>) = 0 /\ 0 + 1 .. 0 = {} /\ 1 .. 0 - 0 = {}
  OBVIOUS
<1>4. \A field, zero : ValueOf(<<>>, field, zero) = zero
  BY <1>2 DEF ValueOf
<1>5. ListOf(<<>>, "request_headers") = <<>>
  <2> DEFINE pieces == [i \in 1 .. Len(<<>>) - 0 |->
                          IF Extends(<<>>[0 + i], "request_headers") THEN <<>>[0 + i].value ELSE <<>>]
  <2>1. ListOf(<<>>, "request_headers") = ValueOf(<<>>, "request_headers", <<>>) \o FlattenSeq(pieces)
    BY <1>2 DEF ListOf
  <2>2. pieces = <<>>
    BY <1>3
  <2>3. <<>> \o <<>> = <<>>
    OBVIOUS
  <2> HIDE DEF pieces
  <2> QED BY <1>4, <2>1, <2>2, <2>3, NothingFlattened
<1>6. KeysOf(<<>>, "parameters") = {}
  <2> DEFINE later == 0 + 1 .. Len(<<>>)
  <2>1. KeysOf(<<>>, "parameters") =
          DOMAIN ValueOf(<<>>, "parameters", Map)
              \cup UNION {DOMAIN <<>>[i].value : i \in {j \in later : Extends(<<>>[j], "parameters")}}
    BY <1>2 DEF KeysOf
  <2>2. later = {}
    BY <1>3
  <2> HIDE DEF later
  <2>3. UNION {DOMAIN <<>>[i].value : i \in {j \in later : Extends(<<>>[j], "parameters")}} = {}
    BY <2>2
  <2> QED BY <1>4, <2>1, <2>3, EmptyMap
<1>7. ~FalseLast(<<>>) /\ <<>> \in Seq(Occurrences)
  BY <1>2 DEF FalseLast
<1>8. \A object : Present(<<>>, object) = FALSE
  BY <1>2, <1>3 DEF Present
<1>9. MergedMeaning(<<>>) = Shown(0, <<>>, {}, FALSE, FALSE, 0, FALSE, 0)
  <2>1. Meaning(<<>>) = Shown(0, <<>>, {}, FALSE, FALSE, 0, FALSE, 0)
    <3>1. (ValueOf(<<>>, "response.negotiate_accept", "omitted") = "true") = FALSE
      BY <1>4
    <3> QED BY <1>4, <1>5, <1>6, <1>8, <3>1 DEF Meaning, Shown
  <2> QED BY <1>7, <2>1, FlagAgrees
<1>10. Observed(EmptyRoute) = Shown(0, <<>>, {}, FALSE, FALSE, 0, FALSE, 0)
  <2>1. /\ EmptyRoute.timeout = 0 /\ EmptyRoute.request_headers = <<>>
        /\ EmptyRoute.parameters = Map /\ EmptyRoute.negotiate_accept = FALSE
        /\ EmptyRoute.security_context = None
    <3> HIDE DEF Map
    <3> QED BY DEF EmptyRoute
  <2>2. ensureSecurityContext(EmptyRoute) = EmptySecurity
    BY <2>1 DEF ensureSecurityContext
  <2>3. EmptySecurity.mechanism = 0 /\ EmptySecurity.downstream_identity = None
    BY DEF EmptySecurity
  <2>4. HeaderOf(EmptySecurity) = 0
    BY <2>3 DEF HeaderOf
  <2>5. (EmptyRoute.security_context # None) = FALSE /\ (EmptySecurity.downstream_identity # None) = FALSE
    BY <2>1, <2>3
  <2> QED BY <2>1, <2>2, <2>3, <2>4, <2>5, ObservedIs, EmptyMap
<1> QED BY <1>1, <1>9, <1>10

\* The overrides of a chain have histories.
Told(chain) == \A i \in DOMAIN chain : History(profile(chain[i]).override) \in Seq(Occurrences)

\* A route is what the statements of mergeRoute make of the history of overrides.
MeansMerged(effective, overrides) ==
    /\ Events(overrides) \in Seq(Occurrences)
    /\ Observed(effective) = MergedMeaning(Events(overrides))

RoutesMerged ==
    \A i \in DOMAIN resolved : \E chain \in Chains(config.routes[i].profile) :
        MeansMerged(resolved[i], Append(OverridesOf(chain), config.routes[i].override))

\* A resolved profile is what its chain of resolved profiles means.
ChainMeans(name, chain) ==
    /\ chain \in Chains(name) /\ IsInjective(chain) /\ Told(chain)
    /\ \A i \in DOMAIN chain : chain[i] \in DOMAIN cache
    /\ Observed(cache[name]) = MergedMeaning(Events(OverridesOf(chain)))

CacheAgrees == \A name \in DOMAIN cache : \E chain : ChainMeans(name, chain)

\* No route is resolved before the profiles are.
RoutesLast == phase \in {"read", "declare", "profiles"} => resolved = <<>>

LEMMA NamesFinite ==
    ASSUME Typed
    PROVE  IsFiniteSet(Names) /\ Cardinality(Names) \in Nat
<1> DEFINE n == Len(config.profiles)
           f == [i \in 1 .. n |-> config.profiles[i].name]
<1>1. n \in Nat /\ DOMAIN config.profiles = 1 .. n
  BY DEF Typed, WrittenAs
<1>2. f \in Surjection(1 .. n, Names)
  BY <1>1 DEF Surjection, Names
<1>3. IsFiniteSet(1 .. n)
  <2>1. 1 \in Int /\ n \in Int
    BY <1>1
  <2> QED BY <2>1, FS_Interval
<1>4. IsFiniteSet(Names)
  <2> HIDE DEF f
  <2> QED BY <1>2, <1>3, FS_Surjection
<1> QED BY <1>4, FS_CardinalityType

\* A chain is a sequence of names.
LEMMA ChainIsSequence ==
    ASSUME NEW name, NEW chain \in Chains(name), Cardinality(Names) \in Nat
    PROVE  chain \in Seq(Names)
<1>1. PICK m \in 0 .. Cardinality(Names) : chain \in [1 .. m -> Names]
  BY DEF Chains, SeqOf
<1> QED BY <1>1

LEMMA NoChain ==
    ASSUME Cardinality(Names) \in Nat
    PROVE  <<>> \in Chains(None)
<1>1. <<>> \in [1 .. 0 -> Names] /\ 0 \in 0 .. Cardinality(Names)
  OBVIOUS
<1>2. <<>> \in SeqOf(Names, Cardinality(Names))
  BY <1>1 DEF SeqOf
<1> QED BY <1>2 DEF Chains

\* The chain of a profile is its parent's, and the profile.
LEMMA ChainGrows ==
    ASSUME Typed, NEW parent, NEW chain \in Chains(parent), IsInjective(chain),
           NEW name \in Names, name # None, profile(name).extends = parent,
           \A i \in DOMAIN chain : chain[i] # name
    PROVE  /\ Append(chain, name) \in Chains(name) /\ IsInjective(Append(chain, name))
           /\ DOMAIN Append(chain, name) = DOMAIN chain \cup {Len(chain) + 1}
           /\ \A i \in DOMAIN chain : Append(chain, name)[i] = chain[i]
           /\ Append(chain, name)[Len(chain) + 1] = name
<1> DEFINE n == Len(chain)
           longer == Append(chain, name)
           size == Cardinality(Names)
<1>1. size \in Nat /\ IsFiniteSet(Names)
  BY NamesFinite
<1>2. chain \in Seq(Names)
  BY <1>1, ChainIsSequence
<1>3. /\ n \in Nat /\ DOMAIN chain = 1 .. n
      /\ longer \in [1 .. n + 1 -> Names] /\ longer \in Seq(Names) /\ Len(longer) = n + 1
      /\ longer[n + 1] = name /\ \A i \in 1 .. n : longer[i] = chain[i]
  <2>1. /\ n \in Nat /\ DOMAIN chain = 1 .. n
        /\ longer \in Seq(Names) /\ Len(longer) = n + 1
        /\ longer[n + 1] = name /\ \A i \in 1 .. n : longer[i] = chain[i]
    BY <1>2, AppendProperties
  <2> HIDE DEF longer
  <2> QED BY <2>1
<1> HIDE DEF longer, n, size
<1>4. \A i \in 1 .. n + 1 : i \in 1 .. n \/ i = n + 1
  BY <1>3
<1>5. IsInjective(longer)
  <2> SUFFICES ASSUME NEW i \in 1 .. n + 1, NEW j \in 1 .. n + 1, longer[i] = longer[j]
               PROVE  i = j
    BY <1>3 DEF IsInjective
  <2>1. \A k \in 1 .. n : chain[k] # name
    BY <1>3
  <2>2. \A k, l \in 1 .. n : chain[k] = chain[l] => k = l
    BY <1>3 DEF IsInjective
  <2> QED BY <1>3, <1>4, <2>1, <2>2
<1>6. n + 1 \in 0 .. size
  <2>1. longer \in Injection(1 .. n + 1, Names)
    BY <1>3, <1>5 DEF Injection
  <2>2. Cardinality(1 .. n + 1) <= size
    BY <1>1, <2>1, FS_Injection DEF size
  <2>3. Cardinality(1 .. n + 1) = n + 1
    <3>1. 1 \in Int /\ n + 1 \in Int /\ ~(1 > n + 1) /\ (n + 1) - 1 + 1 = n + 1
      BY <1>3
    <3> QED BY <3>1, FS_Interval
  <2> QED BY <1>1, <1>3, <2>2, <2>3
<1>7. longer \in SeqOf(Names, Cardinality(Names))
  BY <1>3, <1>6 DEF SeqOf, size
<1>8. longer # <<>> /\ Last(longer) = name
  BY <1>3 DEF Last
<1>9. /\ chain = <<>> <=> parent = None
      /\ chain # <<>> => profile(chain[1]).extends = None /\ Last(chain) = parent
      /\ \A i \in DOMAIN chain \ {1} : profile(chain[i]).extends = chain[i - 1]
  BY DEF Chains
<1>10. profile(longer[1]).extends = None
  <2>1. CASE n = 0
    <3>1. chain = <<>>
      BY <1>2, <2>1 DEF n
    <3>2. longer[1] = name
      BY <1>3, <2>1
    <3> QED BY <1>9, <3>1, <3>2
  <2>2. CASE n # 0
    <3>1. chain # <<>> /\ 1 \in 1 .. n
      BY <1>3, <2>2
    <3> QED BY <1>3, <1>9, <3>1
  <2> QED BY <2>1, <2>2
<1>11. ASSUME NEW i \in 1 .. n + 1, i # 1
       PROVE  profile(longer[i]).extends = longer[i - 1]
  <2>1. i - 1 \in 1 .. n
    BY <1>3, <1>11
  <2>2. CASE i \in 1 .. n
    BY <1>3, <1>9, <1>11, <2>1, <2>2
  <2>3. CASE i = n + 1
    <3>1. i - 1 = n /\ chain # <<>> /\ chain[n] = parent
      BY <1>2, <1>3, <1>9, <1>11, <2>1, <2>3 DEF Last, n
    <3> QED BY <1>3, <2>1, <2>3, <3>1
  <2> QED BY <1>4, <2>2, <2>3
<1>12. longer \in Chains(name)
  <2>1. \A i \in DOMAIN longer \ {1} : profile(longer[i]).extends = longer[i - 1]
    BY <1>3, <1>11
  <2>2. longer = <<>> <=> name = None
    BY <1>8
  <2> QED BY <1>7, <1>8, <1>10, <2>1, <2>2 DEF Chains
<1>13. DOMAIN longer = DOMAIN chain \cup {n + 1}
  BY <1>3, <1>4
<1> QED BY <1>3, <1>5, <1>12, <1>13 DEF longer, n

\* A merge over a resolved profile, or over none.
LEMMA ParentMeans ==
    ASSUME Typed, CacheAgrees, None \notin DOMAIN cache,
           NEW parent \in DOMAIN cache \cup {None}, NEW o \in Overrides,
           NEW base, base = IF parent = None THEN EmptyRoute ELSE cache[parent],
           mergeRoute(base, o) # None
    PROVE  /\ History(o) \in Seq(Occurrences)
           /\ \E chain \in Chains(parent) :
                /\ chain \in Seq(Names) /\ IsInjective(chain) /\ Told(chain)
                /\ \A i \in DOMAIN chain : chain[i] \in DOMAIN cache
                /\ MeansMerged(mergeRoute(base, o), Append(OverridesOf(chain), o))
<1>1. Cardinality(Names) \in Nat
  BY NamesFinite
<1>2. PICK chain \in Chains(parent) :
        /\ IsInjective(chain) /\ Told(chain)
        /\ \A i \in DOMAIN chain : chain[i] \in DOMAIN cache
        /\ Observed(base) = MergedMeaning(Events(OverridesOf(chain)))
  <2>1. CASE parent = None
    <3>1. <<>> \in Chains(parent)
      BY <1>1, <2>1, NoChain
    <3>2. DOMAIN <<>> = {}
      OBVIOUS
    <3>3. OverridesOf(<<>>) = <<>>
      <4>1. [i \in DOMAIN <<>> |-> profile(<<>>[i]).override] = <<>>
        OBVIOUS
      <4> QED BY <4>1 DEF OverridesOf
    <3>4. base = EmptyRoute
      BY <2>1
    <3>5. Observed(base) = MergedMeaning(Events(OverridesOf(<<>>)))
      BY <3>3, <3>4, NothingMeans
    <3>6. IsInjective(<<>>) /\ Told(<<>>)
      BY <3>2 DEF IsInjective, Told
    <3> QED BY <3>1, <3>2, <3>5, <3>6
  <2>2. CASE parent # None
    <3>1. parent \in DOMAIN cache /\ base = cache[parent]
      BY <2>2
    <3>2. PICK chain : ChainMeans(parent, chain)
      BY <3>1 DEF CacheAgrees
    <3> QED BY <3>1, <3>2 DEF ChainMeans
  <2> QED BY <2>1, <2>2
<1>3. chain \in Seq(Names)
  BY <1>1, ChainIsSequence
<1>4. base \in EffectiveRoutes
  BY EmptyIsRoute DEF Typed
<1> DEFINE overrides == OverridesOf(chain)
<1>5. /\ overrides \in Seq({overrides[i] : i \in DOMAIN overrides})
      /\ \A i \in DOMAIN overrides : History(overrides[i]) \in Seq(Occurrences)
  <2>1. overrides = [i \in 1 .. Len(chain) |-> profile(chain[i]).override]
    BY <1>3 DEF OverridesOf
  <2>2. DOMAIN chain = 1 .. Len(chain) /\ Len(chain) \in Nat
    BY <1>3
  <2> HIDE DEF overrides
  <2>3. \A i \in 1 .. Len(chain) : History(overrides[i]) \in Seq(Occurrences)
    BY <1>2, <2>1, <2>2 DEF Told
  <2>4. overrides \in Seq({overrides[i] : i \in DOMAIN overrides})
    BY <2>1, <2>2
  <2> QED BY <2>1, <2>3, <2>4
<1>6. \A i \in DOMAIN overrides : overrides[i] \in {overrides[j] : j \in DOMAIN overrides} \cup {o}
  OBVIOUS
<1> DEFINE S == {overrides[i] : i \in DOMAIN overrides} \cup {o}
<1>7. overrides \in Seq(S) /\ o \in S
  <2> HIDE DEF overrides
  <2>1. overrides \in Seq(S)
    BY <1>5
  <2> QED BY <2>1
<1> HIDE DEF overrides, S
<1>8. Events(overrides) \in Seq(Occurrences)
  <2>1. CASE overrides = <<>>
    <3>1. Events(overrides) = <<>>
      BY <2>1, NothingMeans
    <3>2. <<>> \in Seq(Occurrences)
      OBVIOUS
    <3> QED BY <3>1, <3>2
  <2>2. CASE overrides # <<>>
    <3> DEFINE T == {overrides[i] : i \in DOMAIN overrides}
    <3>1. overrides \in Seq(T) /\ 1 \in DOMAIN overrides
      BY <1>5, <2>2
    <3>2. overrides[1] \in T /\ History(overrides[1]) \in Seq(Occurrences)
      BY <1>5, <3>1
    <3> HIDE DEF T
    <3> QED BY <1>5, <3>1, <3>2, EventsAppended
  <2> QED BY <2>1, <2>2
<1>9. /\ History(o) \in Seq(Occurrences)
      /\ Observed(mergeRoute(base, o)) = MergedMeaning(Events(overrides) \o History(o))
  <2>1. Observed(base) = MergedMeaning(Events(overrides))
    BY <1>2 DEF overrides
  <2> QED BY <1>4, <1>8, <2>1, MergeMeans
<1>10. Events(Append(overrides, o)) = Events(overrides) \o History(o)
  BY <1>5, <1>7, <1>9, EventsAppended
<1>11. Events(overrides) \o History(o) \in Seq(Occurrences)
  BY <1>8, <1>9, ConcatProperties
<1>12. MeansMerged(mergeRoute(base, o), Append(overrides, o))
  BY <1>9, <1>10, <1>11 DEF MeansMerged
<1> QED BY <1>2, <1>3, <1>9, <1>12 DEF overrides

\* What is read of the configuration, of the cache and of the routes stays.
LEMMA ChainsStay ==
    ASSUME UNCHANGED config
    PROVE  \A name, chain :
             /\ Chains(name)' = Chains(name)
             /\ Told(chain)' <=> Told(chain)
             /\ OverridesOf(chain)' = OverridesOf(chain)
<1>1. Names' = Names /\ \A name : profile(name)' = profile(name)
  BY ProfilesStay
<1>2. ASSUME NEW name PROVE Chains(name)' = Chains(name)
  BY <1>1 DEF Chains
<1>3. ASSUME NEW chain PROVE (Told(chain)' <=> Told(chain)) /\ OverridesOf(chain)' = OverridesOf(chain)
  BY <1>1 DEF Told, OverridesOf
<1> QED BY <1>2, <1>3

\* The rest stays with them.
LEMMA AgreementStays ==
    ASSUME UNCHANGED config
    PROVE  /\ CacheAgrees /\ UNCHANGED cache => CacheAgrees'
           /\ RoutesMerged /\ UNCHANGED resolved => RoutesMerged'
<1>1. \A name, chain :
        /\ Chains(name)' = Chains(name)
        /\ Told(chain)' <=> Told(chain)
        /\ OverridesOf(chain)' = OverridesOf(chain)
  BY ChainsStay
<1>2. ASSUME CacheAgrees, UNCHANGED cache PROVE CacheAgrees'
  <2>1. ASSUME NEW name, NEW chain, ChainMeans(name, chain)
        PROVE  ChainMeans(name, chain)'
    BY <1>1, <1>2, <2>1 DEF ChainMeans
  <2> QED BY <1>2, <2>1 DEF CacheAgrees
<1>3. ASSUME RoutesMerged, UNCHANGED resolved PROVE RoutesMerged'
  BY <1>1, <1>3 DEF RoutesMerged
<1> QED BY <1>2, <1>3

\* A profile that is merged means its chain.
LEMMA MergedProfileMeans ==
    ASSUME Typed, Resolving, CacheAgrees, MergeProfile, ~Reject
    PROVE  CacheAgrees' /\ UNCHANGED <<config, resolved>>
<1> DEFINE name == Last(stack)
           parent == Current.extends
           base == IF parent = None THEN EmptyRoute ELSE cache[parent]
           o == Current.override
           result == mergeRoute(base, o)
<1>1. /\ stack # <<>> /\ parent \in DOMAIN cache \cup {None} /\ result # None
      /\ cache' = Joined([n \in {Current.name} |-> result], cache)
      /\ UNCHANGED <<config, resolved>>
  BY DEF MergeProfile
<1>2. name \in Names /\ name \in Active
  <2>1. Len(stack) \in DOMAIN stack
    BY <1>1 DEF Resolving
  <2> QED BY <2>1 DEF Resolving, Last, Active
<1>3. /\ Current = profile(name) /\ Current.name = name
      /\ name # None /\ name \notin DOMAIN cache /\ None \notin DOMAIN cache
  BY <1>2, ProfileFound DEF Current, Resolving
<1>4. o \in Overrides
  BY <1>1, CurrentIsWritten
<1>5. /\ History(o) \in Seq(Occurrences)
      /\ \E chain \in Chains(parent) :
            /\ chain \in Seq(Names) /\ IsInjective(chain) /\ Told(chain)
            /\ \A i \in DOMAIN chain : chain[i] \in DOMAIN cache
            /\ MeansMerged(mergeRoute(base, o), Append(OverridesOf(chain), o))
  <2> HIDE DEF parent, o
  <2> QED BY <1>1, <1>3, <1>4, ParentMeans
<1>6. PICK chain \in Chains(parent) :
        /\ chain \in Seq(Names) /\ IsInjective(chain) /\ Told(chain)
        /\ \A i \in DOMAIN chain : chain[i] \in DOMAIN cache
        /\ MeansMerged(result, Append(OverridesOf(chain), o))
  BY <1>5
<1>7. profile(name).extends = parent /\ profile(name).override = o
  BY <1>3
<1> HIDE DEF name, parent, result, o
<1> DEFINE longer == Append(chain, name)
           n == Len(chain)
<1>8. /\ longer \in Chains(name) /\ IsInjective(longer)
      /\ DOMAIN longer = DOMAIN chain \cup {n + 1}
      /\ \A i \in DOMAIN chain : longer[i] = chain[i]
      /\ longer[n + 1] = name
  <2>1. \A i \in DOMAIN chain : chain[i] # name
    BY <1>3, <1>6
  <2> QED BY <1>2, <1>3, <1>6, <1>7, <2>1, ChainGrows
<1>9. DOMAIN longer = 1 .. n + 1 /\ DOMAIN chain = 1 .. n /\ n \in Nat
  BY <1>6, <1>8
<1> HIDE DEF longer, n
<1>10. Told(longer)
  BY <1>5, <1>6, <1>7, <1>8 DEF Told
<1>11. OverridesOf(longer) = Append(OverridesOf(chain), o)
  <2> DEFINE before == OverridesOf(chain)
             after == OverridesOf(longer)
             S == {profile(x).override : x \in Names}
  <2>1. /\ before = [i \in 1 .. n |-> profile(chain[i]).override]
        /\ after = [i \in 1 .. n + 1 |-> profile(longer[i]).override]
    BY <1>9 DEF OverridesOf
  <2>2. \A i \in 1 .. n : chain[i] \in Names
    BY <1>6, <1>9
  <2>3. o \in S /\ \A i \in 1 .. n : profile(chain[i]).override \in S
    BY <1>2, <1>7, <2>2
  <2>4. \A i \in 1 .. n + 1 : i \in 1 .. n \/ i = n + 1
    BY <1>9
  <2> HIDE DEF S, before, after
  <2>5. before \in Seq(S) /\ Len(before) = n
    BY <1>9, <2>1, <2>3
  <2>6. \A i \in 1 .. n + 1 : profile(longer[i]).override \in S
    BY <1>7, <1>8, <1>9, <2>3, <2>4
  <2>7. after \in Seq(S) /\ Len(after) = n + 1
    BY <1>9, <2>1, <2>6
  <2>8. /\ Append(before, o) \in Seq(S) /\ Len(Append(before, o)) = n + 1
        /\ Append(before, o)[n + 1] = o
        /\ \A i \in 1 .. n : Append(before, o)[i] = before[i]
    BY <2>3, <2>5, AppendProperties
  <2>9. \A i \in 1 .. n + 1 : after[i] = Append(before, o)[i]
    BY <1>7, <1>8, <1>9, <2>1, <2>4, <2>8
  <2>10. after = Append(before, o)
    BY <2>7, <2>8, <2>9, SeqEqual
  <2> QED BY <2>10 DEF before, after
<1>12. Observed(result) = MergedMeaning(Events(OverridesOf(longer)))
  BY <1>6, <1>11 DEF MeansMerged
<1>13. PICK x, y : x = name /\ y = longer
  OBVIOUS
<1>14. /\ DOMAIN cache' = DOMAIN cache \cup {x}
       /\ cache'[x] = result
       /\ \A z \in DOMAIN cache : cache'[z] = cache[z]
  BY <1>1, <1>3, <1>13 DEF Joined
<1>15. \A z, w :
         /\ Chains(z)' = Chains(z)
         /\ Told(w)' <=> Told(w)
         /\ OverridesOf(w)' = OverridesOf(w)
  BY <1>1, ChainsStay
<1>16. ChainMeans(x, y)'
  <2>1. /\ y \in Chains(x)' /\ IsInjective(y) /\ Told(y)'
        /\ OverridesOf(y)' = OverridesOf(y)
    BY <1>8, <1>10, <1>13, <1>15
  <2>2. \A i \in DOMAIN y : y[i] \in DOMAIN cache'
    BY <1>6, <1>8, <1>13, <1>14
  <2>3. Observed(cache'[x]) = MergedMeaning(Events(OverridesOf(y)'))
    BY <1>12, <1>13, <1>14, <2>1
  <2> QED BY <2>1, <2>2, <2>3 DEF ChainMeans
<1>17. ASSUME NEW z \in DOMAIN cache, NEW w, ChainMeans(z, w)
       PROVE  ChainMeans(z, w)'
  BY <1>14, <1>15, <1>17 DEF ChainMeans
<1>18. CacheAgrees'
  <2> SUFFICES ASSUME NEW z \in DOMAIN cache' PROVE \E w : ChainMeans(z, w)'
    BY DEF CacheAgrees
  <2>1. CASE z = x
    BY <1>16, <2>1
  <2>2. CASE z \in DOMAIN cache
    BY <1>17, <2>2 DEF CacheAgrees
  <2> QED BY <1>14, <2>1, <2>2
<1> QED BY <1>1, <1>18

\* So does a route.
LEMMA ResolvedRouteMeans ==
    ASSUME Typed, Resolving, CacheAgrees, RoutesMerged, ResolveRoute, ~Reject
    PROVE  RoutesMerged' /\ UNCHANGED <<config, cache>>
<1> DEFINE n == Len(resolved)
           chosen == config.routes[n + 1]
           parent == chosen.profile
           base == IF parent = None THEN EmptyRoute ELSE cache[parent]
           o == chosen.override
           result == mergeRoute(base, o)
<1>1. /\ parent \in DOMAIN cache \cup {None} /\ result # None
      /\ resolved' = Append(resolved, result) /\ UNCHANGED <<config, cache>>
      /\ n < Len(config.routes)
  BY DEF ResolveRoute
<1>2. /\ resolved \in Seq(EffectiveRoutes) /\ n \in Nat /\ DOMAIN resolved = 1 .. n
      /\ config.routes \in Seq(ToSet(config.routes)) /\ Len(config.routes) \in Nat
  BY DEF Typed, WrittenAs
<1>3. o \in Overrides
  <2>1. n + 1 \in DOMAIN config.routes
    BY <1>1, <1>2
  <2> QED BY <2>1 DEF Typed, WrittenAs
<1>4. None \notin DOMAIN cache
  BY DEF Resolving
<1> HIDE DEF n, chosen
<1>5. PICK chain \in Chains(parent) :
        MeansMerged(result, Append(OverridesOf(chain), o))
  <2> HIDE DEF parent, o
  <2> QED BY <1>1, <1>3, <1>4, ParentMeans
<1>6. result \in EffectiveRoutes
  <2>1. base \in EffectiveRoutes
    <3> HIDE DEF parent
    <3> QED BY <1>1, EmptyIsRoute DEF Typed
  <2> HIDE DEF base, o
  <2> QED BY <1>1, <1>3, <2>1, MergedIsRoute
<1> HIDE DEF result, parent, o
<1>7. /\ DOMAIN resolved' = 1 .. n + 1 /\ resolved'[n + 1] = result
      /\ \A i \in 1 .. n : resolved'[i] = resolved[i]
  BY <1>1, <1>2, <1>6 DEF n
<1>8. \A x, y : Chains(x)' = Chains(x) /\ OverridesOf(y)' = OverridesOf(y)
  BY <1>1, ChainsStay
<1>9. ASSUME NEW i \in DOMAIN resolved'
      PROVE  (\E y \in Chains(config.routes[i].profile) :
                MeansMerged(resolved[i], Append(OverridesOf(y), config.routes[i].override)))'
  <2>1. i \in 1 .. n \/ i = n + 1
    BY <1>2, <1>7
  <2>2. CASE i \in 1 .. n
    <3>1. PICK y \in Chains(config.routes[i].profile) :
            MeansMerged(resolved[i], Append(OverridesOf(y), config.routes[i].override))
      BY <1>2, <2>2 DEF RoutesMerged
    <3> QED BY <1>1, <1>7, <1>8, <2>2, <3>1
  <2>3. CASE i = n + 1
    <3>1. config.routes[i].profile = parent /\ config.routes[i].override = o
      BY <2>3 DEF chosen, parent, o
    <3> QED BY <1>1, <1>5, <1>7, <1>8, <2>3, <3>1
  <2> QED BY <2>1, <2>2, <2>3
<1>10. RoutesMerged'
  BY <1>9 DEF RoutesMerged
<1> QED BY <1>1, <1>10

\* The adapter's invariant, and what resolved profiles and routes mean.
Agreement == CacheAgrees /\ RoutesLast /\ RoutesMerged

LEMMA AgreementKeeps ==
    ASSUME AdapterInvariant, Agreement, [AdapterNext]_adapterVars
    PROVE  Agreement'
<1>1. Typed /\ CacheAgrees /\ RoutesLast /\ RoutesMerged /\ ProfilesInvariant
  BY DEF AdapterInvariant, Agreement
<1>2. ASSUME DOMAIN cache' = {}, resolved' = <<>>
      PROVE  Agreement'
  <2>1. DOMAIN resolved' = {}
    BY <1>2
  <2> QED BY <1>2, <2>1 DEF Agreement, CacheAgrees, RoutesLast, RoutesMerged
<1>3. CASE /\ UNCHANGED <<config, cache, resolved>>
           /\ phase' \in {"read", "declare", "profiles"} => phase \in {"read", "declare", "profiles"}
  BY <1>1, <1>3, AgreementStays DEF Agreement, RoutesLast
<1>4. CASE EndRoute
  <2>1. phase = "read" /\ UNCHANGED <<cache, resolved>>
    BY <1>4 DEF EndRoute, resolution
  <2>2. DOMAIN cache = {} /\ resolved = <<>>
    BY <1>1, <2>1 DEF ProfilesInvariant, Unresolved, RoutesLast
  <2> QED BY <1>2, <2>1, <2>2
<1>5. CASE Emit
  BY <1>2, <1>5, EmptyMap DEF Emit
<1>6. CASE BeginRoute \/ HandlerOption \/ ReadOption \/ EndFile
  BY <1>3, <1>6 DEF BeginRoute, HandlerOption, ReadOption, EndFile, Reject, vars, resolution
<1>7. CASE UNCHANGED adapterVars
  BY <1>3, <1>7 DEF adapterVars, vars
<1>8. CASE Reject
  BY <1>3, <1>8 DEF Reject
<1>9. CASE Declare \/ (\E name \in pending : ResolveNext(name)) \/ ResolveParent \/ ProfilesDone \/ RoutesDone
  BY <1>3, <1>8, <1>9 DEF Declare, ResolveNext, ResolveParent, ProfilesDone, RoutesDone
<1>10. CASE MergeProfile /\ ~Reject
  <2>1. Resolving /\ phase = "profiles" /\ phase' = phase
    BY <1>1, <1>10 DEF MergeProfile, ProfilesInvariant
  <2>2. CacheAgrees' /\ UNCHANGED <<config, resolved>>
    BY <1>1, <1>10, <2>1, MergedProfileMeans
  <2>3. RoutesMerged'
    BY <1>1, <2>2, AgreementStays
  <2> QED BY <1>1, <2>1, <2>2, <2>3 DEF Agreement, RoutesLast
<1>11. CASE ResolveRoute /\ ~Reject
  <2>1. Resolving /\ phase = "routes" /\ phase' = phase
    BY <1>1, <1>11 DEF ResolveRoute, ProfilesInvariant
  <2>2. RoutesMerged' /\ UNCHANGED <<config, cache>>
    BY <1>1, <1>11, <2>1, ResolvedRouteMeans
  <2>3. CacheAgrees'
    BY <1>1, <2>2, AgreementStays
  <2> QED BY <2>1, <2>2, <2>3 DEF Agreement, RoutesLast
<1> QED BY <1>4, <1>5, <1>6, <1>7, <1>8, <1>9, <1>10, <1>11 DEF AdapterNext, Next

\* It is then also what the documentation says of them, except for the flag when
\* its last word is an explicit false.
LEMMA MergedIsMeant == RoutesMerged => RoutesAgree
<1> SUFFICES ASSUME RoutesMerged PROVE RoutesAgree
  OBVIOUS
<1>1. ASSUME NEW i \in DOMAIN resolved, NEW chain \in Chains(config.routes[i].profile),
             MeansMerged(resolved[i], Append(OverridesOf(chain), config.routes[i].override))
      PROVE  LET events == Events(Append(OverridesOf(chain), config.routes[i].override))
                 meant == Meaning(events)
             IN  Observed(resolved[i]) =
                    IF FalseLast(events)
                    THEN [meant EXCEPT !.negotiate_accept = resolved[i].negotiate_accept]
                    ELSE meant
  <2> DEFINE events == Events(Append(OverridesOf(chain), config.routes[i].override))
             meant == Meaning(events)
             effective == resolved[i]
  <2> SUFFICES Observed(effective) =
                    IF FalseLast(events)
                    THEN [meant EXCEPT !.negotiate_accept = effective.negotiate_accept]
                    ELSE meant
    OBVIOUS
  <2>1. events \in Seq(Occurrences) /\ Observed(effective) = MergedMeaning(events)
    BY <1>1 DEF MeansMerged
  <2> HIDE DEF events, effective, meant
  <2>2. CASE ~FalseLast(events)
    BY <2>1, <2>2, FlagAgrees DEF meant
  <2>3. CASE FalseLast(events)
    <3>1. Observed(effective).negotiate_accept = effective.negotiate_accept
      BY DEF Observed
    <3>2. MergedMeaning(events).negotiate_accept = FlagMerged(events, "response.negotiate_accept")
      BY DEF MergedMeaning, Meaning
    <3>3. effective.negotiate_accept = FlagMerged(events, "response.negotiate_accept")
      BY <2>1, <3>1, <3>2
    <3>4. MergedMeaning(events) = [meant EXCEPT !.negotiate_accept = effective.negotiate_accept]
      BY <3>3 DEF MergedMeaning, meant
    <3> QED BY <2>1, <2>3, <3>4
  <2> QED BY <2>2, <2>3
<1> QED BY <1>1 DEF RoutesMerged, RoutesAgree

\* Every effective effective is what the overrides of its chain and its own mean as
\* one history of clear, write and extend statements, field by field, with the
\* one exception that RoutesAgree names: for every configuration of any size, in
\* every order in which Go iterates over the profiles (profiles.go 21-89, 91-314).
THEOREM EffectiveRoutesAgree == AdapterSpec => []RoutesAgree
<1>1. AdapterInit => Agreement
  <2> SUFFICES ASSUME AdapterInit PROVE Agreement
    OBVIOUS
  <2>1. DOMAIN cache = {} /\ resolved = <<>>
    BY EmptyMap DEF AdapterInit, Init
  <2>2. DOMAIN resolved = {}
    BY <2>1
  <2> QED BY <2>1, <2>2 DEF Agreement, CacheAgrees, RoutesLast, RoutesMerged
<1>2. AdapterInvariant /\ Agreement /\ [AdapterNext]_adapterVars => Agreement'
  BY AgreementKeeps
<1>3. Agreement => RoutesAgree
  BY MergedIsMeant DEF Agreement
<1> QED BY <1>1, <1>2, <1>3, AdapterInvariantHolds, PTL DEF AdapterSpec

=============================================================================
