------------------------- MODULE ParameterPatterns -------------------------
(***************************************************************************)
(* The regular expressions that guard route parameters: which of them      *)
(* config.go accepts, and which values internal/routes takes for them.     *)
(*                                                                         *)
(* An expression is the tree regexp/syntax parses: an operation, the runes *)
(* of a literal or of a class, its sub-expressions, and for a loop (a      *)
(* repetition) its bounds.  A value is a sequence of characters.           *)
(***************************************************************************)
EXTENDS Naturals, Sequences, FiniteSets, SequencesExt, FiniteSetsExt, Functions

CONSTANTS
    Expressions,  \* the expressions in use, with their sub-expressions
    Values,       \* the values requests carry
    Safe,         \* letters, digits, "_" and "-"
    Unsafe,       \* the result of a walk that found what it does not allow
    Size          \* expression -> a number; the one of a part is smaller

Anchors == {"begin", "end"}
Loops == {"star", "quest", "plus", "repeat"}
Series == {"capture", "concat"}

IsSequence(s) == s \in Seq(Range(s))

\* How many parts one match of e puts one after the other, at most.
Turns(e) ==
    CASE e.op \in Loops -> e.max
      [] e.op \in Series -> Len(e.sub)
      [] OTHER -> 0

\* regexp/syntax parses finite trees; a loop and a capture have one part.  A loop
\* without an upper bound has one that no value reaches.
ASSUME PatternsAssumption ==
    /\ Unsafe \notin Nat
    /\ \A v \in Values : IsSequence(v)
    /\ \A e \in Expressions :
        /\ IsSequence(e.sub) /\ IsSequence(e.runes)
        /\ e.min \in Nat /\ e.max \in Nat /\ Size[e] \in Nat
        /\ \A k \in DOMAIN e.sub :
            e.sub[k] \in Expressions /\ Size[e.sub[k]] + Turns(e.sub[k]) < Size[e]
        /\ e.op \in Loops \cup {"capture"} => Len(e.sub) = 1
        /\ e.op = "alternate" => e.sub # <<>>
        /\ e.op = "plus" => e.min = 1

Runes(e) == IF e.op \in {"literal", "class"} THEN Range(e.runes) ELSE {}

\* Mutant: an alternation is as long as its longest branch.
ShortestIsLongest(minimum) == Max(Range(minimum))

\* The minimum over the branches of an alternation.
Shortest(minimum) == Min(Range(minimum))

\* The sums of the first k numbers.
Total(numbers) ==
    LET total[k \in 0 .. Len(numbers)] == IF k = 0 THEN 0 ELSE total[k - 1] + numbers[k]
    IN  total

\* The length of the shortest value that matches, from those of the parts, or
\* Unsafe.  Operations that are not listed ("any", case folding, no match) are
\* refused wherever they stand.
MinimumLength(e, minimum) ==
    IF Unsafe \in Range(minimum) \/ ~(Runes(e) \subseteq Safe) THEN Unsafe
    ELSE CASE e.op \in Anchors \cup {"empty", "star", "quest"} -> 0
           [] e.op = "literal" -> Len(e.runes)
           [] e.op = "class" -> 1
           [] e.op \in {"capture", "plus"} -> minimum[1]
           [] e.op = "concat" -> Total(minimum)[Len(minimum)]
           [] e.op = "alternate" -> Shortest(minimum)
           [] e.op = "repeat" -> e.min * minimum[1]
           [] OTHER -> Unsafe

safePatternMinimumLength[e \in Expressions] ==
    MinimumLength(e, [k \in DOMAIN e.sub |-> safePatternMinimumLength[e.sub[k]]])

validateSafeParameterPattern(e) == safePatternMinimumLength[e] \notin {Unsafe, 0}

\* The text begins with ^ and ends with $; in an alternation without
\* parentheses these belong to its first and its last branch.
Anchored(e) ==
    LET first == IF e.op = "alternate" THEN Head(e.sub) ELSE e
        last == IF e.op = "alternate" THEN Last(e.sub) ELSE e
    IN  /\ first.op = "concat" /\ Head(first.sub).op = "begin"
        /\ last.op = "concat" /\ Last(last.sub).op = "end"

----------------------------------------------------------------------------
(* Matching.                                                               *)

\* A match of a pattern that has come to a place in a value, after so many of
\* its turns.
Places == [pattern : Expressions, value : Values, from : Nat, turn : Nat]
At(e, v, i, n) == [pattern |-> e, value |-> v, from |-> i, turn |-> n]

\* One turn of a part, then the others: ends holds what is matched from each
\* place.  A loop that may stop does not go on without a move.
Turn(ends, at, part) ==
    LET moves == ends[At(part, at.value, at.from, 0)]
    IN  FlattenSeq([k \in DOMAIN moves |->
            IF at.pattern.op \in Loops /\ moves[k] = at.from /\ at.turn >= at.pattern.min THEN <<>>
            ELSE ends[At(at.pattern, at.value, moves[k], at.turn + 1)]])

\* The positions the rest of a match may end at, in the order of preference of
\* Go's regexp: earlier branches and more repetitions first.
Rest(ends, at) ==
    LET e == at.pattern
        v == at.value
        i == at.from
        Here(condition) == IF condition THEN <<i>> ELSE <<>>
    IN  CASE e.op = "empty" -> <<i>>
          [] e.op = "begin" -> Here(i = 0)
          [] e.op = "end" -> Here(i = Len(v))
          [] e.op = "literal" ->
                IF /\ i + Len(e.runes) <= Len(v)
                   /\ \A k \in DOMAIN e.runes : v[i + k] = e.runes[k]
                THEN <<i + Len(e.runes)>> ELSE <<>>
          [] e.op = "class" ->
                IF i < Len(v) /\ v[i + 1] \in Range(e.runes) THEN <<i + 1>> ELSE <<>>
          [] e.op = "any" -> IF i < Len(v) THEN <<i + 1>> ELSE <<>>
          [] e.op = "alternate" ->
                FlattenSeq([k \in DOMAIN e.sub |-> ends[At(e.sub[k], v, i, 0)]])
          [] e.op \in Series ->
                IF at.turn < Len(e.sub) THEN Turn(ends, at, e.sub[at.turn + 1]) ELSE <<i>>
          [] e.op \in Loops ->
                (IF at.turn < e.max THEN Turn(ends, at, e.sub[1]) ELSE <<>>)
                \o Here(at.turn >= e.min)
          [] OTHER -> <<>>

Ends[at \in Places] == Rest(Ends, at)

\* matchesEntireValue: the preferred match from the start is the whole value.
matchesEntireValue(e, v) ==
    LET ends == Ends[At(e, v, 0, 0)] IN ends # <<>> /\ Head(ends) = Len(v)
=============================================================================
