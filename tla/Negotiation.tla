---------------------------- MODULE Negotiation ----------------------------
(***************************************************************************)
(* selectRepresentation: the declared representation a request's Accept    *)
(* header asks for (response.go).                                          *)
(*                                                                         *)
(* A media type is the sequence of its parts.  A field line of the header  *)
(* is a sequence of items; an item has a range and the segments that       *)
(* follow it, each a name with its value, or NoValue when it has no "=".   *)
(* Qualities are in thousandths.                                           *)
(***************************************************************************)
EXTENDS Integers, Sequences, FiniteSets, SequencesExt, FiniteSetsExt, Functions, RoutePolicy

CONSTANTS
    MaxAcceptItems,  \* 64
    Blank,           \* an item without text: ",," or an open quote
    Oversized,       \* a field line beyond maxAcceptBytes
    Malformed,       \* a value or name that is not well formed
    NoValue,
    NotAcceptable,
    Panic

Star == "*"

\* strings.Join(values, ","): an empty line between others leaves a blank item.
Joined(lines) ==
    IF Oversized \in Range(lines) THEN Oversized
    ELSE FlattenSeq([i \in DOMAIN lines |->
            IF lines[i] = <<>> /\ Len(lines) > 1 THEN <<Blank>> ELSE lines[i]])

\* Lines 81-102: the segments before the first q are parameters of the range.
MediaEnd(item) ==
    LET qs == {i \in DOMAIN item.segments : item.segments[i].name = "q"}
    IN  IF qs = {} THEN Len(item.segments) + 1 ELSE Min(qs)

Parameters(item) == SubSeq(item.segments, 1, MediaEnd(item) - 1)
Extensions(item) == SubSeq(item.segments, MediaEnd(item) + 1, Len(item.segments))
HasQuality(item) == MediaEnd(item) <= Len(item.segments)

validateAcceptExtension(segment) ==
    /\ segment.name \notin {"q", Malformed}
    /\ segment.value \notin {"", Malformed}

\* mime.ParseMediaType: every parameter has a value, and a name has only one.
validParameters(parameters) ==
    /\ \A i \in DOMAIN parameters :
        parameters[i].name # Malformed /\ parameters[i].value \notin {NoValue, Malformed}
    /\ \A i, j \in DOMAIN parameters :
        parameters[i].name = parameters[j].name => parameters[i] = parameters[j]

validItem(item) ==
    /\ item # Blank
    /\ Len(item.range) = 2 /\ (item.range[1] = Star => item.range[2] = Star)
    /\ validParameters(Parameters(item))
    /\ HasQuality(item) => item.segments[MediaEnd(item)].value \in 0 .. 1000
    /\ \A i \in DOMAIN Extensions(item) : validateAcceptExtension(Extensions(item)[i])

\* acceptRange, as parseAccept fills it in.
acceptRange(item) ==
    [ range |-> item.range,
      parameters |-> {<<p.name, p.value>> : p \in Range(Parameters(item))},
      quality |-> IF HasQuality(item) THEN item.segments[MediaEnd(item)].value ELSE 1000,
      specificity |-> Cardinality({i \in 1 .. 2 : item.range[i] # Star}) ]

\* matches: a declared type has no parameters, so a parameter of the range only
\* agrees with it when it is empty.
matches(range, type) ==
    /\ \A i \in 1 .. 2 : range.range[i] \in {Star, type[i]}
    /\ \A parameter \in range.parameters : parameter[2] = ""

\* Mutant: the first range that matches decides.
PrecedesByOrder(ranges, i, j) == i < j

\* Lines 52-56: range i decides rather than range j.
Precedes(ranges, i, j) ==
    LET left == ranges[i]
        right == ranges[j]
        more == Cardinality(left.parameters) - Cardinality(right.parameters)
    IN  \/ left.specificity > right.specificity
        \/ left.specificity = right.specificity /\ more > 0
        \/ left.specificity = right.specificity /\ more = 0 /\ i < j

\* The quality of a declared type; 0 when no range matches.
Quality(ranges, type) ==
    LET fitting == {i \in DOMAIN ranges : matches(ranges[i], type)}
    IN  IF fitting = {} THEN 0
        ELSE ranges[CHOOSE i \in fitting : \A j \in fitting \ {i} : Precedes(ranges, i, j)].quality

\* Lines 43-65: the first declared type of the highest positive quality.  A
\* type without a slash has no second part to compare (line 49).
Best(ranges, types) ==
    LET quality == [k \in DOMAIN types |-> Quality(ranges, types[k])]
        best == Max(Range(quality))
    IN  IF \E k \in DOMAIN types : Len(types[k]) < 2 THEN Panic
        ELSE IF best = 0 THEN NotAcceptable
        ELSE types[CHOOSE k \in DOMAIN types :
                quality[k] = best /\ \A l \in 1 .. k - 1 : quality[l] < best]

selectRepresentation(header, response) ==
    IF ~response.negotiateAccept \/ header = <<>> THEN response.contentType
    ELSE IF header = Oversized \/ Len(header) > MaxAcceptItems \/ \E i \in DOMAIN header : ~validItem(header[i])
    THEN NotAcceptable
    ELSE Best([i \in DOMAIN header |-> acceptRange(header[i])], declared(response))

----------------------------------------------------------------------------
(* The reference: what docs/configuration.md promises, in the words of the *)
(* standard: an exact range before a type wildcard before */*.             *)

RangesFor(type) == <<type, <<type[1], Star>>, <<Star, Star>>>>

\* The items that speak about a type at one level, without parameters.
Plain(header, range) ==
    {i \in DOMAIN header : header[i].range = range /\ Parameters(header[i]) = <<>>}

\* What the client makes of a type.
Wanted(header, type) ==
    LET levels == {l \in 1 .. 3 : Plain(header, RangesFor(type)[l]) # {}}
        item == header[Min(Plain(header, RangesFor(type)[Min(levels)]))]
    IN  IF levels = {} THEN 0
        ELSE IF HasQuality(item) THEN item.segments[MediaEnd(item)].value
        ELSE 1000
=============================================================================
