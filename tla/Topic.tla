------------------------------- MODULE Topic -------------------------------
(***************************************************************************)
(* TopicFilterBuf and TopicNameBuf: building them level by level, and      *)
(* matching a name against a filter.  A level is a string of which only    *)
(* its kind and its length matter; a topic string is the sequence of the   *)
(* levels that splitting it at the separator gives.                        *)
(***************************************************************************)
EXTENDS Integers, Sequences, SequencesExt

CONSTANTS MAXIMUM_TOPIC_BYTE_LENGTH,
          Paths,         \* levels that are plain, non-empty text
          Joined,        \* plain text with a separator inside
          Invalid,       \* levels with a null character or wildcards mixed with text
          Bytes,         \* the length of each of these
          MaxInputLevels \* bound: levels of one input string

Levels == Paths \cup {"", "+", "#", Invalid}

ASSUME TopicAssumption ==
    /\ MAXIMUM_TOPIC_BYTE_LENGTH \in Nat
    /\ MaxInputLevels \in Nat \ {0}
    /\ Bytes \in [Paths \cup {Joined, Invalid} -> Nat \ {0}]
    /\ Paths \cap {"", "+", "#", Joined, Invalid} = {}
    /\ Joined # Invalid

VARIABLES filter,  \* a TopicFilterBuf, as [levels, has_end_wildcard]
          name,    \* the levels of a TopicNameBuf
          outcome  \* of the last call: its error or "Ok"

vars == <<filter, name, outcome>>

Inputs == BoundedSeq(Levels, MaxInputLevels) \ {<<>>}

ByteLength(level) == IF level = "" THEN 0 ELSE IF level \in {"+", "#"} THEN 1 ELSE Bytes[level]

\* len(): every level counts one byte more than its text.
len(levels) == FoldLeft(LAMBDA sum, level : sum + ByteLength(level) + 1, 0, levels)

\* The length of the topic string: one separator less than levels.
StringLength(levels) == len(levels) - 1

Ok == "Ok"

-----------------------------------------------------------------------------
\* TryFrom<String> for TopicFilterLevel and for TopicPath: the error, if any.
FilterLevelError(level) ==
    IF level = Joined THEN "LevelContainsSeperator"
    ELSE IF level = Invalid THEN "InvalidLevel" ELSE "Ok"

PathError(level) == IF level \in {"+", "#", Invalid} THEN "InvalidLevel" ELSE "Ok"

\* Mutant: the new level's own text is not counted.
WouldExceedLengthIgnoringLevel(levels, level) ==
    len(levels) + 1 > MAXIMUM_TOPIC_BYTE_LENGTH

WouldExceedLength(levels, level) ==
    len(levels) + 1 + ByteLength(level) > MAXIMUM_TOPIC_BYTE_LENGTH

\* Mutant: the flag is never set.
AppendFilterLevelForgetsWildcard(buf, level) ==
    IF FilterLevelError(level) # "Ok"
    THEN [buf |-> buf, outcome |-> FilterLevelError(level)]
    ELSE IF WouldExceedLength(buf.levels, level)
    THEN [buf |-> buf, outcome |-> "WouldExceedLength"]
    ELSE [buf |-> [buf EXCEPT !.levels = Append(@, level)], outcome |-> Ok]

\* TopicFilterBuf::append_single: the buffer it leaves and its outcome.
AppendFilterLevel(buf, level) ==
    LET refuse(error) == [buf |-> buf, outcome |-> error]
    IN  IF buf.has_end_wildcard THEN refuse("CannotAppendToMultilevelWildcard")
        ELSE IF FilterLevelError(level) # "Ok" THEN refuse(FilterLevelError(level))
        ELSE IF WouldExceedLength(buf.levels, level) THEN refuse("WouldExceedLength")
        ELSE [buf     |-> [levels |-> Append(buf.levels, level),
                           has_end_wildcard |-> level = "#"],
              outcome |-> Ok]

\* TopicNameBuf::append_single.
AppendNameLevel(levels, level) ==
    LET refuse(error) == [buf |-> levels, outcome |-> error]
    IN  IF PathError(level) # "Ok" THEN refuse(PathError(level))
        ELSE IF WouldExceedLength(levels, level) THEN refuse("WouldExceedLength")
        ELSE [buf |-> Append(levels, level), outcome |-> Ok]

\* append: append_single until one fails; what was appended before stays.
AppendAll(AppendSingle(_, _), buf, input) ==
    FoldLeft(LAMBDA acc, level : IF acc.outcome = Ok THEN AppendSingle(acc.buf, level) ELSE acc,
             [buf |-> buf, outcome |-> Ok], input)

-----------------------------------------------------------------------------
\* Mutant: a name that ends with the filter's levels matches, a longer or
\* shorter one does not.
MatchesSameLength(n, f) ==
    /\ Len(n) = Len(f.levels) \/ f.levels[Len(f.levels)] = "#"
    /\ \A i \in 1 .. Len(f.levels) :
          f.levels[i] \in {"+", "#"} \/ (i <= Len(n) /\ n[i] = f.levels[i])
    /\ Len(n) >= Len(f.levels)

\* TopicNameBuf::matches: the loop takes a level of each side until one side
\* has none left, which counts as a match.
matches(n, f) ==
    LET levels == f.levels
        shorter == IF Len(n) < Len(levels) THEN Len(n) ELSE Len(levels)
        from[i \in 1 .. shorter + 1] ==
            \/ i > shorter
            \/ levels[i] = "#"
            \/ levels[i] = "+" /\ from[i + 1]
            \/ levels[i] = "" /\ n[i] = "" /\ from[i + 1]
            \/ /\ levels[i] \in Paths /\ levels[i] = n[i]
               /\ (i < Len(levels) /\ levels[i + 1] = "#") \/ from[i + 1]
    IN  levels[1] = "#" \/ from[1]

\* The rule of the MQTT specification, 4.7.1: level by level, "+" for any
\* one level, "#" for the parent level and all levels below it.
IsWild(f) == f.levels[Len(f.levels)] = "#"

FixedLevels(f) == IF IsWild(f) THEN Len(f.levels) - 1 ELSE Len(f.levels)

LengthsFit(n, f) ==
    IF IsWild(f) THEN Len(n) >= FixedLevels(f) ELSE Len(n) = FixedLevels(f)

TopicMatches(n, f) ==
    /\ LengthsFit(n, f)
    /\ \A i \in 1 .. FixedLevels(f) : f.levels[i] \in {"+", n[i]}

-----------------------------------------------------------------------------
EmptyFilter == [levels |-> <<>>, has_end_wildcard |-> FALSE]

\* new: on an error there is no buffer.
NewFilter(input) ==
    LET result == AppendAll(AppendFilterLevel, EmptyFilter, input)
    IN  /\ filter = EmptyFilter
        /\ outcome' = IF input = <<"">> THEN "Empty" ELSE result.outcome
        /\ filter' = IF outcome' = Ok THEN result.buf ELSE filter
        /\ UNCHANGED name

NewName(input) ==
    LET result == AppendAll(AppendNameLevel, <<>>, input)
    IN  /\ name = <<>>
        /\ outcome' = IF input = <<"">> THEN "Empty" ELSE result.outcome
        /\ name' = IF outcome' = Ok THEN result.buf ELSE name
        /\ UNCHANGED filter

ExtendFilter(input) ==
    LET result == AppendAll(AppendFilterLevel, filter, input)
    IN  filter # EmptyFilter /\ filter' = result.buf /\ outcome' = result.outcome /\ UNCHANGED name

ExtendName(input) ==
    LET result == AppendAll(AppendNameLevel, name, input)
    IN  name # <<>> /\ name' = result.buf /\ outcome' = result.outcome /\ UNCHANGED filter

\* append_single with a level that no splitting gives.
AppendJoinedLevel ==
    \/ LET result == AppendFilterLevel(filter, Joined)
       IN  filter # EmptyFilter /\ filter' = result.buf /\ outcome' = result.outcome /\ UNCHANGED name
    \/ LET result == AppendNameLevel(name, Joined)
       IN  name # <<>> /\ name' = result.buf /\ outcome' = result.outcome /\ UNCHANGED filter

\* EmptyFilter and <<>> stand for "not built yet".
Init == filter = EmptyFilter /\ name = <<>> /\ outcome = Ok

Next ==
    \/ \E input \in Inputs : NewFilter(input)
    \/ \E input \in Inputs : NewName(input)
    \/ \E input \in Inputs : ExtendFilter(input)
    \/ \E input \in Inputs : ExtendName(input)
    \/ AppendJoinedLevel

Spec == Init /\ [][Next]_vars

-----------------------------------------------------------------------------
Built == filter # EmptyFilter /\ name # <<>>

(***************************************************************************)
(* However a filter was put together, failed appends included, "#" is only *)
(* ever its last level, so that first() and peek() see every one of them,  *)
(* and no level of it holds a separator, as levels of a name may.          *)
(***************************************************************************)
FilterIsWellFormed ==
    /\ \A i \in 1 .. Len(filter.levels) - 1 : filter.levels[i] # "#"
    /\ Joined \notin ToSet(filter.levels)

(***************************************************************************)
(* No sequence of appends makes a topic string as long as                  *)
(* MAXIMUM_TOPIC_BYTE_LENGTH, which the separator that is counted for the  *)
(* first level takes away from the maximum.                                *)
(***************************************************************************)
LengthIsBounded ==
    /\ filter # EmptyFilter => StringLength(filter.levels) < MAXIMUM_TOPIC_BYTE_LENGTH
    /\ name # <<>> => StringLength(name) < MAXIMUM_TOPIC_BYTE_LENGTH

(***************************************************************************)
(* matches finds every match of the specification, of a parent level and   *)
(* of empty levels too, and where name and filter have levels for each     *)
(* other to the end it finds no other.                                     *)
(***************************************************************************)
MatchesWhereLengthsFit ==
    Built =>
        /\ TopicMatches(name, filter) => matches(name, filter)
        /\ LengthsFit(name, filter) /\ matches(name, filter) => TopicMatches(name, filter)

(***************************************************************************)
(* matches is the rule of the specification, which the docs of both types  *)
(* refer to ("As defined in 4.7.3").                                       *)
(***************************************************************************)
MatchesAsSpecified ==
    Built => (matches(name, filter) <=> TopicMatches(name, filter))
=============================================================================
