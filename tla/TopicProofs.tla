---------------------------- MODULE TopicProofs ----------------------------
(***************************************************************************)
(* Topics of any number of levels, of any length, put together by any      *)
(* appends: the filter stays well formed (FilterStaysWellFormed), no topic *)
(* grows past the limit (LengthStaysBounded), and matches follows the rule *)
(* of MQTT where no level is left over (MatchesWhereNothingIsLeft).        *)
(* append and len are folds over a sequence: what a fold computes is       *)
(* proved first, by induction over the number of its elements.             *)
(***************************************************************************)
EXTENDS Topic, SequenceTheorems, WellFoundedInduction, TLAPS

-----------------------------------------------------------------------------
(***************************************************************************)
(* Induction over the natural numbers, for a set.                           *)
(***************************************************************************)
Below == {pair \in Nat \X Nat : pair[1] < pair[2]}

\* A set that has 0 and every successor has every number.
LEMMA SetInduction ==
    ASSUME NEW S, 0 \in S, \A n \in Nat : n \in S => n + 1 \in S
    PROVE  Nat \subseteq S
<1>1. IsWellFoundedOn(Below, Nat)
  <2>1. OpToRel(<, Nat) = Below
      BY DEF OpToRel, Below
  <2> QED BY <2>1, NatLessThanWellFounded, Zenon
<1> SUFFICES ASSUME Nat \ S # {} PROVE FALSE
    OBVIOUS
<1>2. PICK x \in Nat \ S : \A y \in Nat \ S : ~(<<y, x>> \in Below)
    BY <1>1, WFMin
<1>3. x # 0 /\ x - 1 \in Nat /\ x - 1 \notin S
    OBVIOUS
<1>4. <<x - 1, x>> \in Below
    BY <1>3 DEF Below
<1> QED BY <1>2, <1>3, <1>4

-----------------------------------------------------------------------------
(***************************************************************************)
(* Folds.  FoldLeft recurs over the sets of indices of its sequence, and   *)
(* takes the greatest index of a set first.                                *)
(***************************************************************************)
HasGreatest(s) == s = {} \/ \E x \in s : \A y \in s : x >= y

\* Every set of indices has a greatest one.
LEMMA GreatestExists ==
    ASSUME NEW n \in Nat
    PROVE  \A s \in SUBSET (1 .. n) : HasGreatest(s)
<1> DEFINE S == {m \in Nat : \A s \in SUBSET (1 .. m) : HasGreatest(s)}
<1>1. 0 \in S
  <2>1. 1 .. 0 = {}
      OBVIOUS
  <2> QED BY <2>1 DEF HasGreatest
<1>2. ASSUME NEW m \in Nat, m \in S
      PROVE  m + 1 \in S
  <2> SUFFICES ASSUME NEW s \in SUBSET (1 .. m + 1)
               PROVE  HasGreatest(s)
      OBVIOUS
  <2>1. CASE m + 1 \in s
    <3>1. \A y \in s : m + 1 >= y
        OBVIOUS
    <3> QED BY <2>1, <3>1 DEF HasGreatest
  <2>2. CASE m + 1 \notin s
    <3>1. s \in SUBSET (1 .. m)
        BY <2>2
    <3> QED BY <1>2, <3>1
  <2> QED BY <2>1, <2>2
<1> HIDE DEF S
<1>3. Nat \subseteq S
    BY <1>1, <1>2, SetInduction
<1> QED BY <1>3 DEF S

\* Max is that index.
LEMMA MaxIsGreatest ==
    ASSUME NEW n \in Nat, NEW s \in SUBSET (1 .. n), s # {}
    PROVE  Max(s) \in s /\ Max(s) \in 1 .. n /\ \A y \in s : Max(s) >= y
<1>1. \E x \in s : \A y \in s : x >= y
    BY GreatestExists DEF HasGreatest
<1>2. Max(s) \in s /\ \A y \in s : Max(s) >= y
    BY <1>1 DEF Max
<1> QED BY <1>2

\* The greatest index of the first k is k.
LEMMA MaxOfFirst ==
    ASSUME NEW k \in Nat, k # 0
    PROVE  /\ 1 .. k # {}
           /\ Max(1 .. k) = k
           /\ (1 .. k) \ {Max(1 .. k)} = 1 .. k - 1
<1>1. k \in 1 .. k
    OBVIOUS
<1>2. Max(1 .. k) \in 1 .. k /\ \A y \in 1 .. k : Max(1 .. k) >= y
    BY <1>1, MaxIsGreatest
<1>3. Max(1 .. k) = k
    BY <1>1, <1>2
<1>4. (1 .. k) \ {k} = 1 .. k - 1
    OBVIOUS
<1> QED BY <1>1, <1>3, <1>4

\* it is the fold of step over the indices up to n, from base.
IsFold(it, step, base, n) ==
    \A s \in SUBSET (1 .. n) :
        it[s] = IF s = {} THEN base ELSE step[<<Max(s), it[s \ {Max(s)}]>>]

HasFold(S, step, base, n) == \E it \in [SUBSET (1 .. n) -> S] : IsFold(it, step, base, n)

\* A fold whose steps stay in a set exists, and stays there.
LEMMA FoldExists ==
    ASSUME NEW S, NEW base \in S, NEW n \in Nat, NEW step \in [(1 .. n) \X S -> S]
    PROVE  HasFold(S, step, base, n)
<1> DEFINE T == {m \in Nat : m <= n => HasFold(S, step, base, m)}
<1>1. 0 \in T
  <2> DEFINE it == [s \in SUBSET (1 .. 0) |-> base]
  <2>1. \A s \in SUBSET (1 .. 0) : s = {}
      OBVIOUS
  <2>2. it \in [SUBSET (1 .. 0) -> S]
      OBVIOUS
  <2>3. IsFold(it, step, base, 0)
      BY <2>1 DEF IsFold
  <2>4. HasFold(S, step, base, 0)
      BY <2>2, <2>3 DEF HasFold
  <2> QED BY <2>4
<1>2. ASSUME NEW m \in Nat, m \in T
      PROVE  m + 1 \in T
  <2> SUFFICES ASSUME m + 1 <= n PROVE HasFold(S, step, base, m + 1)
      OBVIOUS
  <2>1. PICK f \in [SUBSET (1 .. m) -> S] : IsFold(f, step, base, m)
    <3>1. HasFold(S, step, base, m)
        BY <1>2
    <3> QED BY <3>1 DEF HasFold
  <2> DEFINE it == [s \in SUBSET (1 .. m + 1) |->
                        IF m + 1 \in s THEN step[<<m + 1, f[s \ {m + 1}]>>] ELSE f[s]]
  <2>2. \A s \in SUBSET (1 .. m + 1) : s \ {m + 1} \in SUBSET (1 .. m)
      OBVIOUS
  <2>3. \A s \in SUBSET (1 .. m) : s \in SUBSET (1 .. m + 1) /\ m + 1 \notin s /\ it[s] = f[s]
      OBVIOUS
  <2>4. ASSUME NEW s \in SUBSET (1 .. m + 1)
        PROVE  /\ it[s] \in S
               /\ it[s] = IF s = {} THEN base ELSE step[<<Max(s), it[s \ {Max(s)}]>>]
    <3>1. CASE m + 1 \in s
      <4>1. Max(s) = m + 1
        <5>1. Max(s) \in 1 .. m + 1 /\ Max(s) >= m + 1
            BY <3>1, MaxIsGreatest
        <5> QED BY <5>1
      <4>2. s \ {m + 1} \in SUBSET (1 .. m)
          BY <2>2
      <4>3. it[s \ {m + 1}] = f[s \ {m + 1}] /\ f[s \ {m + 1}] \in S
          BY <4>2, <2>3
      <4>4. it[s] = step[<<m + 1, f[s \ {m + 1}]>>]
          BY <3>1
      <4>5. <<m + 1, f[s \ {m + 1}]>> \in (1 .. n) \X S
          BY <4>3
      <4>6. step[<<m + 1, f[s \ {m + 1}]>>] \in S
          BY <4>5
      <4> QED BY <3>1, <4>1, <4>3, <4>4, <4>6
    <3>2. CASE m + 1 \notin s
      <4>1. s \in SUBSET (1 .. m)
          BY <3>2
      <4>2. s \ {Max(s)} \in SUBSET (1 .. m)
          BY <4>1
      <4>3. it[s] = f[s] /\ it[s \ {Max(s)}] = f[s \ {Max(s)}]
          BY <4>1, <4>2, <2>3
      <4>4. f[s] = IF s = {} THEN base ELSE step[<<Max(s), f[s \ {Max(s)}]>>]
          BY <2>1, <4>1 DEF IsFold
      <4> QED BY <4>1, <4>3, <4>4
    <3> QED BY <3>1, <3>2
  <2>5. it \in [SUBSET (1 .. m + 1) -> S]
      BY <2>4
  <2>6. IsFold(it, step, base, m + 1)
      BY <2>4 DEF IsFold
  <2> QED BY <2>5, <2>6 DEF HasFold
<1> HIDE DEF T
<1>3. Nat \subseteq T
    BY <1>1, <1>2, SetInduction
<1>4. n \in T
    BY <1>3
<1> QED BY <1>4 DEF T

\* What holds of the base and is kept by every step holds of the fold.
LEMMA FoldKeeps ==
    ASSUME NEW S, NEW n \in Nat, NEW it, it[{}] \in S,
           \A s \in SUBSET (1 .. n) : s # {} /\ it[s \ {Max(s)}] \in S => it[s] \in S
    PROVE  it[1 .. n] \in S
<1> DEFINE T == {k \in Nat : k <= n => it[1 .. k] \in S}
<1>1. 0 \in T
  <2>1. 1 .. 0 = {}
      OBVIOUS
  <2> QED BY <2>1
<1>2. ASSUME NEW k \in Nat, k \in T
      PROVE  k + 1 \in T
  <2> SUFFICES ASSUME k + 1 <= n PROVE it[1 .. k + 1] \in S
      OBVIOUS
  <2>1. PICK m \in 1 .. n : m = k + 1
      OBVIOUS
  <2>2. m \in Nat /\ m # 0 /\ m - 1 = k /\ 1 .. m \in SUBSET (1 .. n)
      BY <2>1
  <2>3. 1 .. m # {} /\ (1 .. m) \ {Max(1 .. m)} = 1 .. m - 1
      BY <2>2, MaxOfFirst, Zenon
  <2>4. it[(1 .. m) \ {Max(1 .. m)}] \in S
    <3>1. it[1 .. k] \in S
        BY <1>2
    <3>2. (1 .. m) \ {Max(1 .. m)} = 1 .. k
        BY <2>2, <2>3
    <3> QED BY <3>1, <3>2, Zenon
  <2>5. it[1 .. m] \in S
      BY <2>2, <2>3, <2>4
  <2> QED BY <2>1, <2>5
<1> HIDE DEF T
<1>3. Nat \subseteq T
    BY <1>1, <1>2, SetInduction
<1>4. n \in T
    BY <1>3
<1> QED BY <1>4 DEF T

-----------------------------------------------------------------------------
(***************************************************************************)
(* The length of a topic.                                                   *)
(***************************************************************************)
Texts == Levels \cup {Joined}

\* A level has a length.
LEMMA ByteLengthIsNat == \A level \in Texts : ByteLength(level) \in Nat
BY TopicAssumption DEF Texts, Levels, ByteLength

\* it gives the length of the levels at a set of indices.
Lengths(it, levels) ==
    it = [s \in SUBSET DOMAIN levels |->
             IF s = {} THEN 0 ELSE it[s \ {Max(s)}] + ByteLength(levels[Max(s)]) + 1]

\* The definition of len, without the operators of its fold.
LEMMA LenUnfolds ==
    ASSUME NEW levels
    PROVE  len(levels) = (CHOOSE it : Lengths(it, levels))[DOMAIN levels]
BY DEF len, FoldLeft, MapThenFoldSet, Lengths

\* it gives the length of the first levels, however many.
RunningLength(it, levels) ==
    /\ it[1 .. 0] = 0
    /\ \A k \in 1 .. Len(levels) :
          it[1 .. k] = it[1 .. k - 1] + ByteLength(levels[k]) + 1

\* len adds up the levels one by one.
LEMMA LenAddsUp ==
    ASSUME NEW levels \in Seq(Texts)
    PROVE  \E it : RunningLength(it, levels) /\ len(levels) = it[1 .. Len(levels)]
<1> DEFINE n == Len(levels)
           step == [p \in (1 .. n) \X Nat |-> p[2] + ByteLength(levels[p[1]]) + 1]
<1>1. n \in Nat /\ DOMAIN levels = 1 .. n /\ \A k \in 1 .. n : ByteLength(levels[k]) \in Nat
    BY ByteLengthIsNat
<1> HIDE DEF n
<1>2. step \in [(1 .. n) \X Nat -> Nat]
    BY <1>1
<1>3. \A k \in 1 .. n, x \in Nat : step[<<k, x>>] = x + ByteLength(levels[k]) + 1
    OBVIOUS
<1> HIDE DEF step
<1>4. PICK f \in [SUBSET (1 .. n) -> Nat] : IsFold(f, step, 0, n)
  <2>1. HasFold(Nat, step, 0, n)
      BY <1>1, <1>2, FoldExists
  <2> QED BY <2>1 DEF HasFold
<1>5. Lengths(f, levels)
  <2>1. ASSUME NEW s \in SUBSET (1 .. n)
        PROVE  f[s] = IF s = {} THEN 0 ELSE f[s \ {Max(s)}] + ByteLength(levels[Max(s)]) + 1
    <3>1. CASE s = {}
        BY <1>4, <3>1 DEF IsFold
    <3>2. CASE s # {}
      <4>1. Max(s) \in 1 .. n
          BY <1>1, <3>2, MaxIsGreatest
      <4>2. f[s \ {Max(s)}] \in Nat
        <5>1. s \ {Max(s)} \in SUBSET (1 .. n)
            OBVIOUS
        <5> QED BY <5>1, <1>4
      <4>3. f[s] = step[<<Max(s), f[s \ {Max(s)}]>>]
          BY <1>4, <3>2 DEF IsFold
      <4> QED BY <1>3, <3>2, <4>1, <4>2, <4>3
    <3> QED BY <3>1, <3>2
  <2> QED BY <1>1, <1>4, <2>1 DEF Lengths
<1>6. PICK it : it = (CHOOSE g : Lengths(g, levels))
    OBVIOUS
<1>7. Lengths(it, levels)
    BY <1>5, <1>6, Zenon
<1>8. len(levels) = it[1 .. n]
    BY <1>1, <1>6, LenUnfolds
<1>9. RunningLength(it, levels)
  <2>0. \A s \in SUBSET (1 .. n) :
           it[s] = IF s = {} THEN 0 ELSE it[s \ {Max(s)}] + ByteLength(levels[Max(s)]) + 1
      BY <1>1, <1>7 DEF Lengths
  <2>1. it[1 .. 0] = 0
    <3>1. 1 .. 0 = {} /\ 1 .. 0 \in SUBSET (1 .. n)
        OBVIOUS
    <3> QED BY <2>0, <3>1
  <2>2. ASSUME NEW k \in 1 .. n
        PROVE  it[1 .. k] = it[1 .. k - 1] + ByteLength(levels[k]) + 1
    <3>1. 1 .. k # {} /\ Max(1 .. k) = k /\ (1 .. k) \ {Max(1 .. k)} = 1 .. k - 1
      <4>1. k \in Nat /\ k # 0
          BY <1>1
      <4> QED BY <4>1, MaxOfFirst, Zenon
    <3>2. 1 .. k \in SUBSET (1 .. n)
        BY <1>1
    <3>3. it[1 .. k] = it[(1 .. k) \ {Max(1 .. k)}] + ByteLength(levels[Max(1 .. k)]) + 1
        BY <2>0, <3>1, <3>2
    <3> QED BY <3>1, <3>3
  <2> QED BY <2>1, <2>2 DEF RunningLength, n
<1> QED BY <1>8, <1>9 DEF n

\* A running length is a number, for every number of levels.
LEMMA RunningLengthIsNat ==
    ASSUME NEW levels \in Seq(Texts), NEW it, RunningLength(it, levels)
    PROVE  \A k \in 0 .. Len(levels) : it[1 .. k] \in Nat
<1> DEFINE S == {k \in Nat : k <= Len(levels) => it[1 .. k] \in Nat}
<1>1. 0 \in S
    BY DEF RunningLength
<1>2. ASSUME NEW k \in Nat, k \in S
      PROVE  k + 1 \in S
  <2> SUFFICES ASSUME k + 1 <= Len(levels)
               PROVE  it[1 .. k + 1] \in Nat
      OBVIOUS
  <2>1. k + 1 \in 1 .. Len(levels) /\ k + 1 - 1 = k /\ it[1 .. k] \in Nat
      BY <1>2
  <2>2. ByteLength(levels[k + 1]) \in Nat
      BY <2>1, ByteLengthIsNat
  <2>3. it[1 .. k + 1] = it[1 .. k] + ByteLength(levels[k + 1]) + 1
      BY <2>1 DEF RunningLength
  <2> QED BY <2>1, <2>2, <2>3
<1> HIDE DEF S
<1>3. Nat \subseteq S
    BY <1>1, <1>2, SetInduction
<1> QED BY <1>3 DEF S

\* Running lengths agree on the levels that two topics begin with.
LEMMA RunningLengthOfPrefix ==
    ASSUME NEW levels \in Seq(Texts), NEW longer \in Seq(Texts), Len(levels) <= Len(longer),
           \A i \in 1 .. Len(levels) : longer[i] = levels[i],
           NEW f, RunningLength(f, levels), NEW g, RunningLength(g, longer)
    PROVE  f[1 .. Len(levels)] = g[1 .. Len(levels)]
<1> DEFINE S == {k \in Nat : k <= Len(levels) => f[1 .. k] = g[1 .. k]}
<1>1. 0 \in S
    BY DEF RunningLength
<1>2. ASSUME NEW k \in Nat, k \in S
      PROVE  k + 1 \in S
  <2> SUFFICES ASSUME k + 1 <= Len(levels)
               PROVE  f[1 .. k + 1] = g[1 .. k + 1]
      OBVIOUS
  <2>1. /\ k + 1 \in 1 .. Len(levels) /\ k + 1 \in 1 .. Len(longer)
        /\ k + 1 - 1 = k /\ f[1 .. k] = g[1 .. k]
      BY <1>2
  <2>2. longer[k + 1] = levels[k + 1]
      BY <2>1
  <2>3. f[1 .. k + 1] = f[1 .. k] + ByteLength(levels[k + 1]) + 1
      BY <2>1 DEF RunningLength
  <2>4. g[1 .. k + 1] = g[1 .. k] + ByteLength(longer[k + 1]) + 1
      BY <2>1 DEF RunningLength
  <2> QED BY <2>1, <2>2, <2>3, <2>4
<1> HIDE DEF S
<1>3. Nat \subseteq S
    BY <1>1, <1>2, SetInduction
<1>4. Len(levels) \in S
    BY <1>3
<1> QED BY <1>4 DEF S

\* What append_single adds to the length.
LEMMA LenOfAppend ==
    ASSUME NEW levels \in Seq(Texts), NEW level \in Texts
    PROVE  /\ len(levels) \in Nat
           /\ len(Append(levels, level)) = len(levels) + ByteLength(level) + 1
<1> DEFINE longer == Append(levels, level)
<1>1. /\ longer \in Seq(Texts) /\ Len(longer) = Len(levels) + 1 /\ Len(levels) \in Nat
      /\ \A i \in 1 .. Len(levels) : longer[i] = levels[i]
      /\ longer[Len(levels) + 1] = level
    OBVIOUS
<1> HIDE DEF longer
<1>2. PICK f : RunningLength(f, levels) /\ len(levels) = f[1 .. Len(levels)]
    BY LenAddsUp
<1>3. PICK g : RunningLength(g, longer) /\ len(longer) = g[1 .. Len(longer)]
    BY <1>1, LenAddsUp
<1>4. f[1 .. Len(levels)] = g[1 .. Len(levels)]
    BY <1>1, <1>2, <1>3, RunningLengthOfPrefix
<1>5. g[1 .. Len(longer)] = g[1 .. Len(levels)] + ByteLength(level) + 1
  <2>1. Len(longer) \in 1 .. Len(longer) /\ Len(longer) - 1 = Len(levels)
      BY <1>1
  <2> QED BY <1>1, <1>3, <2>1 DEF RunningLength
<1>6. len(levels) \in Nat
    BY <1>1, <1>2, RunningLengthIsNat
<1> QED BY <1>2, <1>3, <1>4, <1>5, <1>6 DEF longer

\* No levels, no length.
LEMMA LenOfNothing == len(<<>>) = 0
<1>1. <<>> \in Seq(Texts) /\ Len(<<>>) = 0
    OBVIOUS
<1>2. PICK it : RunningLength(it, <<>>) /\ len(<<>>) = it[1 .. Len(<<>>)]
    BY <1>1, LenAddsUp
<1> QED BY <1>1, <1>2 DEF RunningLength

-----------------------------------------------------------------------------
(***************************************************************************)
(* Appending to a filter and to a name.                                     *)
(***************************************************************************)
FilterLevels == (Paths \cup {"", "+", "#"}) \ {Joined}
NameLevels == Paths \cup {"", Joined}
Outcomes == {Ok, "CannotAppendToMultilevelWildcard", "LevelContainsSeperator", "InvalidLevel",
             "WouldExceedLength", "Empty"}

\* "#" is at most the last level of a filter, and the flag says whether it is.
WildcardIsLast(buf) ==
    /\ \A i \in 1 .. Len(buf.levels) - 1 : buf.levels[i] # "#"
    /\ buf.has_end_wildcard <=> buf.levels # <<>> /\ buf.levels[Len(buf.levels)] = "#"

\* What every TopicFilterBuf and every TopicNameBuf is, the empty one included.
Filters ==
    {buf \in [levels : Seq(FilterLevels), has_end_wildcard : BOOLEAN] :
        WildcardIsLast(buf) /\ len(buf.levels) <= MAXIMUM_TOPIC_BYTE_LENGTH}
Names == {levels \in Seq(NameLevels) : len(levels) <= MAXIMUM_TOPIC_BYTE_LENGTH}

\* Levels of filters and of names are texts.
LEMMA LevelsAreTexts ==
    /\ FilterLevels \subseteq Texts /\ NameLevels \subseteq Texts
    /\ Seq(FilterLevels) \subseteq Seq(Texts) /\ Seq(NameLevels) \subseteq Seq(Texts)
<1>1. FilterLevels \subseteq Texts /\ NameLevels \subseteq Texts
    BY DEF FilterLevels, NameLevels, Texts, Levels
<1> QED BY <1>1

\* A level that TryFrom accepts is one a filter, or a name, may have.
LEMMA AcceptedLevels ==
    ASSUME NEW level \in Texts
    PROVE  /\ FilterLevelError(level) \in Outcomes /\ PathError(level) \in Outcomes
           /\ FilterLevelError(level) = "Ok" => level \in FilterLevels
           /\ PathError(level) = "Ok" => level \in NameLevels
BY DEF FilterLevelError, PathError, Outcomes, Texts, Levels, FilterLevels, NameLevels, Ok

\* A level that does not exceed the length leaves the topic within it.
LEMMA WithinLength ==
    ASSUME NEW levels \in Seq(Texts), NEW level \in Texts, ~WouldExceedLength(levels, level)
    PROVE  len(Append(levels, level)) <= MAXIMUM_TOPIC_BYTE_LENGTH
<1>1. /\ len(levels) \in Nat /\ ByteLength(level) \in Nat
      /\ len(Append(levels, level)) = len(levels) + ByteLength(level) + 1
    BY LenOfAppend, ByteLengthIsNat
<1>2. ~(len(levels) + 1 + ByteLength(level) > MAXIMUM_TOPIC_BYTE_LENGTH)
    BY DEF WouldExceedLength
<1>3. MAXIMUM_TOPIC_BYTE_LENGTH \in Nat
    BY TopicAssumption
<1> QED BY <1>1, <1>2, <1>3

\* append_single keeps a filter a filter, whatever its outcome.
LEMMA AppendFilterLevelKeeps ==
    ASSUME NEW buf \in Filters, NEW level \in Texts
    PROVE  AppendFilterLevel(buf, level) \in [buf : Filters, outcome : Outcomes]
<1>1. /\ buf.levels \in Seq(FilterLevels) /\ buf.has_end_wildcard \in BOOLEAN
      /\ WildcardIsLast(buf)
    BY DEF Filters
<1>2. CASE buf.has_end_wildcard
    BY <1>2 DEF AppendFilterLevel, Outcomes
<1>3. CASE ~buf.has_end_wildcard /\ FilterLevelError(level) # "Ok"
    BY <1>3, AcceptedLevels DEF AppendFilterLevel
<1>4. CASE /\ ~buf.has_end_wildcard /\ FilterLevelError(level) = "Ok"
           /\ WouldExceedLength(buf.levels, level)
    BY <1>4 DEF AppendFilterLevel, Outcomes
<1>5. CASE /\ ~buf.has_end_wildcard /\ FilterLevelError(level) = "Ok"
           /\ ~WouldExceedLength(buf.levels, level)
  <2> DEFINE longer == [levels |-> Append(buf.levels, level), has_end_wildcard |-> level = "#"]
  <2>1. AppendFilterLevel(buf, level) = [buf |-> longer, outcome |-> Ok]
      BY <1>5 DEF AppendFilterLevel
  <2>2. level \in FilterLevels
      BY <1>5, AcceptedLevels
  <2>3. longer \in [levels : Seq(FilterLevels), has_end_wildcard : BOOLEAN]
      BY <1>1, <2>2
  <2>4. len(longer.levels) <= MAXIMUM_TOPIC_BYTE_LENGTH
      BY <1>1, <1>5, LevelsAreTexts, WithinLength
  <2>5. WildcardIsLast(longer)
    <3>1. /\ Len(longer.levels) = Len(buf.levels) + 1 /\ Len(buf.levels) \in Nat
          /\ \A i \in 1 .. Len(buf.levels) : longer.levels[i] = buf.levels[i]
          /\ longer.levels[Len(longer.levels)] = level
          /\ longer.levels # <<>>
        BY <1>1, <2>2
    <3>2. \A i \in 1 .. Len(buf.levels) : buf.levels[i] # "#"
      <4> SUFFICES ASSUME NEW i \in 1 .. Len(buf.levels), buf.levels[i] = "#" PROVE FALSE
          OBVIOUS
      <4>1. i = Len(buf.levels) /\ buf.levels # <<>>
          BY <1>1, <3>1 DEF WildcardIsLast
      <4> QED BY <1>1, <1>5, <4>1 DEF WildcardIsLast
    <3>3. longer.has_end_wildcard <=> level = "#"
        OBVIOUS
    <3> HIDE DEF longer
    <3> QED BY <3>1, <3>2, <3>3 DEF WildcardIsLast
  <2>6. longer \in Filters
      BY <2>3, <2>4, <2>5 DEF Filters
  <2> HIDE DEF longer
  <2> QED BY <2>1, <2>6 DEF Outcomes
<1> QED BY <1>2, <1>3, <1>4, <1>5

\* append_single keeps a name a name, whatever its outcome.
LEMMA AppendNameLevelKeeps ==
    ASSUME NEW levels \in Names, NEW level \in Texts
    PROVE  AppendNameLevel(levels, level) \in [buf : Names, outcome : Outcomes]
<1>1. levels \in Seq(NameLevels)
    BY DEF Names
<1>2. CASE PathError(level) # "Ok"
    BY <1>2, AcceptedLevels DEF AppendNameLevel
<1>3. CASE PathError(level) = "Ok" /\ WouldExceedLength(levels, level)
    BY <1>3 DEF AppendNameLevel, Outcomes
<1>4. CASE PathError(level) = "Ok" /\ ~WouldExceedLength(levels, level)
  <2>1. AppendNameLevel(levels, level) = [buf |-> Append(levels, level), outcome |-> Ok]
      BY <1>4 DEF AppendNameLevel
  <2>2. Append(levels, level) \in Seq(NameLevels)
      BY <1>1, <1>4, AcceptedLevels
  <2>3. len(Append(levels, level)) <= MAXIMUM_TOPIC_BYTE_LENGTH
      BY <1>1, <1>4, LevelsAreTexts, WithinLength
  <2> QED BY <2>1, <2>2, <2>3 DEF Names, Outcomes
<1> QED BY <1>2, <1>3, <1>4

\* it gives the filter, and the outcome, after the levels at a set of indices.
FilterAppends(it, buf, input) ==
    it = [s \in SUBSET DOMAIN input |->
             IF s = {} THEN [buf |-> buf, outcome |-> Ok]
             ELSE IF it[s \ {Max(s)}].outcome = Ok
             THEN AppendFilterLevel(it[s \ {Max(s)}].buf, input[Max(s)])
             ELSE it[s \ {Max(s)}]]

\* append keeps a filter a filter, where it fails too.
LEMMA AppendFilterKeeps ==
    ASSUME NEW buf \in Filters, NEW input \in Seq(Texts)
    PROVE  AppendAll(AppendFilterLevel, buf, input) \in [buf : Filters, outcome : Outcomes]
<1> DEFINE n == Len(input)
           S == [buf : Filters, outcome : Outcomes]
           base == [buf |-> buf, outcome |-> Ok]
           after(acc, k) == IF acc.outcome = Ok THEN AppendFilterLevel(acc.buf, input[k]) ELSE acc
           step == [p \in (1 .. n) \X S |-> after(p[2], p[1])]
<1>1. n \in Nat /\ DOMAIN input = 1 .. n /\ \A k \in 1 .. n : input[k] \in Texts
    OBVIOUS
<1>2. base \in S
    BY DEF Outcomes
<1>3. ASSUME NEW acc \in S, NEW k \in 1 .. n
      PROVE  after(acc, k) \in S
  <2>1. acc.buf \in Filters /\ input[k] \in Texts
      BY <1>1
  <2>2. AppendFilterLevel(acc.buf, input[k]) \in S
      BY <2>1, AppendFilterLevelKeeps
  <2> QED BY <2>2
<1>4. AppendAll(AppendFilterLevel, buf, input) =
          (CHOOSE it : FilterAppends(it, buf, input))[DOMAIN input]
    BY DEF AppendAll, FoldLeft, MapThenFoldSet, FilterAppends
<1>5. \A it : FilterAppends(it, buf, input) <=>
          it = [s \in SUBSET DOMAIN input |->
                   IF s = {} THEN base ELSE after(it[s \ {Max(s)}], Max(s))]
    BY DEF FilterAppends
<1> HIDE DEF n, S, base, after
<1>6. step \in [(1 .. n) \X S -> S] /\ \A k \in 1 .. n, acc \in S : step[<<k, acc>>] = after(acc, k)
    BY <1>3
<1> HIDE DEF step
<1>7. PICK f \in [SUBSET (1 .. n) -> S] : IsFold(f, step, base, n)
  <2>1. HasFold(S, step, base, n)
      BY <1>1, <1>2, <1>6, FoldExists
  <2> QED BY <2>1 DEF HasFold
<1>8. FilterAppends(f, buf, input)
  <2>1. ASSUME NEW s \in SUBSET (1 .. n)
        PROVE  f[s] = IF s = {} THEN base ELSE after(f[s \ {Max(s)}], Max(s))
    <3>1. CASE s = {}
        BY <1>7, <3>1 DEF IsFold
    <3>2. CASE s # {}
      <4>1. Max(s) \in 1 .. n
          BY <1>1, <3>2, MaxIsGreatest
      <4>2. f[s \ {Max(s)}] \in S
        <5>1. s \ {Max(s)} \in SUBSET (1 .. n)
            OBVIOUS
        <5> QED BY <5>1, <1>7
      <4>3. f[s] = step[<<Max(s), f[s \ {Max(s)}]>>]
          BY <1>7, <3>2 DEF IsFold
      <4> QED BY <1>6, <3>2, <4>1, <4>2, <4>3
    <3> QED BY <3>1, <3>2
  <2> QED BY <1>1, <1>5, <1>7, <2>1
<1>9. PICK it : it = (CHOOSE g : FilterAppends(g, buf, input))
    OBVIOUS
<1>10. FilterAppends(it, buf, input)
    BY <1>8, <1>9, Zenon
<1>11. \A s \in SUBSET (1 .. n) :
          it[s] = IF s = {} THEN base ELSE after(it[s \ {Max(s)}], Max(s))
    BY <1>1, <1>5, <1>10
<1>12. it[{}] \in S
    BY <1>2, <1>11
<1>13. ASSUME NEW s \in SUBSET (1 .. n), s # {}, it[s \ {Max(s)}] \in S
       PROVE  it[s] \in S
  <2>1. Max(s) \in 1 .. n
      BY <1>1, <1>13, MaxIsGreatest
  <2>2. after(it[s \ {Max(s)}], Max(s)) \in S
      BY <1>3, <1>13, <2>1
  <2> QED BY <1>11, <1>13, <2>2
<1>14. it[1 .. n] \in S
    BY <1>1, <1>12, <1>13, FoldKeeps
<1> QED BY <1>1, <1>4, <1>9, <1>14 DEF S

\* it gives the name, and the outcome, after the levels at a set of indices.
NameAppends(it, levels, input) ==
    it = [s \in SUBSET DOMAIN input |->
             IF s = {} THEN [buf |-> levels, outcome |-> Ok]
             ELSE IF it[s \ {Max(s)}].outcome = Ok
             THEN AppendNameLevel(it[s \ {Max(s)}].buf, input[Max(s)])
             ELSE it[s \ {Max(s)}]]

\* append keeps a name a name, where it fails too.
LEMMA AppendNameKeeps ==
    ASSUME NEW levels \in Names, NEW input \in Seq(Texts)
    PROVE  AppendAll(AppendNameLevel, levels, input) \in [buf : Names, outcome : Outcomes]
<1> DEFINE n == Len(input)
           S == [buf : Names, outcome : Outcomes]
           base == [buf |-> levels, outcome |-> Ok]
           after(acc, k) == IF acc.outcome = Ok THEN AppendNameLevel(acc.buf, input[k]) ELSE acc
           step == [p \in (1 .. n) \X S |-> after(p[2], p[1])]
<1>1. n \in Nat /\ DOMAIN input = 1 .. n /\ \A k \in 1 .. n : input[k] \in Texts
    OBVIOUS
<1>2. base \in S
    BY DEF Outcomes
<1>3. ASSUME NEW acc \in S, NEW k \in 1 .. n
      PROVE  after(acc, k) \in S
  <2>1. acc.buf \in Names /\ input[k] \in Texts
      BY <1>1
  <2>2. AppendNameLevel(acc.buf, input[k]) \in S
      BY <2>1, AppendNameLevelKeeps
  <2> QED BY <2>2
<1>4. AppendAll(AppendNameLevel, levels, input) =
          (CHOOSE it : NameAppends(it, levels, input))[DOMAIN input]
    BY DEF AppendAll, FoldLeft, MapThenFoldSet, NameAppends
<1>5. \A it : NameAppends(it, levels, input) <=>
          it = [s \in SUBSET DOMAIN input |->
                   IF s = {} THEN base ELSE after(it[s \ {Max(s)}], Max(s))]
    BY DEF NameAppends
<1> HIDE DEF n, S, base, after
<1>6. step \in [(1 .. n) \X S -> S] /\ \A k \in 1 .. n, acc \in S : step[<<k, acc>>] = after(acc, k)
    BY <1>3
<1> HIDE DEF step
<1>7. PICK f \in [SUBSET (1 .. n) -> S] : IsFold(f, step, base, n)
  <2>1. HasFold(S, step, base, n)
      BY <1>1, <1>2, <1>6, FoldExists
  <2> QED BY <2>1 DEF HasFold
<1>8. NameAppends(f, levels, input)
  <2>1. ASSUME NEW s \in SUBSET (1 .. n)
        PROVE  f[s] = IF s = {} THEN base ELSE after(f[s \ {Max(s)}], Max(s))
    <3>1. CASE s = {}
        BY <1>7, <3>1 DEF IsFold
    <3>2. CASE s # {}
      <4>1. Max(s) \in 1 .. n
          BY <1>1, <3>2, MaxIsGreatest
      <4>2. f[s \ {Max(s)}] \in S
        <5>1. s \ {Max(s)} \in SUBSET (1 .. n)
            OBVIOUS
        <5> QED BY <5>1, <1>7
      <4>3. f[s] = step[<<Max(s), f[s \ {Max(s)}]>>]
          BY <1>7, <3>2 DEF IsFold
      <4> QED BY <1>6, <3>2, <4>1, <4>2, <4>3
    <3> QED BY <3>1, <3>2
  <2> QED BY <1>1, <1>5, <1>7, <2>1
<1>9. PICK it : it = (CHOOSE g : NameAppends(g, levels, input))
    OBVIOUS
<1>10. NameAppends(it, levels, input)
    BY <1>8, <1>9, Zenon
<1>11. \A s \in SUBSET (1 .. n) :
          it[s] = IF s = {} THEN base ELSE after(it[s \ {Max(s)}], Max(s))
    BY <1>1, <1>5, <1>10
<1>12. it[{}] \in S
    BY <1>2, <1>11
<1>13. ASSUME NEW s \in SUBSET (1 .. n), s # {}, it[s \ {Max(s)}] \in S
       PROVE  it[s] \in S
  <2>1. Max(s) \in 1 .. n
      BY <1>1, <1>13, MaxIsGreatest
  <2>2. after(it[s \ {Max(s)}], Max(s)) \in S
      BY <1>3, <1>13, <2>1
  <2> QED BY <1>11, <1>13, <2>2
<1>14. it[1 .. n] \in S
    BY <1>1, <1>12, <1>13, FoldKeeps
<1> QED BY <1>1, <1>4, <1>9, <1>14 DEF S

-----------------------------------------------------------------------------
(***************************************************************************)
(* The inductive invariant.                                                 *)
(***************************************************************************)
TopicsOK == filter \in Filters /\ name \in Names /\ outcome \in Outcomes

\* The levels of an input are texts.
LEMMA InputsAreTexts == Inputs \subseteq Seq(Texts)
<1>1. \A m \in 0 .. MaxInputLevels : [1 .. m -> Levels] \subseteq Seq(Texts)
  <2> SUFFICES ASSUME NEW m \in 0 .. MaxInputLevels, NEW input \in [1 .. m -> Levels]
               PROVE  input \in Seq(Texts)
      OBVIOUS
  <2>1. m \in Nat
    <3>1. MaxInputLevels \in Nat
        BY TopicAssumption
    <3> QED BY <3>1
  <2>2. input \in [1 .. m -> Texts]
      BY DEF Texts
  <2> QED BY <2>1, <2>2
<1> QED BY <1>1 DEF Inputs, BoundedSeq, SeqOf

\* Nothing is a filter and a name, before one is built.
LEMMA EmptyTopics == EmptyFilter \in Filters /\ <<>> \in Names
<1>1. MAXIMUM_TOPIC_BYTE_LENGTH >= 0
  <2>1. MAXIMUM_TOPIC_BYTE_LENGTH \in Nat
      BY TopicAssumption
  <2> QED BY <2>1
<1>2. EmptyFilter.levels = <<>> /\ EmptyFilter.has_end_wildcard = FALSE
    BY DEF EmptyFilter
<1>3. EmptyFilter \in [levels : Seq(FilterLevels), has_end_wildcard : BOOLEAN]
    BY DEF EmptyFilter
<1>4. WildcardIsLast(EmptyFilter)
    BY <1>2 DEF WildcardIsLast
<1>5. EmptyFilter \in Filters
    BY <1>1, <1>2, <1>3, <1>4, LenOfNothing DEF Filters
<1> QED BY <1>1, <1>5, LenOfNothing DEF Names

\* The initial state has it.
LEMMA InitTopicsOK == Init => TopicsOK
BY EmptyTopics DEF Init, TopicsOK, Outcomes

\* Every step keeps it.
LEMMA NextTopicsOK == TopicsOK /\ [Next]_vars => TopicsOK'
<1> SUFFICES ASSUME TopicsOK, [Next]_vars PROVE TopicsOK'
    OBVIOUS
<1>1. filter \in Filters /\ name \in Names /\ outcome \in Outcomes
    BY DEF TopicsOK
<1>2. ASSUME NEW input \in Inputs, NewFilter(input)
      PROVE  TopicsOK'
  <2>1. AppendAll(AppendFilterLevel, EmptyFilter, input) \in [buf : Filters, outcome : Outcomes]
      BY EmptyTopics, InputsAreTexts, AppendFilterKeeps
  <2> QED BY <1>1, <1>2, <2>1 DEF NewFilter, TopicsOK, Outcomes
<1>3. ASSUME NEW input \in Inputs, NewName(input)
      PROVE  TopicsOK'
  <2>1. AppendAll(AppendNameLevel, <<>>, input) \in [buf : Names, outcome : Outcomes]
      BY EmptyTopics, InputsAreTexts, AppendNameKeeps
  <2> QED BY <1>1, <1>3, <2>1 DEF NewName, TopicsOK, Outcomes
<1>4. ASSUME NEW input \in Inputs, ExtendFilter(input)
      PROVE  TopicsOK'
  <2>1. AppendAll(AppendFilterLevel, filter, input) \in [buf : Filters, outcome : Outcomes]
      BY <1>1, InputsAreTexts, AppendFilterKeeps
  <2> QED BY <1>1, <1>4, <2>1 DEF ExtendFilter, TopicsOK
<1>5. ASSUME NEW input \in Inputs, ExtendName(input)
      PROVE  TopicsOK'
  <2>1. AppendAll(AppendNameLevel, name, input) \in [buf : Names, outcome : Outcomes]
      BY <1>1, InputsAreTexts, AppendNameKeeps
  <2> QED BY <1>1, <1>5, <2>1 DEF ExtendName, TopicsOK
<1>6. ASSUME AppendJoinedLevel
      PROVE  TopicsOK'
  <2>1. Joined \in Texts
      BY DEF Texts
  <2>2. /\ AppendFilterLevel(filter, Joined) \in [buf : Filters, outcome : Outcomes]
        /\ AppendNameLevel(name, Joined) \in [buf : Names, outcome : Outcomes]
      BY <1>1, <2>1, AppendFilterLevelKeeps, AppendNameLevelKeeps
  <2> QED BY <1>1, <1>6, <2>2 DEF AppendJoinedLevel, TopicsOK
<1>7. CASE UNCHANGED vars
    BY <1>1, <1>7 DEF vars, TopicsOK
<1> QED BY <1>2, <1>3, <1>4, <1>5, <1>6, <1>7 DEF Next

\* It gives the first property of the filter ...
LEMMA WellFormedFilter == TopicsOK => FilterIsWellFormed
<1> SUFFICES ASSUME TopicsOK PROVE FilterIsWellFormed
    OBVIOUS
<1>1. filter.levels \in Seq(FilterLevels) /\ WildcardIsLast(filter)
    BY DEF TopicsOK, Filters
<1>2. Joined \notin ToSet(filter.levels)
  <2>1. Joined \notin FilterLevels
      BY DEF FilterLevels
  <2> QED BY <1>1, <2>1 DEF ToSet
<1> QED BY <1>1, <1>2 DEF FilterIsWellFormed, WildcardIsLast

\* ... and the bound.
LEMMA BoundedLength == TopicsOK => LengthIsBounded
<1> SUFFICES ASSUME TopicsOK PROVE LengthIsBounded
    OBVIOUS
<1>1. /\ filter.levels \in Seq(Texts) /\ len(filter.levels) <= MAXIMUM_TOPIC_BYTE_LENGTH
      /\ name \in Seq(Texts) /\ len(name) <= MAXIMUM_TOPIC_BYTE_LENGTH
    BY LevelsAreTexts DEF TopicsOK, Filters, Names
<1>2. len(filter.levels) \in Nat /\ len(name) \in Nat
  <2>1. Joined \in Texts
      BY DEF Texts
  <2> QED BY <1>1, <2>1, LenOfAppend
<1>3. MAXIMUM_TOPIC_BYTE_LENGTH \in Nat
    BY TopicAssumption
<1> QED BY <1>1, <1>2, <1>3 DEF LengthIsBounded, StringLength

-----------------------------------------------------------------------------
(***************************************************************************)
(* Matching.                                                                *)
(***************************************************************************)
Common(n, levels) == IF Len(n) < Len(levels) THEN Len(n) ELSE Len(levels)

\* One turn of the loop, given what the rest of it finds.
Turn(n, levels, i, rest) ==
    \/ i > Common(n, levels)
    \/ levels[i] = "#"
    \/ levels[i] = "+" /\ rest
    \/ levels[i] = "" /\ n[i] = "" /\ rest
    \/ /\ levels[i] \in Paths /\ levels[i] = n[i]
       /\ (i < Len(levels) /\ levels[i + 1] = "#") \/ rest

\* from gives what the loop finds from each level on.
Loops(from, n, levels) ==
    from = [i \in 1 .. Common(n, levels) + 1 |-> Turn(n, levels, i, from[i + 1])]

\* The levels both sides have, from the i-th on, fit.
FitFrom(n, levels, i) ==
    \A k \in i .. Common(n, levels) : levels[k] \in {"+", "#", n[k]}

\* The definition of matches, by the turns of its loop.
LEMMA MatchesUnfolds ==
    ASSUME NEW n, NEW f
    PROVE  matches(n, f) <=>
               f.levels[1] = "#" \/ (CHOOSE from : Loops(from, n, f.levels))[1]
BY DEF matches, Loops, Turn, Common

\* Past the common levels there is nothing left to compare.
LEMMA NothingLeft ==
    ASSUME NEW n, NEW levels, NEW rest, Common(n, levels) \in Nat,
           NEW i \in Nat, i > Common(n, levels)
    PROVE  FitFrom(n, levels, i) /\ Turn(n, levels, i, rest)
<1>1. i .. Common(n, levels) = {}
    OBVIOUS
<1>2. FitFrom(n, levels, i)
    BY <1>1, Zenon DEF FitFrom
<1>3. Turn(n, levels, i, rest)
    BY Zenon DEF Turn
<1> QED BY <1>2, <1>3

\* A turn decides for the rest of a filter in which "#" is last.
LEMMA TurnFits ==
    ASSUME NEW n \in Seq(NameLevels), NEW levels \in Seq(FilterLevels),
           \A i \in 1 .. Len(levels) - 1 : levels[i] # "#",
           NEW i \in 1 .. Common(n, levels) + 1
    PROVE  Turn(n, levels, i, FitFrom(n, levels, i + 1)) <=> FitFrom(n, levels, i)
<1> DEFINE c == Common(n, levels)
<1>1. c \in Nat /\ c <= Len(n) /\ c <= Len(levels) /\ Len(levels) \in Nat /\ i \in Nat
    BY DEF Common
<1>2. CASE i > c
    BY <1>1, <1>2, NothingLeft, Zenon
<1>3. CASE i <= c
  <2>1. levels[i] \in FilterLevels
      BY <1>1, <1>3
  <2>2. levels[i] \in Paths \/ levels[i] \in {"", "+", "#"}
      BY <2>1 DEF FilterLevels
  <2>3. FitFrom(n, levels, i) <=> levels[i] \in {"+", "#", n[i]} /\ FitFrom(n, levels, i + 1)
      BY <1>1, <1>3 DEF FitFrom
  <2>4. levels[i] = "#" => FitFrom(n, levels, i + 1)
      BY <1>1, <1>3 DEF FitFrom
  <2>5. i < Len(levels) /\ levels[i + 1] = "#" => FitFrom(n, levels, i + 1)
    <3> SUFFICES ASSUME i < Len(levels), levels[i + 1] = "#",
                        NEW k \in i + 1 .. Common(n, levels)
                 PROVE  levels[k] = "#"
        BY DEF FitFrom
    <3>1. i + 1 = Len(levels)
        BY <1>1
    <3> QED BY <1>1, <3>1
  <2>6. ~(i > Common(n, levels))
      BY <1>1, <1>3
  <2> HIDE DEF c
  <2> QED BY <2>2, <2>3, <2>4, <2>5, <2>6, Zenon DEF Turn
<1> QED BY <1>1, <1>2, <1>3

\* What the loop finds is whether the common levels fit.
LEMMA LoopFits ==
    ASSUME NEW n \in Seq(NameLevels), NEW levels \in Seq(FilterLevels),
           \A i \in 1 .. Len(levels) - 1 : levels[i] # "#"
    PROVE  (CHOOSE from : Loops(from, n, levels))[1] <=> FitFrom(n, levels, 1)
<1> DEFINE c == Common(n, levels)
           fits == [i \in 1 .. c + 1 |-> FitFrom(n, levels, i)]
<1>1. c \in Nat
    BY DEF Common
<1>2. Loops(fits, n, levels)
  <2>1. ASSUME NEW i \in 1 .. c + 1
        PROVE  FitFrom(n, levels, i) = Turn(n, levels, i, fits[i + 1])
    <3>1. CASE i = c + 1
      <4>1. i > Common(n, levels) /\ i \in Nat
          BY <1>1, <3>1
      <4>2. FitFrom(n, levels, i) /\ Turn(n, levels, i, fits[i + 1])
          BY <1>1, <4>1, NothingLeft, Zenon
      <4> QED BY <4>2, Zenon DEF FitFrom, Turn
    <3>2. CASE i # c + 1
      <4>1. i + 1 \in 1 .. c + 1
          BY <1>1, <3>2
      <4>2. fits[i + 1] = FitFrom(n, levels, i + 1)
          BY <4>1, Zenon
      <4>3. Turn(n, levels, i, fits[i + 1]) <=> FitFrom(n, levels, i)
          BY <4>2, TurnFits, Zenon
      <4> QED BY <4>3, Zenon DEF FitFrom, Turn
    <3> QED BY <3>1, <3>2
  <2>2. fits = [i \in 1 .. c + 1 |-> Turn(n, levels, i, fits[i + 1])]
      BY <2>1, Zenon
  <2> QED BY <2>2 DEF Loops
<1>3. PICK from : from = (CHOOSE g : Loops(g, n, levels))
    OBVIOUS
<1>4. Loops(from, n, levels)
    BY <1>2, <1>3, Zenon
<1>5. \A i \in 1 .. c + 1 : from[i] = Turn(n, levels, i, from[i + 1])
    BY <1>4, Zenon DEF Loops
<1> DEFINE S == {k \in Nat : k <= c => (from[c + 1 - k] <=> FitFrom(n, levels, c + 1 - k))}
<1>6. 0 \in S
  <2>1. c + 1 \in 1 .. c + 1 /\ c + 1 \in Nat /\ c + 1 > Common(n, levels) /\ c + 1 - 0 = c + 1
      BY <1>1
  <2>2. FitFrom(n, levels, c + 1) /\ Turn(n, levels, c + 1, from[c + 1 + 1])
      BY <1>1, <2>1, NothingLeft, Zenon
  <2>3. from[c + 1]
      BY <1>5, <2>1, <2>2, Zenon
  <2> QED BY <2>1, <2>2, <2>3
<1>7. ASSUME NEW k \in Nat, k \in S
      PROVE  k + 1 \in S
  <2> SUFFICES ASSUME k + 1 <= c
               PROVE  from[c + 1 - (k + 1)] <=> FitFrom(n, levels, c + 1 - (k + 1))
      OBVIOUS
  <2>1. PICK i \in 1 .. c + 1 : i = c + 1 - (k + 1)
      BY <1>1
  <2>2. i + 1 = c + 1 - k
      BY <1>1, <2>1
  <2>3. from[i + 1] <=> FitFrom(n, levels, i + 1)
      BY <1>1, <1>7, <2>2
  <2>4. from[i] = Turn(n, levels, i, from[i + 1])
      BY <1>5
  <2>5. Turn(n, levels, i, from[i + 1]) <=> Turn(n, levels, i, FitFrom(n, levels, i + 1))
      BY <2>3, Zenon DEF Turn
  <2>6. Turn(n, levels, i, FitFrom(n, levels, i + 1)) <=> FitFrom(n, levels, i)
      BY TurnFits, Zenon
  <2>7. from[i] <=> FitFrom(n, levels, i)
      BY <2>4, <2>5, <2>6, Zenon
  <2> QED BY <2>1, <2>7
<1> HIDE DEF S
<1>8. Nat \subseteq S
    BY <1>6, <1>7, SetInduction
<1>9. c \in S /\ c + 1 - c = 1
    BY <1>1, <1>8
<1>10. from[1] <=> FitFrom(n, levels, 1)
    BY <1>9 DEF S
<1> QED BY <1>3, <1>10

\* An upper end that leaves no first number before it is 1.
LEMMA OnlyOne ==
    ASSUME NEW m \in Nat, m # 0, ~(1 \in 1 .. m - 1)
    PROVE  m = 1
OBVIOUS

\* matches decides by the levels that both sides have.
LEMMA MatchesFits ==
    ASSUME NEW n \in Seq(NameLevels), NEW f, f.levels \in Seq(FilterLevels), f.levels # <<>>,
           \A i \in 1 .. Len(f.levels) - 1 : f.levels[i] # "#"
    PROVE  matches(n, f) <=> FitFrom(n, f.levels, 1)
<1>1. PICK levels \in Seq(FilterLevels) : levels = f.levels
    OBVIOUS
<1>2. levels # <<>> /\ \A i \in 1 .. Len(levels) - 1 : levels[i] # "#"
    BY <1>1
<1>3. (CHOOSE from : Loops(from, n, levels))[1] <=> FitFrom(n, levels, 1)
    BY <1>2, LoopFits, Zenon
<1>4. levels[1] = "#" => FitFrom(n, levels, 1)
  <2> SUFFICES ASSUME levels[1] = "#", NEW k \in 1 .. Common(n, levels)
               PROVE  levels[k] = "#"
      BY DEF FitFrom
  <2>1. Len(levels) = 1
    <3>1. Len(levels) \in Nat /\ Len(levels) # 0
        BY <1>2
    <3>2. ~(1 \in 1 .. Len(levels) - 1)
        BY <1>2
    <3> QED BY <3>1, <3>2, OnlyOne, Zenon
  <2>2. k = 1
      BY <2>1 DEF Common
  <2> QED BY <2>2
<1> QED BY <1>1, <1>3, <1>4, MatchesUnfolds, Zenon

\* What the rule finds, matches finds: the levels both sides have fit.
LEMMA RuleImpliesFits ==
    ASSUME NEW n \in Seq(NameLevels), NEW f, f.levels \in Seq(FilterLevels), f.levels # <<>>,
           TopicMatches(n, f)
    PROVE  FitFrom(n, f.levels, 1)
<1>1. PICK levels \in Seq(FilterLevels) : levels = f.levels
    OBVIOUS
<1> SUFFICES ASSUME NEW k \in 1 .. Common(n, levels)
             PROVE  levels[k] \in {"+", "#", n[k]}
    BY <1>1 DEF FitFrom
<1>2. k \in 1 .. Len(levels)
    BY DEF Common
<1>3. CASE levels[Len(levels)] = "#"
  <2>1. \A i \in 1 .. Len(levels) - 1 : levels[i] \in {"+", n[i]}
      BY <1>1, <1>3 DEF TopicMatches, FixedLevels, IsWild
  <2>2. k = Len(levels) \/ k \in 1 .. Len(levels) - 1
      BY <1>2
  <2> QED BY <1>3, <2>1, <2>2
<1>4. CASE levels[Len(levels)] # "#"
  <2>1. \A i \in 1 .. Len(levels) : levels[i] \in {"+", n[i]}
      BY <1>1, <1>4 DEF TopicMatches, FixedLevels, IsWild
  <2> QED BY <1>2, <2>1
<1> QED BY <1>3, <1>4

\* Where no level is left over, what fits is a match of the rule.
LEMMA FitsImpliesRule ==
    ASSUME NEW n \in Seq(NameLevels),
           NEW f, f.levels \in Seq(FilterLevels), f.levels # <<>>,
           \A i \in 1 .. Len(f.levels) - 1 : f.levels[i] # "#",
           LengthsFit(n, f), FitFrom(n, f.levels, 1)
    PROVE  TopicMatches(n, f)
<1>1. PICK levels \in Seq(FilterLevels) : levels = f.levels
    OBVIOUS
<1> SUFFICES ASSUME NEW i \in 1 .. FixedLevels(f)
             PROVE  levels[i] \in {"+", n[i]}
    BY <1>1 DEF TopicMatches
<1>2. /\ i \in 1 .. Len(levels)
      /\ IsWild(f) => i \in 1 .. Len(levels) - 1
    BY <1>1 DEF FixedLevels
<1>3. i \in 1 .. Common(n, levels)
    BY <1>1, <1>2 DEF LengthsFit, FixedLevels, Common
<1>4. levels[i] \in {"+", "#", n[i]}
    BY <1>1, <1>3 DEF FitFrom
<1>5. levels[i] # "#"
  <2>1. CASE IsWild(f)
      BY <1>1, <1>2, <2>1
  <2>2. CASE ~IsWild(f)
    <3>1. levels[Len(levels)] # "#"
        BY <1>1, <2>2 DEF IsWild
    <3>2. i = Len(levels) \/ i \in 1 .. Len(levels) - 1
        BY <1>2
    <3> QED BY <1>1, <3>1, <3>2
  <2> QED BY <2>1, <2>2
<1> QED BY <1>4, <1>5

\* The invariant gives what matches finds.
LEMMA MatchesFit == TopicsOK => MatchesWhereLengthsFit
<1> SUFFICES ASSUME TopicsOK, Built PROVE MatchesWhereLengthsFit
    BY DEF MatchesWhereLengthsFit
<1>1. /\ filter \in [levels : Seq(FilterLevels), has_end_wildcard : BOOLEAN]
      /\ WildcardIsLast(filter) /\ name \in Seq(NameLevels)
    BY DEF TopicsOK, Filters, Names
<1>2. filter.levels # <<>>
  <2> SUFFICES ASSUME filter.levels = <<>> PROVE filter = EmptyFilter
      BY DEF Built
  <2>1. filter.has_end_wildcard = FALSE
      BY <1>1 DEF WildcardIsLast
  <2>2. filter = [levels |-> filter.levels, has_end_wildcard |-> filter.has_end_wildcard]
      BY <1>1
  <2> QED BY <2>1, <2>2 DEF EmptyFilter
<1>3. filter.levels \in Seq(FilterLevels) /\ \A i \in 1 .. Len(filter.levels) - 1 : filter.levels[i] # "#"
    BY <1>1 DEF WildcardIsLast
<1>4. matches(name, filter) <=> FitFrom(name, filter.levels, 1)
    BY <1>1, <1>2, <1>3, MatchesFits, Zenon
<1>5. TopicMatches(name, filter) => FitFrom(name, filter.levels, 1)
    BY <1>1, <1>2, <1>3, RuleImpliesFits, Zenon
<1>6. LengthsFit(name, filter) /\ FitFrom(name, filter.levels, 1) => TopicMatches(name, filter)
    BY <1>1, <1>2, <1>3, FitsImpliesRule, Zenon
<1> QED BY <1>4, <1>5, <1>6, Zenon DEF MatchesWhereLengthsFit

-----------------------------------------------------------------------------
\* The filter, the name and the last outcome keep the invariant.
THEOREM TopicsStayOK == Spec => []TopicsOK
<1>1. Init => TopicsOK
    BY InitTopicsOK
<1>2. TopicsOK /\ [Next]_vars => TopicsOK'
    BY NextTopicsOK
<1> QED BY <1>1, <1>2, PTL DEF Spec

(***************************************************************************)
(* However a TopicFilterBuf is put together by new, append and             *)
(* append_single, failed calls included, "#" is only ever its last level   *)
(* and no level of it holds a separator.                                   *)
(***************************************************************************)
THEOREM FilterStaysWellFormed == Spec => []FilterIsWellFormed
<1>1. Spec => []TopicsOK
    BY TopicsStayOK
<1>2. TopicsOK => FilterIsWellFormed
    BY WellFormedFilter
<1> QED BY <1>1, <1>2, PTL

(***************************************************************************)
(* Whatever is appended, in however many calls, the topic strings of a     *)
(* filter and of a name are shorter than MAXIMUM_TOPIC_BYTE_LENGTH: the    *)
(* check of append_single is enough for every sequence of calls.           *)
(***************************************************************************)
THEOREM LengthStaysBounded == Spec => []LengthIsBounded
<1>1. Spec => []TopicsOK
    BY TopicsStayOK
<1>2. TopicsOK => LengthIsBounded
    BY BoundedLength
<1> QED BY <1>1, <1>2, PTL

(***************************************************************************)
(* For every name and every filter that can be built, with any levels,     *)
(* TopicNameBuf::matches finds each match of the MQTT rule, and no other   *)
(* where no level of one side is left over.                                *)
(***************************************************************************)
THEOREM MatchesWhereNothingIsLeft == Spec => []MatchesWhereLengthsFit
<1>1. Spec => []TopicsOK
    BY TopicsStayOK
<1>2. TopicsOK => MatchesWhereLengthsFit
    BY MatchesFit
<1> QED BY <1>1, <1>2, PTL
=============================================================================
