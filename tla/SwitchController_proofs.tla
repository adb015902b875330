---------------------- MODULE SwitchController_proofs ----------------------
(***************************************************************************)
(* Proofs about SwitchController, for any vectors of bit rates and any     *)
(* owner, one that updates and initialises at will included: the limits    *)
(* are always channels, their bit rates are what was asked for, because    *)
(* the vector is sorted, and no decision of the class lets a source stray. *)
(***************************************************************************)
EXTENDS SwitchController, FiniteSetTheorems, TLAPS

(***************************************************************************)
(* Sorting.  That a vector can be put in order needs no induction: the     *)
(* rank of a position is the number of positions that come before it, and  *)
(* ranks are a bijection, for they are injective and there are as many of  *)
(* them as positions.                                                      *)
(***************************************************************************)

\* The order of a stable sort: by rate, then by position.
Earlier(v, k, l) == v[k] < v[l] \/ (v[k] = v[l] /\ k < l)

Ahead(v, k) == {j \in 1 .. Len(v) : Earlier(v, j, k)}

Rank(v) == [k \in 1 .. Len(v) |-> Cardinality(Ahead(v, k))]

LEMMA AheadSize ==
  ASSUME NEW v \in Seq(Nat), NEW k \in 1 .. Len(v)
  PROVE  IsFiniteSet(Ahead(v, k)) /\ Cardinality(Ahead(v, k)) \in 0 .. Len(v) - 1
<1> DEFINE n == Len(v)
           others == (1 .. n) \ {k}
<1>1. n \in Nat /\ 1 \in Int /\ n \in Int /\ n >= 1
  OBVIOUS
<1>2. IsFiniteSet(1 .. n) /\ Cardinality(1 .. n) = n
  <2> HIDE DEF n
  <2>1. IsFiniteSet(1 .. n) /\ Cardinality(1 .. n) = IF 1 > n THEN 0 ELSE n - 1 + 1
    BY <1>1, FS_Interval
  <2> QED
    BY <1>1, <2>1
<1>3. IsFiniteSet(others) /\ Cardinality(others) = n - 1
  <2>1. k \in 1 .. n
    OBVIOUS
  <2> HIDE DEF n
  <2> QED
    BY <1>2, <2>1, FS_RemoveElement
<1>4. Ahead(v, k) \in SUBSET others
  BY DEF Ahead, Earlier
<1> HIDE DEF others, n
<1>5. IsFiniteSet(Ahead(v, k)) /\ Cardinality(Ahead(v, k)) <= n - 1
  BY <1>3, <1>4, FS_Subset
<1>6. Cardinality(Ahead(v, k)) \in Nat
  BY <1>5, FS_CardinalityType
<1> QED
  BY <1>1, <1>5, <1>6 DEF n

LEMMA EarlierRanksLower ==
  ASSUME NEW v \in Seq(Nat), NEW k \in 1 .. Len(v), NEW l \in 1 .. Len(v), Earlier(v, k, l)
  PROVE  Rank(v)[k] < Rank(v)[l]
<1>1. \A j \in 1 .. Len(v) : v[j] \in Nat
  OBVIOUS
<1>2. Ahead(v, k) \in SUBSET Ahead(v, l)
  BY <1>1 DEF Ahead, Earlier
<1>3. k \in Ahead(v, l) /\ k \notin Ahead(v, k)
  BY <1>1 DEF Ahead, Earlier
<1>4. /\ IsFiniteSet(Ahead(v, k)) /\ Cardinality(Ahead(v, k)) \in Nat
      /\ IsFiniteSet(Ahead(v, l)) /\ Cardinality(Ahead(v, l)) \in Nat
  BY AheadSize
<1>5. /\ Cardinality(Ahead(v, k)) <= Cardinality(Ahead(v, l))
      /\ Cardinality(Ahead(v, k)) # Cardinality(Ahead(v, l))
  BY <1>2, <1>3, <1>4, FS_Subset
<1>6. Cardinality(Ahead(v, k)) < Cardinality(Ahead(v, l))
  BY <1>4, <1>5
<1> QED
  BY <1>6 DEF Rank

LEMMA RanksAreBijective ==
  ASSUME NEW v \in Seq(Nat)
  PROVE  Rank(v) \in Bijection(1 .. Len(v), 0 .. Len(v) - 1)
<1> DEFINE n == Len(v)
<1>1. n \in Nat
  OBVIOUS
<1>2. Rank(v) \in [1 .. n -> 0 .. n - 1]
  BY AheadSize DEF Rank
<1>3. Rank(v) \in Injection(1 .. n, 0 .. n - 1)
  <2>1. ASSUME NEW k \in 1 .. n, NEW l \in 1 .. n, k # l PROVE Rank(v)[k] # Rank(v)[l]
    <3>1. Rank(v)[k] \in Int /\ Rank(v)[l] \in Int
      BY <1>2
    <3>2. v[k] \in Nat /\ v[l] \in Nat
      OBVIOUS
    <3>3. Earlier(v, k, l) \/ Earlier(v, l, k)
      BY <2>1, <3>2 DEF Earlier
    <3>4. CASE Earlier(v, k, l)
      BY <3>1, <3>4, EarlierRanksLower
    <3>5. CASE Earlier(v, l, k)
      BY <3>1, <3>5, EarlierRanksLower
    <3> QED
      BY <3>3, <3>4, <3>5
  <2> HIDE DEF n
  <2> QED
    BY <1>2, <2>1 DEF Injection, IsInjective
<1> HIDE DEF n
<1>4. /\ IsFiniteSet(0 .. n - 1)
      /\ Cardinality(0 .. n - 1) = Cardinality(1 .. n)
  <2> DEFINE b == n - 1
  <2>1. 0 \in Int /\ b \in Int /\ 1 \in Int /\ n \in Int /\ n = b + 1 /\ n >= 0
    BY <1>1
  <2> HIDE DEF b
  <2>2. /\ IsFiniteSet(0 .. b) /\ Cardinality(0 .. b) = IF 0 > b THEN 0 ELSE b - 0 + 1
        /\ Cardinality(1 .. n) = IF 1 > n THEN 0 ELSE n - 1 + 1
    BY <2>1, FS_Interval
  <2>3. IsFiniteSet(0 .. b) /\ Cardinality(0 .. b) = Cardinality(1 .. n)
    BY <2>1, <2>2
  <2> QED
    BY <2>3 DEF b
<1>5. Rank(v) \in Surjection(1 .. n, 0 .. n - 1)
  BY <1>3, <1>4, FS_Injection
<1> QED
  BY <1>3, <1>5 DEF Bijection, n

\* A vector can be put in ascending order: each position at its rank.
LEMMA AscendingOrderExists ==
  ASSUME NEW v \in Seq(Nat)
  PROVE  \E p \in Bijection(0 .. Len(v) - 1, 1 .. Len(v)) :
           \A i, j \in 0 .. Len(v) - 1 : i < j => v[p[i]] <= v[p[j]]
<1> DEFINE n == Len(v)
           p == [i \in 0 .. n - 1 |-> CHOOSE k \in 1 .. n : Rank(v)[k] = i]
<1>1. /\ Rank(v) \in [1 .. n -> 0 .. n - 1]
      /\ \A k, l \in 1 .. n : Rank(v)[k] = Rank(v)[l] => k = l
      /\ \A i \in 0 .. n - 1 : \E k \in 1 .. n : Rank(v)[k] = i
  BY RanksAreBijective DEF Bijection, Injection, Surjection, IsInjective
<1>2. \A i \in 0 .. n - 1 : p[i] \in 1 .. n /\ Rank(v)[p[i]] = i
  <2> HIDE DEF n
  <2> QED
    BY <1>1
<1>3. \A k \in 1 .. n : p[Rank(v)[k]] = k
  <2> HIDE DEF p
  <2> QED
    BY <1>1, <1>2
<1>4. p \in [0 .. n - 1 -> 1 .. n]
  <2> HIDE DEF n
  <2> QED
    BY <1>2
<1> HIDE DEF p, n
<1>5. p \in Bijection(0 .. n - 1, 1 .. n)
  <2>1. p \in Injection(0 .. n - 1, 1 .. n)
    <3>1. \A i, j \in 0 .. n - 1 : p[i] = p[j] => i = j
      BY <1>2
    <3> QED
      BY <1>4, <3>1 DEF Injection, IsInjective
  <2>2. p \in Surjection(0 .. n - 1, 1 .. n)
    BY <1>1, <1>3, <1>4 DEF Surjection
  <2> QED
    BY <2>1, <2>2 DEF Bijection
<1>6. ASSUME NEW i \in 0 .. n - 1, NEW j \in 0 .. n - 1, i < j PROVE v[p[i]] <= v[p[j]]
  <2>1. /\ p[i] \in 1 .. n /\ p[j] \in 1 .. n
        /\ Rank(v)[p[i]] = i /\ Rank(v)[p[j]] = j
    BY <1>2
  <2>2. v[p[i]] \in Nat /\ v[p[j]] \in Nat
    <3>1. \A k \in 1 .. n : v[k] \in Nat
      BY DEF n
    <3> QED
      BY <2>1, <3>1
  <2>3. i \in Int /\ j \in Int
    OBVIOUS
  <2>4. ~Earlier(v, p[j], p[i])
    <3>1. Earlier(v, p[j], p[i]) => Rank(v)[p[j]] < Rank(v)[p[i]]
      BY <2>1, EarlierRanksLower DEF n
    <3> QED
      BY <1>6, <2>1, <2>3, <3>1
  <2> QED
    BY <2>2, <2>4 DEF Earlier
<1> QED
  BY <1>5, <1>6 DEF n

\* std::sort returns the same rates in ascending order.
LEMMA SortedAscends ==
  ASSUME NEW v \in Seq(Nat)
  PROVE  /\ Sorted(v) \in [0 .. Len(v) - 1 -> Nat]
         /\ \A i, j \in 0 .. Len(v) - 1 : i <= j => Sorted(v)[i] <= Sorted(v)[j]
         /\ {Sorted(v)[i] : i \in 0 .. Len(v) - 1} = {v[k] : k \in 1 .. Len(v)}
<1> DEFINE n == Len(v)
           good(p) == \A i, j \in 0 .. n - 1 : i < j => v[p[i]] <= v[p[j]]
           order == CHOOSE p \in Bijection(0 .. n - 1, 1 .. n) : good(p)
<1>1. order \in Bijection(0 .. n - 1, 1 .. n) /\ good(order)
  <2>1. \E p \in Bijection(0 .. n - 1, 1 .. n) : good(p)
    BY AscendingOrderExists
  <2> HIDE DEF n, good
  <2> QED
    BY <2>1
<1>2. Sorted(v) = [i \in 0 .. n - 1 |-> v[order[i]]]
  BY DEF Sorted
<1> HIDE DEF order
<1>3. \A i \in 0 .. n - 1 : order[i] \in 1 .. n /\ v[order[i]] \in Nat
  <2>1. \A i \in 0 .. n - 1 : order[i] \in 1 .. n
    BY <1>1 DEF Bijection, Injection
  <2>2. \A k \in 1 .. n : v[k] \in Nat
    OBVIOUS
  <2> QED
    BY <2>1, <2>2
<1>4. \A k \in 1 .. n : \E i \in 0 .. n - 1 : order[i] = k
  BY <1>1 DEF Bijection, Surjection
<1>5. Sorted(v) \in [0 .. n - 1 -> Nat]
  BY <1>2, <1>3
<1>6. ASSUME NEW i \in 0 .. n - 1, NEW j \in 0 .. n - 1, i <= j
      PROVE  Sorted(v)[i] <= Sorted(v)[j]
  BY <1>1, <1>2, <1>3, <1>6
<1>7. {Sorted(v)[i] : i \in 0 .. n - 1} = {v[k] : k \in 1 .. n}
  <2> HIDE DEF n
  <2> QED
    BY <1>2, <1>3, <1>4
<1> QED
  BY <1>5, <1>6, <1>7

-----------------------------------------------------------------------------
(***************************************************************************)
(* The shape of the vector and the limits.                                 *)
(***************************************************************************)

\* The bit rates ascend and the limits are channels.
Shape ==
  /\ m_bInitialised \in BOOLEAN
  /\ m_bSwitchFlag \in BOOLEAN
  /\ m_uiCurrentChannel \in Nat
  /\ m_uiTargetChannel \in Nat
  /\ ~m_bInitialised => m_vBitrates = [i \in {} |-> 0]
  /\ m_bInitialised =>
       /\ \E v \in Vectors : m_vBitrates \in [0 .. Len(v) - 1 -> Nat]
       /\ \A i, j \in Channels : i <= j => m_vBitrates[i] <= m_vBitrates[j]
       /\ m_uiMinChannel \in Channels
       /\ m_uiMaxChannel \in Channels
       /\ m_uiMinChannel <= m_uiMaxChannel

LEMMA VectorLength ==
  ASSUME NEW v \in Vectors
  PROVE  /\ v \in Seq(Nat)
         /\ Len(v) \in Nat \ {0}
  <1>1. v \in Seq(Nat) /\ v # <<>>
    BY SwitchAssumption
  <1>2. Len(v) \in Nat /\ Len(v) # 0
    BY <1>1
  <1> QED
    BY <1>1, <1>2, SwitchAssumption

\* The channels are counted from 0.
LEMMA ChannelRange ==
  ASSUME Shape, m_bInitialised
  PROVE  \E v \in Vectors : /\ Channels = 0 .. Len(v) - 1
                            /\ m_vBitrates \in [Channels -> Nat]
                            /\ Len(v) \in Nat \ {0}
  <1>1. PICK v \in Vectors : m_vBitrates \in [0 .. Len(v) - 1 -> Nat]
    BY DEF Shape
  <1>2. Channels = 0 .. Len(v) - 1
    BY <1>1 DEF Channels
  <1> QED
    BY <1>1, <1>2, VectorLength

LEMMA ShapeInit == Init => Shape
  <1> SUFFICES ASSUME Init
               PROVE  Shape
    OBVIOUS
  <1>1. ~m_bInitialised /\ m_bInitialised \in BOOLEAN /\ m_bSwitchFlag \in BOOLEAN
    BY DEF Init
  <1>2. m_uiTargetChannel \in Nat /\ m_uiCurrentChannel \in Nat
    BY DEF Init
  <1>3. m_vBitrates = [i \in {} |-> 0]
    BY Zenon DEF Init
  <1> QED
    BY <1>1, <1>2, <1>3, Zenon DEF Shape

LEMMA SetChannelBitratesShapes ==
  ASSUME Shape, NEW v \in Vectors, SetChannelBitrates(v)
  PROVE  Shape'
  <1>1. v \in Seq(Nat) /\ Len(v) \in Nat \ {0}
    BY VectorLength
  <1>2. /\ m_vBitrates' \in [0 .. Len(v) - 1 -> Nat]
        /\ \A i, j \in 0 .. Len(v) - 1 : i <= j => m_vBitrates'[i] <= m_vBitrates'[j]
    BY <1>1, SortedAscends DEF SetChannelBitrates
  <1>3. Channels' = 0 .. Len(v) - 1
    BY <1>2 DEF Channels
  <1>4. /\ m_bInitialised' = TRUE /\ m_bSwitchFlag' \in BOOLEAN
        /\ m_uiMinChannel' = 0 /\ m_uiMaxChannel' = Len(v) - 1
        /\ m_uiCurrentChannel' \in Nat
        /\ m_uiTargetChannel' \in Nat
    BY DEF SetChannelBitrates, Shape, request
  <1>5. /\ 0 \in Channels' /\ Len(v) - 1 \in Channels' /\ 0 <= Len(v) - 1
    BY <1>1, <1>3, <1>4
  <1> QED
    BY <1>2, <1>3, <1>4, <1>5 DEF Shape

LEMMA RequestShapes ==
  ASSUME Shape, m_bInitialised, NEW ch \in Channels, RequestChannel(ch),
         UNCHANGED <<m_bInitialised, m_vBitrates, m_uiCurrentChannel, limits>>
  PROVE  Shape'
  <1>1. ch \in Nat
    BY ChannelRange
  <1> QED
    BY <1>1 DEF RequestChannel, Shape, limits, Channels

LEMMA LimitShapes ==
  ASSUME Shape, m_bInitialised, NEW min \in Channels, NEW max \in Channels, Limit(min, max)
  PROVE  Shape'
  <1>1. min \in Nat /\ max \in Nat
    BY ChannelRange
  <1>2. /\ m_uiTargetChannel' \in Nat /\ m_bSwitchFlag' \in BOOLEAN
    BY <1>1 DEF Limit, SetSwitchFlagIfNecessary, request, Shape
  <1> QED
    BY <1>2 DEF Limit, Shape, Channels

LEMMA ShapeStep == Shape /\ [Next]_vars => Shape'
  <1> SUFFICES ASSUME Shape, [Next]_vars
               PROVE  Shape'
    OBVIOUS
  <1>1. ASSUME NEW v \in Vectors, SetChannelBitrates(v)
        PROVE  Shape'
    BY <1>1, SetChannelBitratesShapes
  <1>2. ASSUME NEW ch \in Updates, UpdateCurrentChannel(ch)
        PROVE  Shape'
    <2>1. ch \in Nat
      BY SwitchAssumption
    <2> QED
      BY <1>2, <2>1 DEF UpdateCurrentChannel, Shape, request, limits, Channels
  <1>3. CASE Synchronise \/ ResetSwitchFlag
    <2>1. /\ UNCHANGED <<m_bInitialised, m_vBitrates, limits>>
          /\ m_uiCurrentChannel' \in Nat /\ m_uiTargetChannel' \in Nat
          /\ m_bSwitchFlag' \in BOOLEAN
      BY <1>3 DEF Synchronise, ResetSwitchFlag, Shape
    <2> QED
      BY <2>1 DEF Shape, limits, Channels
  <1>4. CASE SwitchUp \/ SwitchDown
    <2>1. m_bInitialised
      BY <1>4 DEF SwitchUp, SwitchDown
    <2>2. PICK v \in Vectors : Channels = 0 .. Len(v) - 1 /\ Len(v) \in Nat
      BY <2>1, ChannelRange
    <2>3. m_uiMinChannel \in Channels /\ m_uiMaxChannel \in Channels /\ m_uiCurrentChannel \in Nat
      BY <2>1 DEF Shape
    <2>4. m_uiCurrentChannel' \in Nat
      <3>1. CASE SwitchUp
        BY <2>2, <2>3, <3>1 DEF SwitchUp
      <3>2. CASE SwitchDown
        BY <2>2, <2>3, <3>2 DEF SwitchDown
      <3> QED
        BY <1>4, <3>1, <3>2
    <2> QED
      BY <1>4, <2>4 DEF SwitchUp, SwitchDown, Shape, limits, request, Channels
  <1>5. ASSUME NEW ch \in Channels, SwitchChannel(ch)
        PROVE  Shape'
    BY <1>5, RequestShapes DEF SwitchChannel
  <1>6. ASSUME NEW min \in Channels, NEW max \in Channels, LimitChannel(min, max)
        PROVE  Shape'
    BY <1>6, LimitShapes DEF LimitChannel
  <1>7. ASSUME NEW rate \in Bitrates, SwitchBitRate(rate)
        PROVE  Shape'
    BY <1>7, RequestShapes DEF SwitchBitRate
  <1>8. ASSUME NEW minRate \in Bitrates, NEW maxRate \in Bitrates, LimitBitRate(minRate, maxRate)
        PROVE  Shape'
    BY <1>8, LimitShapes DEF LimitBitRate
  <1>9. CASE UNCHANGED vars
    BY <1>9 DEF vars, limits, request, Shape, Channels
  <1> QED
    BY <1>1, <1>2, <1>3, <1>4, <1>5, <1>6, <1>7, <1>8, <1>9 DEF Next, Switches, Limits

\* Type correctness, for any owner: the limits never lie beyond the vector of bit
\* rates, whatever limits are asked for and however often the vector is set.
THEOREM TypeCorrect == Spec => []TypeOK
  <1>1. Shape => TypeOK
    <2> SUFFICES ASSUME Shape
                 PROVE  \E n \in {0} \cup {Len(v) : v \in Vectors} : m_vBitrates \in [0 .. n - 1 -> Nat]
      BY DEF Shape, TypeOK
    <2>1. CASE m_bInitialised
      BY <2>1 DEF Shape
    <2>2. CASE ~m_bInitialised
      <3>1. m_vBitrates \in [0 .. 0 - 1 -> Nat]
        BY <2>2 DEF Shape
      <3> QED
        BY <3>1
    <2> QED
      BY <2>1, <2>2 DEF Shape
  <1> QED
    BY <1>1, ShapeInit, ShapeStep, PTL DEF Spec

-----------------------------------------------------------------------------
\* In ascending rates the search that stops at the first rate beyond the one
\* asked for passes over all that are not.
LEMMA LessOrEqualIsAll ==
  ASSUME Shape, m_bInitialised, NEW rate \in Nat
  PROVE  LessOrEqual(rate) = {i \in Channels : m_vBitrates[i] <= rate}
  <1>1. PICK v \in Vectors : /\ Channels = 0 .. Len(v) - 1
                             /\ m_vBitrates \in [Channels -> Nat]
                             /\ Len(v) \in Nat
    BY ChannelRange
  <1>2. ASSUME NEW i \in Channels, m_vBitrates[i] <= rate, NEW j \in 0 .. i
        PROVE  m_vBitrates[j] <= rate
    <2>1. j \in Channels /\ j <= i
      BY <1>1
    <2>2. m_vBitrates[j] <= m_vBitrates[i]
      BY <2>1 DEF Shape
    <2>3. m_vBitrates[j] \in Nat /\ m_vBitrates[i] \in Nat
      BY <1>1, <2>1
    <2> QED
      BY <1>2, <2>2, <2>3
  <1>3. ASSUME NEW i \in Channels, \A j \in 0 .. i : m_vBitrates[j] <= rate
        PROVE  m_vBitrates[i] <= rate
    BY <1>1, <1>3
  <1> QED
    BY <1>2, <1>3 DEF LessOrEqual

\* limitBitRate admits exactly the channels whose bit rate lies in the range, for
\* any rates, equal ones and ones nobody offers included.
THEOREM LimitsMatch == Spec => LimitsMatchRates
  <1>1. ASSUME Shape, NEW lo \in Bitrates, NEW hi \in Bitrates, LimitBitRate(lo, hi)
        PROVE  m_uiMinChannel' .. m_uiMaxChannel' = {i \in Channels : m_vBitrates[i] \in lo .. hi}
    <2>1. lo \in Nat /\ hi \in Nat /\ m_bInitialised
      BY <1>1, SwitchAssumption DEF LimitBitRate
    <2>2. PICK v \in Vectors : /\ Channels = 0 .. Len(v) - 1
                               /\ m_vBitrates \in [Channels -> Nat]
                               /\ Len(v) \in Nat
      BY <1>1, <2>1, ChannelRange
    <2>3. PICK min \in Channels, max \in Channels :
            /\ IsFirst(min, GreaterOrEqual(lo))
            /\ IsLast(max, LessOrEqual(hi))
            /\ m_uiMinChannel' = min /\ m_uiMaxChannel' = max
      BY <1>1 DEF LimitBitRate, Limit
    <2>4. /\ m_vBitrates[min] >= lo
          /\ \A i \in Channels : m_vBitrates[i] >= lo => min <= i
      BY <2>3 DEF IsFirst, GreaterOrEqual
    <2>5. /\ m_vBitrates[max] <= hi
          /\ \A i \in Channels : m_vBitrates[i] <= hi => max >= i
      BY <1>1, <2>1, <2>3, LessOrEqualIsAll DEF IsLast
    <2>6. \A i, j \in Channels : i <= j => m_vBitrates[i] <= m_vBitrates[j]
      BY <1>1, <2>1 DEF Shape
    <2>7. ASSUME NEW i \in min .. max
          PROVE  i \in Channels /\ m_vBitrates[i] \in lo .. hi
      <3>1. i \in Channels /\ min <= i /\ i <= max
        BY <2>2
      <3>2. m_vBitrates[min] <= m_vBitrates[i] /\ m_vBitrates[i] <= m_vBitrates[max]
        BY <2>6, <3>1
      <3>3. m_vBitrates[min] \in Nat /\ m_vBitrates[i] \in Nat /\ m_vBitrates[max] \in Nat
        BY <2>2, <3>1
      <3> QED
        BY <2>1, <2>4, <2>5, <3>1, <3>2, <3>3
    <2>8. ASSUME NEW i \in Channels, m_vBitrates[i] \in lo .. hi
          PROVE  i \in min .. max
      BY <2>1, <2>2, <2>4, <2>5, <2>8
    <2> QED
      BY <2>3, <2>7, <2>8
  <1>2. ASSUME Shape, [Next]_vars
        PROVE  [ \A lo, hi \in Bitrates :
                   LimitBitRate(lo, hi) =>
                     m_uiMinChannel' .. m_uiMaxChannel' =
                       {i \in Channels : m_vBitrates[i] \in lo .. hi} ]_vars
    BY <1>1, <1>2
  <1> QED
    BY <1>2, ShapeInit, ShapeStep, PTL DEF Spec, LimitsMatchRates

\* switchBitRate aims at the best of the rates that do not exceed the one asked
\* for, for any rates.
THEOREM BestRate == Spec => BestRateNotAbove
  <1> DEFINE IsBest(rate) ==
        LET best == m_vBitrates[m_uiTargetChannel'] IN
          best <= rate /\ \A i \in Channels : m_vBitrates[i] <= rate => m_vBitrates[i] <= best
  <1>1. ASSUME Shape, NEW rate \in Bitrates, SwitchBitRate(rate)
        PROVE  IsBest(rate)
    <2>1. rate \in Nat /\ m_bInitialised
      BY <1>1, SwitchAssumption DEF SwitchBitRate
    <2>2. PICK ch \in Channels : IsLast(ch, LessOrEqual(rate)) /\ m_uiTargetChannel' = ch
      BY <1>1 DEF SwitchBitRate, RequestChannel
    <2>3. /\ m_vBitrates[ch] <= rate
          /\ \A i \in Channels : m_vBitrates[i] <= rate => i <= ch
      <3>1. LessOrEqual(rate) = {i \in Channels : m_vBitrates[i] <= rate}
        BY <1>1, <2>1, LessOrEqualIsAll
      <3>2. PICK v \in Vectors : Channels = 0 .. Len(v) - 1
        BY <1>1, <2>1, ChannelRange
      <3> QED
        BY <2>2, <3>1, <3>2 DEF IsLast
    <2>4. \A i, j \in Channels : i <= j => m_vBitrates[i] <= m_vBitrates[j]
      BY <1>1, <2>1 DEF Shape
    <2> QED
      BY <2>2, <2>3, <2>4
  <1> DEFINE Best == \A rate \in Bitrates : SwitchBitRate(rate) => IsBest(rate)
  <1>2. Shape => [Best]_vars
    <2> HIDE DEF IsBest
    <2> QED
      BY <1>1
  <1>3. Spec => [][Best]_vars
    BY <1>2, ShapeInit, ShapeStep, PTL DEF Spec
  <1> QED
    BY <1>3 DEF BestRateNotAbove, Best, IsBest

-----------------------------------------------------------------------------
(***************************************************************************)
(* Straying.                                                               *)
(***************************************************************************)

LEMMA StepDoesNotStray ==
  ASSUME Shape, SwitchUp \/ SwitchDown, ~Strayed
  PROVE  ~Strayed'
  <1>1. m_bInitialised
    BY DEF SwitchUp, SwitchDown
  <1>2. PICK v \in Vectors : Channels = 0 .. Len(v) - 1 /\ Len(v) \in Nat
    BY <1>1, ChannelRange
  <1>3. m_uiMinChannel \in Nat /\ m_uiMaxChannel \in Nat /\ m_uiCurrentChannel \in Nat
    BY <1>1, <1>2 DEF Shape
  <1>4. WithinLimits(m_uiCurrentChannel) => WithinLimits(m_uiCurrentChannel')
    BY <1>3 DEF SwitchUp, SwitchDown, WithinLimits
  <1> QED
    BY <1>4 DEF SwitchUp, SwitchDown, Strayed, WithinLimits, limits, request

LEMMA RequestDoesNotStray ==
  ASSUME Shape, NEW ch \in Channels, RequestChannel(ch), ~Strayed,
         UNCHANGED <<m_bInitialised, m_vBitrates, m_uiCurrentChannel, limits>>
  PROVE  ~Strayed'
  BY DEF RequestChannel, Shape, Strayed, WithinLimits, limits

LEMMA LimitBringsBack ==
  ASSUME Shape, m_bInitialised, NEW min \in Channels, NEW max \in Channels, Limit(min, max)
  PROVE  ~Strayed'
  <1>1. PICK v \in Vectors : Channels = 0 .. Len(v) - 1 /\ Len(v) \in Nat
    BY ChannelRange
  <1>2. /\ min \in Nat /\ max \in Nat /\ min <= max /\ m_uiCurrentChannel \in Nat
        /\ m_uiMinChannel' = min /\ m_uiMaxChannel' = max
        /\ UNCHANGED m_uiCurrentChannel
    BY <1>1 DEF Limit, Shape
  <1>3. CASE m_uiCurrentChannel \in min .. max
    BY <1>2, <1>3 DEF Strayed, WithinLimits
  <1>4. CASE m_uiCurrentChannel \notin min .. max
    BY <1>2, <1>4 DEF Limit, SetSwitchFlagIfNecessary, Strayed, WithinLimits
  <1> QED
    BY <1>3, <1>4

\* switchUp, switchDown and the requests keep a source within its limits or under a
\* pending switch that leads there, and the limits bring every source back under one, for
\* any vectors, rates and calls of the owner.
THEOREM NoDecisionStrays == Spec => DecisionsDoNotStray
  <1>1. ASSUME Shape, Switches, ~Strayed
        PROVE  ~Strayed'
    <2>1. ASSUME NEW ch \in Channels, SwitchChannel(ch)
          PROVE  ~Strayed'
      BY <1>1, <2>1, RequestDoesNotStray DEF SwitchChannel
    <2>2. ASSUME NEW rate \in Bitrates, SwitchBitRate(rate)
          PROVE  ~Strayed'
      BY <1>1, <2>2, RequestDoesNotStray DEF SwitchBitRate
    <2> QED
      BY <1>1, <2>1, <2>2, StepDoesNotStray DEF Switches
  <1>2. ASSUME Shape, Limits
        PROVE  ~Strayed'
    <2>1. ASSUME NEW min \in Channels, NEW max \in Channels, LimitChannel(min, max)
          PROVE  ~Strayed'
      BY <1>2, <2>1, LimitBringsBack DEF LimitChannel
    <2>2. ASSUME NEW minRate \in Bitrates, NEW maxRate \in Bitrates, LimitBitRate(minRate, maxRate)
          PROVE  ~Strayed'
      BY <1>2, <2>2, LimitBringsBack DEF LimitBitRate
    <2> QED
      BY <1>2, <2>1, <2>2 DEF Limits
  <1>3. Shape /\ [Next]_vars => [ /\ Switches /\ ~Strayed => ~Strayed'
                                  /\ Limits => ~Strayed' ]_vars
    BY <1>1, <1>2
  <1> QED
    BY <1>3, ShapeInit, ShapeStep, PTL DEF Spec, DecisionsDoNotStray
=============================================================================
