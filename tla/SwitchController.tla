-------------------------- MODULE SwitchController --------------------------
(***************************************************************************)
(* lme::SwitchController: which of the channels (bit rates) of a           *)
(* multi-rate source is in use, within limits that may change.  It decides *)
(* and flags; its owner performs the switch, tells it the new channel and  *)
(* takes the flag back.  The repository contains no owner, so the methods  *)
(* are called here in any order and with any arguments.  The               *)
(* assert(m_bInitialised) of a method is a guard.                          *)
(*                                                                         *)
(* m_uiMinBitrate and m_uiMaxBitrate are never read and are left out.      *)
(***************************************************************************)
EXTENDS Integers, Sequences, Functions

CONSTANTS
  Bitrates,   \* bit rates the application asks for
  Vectors,    \* arguments of setChannelBitrates
  Updates     \* arguments of updateCurrentChannel

ASSUME SwitchAssumption ==
  /\ Bitrates \subseteq Nat
  /\ Vectors \subseteq Seq(Nat) \ {<<>>}
  /\ Updates \subseteq Nat

VARIABLES
  m_bInitialised,
  m_vBitrates,        \* channel (from 0) -> bit rate, ascending
  m_uiCurrentChannel,
  m_uiTargetChannel,
  m_uiMinChannel,
  m_uiMaxChannel,
  m_bSwitchFlag

limits == <<m_uiMinChannel, m_uiMaxChannel>>
request == <<m_uiTargetChannel, m_bSwitchFlag>>
vars == <<m_bInitialised, m_vBitrates, m_uiCurrentChannel, limits, request>>

Channels == DOMAIN m_vBitrates

TypeOK ==
  /\ m_bInitialised \in BOOLEAN
  /\ \E n \in {0} \cup {Len(v) : v \in Vectors} : m_vBitrates \in [0 .. n - 1 -> Nat]
  /\ m_bInitialised =>
       /\ m_uiMinChannel \in Channels
       /\ m_uiMaxChannel \in Channels
       /\ m_uiMinChannel <= m_uiMaxChannel
  /\ m_uiCurrentChannel \in Nat
  /\ m_uiTargetChannel \in Nat
  /\ m_bSwitchFlag \in BOOLEAN

Init ==
  /\ m_bInitialised = FALSE
  /\ m_vBitrates = [i \in {} |-> 0]
  /\ m_uiCurrentChannel = 0
  /\ m_uiTargetChannel = 0
  /\ m_uiMinChannel = 0
  /\ m_uiMaxChannel = 0
  /\ m_bSwitchFlag = FALSE

-----------------------------------------------------------------------------
\* Mutated form of Sorted: the vector is kept in the caller's order.
SortedNot(v) == [i \in 0 .. Len(v) - 1 |-> v[i + 1]]

\* std::sort, with channels counted from 0: an order of the positions in which
\* the rates ascend.
Sorted(v) ==
  LET n == Len(v)
      order == CHOOSE p \in Bijection(0 .. n - 1, 1 .. n) :
                 \A i, j \in 0 .. n - 1 : i < j => v[p[i]] <= v[p[j]]
  IN  [i \in 0 .. n - 1 |-> v[order[i]]]

SetChannelBitrates(v) ==
  /\ m_bInitialised' = TRUE
  /\ m_vBitrates' = Sorted(v)
  /\ m_uiMinChannel' = 0
  /\ m_uiMaxChannel' = Len(v) - 1
  /\ UNCHANGED <<m_uiCurrentChannel, request>>

\* updateCurrentChannel tests neither the limits nor the vector.
UpdateCurrentChannel(ch) ==
  /\ m_uiCurrentChannel' = ch
  /\ UNCHANGED <<m_bInitialised, m_vBitrates, limits, request>>

ResetSwitchFlag ==
  /\ m_bSwitchFlag' = FALSE
  /\ UNCHANGED <<m_bInitialised, m_vBitrates, m_uiCurrentChannel, limits, m_uiTargetChannel>>

\* What the owner does about shouldSwitch: updateCurrentChannel to the target,
\* then resetSwitchFlag.
Synchronise ==
  /\ m_bSwitchFlag
  /\ m_uiCurrentChannel' = m_uiTargetChannel
  /\ m_bSwitchFlag' = FALSE
  /\ UNCHANGED <<m_bInitialised, m_vBitrates, limits, m_uiTargetChannel>>

-----------------------------------------------------------------------------
SwitchUp ==
  /\ m_bInitialised
  /\ m_uiCurrentChannel + 1 <= m_uiMaxChannel
  /\ m_uiCurrentChannel' = m_uiCurrentChannel + 1
  /\ UNCHANGED <<m_bInitialised, m_vBitrates, limits, request>>

\* Mutated form of SwitchDown: the bottom of the limits is not tested.
SwitchDownToZero ==
  /\ m_bInitialised
  /\ m_uiCurrentChannel - 1 >= 0
  /\ m_uiCurrentChannel' = m_uiCurrentChannel - 1
  /\ UNCHANGED <<m_bInitialised, m_vBitrates, limits, request>>

SwitchDown ==
  /\ m_bInitialised
  /\ m_uiCurrentChannel - 1 >= m_uiMinChannel
  /\ m_uiCurrentChannel' = m_uiCurrentChannel - 1
  /\ UNCHANGED <<m_bInitialised, m_vBitrates, limits, request>>

\* switchChannel within the limits.
RequestChannel(ch) ==
  /\ ch \in m_uiMinChannel .. m_uiMaxChannel
  /\ m_uiTargetChannel' = ch
  /\ m_bSwitchFlag' = (m_bSwitchFlag \/ ch # m_uiCurrentChannel)

SwitchChannel(ch) ==
  /\ m_bInitialised
  /\ RequestChannel(ch)
  /\ UNCHANGED <<m_bInitialised, m_vBitrates, m_uiCurrentChannel, limits>>

\* setSwitchFlagIfNecessary, with the new limits.  A request that is pending
\* stays as it is when the current channel is within them.
SetSwitchFlagIfNecessary(min, max) ==
  IF m_uiCurrentChannel \in min .. max
    THEN UNCHANGED request
    ELSE /\ m_uiTargetChannel' = (IF m_uiCurrentChannel < min THEN min ELSE max)
         /\ m_bSwitchFlag' = TRUE

\* Mutated form of Limit: the order of the arguments is not tested.
LimitUnordered(min, max) ==
  /\ min \in Channels /\ max \in Channels
  /\ m_uiMinChannel' = min
  /\ m_uiMaxChannel' = max
  /\ SetSwitchFlagIfNecessary(min, max)
  /\ UNCHANGED <<m_bInitialised, m_vBitrates, m_uiCurrentChannel>>

\* limitChannel with arguments it accepts.
Limit(min, max) ==
  /\ min \in Channels /\ max \in Channels /\ min <= max
  /\ m_uiMinChannel' = min
  /\ m_uiMaxChannel' = max
  /\ SetSwitchFlagIfNecessary(min, max)
  /\ UNCHANGED <<m_bInitialised, m_vBitrates, m_uiCurrentChannel>>

LimitChannel(min, max) == m_bInitialised /\ Limit(min, max)

\* Mutated form of LessOrEqual: less.
Less(rate) ==
  {i \in Channels : m_vBitrates[i] < rate /\ \A j \in 0 .. i : m_vBitrates[j] < rate}

\* The channels findIndexOfFirstBitrateLessOrEqual passes over before it stops;
\* it returns the last of them.
LessOrEqual(rate) ==
  {i \in Channels : \A j \in 0 .. i : m_vBitrates[j] <= rate}

GreaterOrEqual(rate) == {i \in Channels : m_vBitrates[i] >= rate}

IsFirst(i, S) == i \in S /\ \A j \in S : i <= j
IsLast(i, S) == i \in S /\ \A j \in S : i >= j

SwitchBitRate(rate) ==
  /\ m_bInitialised
  /\ \E i \in Channels : IsLast(i, LessOrEqual(rate)) /\ RequestChannel(i)
  /\ UNCHANGED <<m_bInitialised, m_vBitrates, m_uiCurrentChannel, limits>>

LimitBitRate(minRate, maxRate) ==
  /\ m_bInitialised
  /\ \E min, max \in Channels :
       /\ IsFirst(min, GreaterOrEqual(minRate))
       /\ IsLast(max, LessOrEqual(maxRate))
       /\ Limit(min, max)

-----------------------------------------------------------------------------
Switches ==
  \/ SwitchUp
  \/ SwitchDown
  \/ \E ch \in Channels : SwitchChannel(ch)
  \/ \E rate \in Bitrates : SwitchBitRate(rate)

Limits ==
  \/ \E min, max \in Channels : LimitChannel(min, max)
  \/ \E minRate, maxRate \in Bitrates : LimitBitRate(minRate, maxRate)

Next ==
  \/ \E v \in Vectors : SetChannelBitrates(v)
  \/ \E ch \in Updates : UpdateCurrentChannel(ch)
  \/ ResetSwitchFlag
  \/ Synchronise
  \/ Switches
  \/ Limits

Spec == Init /\ [][Next]_vars

-----------------------------------------------------------------------------
(***************************************************************************)
(* Properties.                                                             *)
(***************************************************************************)
WithinLimits(ch) == ch \in m_uiMinChannel .. m_uiMaxChannel

\* The source runs outside its limits and no pending switch leads back.
Strayed ==
  /\ m_bInitialised
  /\ ~WithinLimits(m_uiCurrentChannel)
  /\ ~(m_bSwitchFlag /\ WithinLimits(m_uiTargetChannel))

\* However its owner calls the class and whatever is pending: a switch, up, down or
\* requested, never lets a source stray that did not before, and a limit brings back
\* every source, also one that its owner had let stray.
DecisionsDoNotStray ==
  [][ /\ Switches /\ ~Strayed => ~Strayed'
      /\ Limits => ~Strayed' ]_vars

\* limitBitRate admits exactly the channels whose bit rate lies in the range.
LimitsMatchRates ==
  [][ \A lo, hi \in Bitrates :
        LimitBitRate(lo, hi) =>
          m_uiMinChannel' .. m_uiMaxChannel' = {i \in Channels : m_vBitrates[i] \in lo .. hi} ]_vars

\* switchBitRate aims at the largest bit rate that does not exceed the one asked
\* for, or refuses if that one lies outside the limits.
BestRateNotAbove ==
  [][ \A rate \in Bitrates :
        SwitchBitRate(rate) =>
          LET best == m_vBitrates[m_uiTargetChannel'] IN
            best <= rate /\ \A i \in Channels : m_vBitrates[i] <= rate => m_vBitrates[i] <= best ]_vars
=============================================================================
