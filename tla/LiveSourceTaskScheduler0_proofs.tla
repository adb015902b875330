------------------- MODULE LiveSourceTaskScheduler0_proofs -------------------
(***************************************************************************)
(* Proofs about processLiveSources, for any registry, any rounds and       *)
(* budget, and any pushes of the capture threads between two hand-overs.   *)
(*                                                                         *)
(* The argument is RoundInv: in the middle of a call a source that was     *)
(* never found empty has been served once per completed round, and once    *)
(* more if the iterators have passed it in the current one; no source has  *)
(* been served more often than that.                                       *)
(***************************************************************************)
EXTENDS LiveSourceTaskScheduler0, FiniteSetTheorems, TLAPS

\* The maps' order is total and strict.
LEMMA SlotFields == \A s \in Slots : s[1] \in Nat /\ s[2] \in Nat /\ s = <<s[1], s[2]>>
  BY SchedulerAssumption

LEMMA BeforeTotal ==
  ASSUME NEW s \in Slots, NEW t \in Slots
  PROVE  /\ ~Before(s, s)
         /\ s = t \/ Before(s, t) \/ Before(t, s)
         /\ ~(Before(s, t) /\ Before(t, s))
<1>1. /\ s[1] \in Nat /\ s[2] \in Nat /\ s = <<s[1], s[2]>>
      /\ t[1] \in Nat /\ t[2] \in Nat /\ t = <<t[1], t[2]>>
  BY SlotFields
<1>2. s[1] = t[1] /\ s[2] = t[2] => s = t
  BY <1>1, Zenon
<1> QED
  BY <1>1, <1>2 DEF Before

LEMMA BeforeTransitive ==
  ASSUME NEW s \in Slots, NEW t \in Slots, NEW u \in Slots, Before(s, t), Before(t, u)
  PROVE  Before(s, u)
  BY SlotFields DEF Before

-----------------------------------------------------------------------------
(***************************************************************************)
(* While a call runs the iterators point to a registered slot and neither  *)
(* limit is reached.                                                       *)
(***************************************************************************)
WithinLimits ==
  pc = "polling" =>
    /\ at \in m_mMediaSessions
    /\ uiSessionCount < MAX_REVOLUTIONS
    /\ uiSampleCount < MAX_SAMPLES

TypeInv == TypeOK /\ WithinLimits

LEMMA AdvanceTyped ==
  ASSUME TypeOK, WithinLimits, pc = "polling", Advance, UNCHANGED m_mMediaSessions
  PROVE  /\ pc' \in {"stepping", "polling"}
         /\ at' \in Slots \cup {NoSlot}
         /\ uiSessionCount' \in 0..MAX_REVOLUTIONS
         /\ pc' = "polling" => at' \in m_mMediaSessions /\ uiSessionCount' < MAX_REVOLUTIONS
  BY SchedulerAssumption
     DEF Advance, NextRound, EndCall, After, IsFirst, TypeOK, WithinLimits

LEMMA TypeInvInductive == TypeInv /\ [Next]_vars => TypeInv'
<1> SUFFICES ASSUME TypeInv, [Next]_vars PROVE TypeInv'
  OBVIOUS
<1> USE SchedulerAssumption DEF TypeInv, TypeOK, WithinLimits
<1>1. ASSUME NEW s \in Slots, NEW n \in BatchSizes, Deliver(s, n) PROVE TypeInv'
  <2>1. Pushed(s, n) \in 0..LF_CAPACITY
    BY DEF Pushed
  <2> QED
    BY <1>1, <2>1 DEF Deliver, locals, history
<1>2. ASSUME NEW s \in Slots, AddMediaSubsession(s) PROVE TypeInv'
  BY <1>2 DEF AddMediaSubsession, locals, history
<1>3. ASSUME NEW s \in Slots, RemoveMediaSubsession(s) PROVE TypeInv'
  BY <1>3 DEF RemoveMediaSubsession, locals, history
<1>4. CASE BeginCall
  BY <1>4 DEF BeginCall, IsFirst
<1>5. ASSUME NEW s \in Slots, HandOver(s) PROVE TypeInv'
  <2>1. CASE Spent(uiSampleCount + 1)
    BY <1>5, <2>1 DEF HandOver, Pop, EndCall
  <2>2. CASE ~Spent(uiSampleCount + 1)
    <3>1. Advance
      BY <1>5, <2>2 DEF HandOver, Pop
    <3>2. uiSampleCount' \in 0..MAX_SAMPLES /\ uiSampleCount' < MAX_SAMPLES
      BY <1>5, <2>2 DEF HandOver, Pop, Spent
    <3> QED
      BY <1>5, <3>1, <3>2, AdvanceTyped DEF HandOver, Pop
  <2> QED
    BY <2>1, <2>2
<1>6. ASSUME NEW s \in Slots, NoMedia(s) PROVE TypeInv'
  BY <1>6, AdvanceTyped DEF NoMedia
<1>7. CASE UNCHANGED vars
  BY <1>7 DEF vars, locals, history
<1> QED
  BY <1>1, <1>2, <1>3, <1>4, <1>5, <1>6, <1>7 DEF Next, Visit

\* Type correctness: no queue outgrows its capacity, no counter its limit.
THEOREM TypeCorrect == Spec => []TypeOK
<1>1. Init => TypeInv
  BY SchedulerAssumption DEF Init, TypeInv, TypeOK, WithinLimits
<1>2. TypeInv => TypeOK
  BY DEF TypeInv
<1> QED
  BY <1>1, <1>2, TypeInvInductive, PTL DEF Spec

-----------------------------------------------------------------------------
(***************************************************************************)
(* How often a registered slot has been visited so far in this call.       *)
(***************************************************************************)
Visits(s) == uiSessionCount + (IF Before(s, at) THEN 1 ELSE 0)

Rounds ==
  pc = "polling" =>
    \A s \in m_mMediaSessions :
      /\ served[s] <= Visits(s)
      /\ s \in emptied \/ served[s] = Visits(s)

RoundInv == TypeInv /\ Rounds

\* After the visit of "at": every slot up to and including it has one visit more.
Visited(s) == uiSessionCount + (IF s = at \/ Before(s, at) THEN 1 ELSE 0)

LEMMA AdvanceVisits ==
  ASSUME TypeInv, pc = "polling", Advance, UNCHANGED m_mMediaSessions
  PROVE  /\ pc' = "polling" => \A s \in m_mMediaSessions : Visits(s)' = Visited(s)
         /\ pc' # "polling" => \A s \in m_mMediaSessions : Visited(s) = MAX_REVOLUTIONS
<1> USE DEF TypeInv, TypeOK, WithinLimits
<1>0. at \in Slots /\ m_mMediaSessions \subseteq Slots
  OBVIOUS
<1>1. ASSUME NEW next \in After(at), IsFirst(next, After(at)), at' = next,
             UNCHANGED <<pc, uiSessionCount>>, NEW s \in m_mMediaSessions
      PROVE  Before(s, at)' <=> s = at \/ Before(s, at)
  <2>1. next \in Slots /\ s \in Slots /\ Before(at, next)
    BY <1>0 DEF After
  <2>2. Before(s, at)' <=> Before(s, next)
    BY <1>1 DEF Before
  <2>3. CASE s = at
    BY <2>1, <2>2, <2>3
  <2>4. CASE Before(s, at)
    BY <1>0, <2>1, <2>2, <2>4, BeforeTransitive
  <2>5. CASE s # at /\ ~Before(s, at)
    <3>1. s \in After(at)
      BY <1>0, <2>1, <2>5, BeforeTotal DEF After
    <3>2. s = next \/ Before(next, s)
      BY <1>1, <3>1 DEF IsFirst
    <3> QED
      BY <2>1, <2>2, <2>5, <3>2, BeforeTotal
  <2> QED
    BY <2>3, <2>4, <2>5
<1>2. CASE After(at) = {} /\ NextRound
  <2>1. \A s \in m_mMediaSessions : s = at \/ Before(s, at)
    BY <1>0, <1>2, BeforeTotal DEF After
  <2>2. ASSUME pc' = "polling", NEW s \in m_mMediaSessions PROVE Visits(s)' = Visited(s)
    <3>1. /\ uiSessionCount' = uiSessionCount + 1
          /\ at' \in m_mMediaSessions
          /\ s = at' \/ Before(at', s)
      BY <1>2, <2>2 DEF NextRound, EndCall, IsFirst
    <3>2. ~Before(s, at')
      BY <1>0, <3>1, BeforeTotal
    <3>3. ~(Before(s, at)')
      BY <3>2 DEF Before
    <3> QED
      BY <2>1, <3>1, <3>3 DEF Visits, Visited
  <2>3. ASSUME pc' # "polling", NEW s \in m_mMediaSessions PROVE Visited(s) = MAX_REVOLUTIONS
    BY <1>2, <2>1, <2>3, SchedulerAssumption DEF NextRound, Visited
  <2> QED
    BY <2>2, <2>3
<1>3. CASE \E next \in After(at) : IsFirst(next, After(at)) /\ at' = next
                                   /\ UNCHANGED <<pc, uiSessionCount>>
  BY <1>1, <1>3 DEF Visits, Visited
<1> QED
  BY <1>2, <1>3 DEF Advance

\* A visit gives the slot its sample or finds it empty.
LEMMA VisitCounts ==
  ASSUME RoundInv, NEW v \in Slots, HandOver(v) \/ NoMedia(v)
  PROVE  \A s \in m_mMediaSessions :
           /\ served'[s] <= Visited(s)
           /\ s \in emptied' \/ served'[s] = Visited(s)
<1> SUFFICES ASSUME NEW s \in m_mMediaSessions
             PROVE  /\ served'[s] <= Visited(s)
                    /\ s \in emptied' \/ served'[s] = Visited(s)
  OBVIOUS
<1> USE DEF RoundInv, TypeInv, TypeOK, WithinLimits, Rounds
<1>1. /\ pc = "polling" /\ at = v /\ s \in Slots
      /\ served[s] \in Nat /\ uiSessionCount \in Nat
      /\ served[s] <= Visits(s)
      /\ s \in emptied \/ served[s] = Visits(s)
  BY DEF HandOver, Pop, NoMedia
<1>2. ~Before(v, v)
  BY BeforeTotal
<1>3. CASE s = v
  <2>1. Visits(s) = uiSessionCount /\ Visited(s) = uiSessionCount + 1
    BY <1>1, <1>2, <1>3 DEF Visits, Visited
  <2>2. CASE HandOver(v)
    BY <1>1, <1>3, <2>1, <2>2 DEF HandOver, Pop
  <2>3. CASE NoMedia(v)
    BY <1>1, <1>3, <2>1, <2>3 DEF NoMedia
  <2> QED
    BY <2>2, <2>3
<1>4. CASE s # v
  <2>1. Visits(s) = Visited(s)
    BY <1>1, <1>4 DEF Visits, Visited
  <2>2. CASE HandOver(v)
    BY <1>1, <1>4, <2>1, <2>2 DEF HandOver, Pop
  <2>3. CASE NoMedia(v)
    BY <1>1, <1>4, <2>1, <2>3 DEF NoMedia
  <2> QED
    BY <2>2, <2>3
<1> QED
  BY <1>3, <1>4

LEMMA VisitAdvances ==
  ASSUME NEW v \in Slots, HandOver(v) \/ NoMedia(v)
  PROVE  /\ pc = "polling" /\ UNCHANGED m_mMediaSessions
         /\ Advance \/ (EndCall /\ Spent(uiSampleCount + 1) /\ uiSampleCount' = uiSampleCount + 1)
  BY DEF HandOver, Pop, NoMedia

LEMMA RoundInvInductive == RoundInv /\ [Next]_vars => RoundInv'
<1> SUFFICES ASSUME RoundInv, [Next]_vars PROVE Rounds'
  BY TypeInvInductive DEF RoundInv
<1> USE DEF RoundInv, TypeInv, TypeOK, WithinLimits
<1>1. ASSUME NEW s \in Slots, NEW n \in BatchSizes, Deliver(s, n) PROVE Rounds'
  BY <1>1 DEF Deliver, Rounds, Visits, Before, locals, history
<1>2. ASSUME NEW s \in Slots, AddMediaSubsession(s) PROVE Rounds'
  BY <1>2 DEF AddMediaSubsession, Rounds
<1>3. ASSUME NEW s \in Slots, RemoveMediaSubsession(s) PROVE Rounds'
  BY <1>3 DEF RemoveMediaSubsession, Rounds
<1>4. CASE BeginCall
  <2>1. /\ at' \in m_mMediaSessions /\ UNCHANGED m_mMediaSessions
        /\ \A s \in m_mMediaSessions : s = at' \/ Before(at', s)
        /\ uiSessionCount' = 0
        /\ \A s \in m_mMediaSessions : served'[s] = 0
    BY <1>4 DEF BeginCall, IsFirst
  <2>2. \A s \in m_mMediaSessions : ~Before(s, at')
    BY <2>1, BeforeTotal
  <2> QED
    BY <2>1, <2>2 DEF Rounds, Visits, Before
<1>5. ASSUME NEW v \in Slots, HandOver(v) \/ NoMedia(v) PROVE Rounds'
  <2>1. UNCHANGED m_mMediaSessions
    BY <1>5, VisitAdvances
  <2>2. CASE Advance
    BY <1>5, <2>1, <2>2, VisitCounts, VisitAdvances, AdvanceVisits DEF Rounds
  <2>3. CASE EndCall
    BY <2>3 DEF EndCall, Rounds
  <2> QED
    BY <1>5, <2>2, <2>3, VisitAdvances
<1>6. CASE UNCHANGED vars
  BY <1>6 DEF vars, locals, history, Rounds, Visits, Before
<1> QED
  BY <1>1, <1>2, <1>3, <1>4, <1>5, <1>6 DEF Next, Visit

LEMMA RoundInvInit == Init => RoundInv
  BY SchedulerAssumption DEF Init, RoundInv, TypeInv, TypeOK, WithinLimits, Rounds

\* No registered source gets more than one sample ahead of another that always
\* had samples, for any number of slots and any interleaving with the pushes.
THEOREM NobodyOvertaken == Spec => []NoSourceOvertaken
<1>1. RoundInv => NoSourceOvertaken
  <2> SUFFICES ASSUME RoundInv, pc = "polling", NEW s \in m_mMediaSessions,
                      NEW t \in m_mMediaSessions, served[s] > served[t] + 1
               PROVE  t \in emptied
    BY DEF NoSourceOvertaken
  <2>1. /\ served[s] \in Nat /\ served[t] \in Nat /\ uiSessionCount \in Nat
        /\ served[s] <= Visits(s)
        /\ t \in emptied \/ served[t] = Visits(t)
    BY DEF RoundInv, TypeInv, TypeOK, Rounds
  <2> QED
    BY <2>1 DEF Visits
<1> QED
  BY <1>1, RoundInvInit, RoundInvInductive, PTL DEF Spec

\* A call that ends has spent its budget or visited every source in every round.
THEOREM CallComplete == Spec => CallDoesItsWork
<1>1. ASSUME RoundInv, [Next]_vars
      PROVE  [ (pc = "polling" /\ pc' = "stepping") =>
               \/ uiSampleCount' = MAX_SAMPLES
               \/ \A s \in m_mMediaSessions : s \in emptied' \/ served'[s] = MAX_REVOLUTIONS ]_vars
  <2> SUFFICES ASSUME pc = "polling", pc' = "stepping"
               PROVE  \/ uiSampleCount' = MAX_SAMPLES
                      \/ \A s \in m_mMediaSessions : s \in emptied' \/ served'[s] = MAX_REVOLUTIONS
    OBVIOUS
  <2>1. PICK v \in Slots : HandOver(v) \/ NoMedia(v)
    BY <1>1 DEF Next, Visit, Deliver, AddMediaSubsession, RemoveMediaSubsession, BeginCall,
                vars
  <2>2. CASE Advance
    <3>1. \A s \in m_mMediaSessions : Visited(s) = MAX_REVOLUTIONS
      BY <1>1, <2>1, <2>2, VisitAdvances, AdvanceVisits DEF RoundInv
    <3> QED
      BY <1>1, <2>1, <3>1, VisitCounts
  <2>3. CASE Spent(uiSampleCount + 1) /\ uiSampleCount' = uiSampleCount + 1
    BY <1>1, <2>3, SchedulerAssumption DEF Spent, RoundInv, TypeInv, TypeOK, WithinLimits
  <2> QED
    BY <2>1, <2>2, <2>3, VisitAdvances
<1> QED
  BY <1>1, RoundInvInit, RoundInvInductive, PTL DEF Spec, CallDoesItsWork

-----------------------------------------------------------------------------
(***************************************************************************)
(* Sums.  SumFunction is a fold, which recurs over the subsets of a        *)
(* function's domain.  The recursion has a solution, for the number of     *)
(* units <<x, k>> with k below f[x] is one, and no other, for a smallest   *)
(* set on which two solutions differ would have to be empty.  From then on *)
(* a sum is the cardinality of a set.                                      *)
(***************************************************************************)

\* The equation of the recursion behind SumFunction.
Sums(f, g, T) ==
  IF T = {} THEN 0
  ELSE f[CHOOSE x \in T : TRUE] + g[T \ {CHOOSE x \in T : TRUE}]

LEMMA SumDef ==
  ASSUME NEW f
  PROVE SumFunction(f) =
          (CHOOSE g : g = [T \in SUBSET (DOMAIN f) |-> Sums(f, g, T)])[DOMAIN f]
  BY DEF SumFunction, SumFunctionOnSet, FoldFunctionOnSet, MapThenFoldSet, Sums

Row(f, x) == {x} \X (0 .. f[x] - 1)
Units(f, T) == {p \in T \X Nat : p[2] < f[p[1]]}

LEMMA RowSize ==
  ASSUME NEW f, NEW x, f[x] \in Nat
  PROVE  IsFiniteSet(Row(f, x)) /\ Cardinality(Row(f, x)) = f[x]
<1>1. /\ IsFiniteSet(0 .. f[x] - 1)
      /\ Cardinality(0 .. f[x] - 1) = f[x]
  <2> DEFINE b == f[x] - 1
  <2>1. 0 \in Int /\ b \in Int /\ f[x] = b + 1 /\ ~(0 > b + 1)
    OBVIOUS
  <2> HIDE DEF b
  <2>2. /\ IsFiniteSet(0 .. b)
        /\ Cardinality(0 .. b) = IF 0 > b THEN 0 ELSE b - 0 + 1
    BY <2>1, FS_Interval
  <2>3. IsFiniteSet(0 .. b) /\ Cardinality(0 .. b) = f[x]
    BY <2>1, <2>2
  <2> QED
    BY <2>3 DEF b
<1>2. IsFiniteSet({x}) /\ Cardinality({x}) = 1
  BY FS_Singleton
<1>3. /\ IsFiniteSet({x} \X (0 .. f[x] - 1))
      /\ Cardinality({x} \X (0 .. f[x] - 1)) = Cardinality({x}) * Cardinality(0 .. f[x] - 1)
  BY <1>1, <1>2, FS_Product
<1> QED
  BY <1>1, <1>2, <1>3 DEF Row

LEMMA UnitsFinite ==
  ASSUME NEW S, NEW f \in [S -> Nat], NEW T \in SUBSET S, IsFiniteSet(T)
  PROVE  IsFiniteSet(Units(f, T))
<1> DEFINE rows == {Row(f, x) : x \in T}
           row == [x \in T |-> Row(f, x)]
<1>1. row \in Surjection(T, rows)
  BY DEF Surjection
<1>2. IsFiniteSet(rows)
  <2> HIDE DEF rows, row
  <2> QED
    BY <1>1, FS_Surjection
<1>3. \A r \in rows : IsFiniteSet(r)
  <2> SUFFICES ASSUME NEW x \in T PROVE IsFiniteSet(Row(f, x))
    OBVIOUS
  <2>1. f[x] \in Nat
    OBVIOUS
  <2> QED
    BY <2>1, RowSize
<1>4. IsFiniteSet(UNION rows)
  <2> HIDE DEF rows
  <2> QED
    BY <1>2, <1>3, FS_UNION
<1>5. Units(f, T) \subseteq UNION rows
  <2> SUFFICES ASSUME NEW p \in Units(f, T) PROVE \E x \in T : p \in Row(f, x)
    OBVIOUS
  <2>1. p[1] \in T /\ p[2] \in Nat /\ p = <<p[1], p[2]>> /\ p[2] < f[p[1]]
    BY DEF Units
  <2>2. f[p[1]] \in Nat
    BY <2>1
  <2>3. p \in Row(f, p[1])
    BY <2>1, <2>2 DEF Row
  <2> QED
    BY <2>1, <2>3
<1> QED
  BY <1>4, <1>5, FS_Subset

LEMMA UnitsOfOneLess ==
  ASSUME NEW S, NEW f \in [S -> Nat], NEW T \in SUBSET S, IsFiniteSet(T), NEW x \in T
  PROVE  Cardinality(Units(f, T)) = f[x] + Cardinality(Units(f, T \ {x}))
<1>1. f[x] \in Nat
  OBVIOUS
<1>2. IsFiniteSet(Row(f, x)) /\ Cardinality(Row(f, x)) = f[x]
  BY <1>1, RowSize
<1>3. IsFiniteSet(Units(f, T \ {x}))
  <2>1. T \ {x} \in SUBSET S /\ IsFiniteSet(T \ {x})
    BY FS_RemoveElement
  <2> QED
    BY <2>1, UnitsFinite
<1>4. Units(f, T) = Row(f, x) \cup Units(f, T \ {x})
  <2>1. ASSUME NEW p \in Units(f, T) PROVE p \in Row(f, x) \cup Units(f, T \ {x})
    <3>1. p[1] \in T /\ p[2] \in Nat /\ p = <<p[1], p[2]>> /\ p[2] < f[p[1]]
      BY <2>1 DEF Units
    <3>2. CASE p[1] = x
      BY <1>1, <3>1, <3>2 DEF Row
    <3>3. CASE p[1] # x
      BY <3>1, <3>3 DEF Units
    <3> QED
      BY <3>2, <3>3
  <2>2. ASSUME NEW p \in Row(f, x) PROVE p \in Units(f, T)
    BY <1>1, <2>2 DEF Row, Units
  <2>3. ASSUME NEW p \in Units(f, T \ {x}) PROVE p \in Units(f, T)
    BY <2>3 DEF Units
  <2> QED
    BY <2>1, <2>2, <2>3
<1>5. Row(f, x) \cap Units(f, T \ {x}) = {}
  <2> SUFFICES ASSUME NEW p \in Row(f, x), p \in Units(f, T \ {x}) PROVE FALSE
    OBVIOUS
  <2>1. p[1] = x
    BY DEF Row
  <2>2. p[1] \in T \ {x}
    BY DEF Units
  <2> QED
    BY <2>1, <2>2
<1>6. /\ Cardinality(Row(f, x) \cup Units(f, T \ {x})) =
           Cardinality(Row(f, x)) + Cardinality(Units(f, T \ {x}))
             - Cardinality(Row(f, x) \cap Units(f, T \ {x}))
  BY <1>2, <1>3, FS_Union
<1>7. Cardinality(Units(f, T \ {x})) \in Nat
  BY <1>3, FS_CardinalityType
<1>8. Cardinality(Row(f, x) \cap Units(f, T \ {x})) = 0
  BY <1>5, FS_EmptySet
<1> QED
  BY <1>1, <1>2, <1>4, <1>6, <1>7, <1>8

LEMMA NoUnits ==
  ASSUME NEW f
  PROVE  Cardinality(Units(f, {})) = 0
<1>1. Units(f, {}) = {}
  BY DEF Units
<1> QED
  BY <1>1, FS_EmptySet

\* The number of units is a solution of the recursion,
LEMMA UnitsSolve ==
  ASSUME NEW S, NEW f \in [S -> Nat], IsFiniteSet(S), NEW g,
         g = [T \in SUBSET S |-> Cardinality(Units(f, T))]
  PROVE  g = [T \in SUBSET S |-> Sums(f, g, T)]
<1> SUFFICES ASSUME NEW T \in SUBSET S PROVE Cardinality(Units(f, T)) = Sums(f, g, T)
  OBVIOUS
<1>1. CASE T = {}
  BY <1>1, NoUnits DEF Sums
<1>2. CASE T # {}
  <2> DEFINE x == CHOOSE y \in T : TRUE
  <2>1. x \in T
    BY <1>2
  <2>2. IsFiniteSet(T)
    BY FS_Subset
  <2> HIDE DEF x
  <2>3. Cardinality(Units(f, T)) = f[x] + Cardinality(Units(f, T \ {x}))
    BY <2>1, <2>2, UnitsOfOneLess
  <2>4. g[T \ {x}] = Cardinality(Units(f, T \ {x}))
    OBVIOUS
  <2> QED
    BY <1>2, <2>3, <2>4 DEF Sums, x
<1> QED
  BY <1>1, <1>2

\* and the only one.
LEMMA SolutionCounts ==
  ASSUME NEW S, NEW f \in [S -> Nat], IsFiniteSet(S), NEW g,
         g = [T \in SUBSET S |-> Sums(f, g, T)]
  PROVE  g[S] = Cardinality(Units(f, S))
<1> DEFINE wrong == {T \in SUBSET S : g[T] # Cardinality(Units(f, T))}
<1>1. ASSUME wrong # {} PROVE FALSE
  <2>1. PICK T \in wrong : \A U \in wrong : <<U, T>> \notin StrictSubsetOrdering(S)
    <3>1. wrong \subseteq FiniteSubsetsOf(S)
      BY FS_FiniteSubsetsOfFinite
    <3> HIDE DEF wrong
    <3> QED
      BY <1>1, <3>1, FS_StrictSubsetOrderingWellFounded, WFMin
  <2>2. T \in SUBSET S /\ g[T] # Cardinality(Units(f, T)) /\ g[T] = Sums(f, g, T)
    OBVIOUS
  <2>3. T # {}
    BY <2>2, NoUnits DEF Sums
  <2> DEFINE x == CHOOSE y \in T : TRUE
  <2>4. x \in T
    BY <2>3
  <2>5. IsFiniteSet(T)
    BY <2>2, FS_Subset
  <2>6. g[T] = f[x] + g[T \ {x}]
    BY <2>2, <2>3 DEF Sums
  <2> HIDE DEF x
  <2>7. <<T \ {x}, T>> \in StrictSubsetOrdering(S)
    BY <2>2, <2>4 DEF StrictSubsetOrdering
  <2>8. T \ {x} \notin wrong
    <3> HIDE DEF wrong
    <3> QED
      BY <2>1, <2>7
  <2>9. g[T \ {x}] = Cardinality(Units(f, T \ {x}))
    BY <2>2, <2>8
  <2> QED
    BY <2>2, <2>4, <2>5, <2>6, <2>9, UnitsOfOneLess
<1> QED
  BY <1>1

\* A sum counts units.
LEMMA SumCounts ==
  ASSUME NEW S, NEW f \in [S -> Nat], IsFiniteSet(S)
  PROVE  SumFunction(f) = Cardinality(Units(f, S))
<1> DEFINE solution == CHOOSE g : g = [T \in SUBSET S |-> Sums(f, g, T)]
<1>1. SumFunction(f) = solution[S]
  <2>1. DOMAIN f = S
    OBVIOUS
  <2> QED
    BY <2>1, SumDef
<1>2. \E g : g = [T \in SUBSET S |-> Sums(f, g, T)]
  <2>1. [T \in SUBSET S |-> Cardinality(Units(f, T))] =
          [T \in SUBSET S |-> Sums(f, [U \in SUBSET S |-> Cardinality(Units(f, U))], T)]
    BY UnitsSolve
  <2> QED
    BY <2>1
<1>3. solution = [T \in SUBSET S |-> Sums(f, solution, T)]
  BY <1>2
<1> HIDE DEF solution
<1>4. solution[S] = Cardinality(Units(f, S))
  BY <1>3, SolutionCounts
<1> QED
  BY <1>1, <1>4

\* One unit more in one place is one more in the sum.
LEMMA SumGrowsByOne ==
  ASSUME NEW S, NEW f \in [S -> Nat], IsFiniteSet(S), NEW s \in S
  PROVE  SumFunction([f EXCEPT ![s] = @ + 1]) = SumFunction(f) + 1
<1> DEFINE g == [f EXCEPT ![s] = @ + 1]
<1>1. g \in [S -> Nat] /\ g[s] = f[s] + 1 /\ \A x \in S \ {s} : g[x] = f[x]
  OBVIOUS
<1>2. f[s] \in Nat
  OBVIOUS
<1> HIDE DEF g
<1>3. Units(g, S) = Units(f, S) \cup {<<s, f[s]>>}
  <2>1. ASSUME NEW p \in Units(g, S) PROVE p \in Units(f, S) \cup {<<s, f[s]>>}
    <3>1. p[1] \in S /\ p[2] \in Nat /\ p = <<p[1], p[2]>> /\ p[2] < g[p[1]]
      BY <2>1 DEF Units
    <3>2. CASE p[1] = s
      BY <1>1, <1>2, <3>1, <3>2 DEF Units
    <3>3. CASE p[1] # s
      BY <1>1, <3>1, <3>3 DEF Units
    <3> QED
      BY <3>2, <3>3
  <2>2. ASSUME NEW p \in Units(f, S) PROVE p \in Units(g, S)
    BY <1>1, <1>2, <2>2 DEF Units
  <2>3. <<s, f[s]>> \in Units(g, S)
    BY <1>1, <1>2 DEF Units
  <2> QED
    BY <2>1, <2>2, <2>3
<1>4. <<s, f[s]>> \notin Units(f, S)
  BY <1>2 DEF Units
<1>5. S \in SUBSET S
  OBVIOUS
<1>6. IsFiniteSet(Units(f, S))
  BY <1>5, UnitsFinite
<1>7. Cardinality(Units(g, S)) = Cardinality(Units(f, S)) + 1
  BY <1>3, <1>4, <1>6, FS_AddElement
<1>8. SumFunction(g) = SumFunction(f) + 1
  BY <1>1, <1>7, SumCounts
<1> QED
  BY <1>8 DEF g

LEMMA SumOfNone ==
  ASSUME NEW S, IsFiniteSet(S), NEW f \in [S -> Nat], \A x \in S : f[x] = 0
  PROVE  SumFunction(f) = 0
<1>1. Units(f, S) = {}
  BY DEF Units
<1> QED
  BY <1>1, SumCounts, FS_EmptySet

-----------------------------------------------------------------------------
(***************************************************************************)
(* The count that the three loops test is the number of samples handed on. *)
(***************************************************************************)
Counted == SumFunction(served) = uiSampleCount

BudgetInv == TypeInv /\ Counted

LEMMA BudgetInvInductive == BudgetInv /\ [Next]_vars => BudgetInv'
<1> SUFFICES ASSUME BudgetInv, [Next]_vars PROVE Counted'
  BY TypeInvInductive DEF BudgetInv
<1> USE DEF BudgetInv, Counted
<1>1. CASE UNCHANGED <<served, uiSampleCount>>
  BY <1>1
<1>2. CASE BeginCall
  <2>1. served' \in [Slots -> Nat] /\ \A s \in Slots : served'[s] = 0
    BY <1>2 DEF BeginCall
  <2>2. SumFunction(served') = 0
    BY <2>1, SumOfNone, SchedulerAssumption
  <2> QED
    BY <1>2, <2>2 DEF BeginCall
<1>3. ASSUME NEW s \in Slots, HandOver(s) PROVE Counted'
  <2>1. served \in [Slots -> Nat]
    BY DEF TypeInv, TypeOK
  <2>2. SumFunction([served EXCEPT ![s] = @ + 1]) = SumFunction(served) + 1
    BY <2>1, SumGrowsByOne, SchedulerAssumption
  <2> QED
    BY <1>3, <2>2 DEF HandOver
<1> QED
  BY <1>1, <1>2, <1>3
     DEF Next, Visit, Deliver, AddMediaSubsession, RemoveMediaSubsession, NoMedia, vars,
         locals, history

\* One call hands on no more samples than its budget, for any number of slots,
\* rounds and any pushes meanwhile: no sample escapes the count.
THEOREM WithinBudget == Spec => []BudgetKept
<1>1. Init => BudgetInv
  <2> SUFFICES ASSUME Init PROVE Counted
    BY RoundInvInit DEF BudgetInv, RoundInv
  <2>1. served \in [Slots -> Nat] /\ \A s \in Slots : served[s] = 0
    BY DEF Init
  <2>2. SumFunction(served) = 0
    BY <2>1, SumOfNone, SchedulerAssumption
  <2> QED
    BY <2>2 DEF Init, Counted
<1>2. BudgetInv => BudgetKept
  BY SchedulerAssumption DEF BudgetInv, Counted, TypeInv, TypeOK, BudgetKept
<1> QED
  BY <1>1, <1>2, BudgetInvInductive, PTL DEF Spec

-----------------------------------------------------------------------------
(***************************************************************************)
(* What LoopComesBack rests on, but for the fairness of the thread: a call *)
(* that has not ended has a next slot to go to, and goes forward.          *)
(***************************************************************************)

\* The maps' order is well-founded: it is the lexicographic one on pairs.
LEMMA FirstExists ==
  ASSUME NEW S \in SUBSET Slots, S # {}
  PROVE  \E s \in S : IsFirst(s, S)
<1> DEFINE lt == OpToRel(<, Nat)
           order == LexPairOrdering(lt, lt, Nat, Nat)
<1>1. IsWellFoundedOn(order, Nat \X Nat)
  <2>1. IsWellFoundedOn(lt, Nat)
    BY NatLessThanWellFounded
  <2> HIDE DEF lt
  <2> QED
    BY <2>1, WFLexPairOrdering
<1>2. S \subseteq Nat \X Nat
  BY SchedulerAssumption
<1>3. PICK s \in S : \A t \in S : <<t, s>> \notin order
  <2> HIDE DEF order
  <2> QED
    BY <1>1, <1>2, WFMin
<1>4. ASSUME NEW t \in S, Before(t, s) PROVE FALSE
  <2>1. /\ s \in Nat \X Nat /\ t \in Nat \X Nat
        /\ s[1] \in Nat /\ s[2] \in Nat /\ t[1] \in Nat /\ t[2] \in Nat
    BY <1>2
  <2>2. <<t, s>> \in order
    BY <1>4, <2>1 DEF LexPairOrdering, OpToRel, Before
  <2> QED
    BY <1>3, <2>2
<1>5. \A t \in S \ {s} : Before(s, t)
  BY <1>4, BeforeTotal
<1> QED
  BY <1>5 DEF IsFirst

\* Where the iterators can go next.
CanMove ==
  pc = "polling" =>
    /\ at \in m_mMediaSessions
    /\ After(at) = {} \/ \E s \in After(at) : IsFirst(s, After(at))
    /\ \E s \in m_mMediaSessions : IsFirst(s, m_mMediaSessions)

\* No call gets stuck: whatever is registered, the iterators point to a slot and
\* there is a place for them to move on to, the next slot or the first one.
THEOREM NeverStuck == Spec => []CanMove
<1>1. TypeInv => CanMove
  <2> SUFFICES ASSUME TypeInv, pc = "polling" PROVE CanMove
    BY DEF CanMove
  <2>1. /\ at \in m_mMediaSessions /\ m_mMediaSessions \in SUBSET Slots
        /\ After(at) \in SUBSET Slots
    BY DEF TypeInv, TypeOK, WithinLimits, After
  <2> QED
    BY <2>1, FirstExists DEF CanMove
<1>2. Init => TypeInv
  BY RoundInvInit DEF RoundInv
<1> QED
  BY <1>1, <1>2, TypeInvInductive, PTL DEF Spec

\* Further on in the call: in a later round or at a later slot of this one.
Later ==
  \/ uiSessionCount' > uiSessionCount
  \/ uiSessionCount' = uiSessionCount /\ Before(at, at')

\* A visit ends the call or takes it further.  Rounds and slots are finitely many
\* and the order of the slots is strict, so no call goes on for ever.
THEOREM VisitsGoForward == Spec => [][Visit => pc' = "stepping" \/ Later]_vars
<1>1. ASSUME TypeInv, [Next]_vars
      PROVE  [Visit => pc' = "stepping" \/ Later]_vars
  <2> SUFFICES ASSUME NEW v \in Slots, HandOver(v) \/ NoMedia(v)
               PROVE  pc' = "stepping" \/ Later
    BY DEF Visit
  <2>1. uiSessionCount \in Nat
    BY <1>1 DEF TypeInv, TypeOK
  <2>2. CASE EndCall
    BY <2>2 DEF EndCall
  <2>3. CASE Advance
    BY <2>1, <2>3 DEF Advance, NextRound, EndCall, After, IsFirst, Later
  <2> QED
    BY <2>2, <2>3, VisitAdvances
<1>2. Init => TypeInv
  BY RoundInvInit DEF RoundInv
<1> QED
  BY <1>1, <1>2, TypeInvInductive, PTL DEF Spec
=============================================================================
