------------------------- MODULE RateControl_proofs -------------------------
(***************************************************************************)
(* Proofs about RateControl, for any clients, bit rates and packet         *)
(* numbers: type correctness, that each report counts once, and that the   *)
(* first device source keeps the encoder within its bit rates.             *)
(***************************************************************************)
EXTENDS RateControl, FiniteSetTheorems, TLAPS

\* The ramp goes up below the top and down above 0, so its next step stays in
\* range: what TypeOK lacks to be inductive.
Directed ==
  \A c \in Clients :
    IF bUp[c] THEN nCurrentChannel[c] < TopChannel ELSE nCurrentChannel[c] > 0

RampInv == TypeOK /\ Directed

\* The history of changes tells the same as the two packet numbers the code
\* compares, but for number 0, which the code takes for no report.
NewsAgree ==
  \A c \in Clients :
    /\ HasNews(c) => news[c]
    /\ news[c] /\ lastPacketNumReceived[c] # 0 => HasNews(c)
    /\ lastPacketNumReceived[c] = NoReport => m_uiLastPacketNumReceived[c] = 0

NewsInv == TypeOK /\ NewsAgree

\* As long as there has been one device source, the encoder is asked for its
\* bit rates only.
OkForFirstSource == joins <= 1 => requested \in 0 .. TopChannel

\* The first source's ramp is what has been asked of the controller.
FirstSource ==
  /\ joins = 0 => m_vDeviceSources = {} /\ requested = 0
  /\ joins = 1 =>
       /\ requested \in 0 .. TopChannel
       /\ \A c, d \in m_vDeviceSources : c = d
       /\ \A c \in m_vDeviceSources : nCurrentChannel[c] = requested

FirstInv == RampInv /\ FirstSource

-----------------------------------------------------------------------------
LEMMA RampInit == Init => RampInv
  BY RateAssumption DEF Init, RampInv, TypeOK, Directed, Numbers

\* A step of the ramp keeps its client in range and leaves the others alone.
LEMMA AdviceKeepsRamp ==
  ASSUME RampInv, NEW c \in Clients, GetRateAdaptAdvice(c)
  PROVE  /\ nCurrentChannel' \in [Clients -> 0 .. TopChannel]
         /\ bUp' \in [Clients -> BOOLEAN]
         /\ requested' \in Int
         /\ Directed'
  <1> USE RateAssumption DEF RampInv, TypeOK, Directed
  <1>1. CASE lastPacketNumReceived[c] = 0 /\ UNCHANGED ramp
    BY <1>1 DEF ramp
  <1>2. CASE SwitchUp(c)
    <2>1. nCurrentChannel[c] + 1 \in 1 .. TopChannel
      BY <1>2 DEF SwitchUp
    <2>2. /\ nCurrentChannel' \in [Clients -> 0 .. TopChannel]
          /\ bUp' \in [Clients -> BOOLEAN]
          /\ requested' \in Int
      BY <1>2, <2>1 DEF SwitchUp
    <2>3. ASSUME NEW d \in Clients
          PROVE  IF bUp'[d] THEN nCurrentChannel'[d] < TopChannel
                 ELSE nCurrentChannel'[d] > 0
      <3>1. CASE d = c
        <4>1. /\ nCurrentChannel'[c] = nCurrentChannel[c] + 1
              /\ bUp'[c] <=> nCurrentChannel[c] + 1 # TopChannel
          BY <1>2 DEF SwitchUp
        <4> QED
          BY <2>1, <3>1, <4>1
      <3>2. CASE d # c
        BY <1>2, <3>2 DEF SwitchUp
      <3> QED
        BY <3>1, <3>2
    <2> QED
      BY <2>2, <2>3
  <1>3. CASE SwitchDown(c)
    <2>1. nCurrentChannel[c] - 1 \in 0 .. TopChannel - 1
      BY <1>3 DEF SwitchDown
    <2>2. /\ nCurrentChannel' \in [Clients -> 0 .. TopChannel]
          /\ bUp' \in [Clients -> BOOLEAN]
          /\ requested' \in Int
      BY <1>3, <2>1 DEF SwitchDown
    <2>3. ASSUME NEW d \in Clients
          PROVE  IF bUp'[d] THEN nCurrentChannel'[d] < TopChannel
                 ELSE nCurrentChannel'[d] > 0
      <3>1. CASE d = c
        <4>1. /\ nCurrentChannel'[c] = nCurrentChannel[c] - 1
              /\ bUp'[c] <=> nCurrentChannel[c] - 1 = 0
          BY <1>3 DEF SwitchDown
        <4> QED
          BY <2>1, <3>1, <4>1
      <3>2. CASE d # c
        BY <1>3, <3>2 DEF SwitchDown
      <3> QED
        BY <3>1, <3>2
    <2> QED
      BY <2>2, <2>3
  <1> QED
    BY <1>1, <1>2, <1>3 DEF GetRateAdaptAdvice

LEMMA RampStep == RampInv /\ [Next]_vars => RampInv'
  <1> SUFFICES ASSUME RampInv, [Next]_vars
               PROVE  RampInv'
    OBVIOUS
  <1> USE RateAssumption DEF RampInv, TypeOK, Numbers
  <1>1. CASE ProcessLiveMediaSessions
    BY <1>1 DEF ProcessLiveMediaSessions, Directed, ramp
  <1>2. ASSUME NEW c \in Clients, AddDeviceSource(c)
        PROVE  RampInv'
    BY <1>2 DEF AddDeviceSource, Directed
  <1>3. ASSUME NEW c \in Clients, RemoveDeviceSource(c)
        PROVE  RampInv'
    BY <1>3 DEF RemoveDeviceSource, Directed, ramp
  <1>4. ASSUME NEW c \in Clients, NEW n \in Numbers, NoteReport(c, n)
        PROVE  RampInv'
    BY <1>4 DEF NoteReport, Directed, ramp
  <1>5. ASSUME NEW c \in Clients, ProcessReceiverReports(c)
        PROVE  RampInv'
    <2>1. CASE Asks(c)
      <3>1. lastPacketNumReceived[c] \in Numbers
        BY <2>1 DEF Asks, HasNews
      <3> QED
        BY <1>5, <2>1, <3>1, AdviceKeepsRamp DEF ProcessReceiverReports, Asks
    <2>2. CASE PassesOver(c)
      BY <1>5, <2>2 DEF ProcessReceiverReports, PassesOver, ramp, Directed
    <2> QED
      BY <1>5, <2>1, <2>2 DEF ProcessReceiverReports
  <1>6. CASE UNCHANGED vars
    BY <1>6 DEF vars, ramp, Directed
  <1> QED
    BY <1>1, <1>2, <1>3, <1>4, <1>5, <1>6 DEF Next

LEMMA RampHolds == Spec => []RampInv
  BY RampInit, RampStep, PTL DEF Spec

\* Every variable keeps its type; in particular no ramp leaves the bit rates,
\* whatever order clients come, report, are polled and go in.
THEOREM TypeCorrect == Spec => []TypeOK
  <1>1. RampInv => TypeOK
    BY DEF RampInv
  <1> QED
    BY <1>1, RampHolds, PTL

-----------------------------------------------------------------------------
LEMMA NewsInit == Init => NewsInv
  BY RampInit DEF RampInv, Init, NewsInv, NewsAgree, HasNews

LEMMA NewsStep == NewsInv /\ TypeOK' /\ [Next]_vars => NewsInv'
  <1> SUFFICES ASSUME NewsInv, TypeOK', [Next]_vars
               PROVE  NewsAgree'
    BY DEF NewsInv
  <1> USE RateAssumption DEF NewsInv, TypeOK, NewsAgree, HasNews, Numbers
  <1>1. CASE ProcessLiveMediaSessions
    BY <1>1 DEF ProcessLiveMediaSessions
  <1>2. ASSUME NEW c \in Clients, AddDeviceSource(c)
        PROVE  NewsAgree'
    BY <1>2 DEF AddDeviceSource
  <1>3. ASSUME NEW c \in Clients, RemoveDeviceSource(c)
        PROVE  NewsAgree'
    BY <1>3 DEF RemoveDeviceSource
  <1>4. ASSUME NEW c \in Clients, NEW n \in Numbers, NoteReport(c, n)
        PROVE  NewsAgree'
    BY <1>4 DEF NoteReport
  <1>5. ASSUME NEW c \in Clients, ProcessReceiverReports(c)
        PROVE  NewsAgree'
    BY <1>5 DEF ProcessReceiverReports, Asks, PassesOver
  <1>6. CASE UNCHANGED vars
    BY <1>6 DEF vars
  <1> QED
    BY <1>1, <1>2, <1>3, <1>4, <1>5, <1>6 DEF Next

LEMMA NewsHolds == Spec => []NewsInv
  BY NewsInit, NewsStep, TypeCorrect, PTL DEF Spec

\* The visit of one source moves its ramp if and only if its report is news.
LEMMA VisitCounts ==
  ASSUME NewsInv, NEW c \in Clients, ProcessReceiverReports(c)
  PROVE  nCurrentChannel'[c] # nCurrentChannel[c]
           <=> news[c] /\ lastPacketNumReceived[c] # 0
  <1> USE RateAssumption DEF NewsInv, TypeOK
  <1>1. CASE PassesOver(c)
    BY <1>1 DEF PassesOver, NewsAgree, ramp
  <1>2. CASE Asks(c) /\ lastPacketNumReceived[c] = 0
    BY <1>2 DEF Asks, GetRateAdaptAdvice, ramp
  <1>3. CASE Asks(c) /\ lastPacketNumReceived[c] # 0
    <2>1. nCurrentChannel'[c] # nCurrentChannel[c]
      BY <1>3 DEF Asks, GetRateAdaptAdvice, SwitchUp, SwitchDown
    <2> QED
      BY <1>3, <2>1 DEF Asks, NewsAgree
  <1> QED
    BY <1>1, <1>2, <1>3 DEF ProcessReceiverReports

\* Every report moves the ramp of its client once: the filter on the packet
\* number neither lets a report count twice nor loses one.
THEOREM ReportsCountOnce == Spec => EachReportCountsOnce
  <1> DEFINE Counts ==
        \A c \in Clients : c \in polled /\ c \notin polled' =>
          (nCurrentChannel'[c] # nCurrentChannel[c]
             <=> news[c] /\ lastPacketNumReceived[c] # 0)
  <1>1. ASSUME NewsInv, [Next]_vars
        PROVE  [Counts]_vars
    <2> SUFFICES ASSUME NEW c \in Clients, c \in polled, c \notin polled'
                 PROVE  nCurrentChannel'[c] # nCurrentChannel[c]
                          <=> news[c] /\ lastPacketNumReceived[c] # 0
      OBVIOUS
    <2>1. ProcessReceiverReports(c)
      BY <1>1 DEF Next, ProcessLiveMediaSessions, AddDeviceSource,
           RemoveDeviceSource, NoteReport, ProcessReceiverReports, vars
    <2> QED
      BY <1>1, <2>1, VisitCounts
  <1>2. Spec => [][Counts]_vars
    BY <1>1, NewsHolds, PTL DEF Spec
  <1> QED
    BY <1>2 DEF EachReportCountsOnce

-----------------------------------------------------------------------------
LEMMA FirstInit == Init => FirstInv
  BY RampInit, RateAssumption DEF FirstInv, FirstSource, Init

\* Ramp and requests move together.
LEMMA AdviceIsRequested ==
  ASSUME RampInv, NEW c \in Clients, GetRateAdaptAdvice(c)
  PROVE  /\ requested' - requested = nCurrentChannel'[c] - nCurrentChannel[c]
         /\ nCurrentChannel'[c] \in 0 .. TopChannel
  <1>1. nCurrentChannel' \in [Clients -> 0 .. TopChannel]
    BY AdviceKeepsRamp
  <1> QED
    BY <1>1, RateAssumption
    DEF RampInv, TypeOK, GetRateAdaptAdvice, SwitchUp, SwitchDown, ramp

LEMMA FirstStep == FirstInv /\ [Next]_vars => FirstInv'
  <1> SUFFICES ASSUME FirstInv, [Next]_vars
               PROVE  FirstSource'
    BY RampStep DEF FirstInv
  <1> USE RateAssumption DEF FirstInv, FirstSource, RampInv, TypeOK
  <1>1. CASE ProcessLiveMediaSessions
    BY <1>1 DEF ProcessLiveMediaSessions, ramp
  <1>2. ASSUME NEW c \in Clients, AddDeviceSource(c)
        PROVE  FirstSource'
    BY <1>2 DEF AddDeviceSource
  <1>3. ASSUME NEW c \in Clients, RemoveDeviceSource(c)
        PROVE  FirstSource'
    BY <1>3 DEF RemoveDeviceSource, ramp
  <1>4. ASSUME NEW c \in Clients, NEW n \in Numbers, NoteReport(c, n)
        PROVE  FirstSource'
    BY <1>4 DEF NoteReport, ramp
  <1>5. ASSUME NEW c \in Clients, ProcessReceiverReports(c)
        PROVE  FirstSource'
    <2>1. c \in m_vDeviceSources /\ m_vDeviceSources' = m_vDeviceSources /\ joins' = joins
      BY <1>5 DEF ProcessReceiverReports
    <2>2. CASE Asks(c)
      <3>1. GetRateAdaptAdvice(c)
        BY <2>2 DEF Asks
      <3>2. /\ requested' - requested = nCurrentChannel'[c] - nCurrentChannel[c]
            /\ nCurrentChannel'[c] \in 0 .. TopChannel
            /\ requested' \in Int
        BY <3>1, AdviceIsRequested, AdviceKeepsRamp
      <3> QED
        BY <2>1, <3>2
    <2>3. CASE PassesOver(c)
      BY <2>1, <2>3 DEF PassesOver, ramp
    <2> QED
      BY <1>5, <2>2, <2>3 DEF ProcessReceiverReports
  <1>6. CASE UNCHANGED vars
    BY <1>6 DEF vars, ramp
  <1> QED
    BY <1>1, <1>2, <1>3, <1>4, <1>5, <1>6 DEF Next

\* RequestsBounded for the first device source: its reports, however many, never
\* ask the controller for a rate beyond the lowest or the highest.
THEOREM FirstSourceOk == Spec => []OkForFirstSource
  <1>1. FirstInv => OkForFirstSource
    BY RateAssumption DEF FirstInv, FirstSource, RampInv, TypeOK, OkForFirstSource
  <1> QED
    BY <1>1, FirstInit, FirstStep, PTL DEF Spec

-----------------------------------------------------------------------------
(***************************************************************************)
(* Several device sources.  The steps of a source's ramp are the pairs of  *)
(* its client and a channel up to the current one, so that what the living *)
(* sources account for is the number of such pairs, and a set instead of a *)
(* sum.  What is requested beyond that is what the ramps of sources that   *)
(* are gone have left, at most a whole ramp for each.                      *)
(***************************************************************************)
Steps == {p \in m_vDeviceSources \X (1 .. TopChannel) : p[2] <= nCurrentChannel[p[1]]}

Gone == joins - Cardinality(m_vDeviceSources)

Accounted ==
  /\ IsFiniteSet(m_vDeviceSources)
  /\ Cardinality(m_vDeviceSources) <= joins
  /\ Cardinality(Steps) <= requested
  /\ requested - Cardinality(Steps) <= TopChannel * Gone

AccountInv == RampInv /\ Accounted

LEMMA OneRamp ==
  /\ IsFiniteSet(1 .. TopChannel)
  /\ Cardinality(1 .. TopChannel) = TopChannel
  <1>1. 1 \in Int /\ TopChannel \in Int /\ TopChannel >= 1
    BY RateAssumption
  <1>2. /\ IsFiniteSet(1 .. TopChannel)
        /\ Cardinality(1 .. TopChannel) = IF 1 > TopChannel THEN 0 ELSE TopChannel - 1 + 1
    BY <1>1, FS_Interval
  <1> QED
    BY <1>1, <1>2

\* The steps are finitely many, no more than a ramp for each source.
LEMMA StepsFinite ==
  ASSUME IsFiniteSet(m_vDeviceSources)
  PROVE  /\ IsFiniteSet(Steps)
         /\ Cardinality(Steps) \in Nat
         /\ Cardinality(m_vDeviceSources) \in Nat
         /\ Cardinality(Steps) <= Cardinality(m_vDeviceSources) * TopChannel
  <1> DEFINE all == m_vDeviceSources \X (1 .. TopChannel)
  <1>1. /\ IsFiniteSet(all)
        /\ Cardinality(all) = Cardinality(m_vDeviceSources) * Cardinality(1 .. TopChannel)
    BY OneRamp, FS_Product
  <1>2. Steps \in SUBSET all
    BY DEF Steps
  <1> HIDE DEF all
  <1>3. IsFiniteSet(Steps) /\ Cardinality(Steps) <= Cardinality(all)
    BY <1>1, <1>2, FS_Subset
  <1>4. Cardinality(Steps) \in Nat /\ Cardinality(m_vDeviceSources) \in Nat
    BY <1>3, FS_CardinalityType
  <1> QED
    BY <1>1, <1>3, <1>4, OneRamp

\* A new source has taken no step yet.
LEMMA AddKeepsAccount ==
  ASSUME AccountInv, NEW c \in Clients, AddDeviceSource(c)
  PROVE  Accounted'
  <1> USE DEF AccountInv, Accounted
  <1>1. Steps' = Steps
    BY RateAssumption DEF AddDeviceSource, Steps, RampInv, TypeOK
  <1>2. /\ IsFiniteSet(m_vDeviceSources')
        /\ Cardinality(m_vDeviceSources') = Cardinality(m_vDeviceSources) + 1
    BY FS_AddElement DEF AddDeviceSource
  <1>3. Cardinality(m_vDeviceSources) \in Nat
    BY StepsFinite
  <1>4. joins' = joins + 1 /\ joins \in Nat /\ requested' = requested
    BY DEF AddDeviceSource, RampInv, TypeOK
  <1>5. Gone' = Gone
    BY <1>2, <1>3, <1>4 DEF Gone
  <1> QED
    BY <1>1, <1>2, <1>3, <1>4, <1>5

\* A source that goes leaves a whole ramp at most.
LEMMA RemoveKeepsAccount ==
  ASSUME AccountInv, NEW c \in Clients, RemoveDeviceSource(c)
  PROVE  Accounted'
  <1> USE DEF AccountInv, Accounted
  <1> DEFINE own == {c} \X (1 .. TopChannel)
  <1>1. IsFiniteSet(own) /\ Cardinality(own) = TopChannel
    <2>1. IsFiniteSet({c}) /\ Cardinality({c}) = 1
      BY FS_Singleton
    <2>2. Cardinality(own) = Cardinality({c}) * Cardinality(1 .. TopChannel) /\ IsFiniteSet(own)
      BY <2>1, OneRamp, FS_Product
    <2> QED
      BY <2>1, <2>2, OneRamp, RateAssumption
  <1>2. /\ IsFiniteSet(m_vDeviceSources')
        /\ Cardinality(m_vDeviceSources') = Cardinality(m_vDeviceSources) - 1
    BY FS_RemoveElement DEF RemoveDeviceSource
  <1>3. /\ IsFiniteSet(Steps) /\ Cardinality(Steps) \in Nat
        /\ Cardinality(m_vDeviceSources) \in Nat
    BY StepsFinite
  <1>4. Steps' \in SUBSET Steps /\ Steps \in SUBSET (Steps' \cup own)
    BY DEF RemoveDeviceSource, Steps, ramp
  <1> HIDE DEF own
  <1>5. /\ IsFiniteSet(Steps') /\ Cardinality(Steps') <= Cardinality(Steps)
        /\ Cardinality(Steps') \in Nat
    <2>1. IsFiniteSet(Steps') /\ Cardinality(Steps') <= Cardinality(Steps)
      BY <1>3, <1>4, FS_Subset
    <2> QED
      BY <2>1, FS_CardinalityType
  <1>6. Cardinality(Steps) <= Cardinality(Steps') + TopChannel
    <2>1. /\ IsFiniteSet(Steps' \cup own)
          /\ Cardinality(Steps' \cup own) =
               Cardinality(Steps') + Cardinality(own) - Cardinality(Steps' \cap own)
      BY <1>1, <1>5, FS_Union
    <2>2. Cardinality(Steps) <= Cardinality(Steps' \cup own)
      BY <2>1, <1>4, FS_Subset
    <2>3. IsFiniteSet(Steps' \cap own)
      BY <1>1, FS_Intersection
    <2>4. Cardinality(Steps' \cap own) \in Nat
      BY <2>3, FS_CardinalityType
    <2>5. Cardinality(Steps' \cup own) \in Nat
      BY <2>1, FS_CardinalityType
    <2> QED
      BY <1>1, <1>3, <1>5, <2>1, <2>2, <2>4, <2>5, RateAssumption
  <1>7. joins' = joins /\ joins \in Nat /\ requested' = requested /\ requested \in Int
    BY DEF RemoveDeviceSource, RampInv, TypeOK, ramp
  <1>8. TopChannel * Gone' = TopChannel * Gone + TopChannel
    <2>1. Gone \in Int /\ Gone' = Gone + 1
      BY <1>2, <1>3, <1>7 DEF Gone
    <2>2. \A n, t \in Int : t * (n + 1) = t * n + t
      OBVIOUS
    <2>3. TopChannel \in Int
      BY RateAssumption
    <2> QED
      BY <2>1, <2>2, <2>3
  <1>9. TopChannel * Gone \in Int /\ TopChannel \in Nat
    BY <1>3, <1>7, RateAssumption DEF Gone
  <1> QED
    BY <1>2, <1>3, <1>5, <1>6, <1>7, <1>8, <1>9

\* A visit takes a step with the encoder, or neither.
LEMMA VisitKeepsAccount ==
  ASSUME AccountInv, NEW c \in Clients, ProcessReceiverReports(c)
  PROVE  Accounted'
  <1> USE DEF AccountInv, Accounted
  <1>1. /\ c \in m_vDeviceSources /\ m_vDeviceSources' = m_vDeviceSources
        /\ joins' = joins /\ Gone' = Gone
    BY DEF ProcessReceiverReports, RampInv, TypeOK, Gone
  <1>2. /\ nCurrentChannel \in [Clients -> 0 .. TopChannel] /\ TopChannel \in Nat
        /\ requested \in Int /\ joins \in Nat
    BY RateAssumption DEF RampInv, TypeOK
  <1>3. /\ IsFiniteSet(Steps) /\ Cardinality(Steps) \in Nat
        /\ Cardinality(m_vDeviceSources) \in Nat
    BY StepsFinite
  <1>4. TopChannel * Gone \in Int
    BY <1>2, <1>3 DEF Gone
  <1>5. CASE UNCHANGED ramp
    BY <1>1, <1>5 DEF ramp, Steps
  <1>6. CASE SwitchUp(c) /\ GetRateAdaptAdvice(c)
    <2>1. /\ nCurrentChannel[c] + 1 \in 1 .. TopChannel
          /\ nCurrentChannel' = [nCurrentChannel EXCEPT ![c] = @ + 1]
          /\ requested' = requested + 1
      BY <1>2, <1>6 DEF SwitchUp, RampInv, Directed
    <2>2. Steps' = Steps \cup {<<c, nCurrentChannel[c] + 1>>}
      BY <1>1, <1>2, <2>1 DEF Steps
    <2>3. <<c, nCurrentChannel[c] + 1>> \notin Steps
      BY <1>2, <2>1 DEF Steps
    <2>4. Cardinality(Steps') = Cardinality(Steps) + 1
      BY <1>3, <2>2, <2>3, FS_AddElement
    <2> QED
      BY <1>1, <1>2, <1>3, <1>4, <2>1, <2>4
  <1>7. CASE SwitchDown(c) /\ GetRateAdaptAdvice(c)
    <2>1. /\ nCurrentChannel[c] \in 1 .. TopChannel
          /\ nCurrentChannel' = [nCurrentChannel EXCEPT ![c] = @ - 1]
          /\ requested' = requested - 1
      BY <1>2, <1>7 DEF SwitchDown, RampInv, Directed
    <2>2. Steps' = Steps \ {<<c, nCurrentChannel[c]>>}
      BY <1>1, <1>2, <2>1 DEF Steps
    <2>3. <<c, nCurrentChannel[c]>> \in Steps
      BY <1>1, <1>2, <2>1 DEF Steps
    <2>4. Cardinality(Steps') = Cardinality(Steps) - 1
      BY <1>3, <2>2, <2>3, FS_RemoveElement
    <2> QED
      BY <1>1, <1>2, <1>3, <1>4, <2>1, <2>4
  <1> QED
    BY <1>5, <1>6, <1>7 DEF ProcessReceiverReports, Asks, PassesOver, GetRateAdaptAdvice

LEMMA AccountStep == AccountInv /\ [Next]_vars => AccountInv'
  <1> SUFFICES ASSUME AccountInv, [Next]_vars
               PROVE  Accounted'
    BY RampStep DEF AccountInv
  <1>1. CASE UNCHANGED <<m_vDeviceSources, ramp, joins>>
    BY <1>1 DEF AccountInv, Accounted, Steps, Gone, ramp
  <1>2. CASE \E c \in Clients :
               AddDeviceSource(c) \/ RemoveDeviceSource(c) \/ ProcessReceiverReports(c)
    BY <1>2, AddKeepsAccount, RemoveKeepsAccount, VisitKeepsAccount
  <1> QED
    BY <1>1, <1>2 DEF Next, ProcessLiveMediaSessions, NoteReport, vars

LEMMA AccountInit == Init => AccountInv
  <1> SUFFICES ASSUME Init
               PROVE  Accounted
    BY RampInit DEF AccountInv
  <1>1. m_vDeviceSources = {} /\ Steps = {} /\ joins = 0 /\ requested = 0
    BY DEF Init, Steps
  <1>2. Cardinality(m_vDeviceSources) = 0 /\ Cardinality(Steps) = 0 /\ IsFiniteSet(m_vDeviceSources)
    BY <1>1, FS_EmptySet
  <1> QED
    BY <1>1, <1>2, RateAssumption DEF Accounted, Gone

\* However many clients come, report and go, the controller is asked for no less
\* than the lowest bit rate and for no more than one ramp per device source.
THEOREM RequestsStayBounded == Spec => []RequestsBounded
  <1>1. AccountInv => RequestsBounded
    <2> SUFFICES ASSUME AccountInv
                 PROVE  RequestsBounded
      OBVIOUS
    <2> DEFINE steps == Cardinality(Steps)
               n == Cardinality(m_vDeviceSources)
    <2>1. steps \in Nat /\ n \in Nat /\ steps <= n * TopChannel
      BY StepsFinite DEF AccountInv, Accounted
    <2>2. /\ joins \in Nat /\ requested \in Int /\ TopChannel \in Nat
          /\ steps <= requested /\ requested - steps <= TopChannel * (joins - n)
      BY RateAssumption DEF AccountInv, Accounted, RampInv, TypeOK, Gone
    <2> HIDE DEF steps, n
    <2>3. TopChannel * (joins - n) + n * TopChannel = TopChannel * joins
      BY <2>1, <2>2
    <2>4. TopChannel * (joins - n) \in Int /\ n * TopChannel \in Int /\ TopChannel * joins \in Int
      BY <2>1, <2>2
    <2> QED
      BY <2>1, <2>2, <2>3, <2>4 DEF RequestsBounded
  <1> QED
    BY <1>1, AccountInit, AccountStep, PTL DEF Spec
=============================================================================
