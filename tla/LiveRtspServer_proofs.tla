----------------------- MODULE LiveRtspServer_proofs -----------------------
(***************************************************************************)
(* Proofs about LiveRtspServer, for any clients, media session objects and *)
(* channels: type correctness, that nothing refers to what is destroyed,   *)
(* that removing a channel ends exactly its own streams, and that the      *)
(* client limit holds.                                                     *)
(***************************************************************************)
EXTENDS LiveRtspServer, FiniteSetTheorems, TLAPS

\* Which client sessions the server knows, at each stage of its life.
Standing ==
  /\ status = "up" => m_mRtspClientSessions = clients /\ orphans = {}
  /\ status = "closing" => orphans = clients
  /\ status = "down" =>
       /\ clients = {} /\ orphans = {} /\ m_mRtspClientSessions = {}
       /\ \A o \in Objects : ~Open(o)

ListedIsOpen ==
  \A n \in Names : fServerMediaSessions[n] # NoSms => Open(fServerMediaSessions[n])

AdmittedExist == Admitted \subseteq clients

\* The inductive invariant: a reference of any kind is one to something alive.
ServerInv ==
  /\ TypeOK
  /\ Standing
  /\ ListedIsOpen
  /\ AdmittedExist
  /\ NoDanglingSubsession
  /\ StreamsAreHeld

-----------------------------------------------------------------------------
(***************************************************************************)
(* Deleting client sessions.                                               *)
(***************************************************************************)

\* The media sessions that die when the sessions of gone do, as in DeleteClients.
Dead(gone, unlisted) ==
  {o \in Objects :
     /\ Open(o)
     /\ ~Listed(o) \/ o \in unlisted
     /\ References(o) \subseteq gone}

\* A registration that survives is of another media session, and unchanged.
LEMMA DeregisterSpares ==
  ASSUME TypeOK, NoDanglingSubsession, NEW objects \in SUBSET Objects,
         \A o \in objects : Open(o),
         NEW id \in ChannelIds, NEW src \in Sources,
         DeregisterSubsessions(objects)[id][src] # NoSms
  PROVE  /\ DeregisterSubsessions(objects)[id][src] = m_mMediaSessions[id][src]
         /\ m_mMediaSessions[id][src] \notin objects
  <1> DEFINE erased == {sms[o].id : o \in {p \in objects : SlotTaken(sms[p])}}
             owner == m_mMediaSessions[id][src]
  <1>1. id \notin erased
    BY DEF DeregisterSubsessions, NoRegistration
  <1>2. DeregisterSubsessions(objects)[id][src] = owner
    BY <1>1 DEF DeregisterSubsessions
  <1>3. ASSUME owner \in objects
        PROVE  FALSE
    <2>1. sms[owner].id = id /\ src \in sms[owner].sources
      BY <1>2, <1>3 DEF NoDanglingSubsession
    <2>2. SlotTaken(sms[owner])
      BY <1>2, <2>1 DEF SlotTaken
    <2> QED
      BY <1>1, <1>3, <2>1, <2>2
  <1> QED
    BY <1>2, <1>3

LEMMA DeregisterType ==
  ASSUME TypeOK, NEW objects \in SUBSET Objects
  PROVE  DeregisterSubsessions(objects)
           \in [ChannelIds -> [Sources -> Objects \cup {NoSms}]]
  BY DEF TypeOK, DeregisterSubsessions, NoRegistration

\* Whoever is deleted, what is left refers to nothing that died with it.
LEMMA DeleteKeepsInv ==
  ASSUME ServerInv, NEW gone \in SUBSET Clients, NEW unlisted \in SUBSET Objects,
         status \in {"up", "closing"},
         DeleteClients(gone, unlisted), UNCHANGED <<status, m_uiMaxConnectedClients>>
  PROVE  ServerInv'
  <1> DEFINE dead == Dead(gone, unlisted)
  <1> USE DEF ServerInv
  <1>1. /\ clients' = clients \ gone
        /\ m_mRtspClientSessions' = m_mRtspClientSessions \ (gone \ orphans)
        /\ orphans' = orphans \ gone
        /\ fOurServerMediaSession' =
             [s \in Clients |-> IF s \in gone THEN NoSms ELSE fOurServerMediaSession[s]]
        /\ m_vDeviceSources' =
             [o \in Objects |-> [src \in Sources |-> m_vDeviceSources[o][src] \ gone]]
        /\ sms' = [o \in Objects |-> IF o \in dead THEN NoChannel ELSE sms[o]]
        /\ m_mMediaSessions' = DeregisterSubsessions(dead)
        /\ fServerMediaSessions' =
             [n \in Names |-> IF fServerMediaSessions[n] \in unlisted
                                THEN NoSms ELSE fServerMediaSessions[n]]
    BY DEF DeleteClients, Dead
  <1>2. dead \in SUBSET Objects /\ \A o \in dead : Open(o)
    BY DEF Dead
  <1>3. \A o \in Objects : Open(o)' <=> Open(o) /\ o \notin dead
    BY <1>1, <1>2 DEF Open
  <1>4. TypeOK'
    <2>1. m_mMediaSessions' \in [ChannelIds -> [Sources -> Objects \cup {NoSms}]]
      BY <1>1, <1>2, DeregisterType
    <2>2. m_vDeviceSources' \in [Objects -> [Sources -> SUBSET Clients]]
      BY <1>1 DEF TypeOK
    <2>3. sms' \in [Objects -> Channels \cup {NoChannel}]
      BY <1>1 DEF TypeOK
    <2> QED
      BY <1>1, <2>1, <2>2, <2>3 DEF TypeOK
  <1>5. Standing'
    BY <1>1 DEF Standing
  <1>6. ListedIsOpen'
    <2> SUFFICES ASSUME NEW n \in Names, fServerMediaSessions'[n] # NoSms
                 PROVE  Open(fServerMediaSessions[n])'
      BY <1>1 DEF ListedIsOpen
    <2>1. /\ fServerMediaSessions'[n] = fServerMediaSessions[n]
          /\ fServerMediaSessions[n] \notin unlisted
          /\ fServerMediaSessions[n] \in Objects
      BY <1>1 DEF TypeOK
    <2>2. Open(fServerMediaSessions[n]) /\ Listed(fServerMediaSessions[n])
      BY <2>1 DEF ListedIsOpen, Listed
    <2>3. fServerMediaSessions[n] \notin dead
      BY <2>1, <2>2 DEF Dead
    <2> QED
      BY <1>1, <2>1, <2>2, <2>3 DEF Open
  <1>7. AdmittedExist'
    BY <1>1 DEF AdmittedExist, Admitted
  <1>8. NoDanglingSubsession'
    <2> SUFFICES ASSUME NEW id \in ChannelIds, NEW src \in Sources,
                        m_mMediaSessions'[id][src] # NoSms
                 PROVE  /\ Open(m_mMediaSessions[id][src])'
                        /\ sms'[m_mMediaSessions'[id][src]].id = id
                        /\ src \in sms'[m_mMediaSessions'[id][src]].sources
      BY DEF NoDanglingSubsession
    <2> DEFINE o == m_mMediaSessions[id][src]
    <2>1. m_mMediaSessions'[id][src] = o /\ o \notin dead
      BY <1>1, <1>2, DeregisterSpares
    <2>2. o \in Objects /\ Open(o) /\ sms[o].id = id /\ src \in sms[o].sources
      BY <2>1 DEF NoDanglingSubsession, TypeOK
    <2> QED
      BY <1>1, <2>1, <2>2 DEF Open
  <1>9. StreamsAreHeld'
    <2> SUFFICES ASSUME NEW o \in Objects, NEW s \in StreamingFrom(o)'
                 PROVE  s \in clients' /\ fOurServerMediaSession'[s] = o /\ Open(o)'
      BY DEF StreamsAreHeld
    <2>1. s \in StreamingFrom(o) /\ s \notin gone
      BY <1>1 DEF StreamingFrom
    <2>2. s \in clients /\ fOurServerMediaSession[s] = o /\ Open(o) /\ s \in Clients
      BY <2>1 DEF StreamsAreHeld, TypeOK
    <2>3. o \notin dead
      BY <2>1, <2>2 DEF Dead, References
    <2> QED
      BY <1>1, <1>3, <2>1, <2>2, <2>3
  <1> QED
    BY <1>4, <1>5, <1>6, <1>7, <1>8, <1>9

-----------------------------------------------------------------------------
(***************************************************************************)
(* The other steps.                                                        *)
(***************************************************************************)
LEMMA InitInv == Init => ServerInv
  BY ServerAssumption
  DEF Init, Fresh, ServerInv, TypeOK, Standing, ListedIsOpen, AdmittedExist, Admitted,
      NoDanglingSubsession, StreamsAreHeld, StreamingFrom, NoRegistration, NoStreams, Open

LEMMA AddKeepsInv ==
  ASSUME ServerInv, NEW c \in Channels, AddRtspMediaSession(c)
  PROVE  ServerInv'
  <1> USE DEF ServerInv
  <1> PICK o \in Objects :
        /\ ~Open(o)
        /\ sms' = [sms EXCEPT ![o] = c]
        /\ fServerMediaSessions' = [fServerMediaSessions EXCEPT ![c.name] = o]
        /\ m_mMediaSessions' = RegisterSubsessions(c, o)
    BY DEF AddRtspMediaSession
  <1> USE ServerAssumption
  <1>1. /\ status = "up"
        /\ status' \in {"up", "aborted"}
        /\ UNCHANGED <<m_uiMaxConnectedClients, clientVars, m_vDeviceSources>>
    BY DEF AddRtspMediaSession
  <1>2. c \in ChannelType /\ c # NoChannel
    OBVIOUS
  <1>3. \A p \in Objects : Open(p)' <=> Open(p) \/ p = o
    BY <1>2 DEF Open, TypeOK
  <1>4. \A p \in Objects : Open(p) => p # o /\ sms'[p] = sms[p]
    BY DEF TypeOK
  <1>5. TypeOK'
    <2>1. m_mMediaSessions' \in [ChannelIds -> [Sources -> Objects \cup {NoSms}]]
      BY <1>2 DEF TypeOK, RegisterSubsessions, ChannelType
    <2> QED
      BY <1>1, <1>2, <2>1 DEF TypeOK, clientVars, ChannelType
  <1>6. Standing'
    BY <1>1 DEF Standing, clientVars
  <1>7. ListedIsOpen'
    BY <1>2, <1>3 DEF ListedIsOpen, Open, TypeOK
  <1>8. AdmittedExist'
    BY <1>1 DEF AdmittedExist, Admitted, clientVars
  <1>9. NoDanglingSubsession'
    <2> SUFFICES ASSUME NEW id \in ChannelIds, NEW src \in Sources,
                        m_mMediaSessions'[id][src] # NoSms
                 PROVE  /\ Open(m_mMediaSessions[id][src])'
                        /\ sms'[m_mMediaSessions'[id][src]].id = id
                        /\ src \in sms'[m_mMediaSessions'[id][src]].sources
      BY DEF NoDanglingSubsession
    <2>1. CASE m_mMediaSessions'[id][src] = m_mMediaSessions[id][src]
      <3>1. m_mMediaSessions[id][src] \in Objects /\ Open(m_mMediaSessions[id][src])
        BY <2>1 DEF NoDanglingSubsession, TypeOK
      <3> QED
        BY <1>3, <1>4, <2>1, <3>1 DEF NoDanglingSubsession, Open
    <2>2. CASE m_mMediaSessions'[id][src] # m_mMediaSessions[id][src]
      <3>1. m_mMediaSessions'[id][src] = o /\ id = c.id /\ src \in c.sources
        BY <1>2, <2>2 DEF RegisterSubsessions, TypeOK, ChannelType
      <3>2. sms'[o] = c
        BY DEF TypeOK
      <3> QED
        BY <1>2, <3>1, <3>2 DEF Open
    <2> QED
      BY <2>1, <2>2
  <1>10. StreamsAreHeld'
    BY <1>1, <1>3 DEF StreamsAreHeld, StreamingFrom, clientVars
  <1> QED
    BY <1>5, <1>6, <1>7, <1>8, <1>9, <1>10

\* A SETUP that gets no stream only makes a session.
LEMMA TurnedAwayKeepsInv ==
  ASSUME ServerInv, NEW s \in Clients, status = "up",
         CreateNewClientSession(s),
         UNCHANGED <<status, m_uiMaxConnectedClients, fOurServerMediaSession,
                     m_vDeviceSources, smsVars>>
  PROVE  ServerInv'
  BY DEF ServerInv, TypeOK, Standing, ListedIsOpen, AdmittedExist, Admitted, Open,
         NoDanglingSubsession, StreamsAreHeld, StreamingFrom, CreateNewClientSession, smsVars

LEMMA AcceptKeepsInv ==
  ASSUME ServerInv, NEW s \in Clients, NEW n \in Names, NEW t \in Tracks,
         AcceptSetup(s, n, t)
  PROVE  ServerInv'
  <1> DEFINE o == fServerMediaSessions[n]
  <1> USE DEF ServerInv
  <1>1. /\ status = "up"
        /\ UNCHANGED <<status, m_uiMaxConnectedClients, smsVars>>
        /\ clients' = clients \cup {s}
        /\ m_mRtspClientSessions' = m_mRtspClientSessions \cup {s}
        /\ UNCHANGED orphans
        /\ fOurServerMediaSession[s] \in {NoSms, o}
        /\ fOurServerMediaSession' = [fOurServerMediaSession EXCEPT ![s] = o]
        /\ m_vDeviceSources' =
             [m_vDeviceSources EXCEPT ![o][t] = IF t \in sms[o].sources THEN @ \cup {s} ELSE @]
    BY DEF AcceptSetup, CreateNewClientSession
  <1>2. o \in Objects /\ o # NoSms /\ Open(o) /\ t \in Sources
    BY ServerAssumption DEF AcceptSetup, TypeOK, ListedIsOpen
  <1>3. TypeOK'
    BY <1>1, <1>2 DEF TypeOK, smsVars
  <1>4. \A p \in Objects : StreamingFrom(p)' \subseteq
                              StreamingFrom(p) \cup (IF p = o THEN {s} ELSE {})
    <2> TAKE p \in Objects
    <2>1. ASSUME NEW src \in Sources
          PROVE  m_vDeviceSources'[p][src] \subseteq
                   m_vDeviceSources[p][src] \cup (IF p = o THEN {s} ELSE {})
      BY <1>1, <1>2 DEF TypeOK
    <2> QED
      BY <2>1 DEF StreamingFrom
  <1>5. StreamsAreHeld'
    <2> SUFFICES ASSUME NEW p \in Objects, NEW r \in StreamingFrom(p)'
                 PROVE  r \in clients' /\ fOurServerMediaSession'[r] = p /\ Open(p)'
      BY DEF StreamsAreHeld
    <2>1. CASE r \in StreamingFrom(p)
      <3>1. r \in clients /\ fOurServerMediaSession[r] = p /\ Open(p) /\ r \in Clients
        BY <2>1 DEF StreamsAreHeld, TypeOK
      <3>2. p # NoSms
        BY ServerAssumption
      <3>3. r = s => p = o
        BY <1>1, <3>1, <3>2
      <3> QED
        BY <1>1, <3>1, <3>3 DEF TypeOK, Open, smsVars
    <2>2. CASE r = s /\ p = o
      BY <1>1, <1>2, <2>2 DEF TypeOK, Open, smsVars
    <2> QED
      BY <1>4, <2>1, <2>2
  <1>6. Standing' /\ ListedIsOpen' /\ AdmittedExist' /\ NoDanglingSubsession'
    BY <1>1 DEF Standing, ListedIsOpen, AdmittedExist, Admitted, NoDanglingSubsession,
                Open, smsVars, TypeOK
  <1> QED
    BY <1>3, <1>5, <1>6

LEMMA SetMaxKeepsInv ==
  ASSUME ServerInv, NEW val \in Limits, SetMaxConnectedClients(val)
  PROVE  ServerInv'
  BY DEF SetMaxConnectedClients, ServerInv, TypeOK, Standing, ListedIsOpen, AdmittedExist,
         Admitted, Open, NoDanglingSubsession, StreamsAreHeld, StreamingFrom, clientVars, smsVars

LEMMA DestructKeepsInv ==
  ASSUME ServerInv, Destruct
  PROVE  ServerInv'
  BY DEF Destruct, ServerInv, TypeOK, Standing, ListedIsOpen, AdmittedExist, Admitted, Open,
         NoDanglingSubsession, StreamsAreHeld, StreamingFrom, smsVars

LEMMA DestructMediaKeepsInv ==
  ASSUME ServerInv, DestructMediaSessions
  PROVE  ServerInv'
  <1> DEFINE open == {o \in Objects : Open(o)}
  <1> USE ServerAssumption DEF ServerInv
  <1>1. /\ clients = {} /\ orphans = {}
        /\ status' = "down"
        /\ m_mRtspClientSessions' = {}
        /\ sms' = [o \in Objects |-> NoChannel]
        /\ fServerMediaSessions' = [n \in Names |-> NoSms]
        /\ m_mMediaSessions' = DeregisterSubsessions(open)
        /\ UNCHANGED <<m_uiMaxConnectedClients, clients, orphans,
                       fOurServerMediaSession, m_vDeviceSources>>
    BY DEF DestructMediaSessions, Standing
  <1>2. TypeOK'
    <2>1. m_mMediaSessions' \in [ChannelIds -> [Sources -> Objects \cup {NoSms}]]
      BY <1>1, DeregisterType
    <2> QED
      BY <1>1, <2>1 DEF TypeOK
  <1>3. NoDanglingSubsession'
    <2> SUFFICES ASSUME NEW id \in ChannelIds, NEW src \in Sources,
                        m_mMediaSessions'[id][src] # NoSms
                 PROVE  FALSE
      BY DEF NoDanglingSubsession
    <2>1. m_mMediaSessions[id][src] # NoSms /\ m_mMediaSessions[id][src] \notin open
      BY <1>1, DeregisterSpares
    <2> QED
      BY <2>1 DEF NoDanglingSubsession, TypeOK
  <1>4. StreamsAreHeld'
    BY <1>1 DEF StreamsAreHeld, StreamingFrom
  <1>5. Standing' /\ ListedIsOpen' /\ AdmittedExist'
    BY <1>1 DEF Standing, ListedIsOpen, AdmittedExist, Admitted, Open
  <1> QED
    BY <1>2, <1>3, <1>4, <1>5

LEMMA CreateNewKeepsInv ==
  ASSUME ServerInv, CreateNew
  PROVE  ServerInv'
  <1> USE DEF CreateNew, ServerInv
  <1>1. TypeOK'
    BY DEF TypeOK, NoRegistration, clientVars
  <1>2. Standing' /\ ListedIsOpen' /\ AdmittedExist'
    BY DEF Standing, ListedIsOpen, AdmittedExist, Admitted, Open, clientVars
  <1>3. NoDanglingSubsession'
    BY DEF NoDanglingSubsession, NoRegistration
  <1>4. StreamsAreHeld'
    BY DEF StreamsAreHeld, StreamingFrom, Open, clientVars
  <1> QED
    BY <1>1, <1>2, <1>3, <1>4

LEMMA StutterKeepsInv ==
  ASSUME ServerInv, UNCHANGED vars
  PROVE  ServerInv'
  BY DEF vars, ServerInv, TypeOK, Standing, ListedIsOpen, AdmittedExist, Admitted, Open,
         NoDanglingSubsession, StreamsAreHeld, StreamingFrom, clientVars, smsVars

LEMMA NextKeepsInv ==
  ASSUME ServerInv, [Next]_vars
  PROVE  ServerInv'
  <1>1. ASSUME NEW c \in Channels, AddRtspMediaSession(c)
        PROVE  ServerInv'
    BY <1>1, AddKeepsInv
  <1>2. ASSUME NEW c \in Channels, RemoveRtspMediaSession(c)
        PROVE  ServerInv'
    <2>1. c.name \in Names
      BY ServerAssumption DEF ChannelType
    <2>2. fServerMediaSessions[c.name] \in Objects
      BY <1>2, <2>1 DEF RemoveRtspMediaSession, ServerInv, TypeOK
    <2>3. ClientsToKick(fServerMediaSessions[c.name]) \in SUBSET Clients
      BY DEF ClientsToKick, ServerInv, TypeOK
    <2> QED
      BY <1>2, <2>2, <2>3, DeleteKeepsInv DEF RemoveRtspMediaSession
  <1>3. ASSUME NEW s \in Clients, RejectSetup(s)
        PROVE  ServerInv'
    BY <1>3, TurnedAwayKeepsInv DEF RejectSetup
  <1>4. ASSUME NEW s \in Clients, NEW n \in Names, RefuseSetup(s, n)
        PROVE  ServerInv'
    BY <1>4, TurnedAwayKeepsInv DEF RefuseSetup
  <1>5. ASSUME NEW s \in Clients, NEW n \in Names, NEW t \in Tracks, AcceptSetup(s, n, t)
        PROVE  ServerInv'
    BY <1>5, AcceptKeepsInv
  <1>6. ASSUME NEW s \in Clients, EndClientSession(s)
        PROVE  ServerInv'
    BY <1>6, DeleteKeepsInv DEF EndClientSession
  <1>7. ASSUME NEW val \in Limits, SetMaxConnectedClients(val)
        PROVE  ServerInv'
    BY <1>7, SetMaxKeepsInv
  <1>8. ASSUME NEW s \in Clients, DestructClientSession(s)
        PROVE  ServerInv'
    BY <1>8, DeleteKeepsInv DEF DestructClientSession
  <1> QED
    BY <1>1, <1>2, <1>3, <1>4, <1>5, <1>6, <1>7, <1>8,
       DestructKeepsInv, DestructMediaKeepsInv, CreateNewKeepsInv, StutterKeepsInv DEF Next

-----------------------------------------------------------------------------
(***************************************************************************)
(* Theorems.                                                               *)
(***************************************************************************)

\* The invariant holds throughout.
THEOREM Invariant == Spec => []ServerInv
  BY InitInv, NextKeepsInv, PTL DEF Spec

\* Type correctness, for every server.
THEOREM TypeCorrect == Spec => []TypeOK
  <1>1. ServerInv => TypeOK
    BY DEF ServerInv
  <1> QED
    BY <1>1, Invariant, PTL

\* The scheduler's registry holds no subsession that has been destroyed, although
\* entries are erased without a look at whose they are.
THEOREM NothingDangles == Spec => []NoDanglingSubsession
  <1>1. ServerInv => NoDanglingSubsession
    BY DEF ServerInv
  <1> QED
    BY <1>1, Invariant, PTL

\* Whoever streams holds a reference to the media session it streams from, which
\* keeps it from being destroyed.
THEOREM StreamsHeld == Spec => []StreamsAreHeld
  <1>1. ServerInv => StreamsAreHeld
    BY DEF ServerInv
  <1> QED
    BY <1>1, Invariant, PTL

\* Every session that outlives the destructor of the server has been orphaned.
THEOREM Orphaned == Spec => []NoCallIntoDestroyedServer
  <1>1. ServerInv => NoCallIntoDestroyedServer
    BY DEF ServerInv, Standing, NoCallIntoDestroyedServer
  <1> QED
    BY <1>1, Invariant, PTL

\* A media session goes off the list of a server that is up only when its channel
\* is removed.
LEMMA RemovedByRemoval ==
  ASSUME ServerInv, [Next]_vars, NEW o \in Objects, Removed(o)
  PROVE  DeleteClients(ClientsToKick(o), {o})
  <1>1. PICK n \in Names : fServerMediaSessions[n] = o /\ fServerMediaSessions'[n] # o
    BY DEF Removed, Listed
  <1>2. o # NoSms /\ status = "up" /\ status' = "up"
    BY ServerAssumption DEF Removed
  <1>3. ASSUME NEW c \in Channels, AddRtspMediaSession(c)
        PROVE  FALSE
    BY <1>1, <1>2, <1>3 DEF AddRtspMediaSession, ServerInv, TypeOK
  <1>4. ASSUME NEW s \in Clients, EndClientSession(s)
        PROVE  FALSE
    BY <1>1, <1>4 DEF EndClientSession, DeleteClients
  <1>5. PICK c \in Channels : RemoveRtspMediaSession(c)
    BY <1>1, <1>2, <1>3, <1>4
    DEF Next, vars, smsVars, RejectSetup, RefuseSetup, AcceptSetup, SetMaxConnectedClients,
        Destruct, DestructClientSession, DestructMediaSessions, CreateNew
  <1>6. fServerMediaSessions[c.name] = o
    BY <1>1, <1>5 DEF RemoveRtspMediaSession, DeleteClients
  <1> QED
    BY <1>5, <1>6 DEF RemoveRtspMediaSession
\* Removing a channel ends the session of every client that streams from it, and
\* the media session dies unless a client refers to it without a stream.
THEOREM RemovalEnds == Spec => RemovalEndsStreams
  <1>1. ASSUME ServerInv, [Next]_vars, NEW o \in Objects, Removed(o)
        PROVE  /\ StreamingFrom(o) \cap clients' = {}
               /\ References(o) \subseteq StreamingFrom(o) => ~Open(o)'
    <2>1. DeleteClients(ClientsToKick(o), {o})
      BY <1>1, RemovedByRemoval
    <2>2. ClientsToKick(o) = StreamingFrom(o)
      BY <1>1 DEF ClientsToKick, ServerInv, StreamsAreHeld, Standing, Removed
    <2>3. clients' = clients \ StreamingFrom(o)
      BY <2>1, <2>2 DEF DeleteClients
    <2>4. References(o) \subseteq StreamingFrom(o) => ~Open(o)'
      BY <2>1, <2>2 DEF DeleteClients, Open
    <2> QED
      BY <2>3, <2>4
  <1>2. ServerInv /\ [Next]_vars =>
          [ \A o \in Objects : Removed(o) =>
              /\ StreamingFrom(o) \cap clients' = {}
              /\ References(o) \subseteq StreamingFrom(o) => ~Open(o)' ]_vars
    BY <1>1
  <1> QED
    BY <1>2, Invariant, PTL DEF Spec, RemovalEndsStreams

\* Removing a channel ends no session of another channel's client.
THEOREM RemovalSpares == Spec => RemovalSparesOthers
  <1>1. ASSUME ServerInv, [Next]_vars, NEW o \in Objects, Removed(o), NEW s \in clients \ clients'
        PROVE  fOurServerMediaSession[s] = o
    <2>1. DeleteClients(ClientsToKick(o), {o})
      BY <1>1, RemovedByRemoval
    <2>2. s \in StreamingFrom(o)
      BY <1>1, <2>1 DEF DeleteClients, ClientsToKick
    <2> QED
      BY <1>1, <2>2 DEF ServerInv, StreamsAreHeld
  <1>2. ServerInv /\ [Next]_vars =>
          [ \A o \in Objects : Removed(o) =>
              \A s \in clients \ clients' : fOurServerMediaSession[s] = o ]_vars
    BY <1>1
  <1> QED
    BY <1>2, Invariant, PTL DEF Spec, RemovalSparesOthers

\* Only SETUP admits a client.
LEMMA AdmittedBySetup ==
  ASSUME ServerInv, [Next]_vars, NEW s \in Clients,
         fOurServerMediaSession[s] = NoSms, fOurServerMediaSession'[s] # NoSms
  PROVE  \E n \in Names, t \in Tracks : AcceptSetup(s, n, t)
  <1>1. ASSUME NEW r \in Clients, NEW n \in Names, NEW t \in Tracks, AcceptSetup(r, n, t)
        PROVE  r = s
    BY <1>1 DEF AcceptSetup, ServerInv, TypeOK
  <1>2. ASSUME NEW c \in Channels, RemoveRtspMediaSession(c)
        PROVE  FALSE
    BY <1>2 DEF RemoveRtspMediaSession, DeleteClients
  <1>3. ASSUME NEW r \in Clients, EndClientSession(r) \/ DestructClientSession(r)
        PROVE  FALSE
    BY <1>3 DEF EndClientSession, DestructClientSession, DeleteClients
  <1> QED
    BY <1>1, <1>2, <1>3
    DEF Next, vars, clientVars, AddRtspMediaSession, RejectSetup, RefuseSetup,
        SetMaxConnectedClients, Destruct, DestructMediaSessions, CreateNew

\* The limit holds for every SETUP that admits a client, for any number of clients.
THEOREM LimitHolds == Spec => AdmissionWithinLimit
  <1>1. ASSUME ServerInv, [Next]_vars, NEW s \in Clients,
               fOurServerMediaSession[s] = NoSms, fOurServerMediaSession'[s] # NoSms,
               m_uiMaxConnectedClients # 0
        PROVE  Cardinality(Admitted') <= m_uiMaxConnectedClients
    <2> DEFINE counted == m_mRtspClientSessions \cup {s}
    <2>1. PICK n \in Names, t \in Tracks : AcceptSetup(s, n, t)
      BY <1>1, AdmittedBySetup
    <2>2. ~(Cardinality(counted) > m_uiMaxConnectedClients)
      BY <1>1, <2>1 DEF AcceptSetup, Rejected
    <2>3. Admitted' \subseteq counted
      BY <1>1, <2>1 DEF AcceptSetup, ServerInv, TypeOK, Standing, AdmittedExist, Admitted
    <2>4. IsFiniteSet(counted)
      BY <1>1, ServerAssumption, FS_Subset DEF ServerInv, TypeOK
    <2>5. Cardinality(Admitted') <= Cardinality(counted)
      BY <2>3, <2>4, FS_Subset
    <2>6. Cardinality(Admitted') \in Nat /\ Cardinality(counted) \in Nat
      BY <2>3, <2>4, FS_Subset, FS_CardinalityType
    <2>7. m_uiMaxConnectedClients \in Nat
      BY <1>1, ServerAssumption DEF ServerInv, TypeOK
    <2> QED
      BY <2>2, <2>5, <2>6, <2>7
  <1>2. ServerInv /\ [Next]_vars =>
          [ \A s \in Clients :
              (fOurServerMediaSession[s] = NoSms /\ fOurServerMediaSession'[s] # NoSms
               /\ m_uiMaxConnectedClients # 0)
                => Cardinality(Admitted') <= m_uiMaxConnectedClients ]_vars
    BY <1>1
  <1> QED
    BY <1>2, Invariant, PTL DEF Spec, AdmissionWithinLimit
-----------------------------------------------------------------------------
(***************************************************************************)
(* A media session that is alone with its channel id stays registered.     *)
(***************************************************************************)
LEMMA DeleteServes ==
  ASSUME ServerInv, NEW o \in Objects, Open(o)', FullyRegistered(o), Alone(o),
         NEW gone \in SUBSET Clients, NEW unlisted \in SUBSET Objects,
         DeleteClients(gone, unlisted)
  PROVE  FullyRegistered(o)'
  <1> DEFINE dead == Dead(gone, unlisted)
             erased == {sms[p].id : p \in {q \in dead : SlotTaken(sms[q])}}
  <1>1. /\ sms' = [p \in Objects |-> IF p \in dead THEN NoChannel ELSE sms[p]]
        /\ m_mMediaSessions' = DeregisterSubsessions(dead)
    BY DEF DeleteClients, Dead
  <1>2. o \notin dead /\ sms'[o] = sms[o] /\ Open(o)
    BY <1>1 DEF Open
  <1>3. sms[o].id \notin erased
    BY <1>2 DEF Alone, Dead
  <1>4. sms[o].id \in ChannelIds
    BY <1>2, ServerAssumption DEF Open, ServerInv, TypeOK, ChannelType
  <1>5. m_mMediaSessions'[sms[o].id] = m_mMediaSessions[sms[o].id]
    BY <1>1, <1>3, <1>4 DEF DeregisterSubsessions
  <1> QED
    BY <1>2, <1>5 DEF FullyRegistered

LEMMA AddServes ==
  ASSUME ServerInv, NEW o \in Objects, Open(o)', Alone(o)', Open(o) => FullyRegistered(o),
         NEW c \in Channels, AddRtspMediaSession(c)
  PROVE  FullyRegistered(o)'
  <1> USE ServerAssumption
  <1> PICK p \in Objects :
        /\ ~Open(p)
        /\ sms' = [sms EXCEPT ![p] = c]
        /\ m_mMediaSessions' = RegisterSubsessions(c, p)
    BY DEF AddRtspMediaSession
  <1>1. c \in ChannelType /\ c # NoChannel
    OBVIOUS
  <1>2. sms'[p] = c /\ \A q \in Objects \ {p} : sms'[q] = sms[q]
    BY DEF ServerInv, TypeOK
  <1>3. CASE o = p
    <2>1. ASSUME NEW src \in c.sources
          PROVE  m_mMediaSessions[c.id][src] = NoSms
      <3>1. src \in Sources /\ c.id \in ChannelIds
        BY <1>1, <2>1 DEF ChannelType
      <3>2. SUFFICES ASSUME m_mMediaSessions[c.id][src] # NoSms
                     PROVE  FALSE
        OBVIOUS
      <3> DEFINE q == m_mMediaSessions[c.id][src]
      <3>3. q \in Objects /\ Open(q) /\ sms[q].id = c.id
        BY <3>1, <3>2 DEF ServerInv, NoDanglingSubsession, TypeOK
      <3>4. q # o /\ sms'[q] = sms[q] /\ sms'[o] = c
        BY <1>2, <1>3, <3>3
      <3> QED
        BY <3>3, <3>4 DEF Alone, Open
    <2>2. \A src \in c.sources : m_mMediaSessions'[c.id][src] = p
      BY <1>1, <2>1 DEF RegisterSubsessions, ChannelType, ServerInv, TypeOK
    <2> QED
      BY <1>2, <1>3, <2>2 DEF FullyRegistered
  <1>4. CASE o # p
    <2>1. sms'[o] = sms[o] /\ Open(o)
      BY <1>2, <1>4 DEF Open
    <2>2. c.id # sms[o].id
      BY <1>1, <1>2, <1>4, <2>1 DEF Alone, Open
    <2>3. sms[o].id \in ChannelIds
      BY <2>1 DEF Open, ServerInv, TypeOK, ChannelType
    <2>4. m_mMediaSessions'[sms[o].id] = m_mMediaSessions[sms[o].id]
      BY <2>2, <2>3 DEF RegisterSubsessions, ServerInv, TypeOK
    <2> QED
      BY <2>1, <2>4 DEF FullyRegistered
  <1> QED
    BY <1>3, <1>4

\* Destructors that erase the wrong entries never hurt a media session that has
\* its channel id to itself.
THEOREM StaysServed == Spec => ServedWhileOpen
  <1> DEFINE Fine(o) == Open(o) => FullyRegistered(o) /\ Alone(o)
  <1>1. ASSUME ServerInv, [Next]_vars, NEW o \in Objects,
               Open(o)', Alone(o)', Fine(o)
        PROVE  FullyRegistered(o)'
    <2>1. ASSUME NEW c \in Channels, AddRtspMediaSession(c)
          PROVE  FullyRegistered(o)'
      BY <1>1, <2>1, AddServes
    <2>2. ASSUME NEW gone \in SUBSET Clients, NEW unlisted \in SUBSET Objects,
                 DeleteClients(gone, unlisted)
          PROVE  FullyRegistered(o)'
      <3>1. Open(o)
        BY <1>1, <2>2 DEF DeleteClients, Open
      <3> QED
        BY <1>1, <2>2, <3>1, DeleteServes
    <2>3. ASSUME NEW c \in Channels, RemoveRtspMediaSession(c)
          PROVE  FullyRegistered(o)'
      <3>1. /\ fServerMediaSessions[c.name] \in Objects
            /\ ClientsToKick(fServerMediaSessions[c.name]) \in SUBSET Clients
        BY <1>1, <2>3, ServerAssumption
        DEF RemoveRtspMediaSession, ClientsToKick, ServerInv, TypeOK, ChannelType
      <3> QED
        BY <2>2, <2>3, <3>1 DEF RemoveRtspMediaSession
    <2>4. ASSUME NEW s \in Clients, EndClientSession(s) \/ DestructClientSession(s)
          PROVE  FullyRegistered(o)'
      BY <2>2, <2>4 DEF EndClientSession, DestructClientSession
    <2>5. CASE DestructMediaSessions
      BY <1>1, <2>5 DEF DestructMediaSessions, Open
    <2>6. CASE CreateNew
      BY <1>1, <2>6 DEF CreateNew, ServerInv, Standing, Open
    <2>7. CASE UNCHANGED <<sms, m_mMediaSessions>>
      BY <1>1, <2>7 DEF Open, FullyRegistered
    <2> QED
      BY <1>1, <2>1, <2>3, <2>4, <2>5, <2>6, <2>7
      DEF Next, vars, smsVars, RejectSetup, RefuseSetup, AcceptSetup, SetMaxConnectedClients, Destruct
  <1>2. ServerInv /\ [Next]_vars =>
          [ \A o \in Objects :
              (Open(o)' /\ Alone(o)' /\ (Open(o) => FullyRegistered(o) /\ Alone(o)))
                => FullyRegistered(o)' ]_vars
    BY <1>1
  <1> QED
    BY <1>2, Invariant, PTL DEF Spec, ServedWhileOpen
=============================================================================
