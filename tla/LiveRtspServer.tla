--------------------------- MODULE LiveRtspServer ---------------------------
(***************************************************************************)
(* lme::LiveRtspServer with connected clients: ServerMediaSession objects  *)
(* and the subsessions they register with the live source scheduler, RTSP  *)
(* client sessions and the device sources they hold in the subsessions,    *)
(* the limit on connected clients, and the kicking of clients when a       *)
(* channel is removed.                                                     *)
(*                                                                         *)
(* Everything here runs in the live555 event loop, so every handler is one *)
(* step; what interleaves is the order of requests, timeouts and channel   *)
(* operations.  live555 itself (RTSPServer) is not in the repository: its  *)
(* part of SETUP, session deletion and reference counting is modelled from *)
(* how the overriding code uses it, and marked "live555" below.            *)
(***************************************************************************)
EXTENDS Naturals, FiniteSets

CONSTANTS
  Clients,      \* RTSP session ids live555 hands out
  Objects,      \* ServerMediaSession objects
  ChannelIds,
  Names,
  Sources,      \* source id of a subsession: 0, and 1 for audio beside video
  Tracks,       \* tracks clients ask for, by source id; some channel may lack one
  Channels,     \* the Channel values the service passes in
  NoChannel,    \* content of an object that is not allocated
  NoSms,        \* a NULL ServerMediaSession pointer
  Limits,       \* arguments of setMaxConnectedClients; 0 is "no limit"
  Asserts       \* TRUE in a build without NDEBUG

ChannelType == [id : ChannelIds, name : Names, sources : SUBSET Sources]

(***************************************************************************)
(* Channels whose subsessions LiveMediaSubsessionFactory can build; for    *)
(* others createNewSMS returns NULL, which addRtspMediaSession passes on.  *)
(***************************************************************************)
ASSUME ServerAssumption ==
  /\ Channels \subseteq ChannelType
  /\ \A c \in Channels : c.sources # {}
  /\ NoChannel \notin ChannelType
  /\ NoSms \notin Objects
  /\ Tracks \subseteq Sources
  /\ Limits \subseteq Nat
  /\ IsFiniteSet(Clients)
  /\ Asserts \in BOOLEAN

VARIABLES
  status,                  \* "up", "closing" (in ~RTSPServer), "down", "aborted"
  m_uiMaxConnectedClients,
  clients,                 \* live555: the client sessions that exist
  m_mRtspClientSessions,   \* the sessions LiveRtspServer knows
  orphans,                 \* sessions whose m_pParent is NULL
  fOurServerMediaSession,  \* session -> the sms it holds a reference to
  m_vDeviceSources,        \* sms, source -> clients streaming from the subsession
  sms,                     \* object -> the channel it was made for
  fServerMediaSessions,    \* live555: name -> listed sms
  m_mMediaSessions         \* scheduler: channel id, source -> owner of the subsession

clientVars == <<clients, m_mRtspClientSessions, orphans, fOurServerMediaSession>>
smsVars == <<sms, fServerMediaSessions, m_mMediaSessions>>
vars == <<status, m_uiMaxConnectedClients, clientVars, m_vDeviceSources, smsVars>>

NoRegistration == [src \in Sources |-> NoSms]
NoStreams == [src \in Sources |-> {}]

TypeOK ==
  /\ status \in {"up", "closing", "down", "aborted"}
  /\ m_uiMaxConnectedClients \in Limits \cup {0}
  /\ clients \subseteq Clients
  /\ m_mRtspClientSessions \subseteq Clients
  /\ orphans \subseteq Clients
  /\ fOurServerMediaSession \in [Clients -> Objects \cup {NoSms}]
  /\ m_vDeviceSources \in [Objects -> [Sources -> SUBSET Clients]]
  /\ sms \in [Objects -> Channels \cup {NoChannel}]
  /\ fServerMediaSessions \in [Names -> Objects \cup {NoSms}]
  /\ m_mMediaSessions \in [ChannelIds -> [Sources -> Objects \cup {NoSms}]]

Fresh ==
  /\ clients = {}
  /\ m_mRtspClientSessions = {}
  /\ orphans = {}
  /\ fOurServerMediaSession = [s \in Clients |-> NoSms]
  /\ m_vDeviceSources = [o \in Objects |-> NoStreams]
  /\ sms = [o \in Objects |-> NoChannel]
  /\ fServerMediaSessions = [n \in Names |-> NoSms]
  /\ m_mMediaSessions = [id \in ChannelIds |-> NoRegistration]

Init ==
  /\ status = "up"
  /\ m_uiMaxConnectedClients = 0
  /\ Fresh

Open(o) == sms[o] # NoChannel
Listed(o) == \E n \in Names : fServerMediaSessions[n] = o
StreamingFrom(o) == UNION {m_vDeviceSources[o][src] : src \in Sources}
References(o) == {s \in Clients : fOurServerMediaSession[s] = o}
Admitted == {s \in Clients : fOurServerMediaSession[s] # NoSms}

-----------------------------------------------------------------------------
(***************************************************************************)
(* The scheduler's registry, as the subsessions' constructor and           *)
(* destructor use it.                                                      *)
(***************************************************************************)

\* Mutated form of RegisterSubsessions: each subsession replaces the id's entry.
RegisterSubsessionsReplacing(c, o) ==
  LET last == CHOOSE src \in c.sources : \A other \in c.sources : other <= src
  IN [m_mMediaSessions EXCEPT ![c.id] = [NoRegistration EXCEPT ![last] = o]]

\* addMediaSubsession for every subsession of o; a slot that is taken is kept.
RegisterSubsessions(c, o) ==
  [m_mMediaSessions EXCEPT ![c.id] =
    [src \in Sources |-> IF src \in c.sources /\ @[src] = NoSms THEN o ELSE @[src]]]

SlotTaken(c) == \E src \in c.sources : m_mMediaSessions[c.id][src] # NoSms

\* Mutated form of DeregisterSubsessions: destroyed subsessions stay registered.
DeregisterSubsessionsNever(objects) == m_mMediaSessions

\* removeMediaSubsession for every subsession of the channels of the objects:
\* the first one found under its id and source erases the id's whole entry,
\* whoever registered it.
DeregisterSubsessions(objects) ==
  LET erased == {sms[o].id : o \in {p \in objects : SlotTaken(sms[p])}}
  IN [id \in ChannelIds |-> IF id \in erased THEN NoRegistration ELSE m_mMediaSessions[id]]

-----------------------------------------------------------------------------
(***************************************************************************)
(* live555: deleting client sessions.  The derived destructor unregisters  *)
(* a session that still has its parent; the device sources of its streams  *)
(* leave their subsessions; a removed sms dies with its last reference.    *)
(***************************************************************************)
DeleteClients(gone, unlisted) ==
  LET dead == {o \in Objects :
                 /\ Open(o)
                 /\ ~Listed(o) \/ o \in unlisted
                 /\ References(o) \subseteq gone}
  IN
  /\ clients' = clients \ gone
  /\ m_mRtspClientSessions' = m_mRtspClientSessions \ (gone \ orphans)
  /\ orphans' = orphans \ gone
  /\ fOurServerMediaSession' =
       [s \in Clients |-> IF s \in gone THEN NoSms ELSE fOurServerMediaSession[s]]
  /\ m_vDeviceSources' =
       [o \in Objects |-> [src \in Sources |-> m_vDeviceSources[o][src] \ gone]]
  /\ sms' = [o \in Objects |-> IF o \in dead THEN NoChannel ELSE sms[o]]
  /\ m_mMediaSessions' = DeregisterSubsessions(dead)
  /\ fServerMediaSessions' =
       [n \in Names |-> IF fServerMediaSessions[n] \in unlisted
                          THEN NoSms ELSE fServerMediaSessions[n]]

\* TEARDOWN, or the 45 s reclamation of a session live555 heard nothing from.
EndClientSession(s) ==
  /\ status = "up"
  /\ s \in clients
  /\ DeleteClients({s}, {})
  /\ UNCHANGED <<status, m_uiMaxConnectedClients>>

-----------------------------------------------------------------------------
(***************************************************************************)
(* Channels, called by the service's poll.                                 *)
(***************************************************************************)

\* addRtspMediaSession: a new object is made and listed unless the name is taken.
AddRtspMediaSession(c) ==
  /\ status = "up"
  /\ fServerMediaSessions[c.name] = NoSms
  /\ \E o \in Objects :
       /\ ~Open(o)
       /\ sms' = [sms EXCEPT ![o] = c]
       /\ fServerMediaSessions' = [fServerMediaSessions EXCEPT ![c.name] = o]
       /\ m_mMediaSessions' = RegisterSubsessions(c, o)
  /\ status' = IF Asserts /\ SlotTaken(c) THEN "aborted" ELSE "up"
  /\ UNCHANGED <<m_uiMaxConnectedClients, clientVars, m_vDeviceSources>>

\* Mutated form of ClientsToKick: every client of the server is kicked.
ClientsToKickAll(o) == m_mRtspClientSessions

\* Mutated form of ClientsToKick: only the first subsession is asked.
ClientsToKickFirst(o) == m_vDeviceSources[o][0] \cap m_mRtspClientSessions

\* endServerSession collects the clients with a device source in some subsession
\* and kicks those it knows.
ClientsToKick(o) == StreamingFrom(o) \cap m_mRtspClientSessions

\* removeRtspMediaSession: kick first, then take the session off the list, which
\* destroys it if nobody refers to it any more.
RemoveRtspMediaSession(c) ==
  /\ status = "up"
  /\ LET o == fServerMediaSessions[c.name] IN
       /\ o # NoSms
       /\ DeleteClients(ClientsToKick(o), {o})
  /\ UNCHANGED <<status, m_uiMaxConnectedClients>>

-----------------------------------------------------------------------------
(***************************************************************************)
(* SETUP.  A request without a session id makes live555 create a session,  *)
(* which LiveRtspServer enters in its map, before handleCmd_SETUP runs.    *)
(***************************************************************************)
CreateNewClientSession(s) ==
  /\ clients' = clients \cup {s}
  /\ m_mRtspClientSessions' = m_mRtspClientSessions \cup {s}
  /\ UNCHANGED orphans

\* Mutated form of Rejected: the asking session is forgotten in the count.
RejectedOffByOne(s) ==
  /\ m_uiMaxConnectedClients # 0
  /\ fOurServerMediaSession[s] = NoSms
  /\ Cardinality(m_mRtspClientSessions \ {s}) > m_uiMaxConnectedClients

\* The test of handleCmd_SETUP; the session that asks counts itself.
Rejected(s) ==
  /\ m_uiMaxConnectedClients # 0
  /\ fOurServerMediaSession[s] = NoSms
  /\ Cardinality(m_mRtspClientSessions \cup {s}) > m_uiMaxConnectedClients

\* 453 Not Enough Bandwidth.  The session object stays until it is reclaimed.
RejectSetup(s) ==
  /\ status = "up"
  /\ Rejected(s)
  /\ CreateNewClientSession(s)
  /\ UNCHANGED <<status, m_uiMaxConnectedClients, fOurServerMediaSession, m_vDeviceSources, smsVars>>

\* live555: the stream is unknown, or is not the one this session set up before.
RefuseSetup(s, n) ==
  /\ status = "up"
  /\ ~Rejected(s)
  /\ \/ fServerMediaSessions[n] = NoSms
     \/ fOurServerMediaSession[s] \notin {NoSms, fServerMediaSessions[n]}
  /\ CreateNewClientSession(s)
  /\ UNCHANGED <<status, m_uiMaxConnectedClients, fOurServerMediaSession, m_vDeviceSources, smsVars>>

\* Mutated form of AcceptSetup: a session may move on to another stream.
AcceptSetupOfOther(s, n, track) ==
  /\ status = "up"
  /\ ~Rejected(s)
  /\ LET o == fServerMediaSessions[n] IN
       /\ o # NoSms
       /\ fOurServerMediaSession' = [fOurServerMediaSession EXCEPT ![s] = o]
       /\ m_vDeviceSources' =
            [m_vDeviceSources EXCEPT ![o][track] =
              IF track \in sms[o].sources THEN @ \cup {s} ELSE @]
  /\ CreateNewClientSession(s)
  /\ UNCHANGED <<status, m_uiMaxConnectedClients, smsVars>>

\* live555: the session takes its reference to the sms before it looks for the
\* track; a device source is made only if the track exists.
AcceptSetup(s, n, track) ==
  /\ status = "up"
  /\ ~Rejected(s)
  /\ LET o == fServerMediaSessions[n] IN
       /\ o # NoSms
       /\ fOurServerMediaSession[s] \in {NoSms, o}
       /\ fOurServerMediaSession' = [fOurServerMediaSession EXCEPT ![s] = o]
       /\ m_vDeviceSources' =
            [m_vDeviceSources EXCEPT ![o][track] =
              IF track \in sms[o].sources THEN @ \cup {s} ELSE @]
  /\ CreateNewClientSession(s)
  /\ UNCHANGED <<status, m_uiMaxConnectedClients, smsVars>>

\* setMaxConnectedClients: nobody is kicked when the limit drops.
SetMaxConnectedClients(val) ==
  /\ status = "up"
  /\ m_uiMaxConnectedClients' = val
  /\ UNCHANGED <<status, clientVars, m_vDeviceSources, smsVars>>

-----------------------------------------------------------------------------
(***************************************************************************)
(* The end of the server.  ~LiveRtspServer cuts the link of the sessions   *)
(* it knows to itself; ~RTSPServer (live555) then deletes the sessions one *)
(* after the other and finally the listed media sessions.                  *)
(***************************************************************************)

\* Mutated form of Destruct: only clients that have a session are orphaned.
DestructForgetsIdle ==
  /\ status = "up"
  /\ status' = "closing"
  /\ orphans' = orphans \cup Admitted
  /\ UNCHANGED <<m_uiMaxConnectedClients, clients, m_mRtspClientSessions,
                 fOurServerMediaSession, m_vDeviceSources, smsVars>>

Destruct ==
  /\ status = "up"
  /\ status' = "closing"
  /\ orphans' = orphans \cup m_mRtspClientSessions
  /\ UNCHANGED <<m_uiMaxConnectedClients, clients, m_mRtspClientSessions,
                 fOurServerMediaSession, m_vDeviceSources, smsVars>>

DestructClientSession(s) ==
  /\ status = "closing"
  /\ s \in clients
  /\ DeleteClients({s}, {})
  /\ UNCHANGED <<status, m_uiMaxConnectedClients>>

\* The map that the orphans never left is destroyed with the server.
DestructMediaSessions ==
  /\ status = "closing"
  /\ clients = {}
  /\ status' = "down"
  /\ m_mRtspClientSessions' = {}
  /\ sms' = [o \in Objects |-> NoChannel]
  /\ fServerMediaSessions' = [n \in Names |-> NoSms]
  /\ m_mMediaSessions' = DeregisterSubsessions({o \in Objects : Open(o)})
  /\ UNCHANGED <<m_uiMaxConnectedClients, clients, orphans, fOurServerMediaSession, m_vDeviceSources>>

\* RtspService::init makes a new scheduler and a new server.
CreateNew ==
  /\ status = "down"
  /\ status' = "up"
  /\ m_uiMaxConnectedClients' = 0
  /\ m_mMediaSessions' = [id \in ChannelIds |-> NoRegistration]
  /\ UNCHANGED <<clientVars, m_vDeviceSources, sms, fServerMediaSessions>>

-----------------------------------------------------------------------------
Next ==
  \/ \E c \in Channels : AddRtspMediaSession(c)
  \/ \E c \in Channels : RemoveRtspMediaSession(c)
  \/ \E s \in Clients : RejectSetup(s)
  \/ \E s \in Clients, n \in Names : RefuseSetup(s, n)
  \/ \E s \in Clients, n \in Names, t \in Tracks : AcceptSetup(s, n, t)
  \/ \E s \in Clients : EndClientSession(s)
  \/ \E val \in Limits : SetMaxConnectedClients(val)
  \/ Destruct
  \/ \E s \in Clients : DestructClientSession(s)
  \/ DestructMediaSessions
  \/ CreateNew

Spec == Init /\ [][Next]_vars

-----------------------------------------------------------------------------
(***************************************************************************)
(* Properties.                                                             *)
(***************************************************************************)

\* The scheduler polls no subsession that has been destroyed, and polls each one
\* for its own channel and source, although removeMediaSubsession erases entries
\* without looking at whose they are.
NoDanglingSubsession ==
  \A id \in ChannelIds, src \in Sources :
    LET o == m_mMediaSessions[id][src] IN
      o # NoSms => Open(o) /\ sms[o].id = id /\ src \in sms[o].sources

\* A client with a device source is an existing session that holds a reference
\* to the media session it streams from, and that media session is not destroyed
\* under it.
StreamsAreHeld ==
  \A o \in Objects : \A s \in StreamingFrom(o) :
    s \in clients /\ fOurServerMediaSession[s] = o /\ Open(o)

\* The destructors of client sessions that outlive ~LiveRtspServer do not call
\* into it: every one of them was orphaned.
NoCallIntoDestroyedServer == status = "closing" => clients \subseteq orphans

\* A SETUP that admits a client never takes the admitted clients over the limit
\* in force at that moment.
AdmissionWithinLimit ==
  [][ \A s \in Clients :
        (fOurServerMediaSession[s] = NoSms /\ fOurServerMediaSession'[s] # NoSms
         /\ m_uiMaxConnectedClients # 0)
          => Cardinality(Admitted') <= m_uiMaxConnectedClients ]_vars

Removed(o) == status = "up" /\ Listed(o) /\ ~Listed(o)' /\ status' = "up"

\* Removing a channel ends the session of every client that streams from it, in
\* the same step, and if no client holds a reference without a stream the media
\* session and its subsessions are gone with them.
RemovalEndsStreams ==
  [][ \A o \in Objects : Removed(o) =>
        /\ StreamingFrom(o) \cap clients' = {}
        /\ References(o) \subseteq StreamingFrom(o) => ~Open(o)' ]_vars

\* Removing a channel leaves the clients of all other channels alone.
RemovalSparesOthers ==
  [][ \A o \in Objects : Removed(o) =>
        \A s \in clients \ clients' : fOurServerMediaSession[s] = o ]_vars

FullyRegistered(o) == \A src \in sms[o].sources : m_mMediaSessions[sms[o].id][src] = o

Alone(o) == \A p \in Objects \ {o} : Open(p) => sms[p].id # sms[o].id

\* A media session gets samples, and goes on getting them for as long as it
\* exists, provided no other media session of the same channel id exists.
ServedWhileOpen ==
  [][ \A o \in Objects :
        (Open(o)' /\ Alone(o)' /\ (Open(o) => FullyRegistered(o) /\ Alone(o)))
          => FullyRegistered(o)' ]_vars
=============================================================================
