------------------------- MODULE RtspService_proofs -------------------------
(***************************************************************************)
(* Proofs about RtspService: type correctness, mutual exclusion of the     *)
(* poll and the API calls, and, for programs that use names and ids        *)
(* consistently, agreement of the service's map, the server's table and    *)
(* the scheduler's registry.                                               *)
(***************************************************************************)
EXTENDS RtspService, TLAPS

USE RequestsAssumption, BoundsAssumption

-----------------------------------------------------------------------------
(* What the helpers return.                                                *)

\* A request queue that has something to give gives a request, and what is left
\* is still a queue of requests.
LEMMA QueueStep ==
  ASSUME NEW q \in Seq(Requests), q # <<>>
  PROVE  Head(q) \in Requests /\ Tail(q) \in Seq(Requests)
  OBVIOUS

\* The records of Requests have the fields of a channel.
LEMMA RequestFields ==
  ASSUME NEW c \in Requests
  PROVE  c.id \in ChannelIds /\ c.name \in Names /\ c.sources \in SUBSET Sources
         /\ c # NoChannel
  BY DEF ChannelType

\* The fields of a call determine what kind of call it is.
LEMMA CallFields ==
  ASSUME NEW c \in Calls \cup {NoCall}
  PROVE  /\ c.op = "create" => c.channel \in Requests
         /\ c.op = "remove" => c.id \in ChannelIds
  BY DEF Calls, NoCall

-----------------------------------------------------------------------------
(* Type correctness.                                                       *)

\* A step of the poll that touches the server keeps its tables well typed.
LEMMA AddTyped ==
  ASSUME TypeOK, NEW c \in Requests, AddRtspMediaSession(c)
  PROVE  /\ sessions' \in [Names -> Requests \cup {NoChannel}]
         /\ m_mMediaSessions' \in [ChannelIds -> SUBSET Sources]
         /\ pc' \in {pc, "aborted"}
  BY RequestFields DEF TypeOK, AddRtspMediaSession, Registered, server

LEMMA RemoveTyped ==
  ASSUME TypeOK, NEW c \in Requests, RemoveRtspMediaSession(c)
  PROVE  /\ sessions' \in [Names -> Requests \cup {NoChannel}]
         /\ m_mMediaSessions' \in [ChannelIds -> SUBSET Sources]
  BY RequestFields DEF TypeOK, RemoveRtspMediaSession, server

LEMMA TypeOKInductive == TypeOK /\ [Next]_vars => TypeOK'
<1> SUFFICES ASSUME TypeOK, [Next]_vars PROVE TypeOK'
  OBVIOUS
<1> USE DEF TypeOK
<1>1. ASSUME NEW c \in Requests, BeginCreate(c) PROVE TypeOK'
  BY <1>1 DEF BeginCreate, EnterCall, Calls, loop, server
<1>2. ASSUME NEW id \in ChannelIds, BeginRemove(id) PROVE TypeOK'
  BY <1>2 DEF BeginRemove, EnterCall, Calls, loop, server
<1>3. CASE CreateChannel
  BY <1>3, CallFields DEF CreateChannel, LeaveCall, loop, server
<1>4. CASE RemoveChannel
  BY <1>4, CallFields DEF RemoveChannel, LeaveCall, loop, server
<1>5. CASE Stop
  BY <1>5 DEF Stop, api, server
<1>6. CASE InitService
  BY <1>6 DEF InitService, NoSessions, NoRegistrations, api
<1>7. CASE PollDue \/ LockForPoll \/ RemovalsDone \/ PollDone \/ OtherEvent
  BY <1>7 DEF PollDue, LockForPoll, RemovalsDone, PollDone, OtherEvent, Goto, api, server
<1>8. CASE RemoveNext
  BY <1>8, RemoveTyped, QueueStep, RequestFields DEF RemoveNext, server
<1>9. CASE AddNext
  BY <1>9, AddTyped, QueueStep, RequestFields DEF AddNext
<1>10. CASE EnterLoop \/ CheckWatch
  BY <1>10 DEF EnterLoop, CheckWatch, api, server
<1>11. CASE CleanupLiveMediaEnvironment \/ ClearChannels
  BY <1>11 DEF CleanupLiveMediaEnvironment, ClearChannels, Goto, NoSessions,
     NoRegistrations, Empty, api, server
<1>12. CASE UNCHANGED vars
  BY <1>12 DEF vars, loop, api, server
<1> QED
  BY <1>1, <1>2, <1>3, <1>4, <1>5, <1>6, <1>7, <1>8, <1>9, <1>10, <1>11, <1>12
  DEF Next, App, EventLoop

LEMMA TypeCorrectInit == Init => TypeOK
<1> SUFFICES ASSUME Init PROVE TypeOK
  OBVIOUS
<1>1. m_mChannels \in [ChannelIds -> Requests \cup {NoChannel}]
  BY DEF Init, Empty
<1>2. sessions \in [Names -> Requests \cup {NoChannel}]
  BY DEF Init, NoSessions
<1>3. m_mMediaSessions \in [ChannelIds -> SUBSET Sources]
  BY DEF Init, NoRegistrations
<1>4. /\ m_qChannelsToBeAdded \in Seq(Requests)
      /\ m_qChannelsToBeRemoved \in Seq(Requests)
  BY DEF Init
<1>5. call \in Calls \cup {NoCall}
  BY DEF Init
<1> QED
  BY <1>1, <1>2, <1>3, <1>4, <1>5 DEF Init, TypeOK

\* Every variable of the service keeps its type, whatever the application calls.
THEOREM TypeCorrect == Spec => []TypeOK
<1> QED
  BY TypeCorrectInit, TypeOKInductive, PTL DEF Spec

-----------------------------------------------------------------------------
(* The poll and the API calls exclude each other.                          *)

\* The mutex is the event loop's exactly while it drains the queues (or died in
\* the attempt), and a call is inside its critical section exactly while the
\* mutex is the application's.
Mutex ==
  /\ pc \in {"removing", "adding"} => m_channelLock = "loop"
  /\ m_channelLock = "loop" => pc \in {"removing", "adding", "aborted"}
  /\ m_channelLock = "app" <=> call # NoCall

LEMMA MutexInductive == TypeOK /\ Mutex /\ [Next]_vars => Mutex'
<1> SUFFICES ASSUME TypeOK, Mutex, [Next]_vars PROVE Mutex'
  OBVIOUS
<1> USE DEF TypeOK, Mutex
<1>1. ASSUME NEW c \in Requests, BeginCreate(c) PROVE Mutex'
  BY <1>1 DEF BeginCreate, EnterCall, NoCall, loop
<1>2. ASSUME NEW id \in ChannelIds, BeginRemove(id) PROVE Mutex'
  BY <1>2 DEF BeginRemove, EnterCall, NoCall, loop
<1>3. CASE CreateChannel \/ RemoveChannel
  BY <1>3 DEF CreateChannel, RemoveChannel, LeaveCall, loop
<1>4. CASE Stop \/ InitService \/ EnterLoop \/ CheckWatch
  BY <1>4 DEF Stop, InitService, EnterLoop, CheckWatch, api
<1>5. CASE PollDue \/ LockForPoll \/ RemovalsDone \/ PollDone \/ OtherEvent
  BY <1>5 DEF PollDue, LockForPoll, RemovalsDone, PollDone, OtherEvent, Goto, api
<1>6. CASE RemoveNext
  BY <1>6 DEF RemoveNext
<1>7. CASE AddNext
  BY <1>7, AddTyped, QueueStep DEF AddNext
<1>8. CASE CleanupLiveMediaEnvironment \/ ClearChannels
  BY <1>8 DEF CleanupLiveMediaEnvironment, ClearChannels, Goto, api
<1>9. CASE UNCHANGED vars
  BY <1>9 DEF vars, loop, api
<1> QED
  BY <1>1, <1>2, <1>3, <1>4, <1>5, <1>6, <1>7, <1>8, <1>9 DEF Next, App, EventLoop

\* While an API call is in its critical section the poll is not in its own: the
\* part of thread safety that m_channelLock does give.
PollExcludesCalls == call # NoCall => pc \notin {"removing", "adding"}

THEOREM PollExclusion == Spec => []PollExcludesCalls
<1>1. Init => TypeOK /\ Mutex
  BY TypeCorrectInit DEF Init, Mutex
<1>2. TypeOK /\ Mutex /\ [Next]_vars => (TypeOK /\ Mutex)'
  BY TypeOKInductive, MutexInductive
<1>3. Mutex => PollExcludesCalls
  BY DEF Mutex, PollExcludesCalls
<1> QED
  BY <1>1, <1>2, <1>3, PTL DEF Spec

-----------------------------------------------------------------------------
(* The three tables agree.                                                 *)

\* InSync is not inductive by itself: it says nothing while the map outlives the
\* server, and a new server starts empty, so the map must be empty by then.
Boundaries ==
  /\ pc = "down" => m_mChannels = Empty
  /\ pc = "clearing" => sessions = NoSessions /\ m_mMediaSessions = NoRegistrations

Agree == MapMatchesServer /\ ServerMatchesMap /\ NothingElseRegistered

SyncInv == TypeOK /\ Boundaries /\ InSync

\* Empty tables agree.
LEMMA EmptyAgree ==
  ASSUME m_mChannels = Empty, sessions = NoSessions, m_mMediaSessions = NoRegistrations
  PROVE  Agree
  BY DEF Agree, MapMatchesServer, ServerMatchesMap, NothingElseRegistered, Empty,
     NoSessions, NoRegistrations

\* An iteration of the adding loop preserves agreement: the session that is
\* already listed under the name belongs to the same id.
LEMMA AddAgree ==
  ASSUME NamesMatchIds, TypeOK, Agree, NEW c \in Requests,
         m_mChannels' = [m_mChannels EXCEPT ![c.id] = c],
         AddRtspMediaSession(c)
  PROVE  Agree'
<1> USE RequestFields DEF TypeOK, Agree, MapMatchesServer, ServerMatchesMap,
    NothingElseRegistered, NamesMatchIds
<1>1. CASE sessions[c.name] # NoChannel
  <2>1. /\ sessions' = sessions /\ m_mMediaSessions' = m_mMediaSessions
        /\ sessions[c.name] \in Requests /\ sessions[c.name].id = c.id
    BY <1>1 DEF AddRtspMediaSession, server
  <2> QED
    BY <1>1, <2>1
<1>2. CASE sessions[c.name] = NoChannel
  <2>1. /\ sessions' = [sessions EXCEPT ![c.name] = c]
        /\ m_mMediaSessions' = [m_mMediaSessions EXCEPT ![c.id] = @ \cup c.sources]
    BY <1>2 DEF AddRtspMediaSession, Registered
  <2>2. m_mChannels[c.id] = NoChannel
    BY <1>2
  <2>3. m_mMediaSessions'[c.id] = c.sources
    BY <2>1, <2>2
  <2>4. ASSUME NEW id \in ChannelIds, id # c.id, m_mChannels[id] # NoChannel
        PROVE  /\ m_mChannels[id] \in Requests
               /\ m_mChannels[id].name \in Names
               /\ m_mChannels[id].name # c.name
    BY <2>4
  <2>5. MapMatchesServer'
    BY <2>1, <2>3, <2>4
  <2>6. ASSUME NEW n \in Names, n # c.name, sessions[n] # NoChannel
        PROVE  sessions[n] \in Requests /\ sessions[n].id # c.id
    BY <2>6
  <2>7. ServerMatchesMap'
    BY <2>1, <2>6
  <2>8. NothingElseRegistered'
    BY <2>1
  <2> QED
    BY <2>5, <2>7, <2>8
<1> QED
  BY <1>1, <1>2

\* An iteration of the removal loop preserves agreement, whether or not the
\* channel is still there.
LEMMA RemoveAgree ==
  ASSUME NamesMatchIds, TypeOK, Agree, NEW c \in Requests,
         m_mChannels' = [m_mChannels EXCEPT ![c.id] = NoChannel],
         RemoveRtspMediaSession(c)
  PROVE  Agree'
<1> USE RequestFields DEF TypeOK, Agree, MapMatchesServer, ServerMatchesMap,
    NothingElseRegistered, NamesMatchIds
<1>1. CASE sessions[c.name] = NoChannel
  <2>1. sessions' = sessions /\ m_mMediaSessions' = m_mMediaSessions
    BY <1>1 DEF RemoveRtspMediaSession, server
  <2>2. m_mChannels[c.id] = NoChannel
    BY <1>1
  <2> QED
    BY <2>1, <2>2
<1>2. CASE sessions[c.name] # NoChannel
  <2>1. sessions[c.name] \in Requests /\ sessions[c.name].id = c.id
    BY <1>2
  <2>2. /\ sessions' = [sessions EXCEPT ![c.name] = NoChannel]
        /\ m_mMediaSessions' = [m_mMediaSessions EXCEPT ![c.id] = {}]
    BY <1>2, <2>1 DEF RemoveRtspMediaSession
  <2>3. ASSUME NEW id \in ChannelIds, id # c.id, m_mChannels[id] # NoChannel
        PROVE  /\ m_mChannels[id] \in Requests
               /\ m_mChannels[id].name \in Names
               /\ m_mChannels[id].name # c.name
    BY <2>3
  <2>4. MapMatchesServer'
    BY <2>2, <2>3
  <2>5. ASSUME NEW n \in Names, n # c.name, sessions[n] # NoChannel
        PROVE  sessions[n] \in Requests /\ sessions[n].id # c.id
    BY <2>5
  <2>6. ServerMatchesMap'
    BY <2>2, <2>5
  <2>7. NothingElseRegistered'
    BY <2>2
  <2> QED
    BY <2>4, <2>6, <2>7
<1> QED
  BY <1>1, <1>2

LEMMA SyncInvInductive ==
  ASSUME NamesMatchIds, SyncInv, [Next]_vars
  PROVE  SyncInv'
<1> USE DEF SyncInv
<1>0. TypeOK'
  BY TypeOKInductive
<1>1. CASE pc = pc' /\ UNCHANGED <<m_mChannels, server>>
  BY <1>0, <1>1 DEF Boundaries, InSync, MapMatchesServer, ServerMatchesMap,
     NothingElseRegistered, server
<1>2. CASE /\ pc \notin {"down", "clearing"}
           /\ pc' \notin {"down", "clearing"}
           /\ UNCHANGED <<m_mChannels, server>>
  BY <1>0, <1>2 DEF Boundaries, InSync, MapMatchesServer, ServerMatchesMap,
     NothingElseRegistered, server
<1>3. CASE InitService
  <2>1. Agree'
    BY <1>3, EmptyAgree DEF InitService, Boundaries, Agree, MapMatchesServer,
       ServerMatchesMap, NothingElseRegistered, Empty, NoSessions, NoRegistrations
  <2> QED
    BY <1>0, <1>3, <2>1 DEF InitService, Boundaries, InSync, Agree
<1>4. CASE RemoveNext
  <2> DEFINE c == Head(m_qChannelsToBeRemoved)
  <2>1. c \in Requests
    BY <1>4, QueueStep DEF RemoveNext, TypeOK
  <2>2. pc = "removing" /\ pc' \in {"removing", "aborted"}
    BY <1>4 DEF RemoveNext
  <2>3. CASE UNCHANGED <<m_mChannels, server>>
    BY <1>2, <2>2, <2>3
  <2>4. CASE ~UNCHANGED <<m_mChannels, server>>
    <3>1. /\ m_mChannels' = [m_mChannels EXCEPT ![c.id] = NoChannel]
          /\ RemoveRtspMediaSession(c)
      BY <1>4, <2>4 DEF RemoveNext
    <3>2. Agree
      BY <2>2 DEF InSync, Agree
    <3>3. Agree'
      BY <2>1, <3>1, <3>2, RemoveAgree
    <3> QED
      BY <1>0, <2>2, <3>3 DEF Boundaries, InSync, Agree
  <2> QED
    BY <2>3, <2>4
<1>5. CASE AddNext
  <2> DEFINE c == Head(m_qChannelsToBeAdded)
  <2>1. c \in Requests
    BY <1>5, QueueStep DEF AddNext, TypeOK
  <2>2. /\ m_mChannels' = [m_mChannels EXCEPT ![c.id] = c]
        /\ AddRtspMediaSession(c)
        /\ pc = "adding"
    BY <1>5 DEF AddNext
  <2>3. pc' \in {"adding", "aborted"}
    BY <2>1, <2>2, AddTyped
  <2>4. Agree
    BY <2>2 DEF InSync, Agree
  <2>5. Agree'
    BY <2>1, <2>2, <2>4, AddAgree
  <2> QED
    BY <1>0, <2>3, <2>5 DEF Boundaries, InSync, Agree
<1>6. CASE CleanupLiveMediaEnvironment
  BY <1>0, <1>6 DEF CleanupLiveMediaEnvironment, Goto, Boundaries, InSync
<1>7. CASE ClearChannels
  <2>1. /\ pc' = "down" /\ m_mChannels' = Empty
        /\ sessions' = NoSessions /\ m_mMediaSessions' = NoRegistrations
    BY <1>7 DEF ClearChannels, Goto, Boundaries, server
  <2>2. Agree'
    BY <2>1 DEF Agree, MapMatchesServer, ServerMatchesMap, NothingElseRegistered,
       Empty, NoSessions, NoRegistrations
  <2> QED
    BY <1>0, <2>1, <2>2 DEF Boundaries, InSync, Agree
<1>8. CASE PollDue \/ LockForPoll \/ RemovalsDone \/ PollDone \/ OtherEvent
  <2>1. UNCHANGED <<m_mChannels, server>>
    BY <1>8 DEF PollDue, LockForPoll, RemovalsDone, PollDone, OtherEvent
  <2>2. pc \notin {"down", "clearing"} /\ pc' \notin {"down", "clearing"}
    BY <1>8 DEF PollDue, LockForPoll, RemovalsDone, PollDone, OtherEvent, Goto
  <2> QED
    BY <1>2, <2>1, <2>2
<1>9. CASE EnterLoop \/ CheckWatch
  BY <1>2, <1>9 DEF EnterLoop, CheckWatch
<1>10. CASE App
  BY <1>1, <1>10 DEF App, BeginCreate, BeginRemove, EnterCall, CreateChannel,
     RemoveChannel, LeaveCall, Stop, loop
<1>11. CASE UNCHANGED vars
  BY <1>1, <1>11 DEF vars, loop
<1> QED
  BY <1>3, <1>4, <1>5, <1>6, <1>7, <1>8, <1>9, <1>10, <1>11 DEF Next, EventLoop

LEMMA SyncInvInit == Init => SyncInv
  BY TypeCorrectInit, EmptyAgree DEF Init, SyncInv, Boundaries, InSync, Agree

\* Map, server and scheduler agree in every state of every run of a program that
\* pairs names and ids consistently, whatever it creates and removes and however
\* often it restarts the service.
THEOREM TablesInSync == NamesMatchIds /\ Spec => []InSync
<1> SUFFICES ASSUME NamesMatchIds PROVE Spec => []InSync
  OBVIOUS
<1>1. Init => SyncInv
  BY SyncInvInit
<1>2. SyncInv /\ [Next]_vars => SyncInv'
  BY SyncInvInductive
<1>3. SyncInv => InSync
  BY DEF SyncInv
<1> QED
  BY <1>1, <1>2, <1>3, PTL DEF Spec

\* For such a program the assert(false) of addMediaSubsession is unreachable
\* from the poll.
THEOREM SlotsFree == NamesMatchIds /\ Spec => []SlotsFreeWhenAdding
<1> SUFFICES ASSUME NamesMatchIds PROVE Spec => []SlotsFreeWhenAdding
  OBVIOUS
<1>1. Init => SyncInv
  BY SyncInvInit
<1>2. SyncInv /\ [Next]_vars => SyncInv'
  BY SyncInvInductive
<1>3. SyncInv => SlotsFreeWhenAdding
  <2> SUFFICES ASSUME SyncInv, pc = "adding", m_qChannelsToBeAdded # <<>>,
                      sessions[Head(m_qChannelsToBeAdded).name] = NoChannel
               PROVE  ~AlreadyRegistered(m_mMediaSessions, Head(m_qChannelsToBeAdded))
    BY DEF SlotsFreeWhenAdding
  <2> DEFINE c == Head(m_qChannelsToBeAdded)
  <2>1. c \in Requests
    BY QueueStep DEF SyncInv, TypeOK
  <2>2. m_mChannels[c.id] = NoChannel
    BY <2>1, RequestFields DEF SyncInv, TypeOK, InSync, MapMatchesServer, NamesMatchIds
  <2>3. m_mMediaSessions[c.id] = {}
    BY <2>1, <2>2, RequestFields DEF SyncInv, InSync, NothingElseRegistered
  <2> QED
    BY <2>3 DEF AlreadyRegistered
<1> QED
  BY <1>1, <1>2, <1>3, PTL DEF Spec

-----------------------------------------------------------------------------
(* Requests are not lost, and sessions do not vanish.                      *)

\* The head of a queue is all that a request can be if it is not in the tail, and
\* a queue that grows keeps its requests.
LEMMA PendingTail ==
  ASSUME NEW q \in Seq(Requests), q # <<>>, NEW c \in Requests, Pending(q, c), c # Head(q)
  PROVE  Pending(Tail(q), c)
<1>1. PICK n \in 1 .. Len(q) : q[n] = c
  BY DEF Pending
<1>2. n # 1 /\ n - 1 \in 1 .. Len(q) - 1
  BY <1>1
<1>3. Len(Tail(q)) = Len(q) - 1 /\ DOMAIN Tail(q) = 1 .. Len(q) - 1 /\ Tail(q)[n - 1] = q[n]
  BY <1>2
<1> QED
  BY <1>1, <1>2, <1>3 DEF Pending

LEMMA PendingAppend ==
  ASSUME NEW q \in Seq(Requests), NEW e \in Requests, NEW c, Pending(q, c)
  PROVE  Pending(Append(q, e), c)
<1>1. PICK n \in 1 .. Len(q) : q[n] = c
  BY DEF Pending
<1>2. n \in DOMAIN Append(q, e) /\ Append(q, e)[n] = q[n]
  BY <1>1
<1> QED
  BY <1>1, <1>2 DEF Pending

\* A request leaves its queue only by taking effect: a channel to be added is listed
\* then as it was requested, unless a session had its name already; one to be removed
\* is not listed, unless the assert of line 216 ends the program.
RequestsHonoured ==
  \A c \in Requests :
    /\ Pending(m_qChannelsToBeAdded, c) =>
         \/ Pending(m_qChannelsToBeAdded', c)
         \/ sessions'[c.name] = c
         \/ sessions[c.name] # NoChannel /\ UNCHANGED sessions
    /\ Pending(m_qChannelsToBeRemoved, c) =>
         Pending(m_qChannelsToBeRemoved', c) \/ sessions'[c.name] = NoChannel \/ pc' = "aborted"

\* A session leaves the server only on request, or with the server.
SessionsStay ==
  \A n \in Names :
    sessions[n] # NoChannel /\ sessions'[n] = NoChannel =>
      \/ pc \in {"cleaning", "down"}
      \/ \E c \in Requests : c.name = n /\ Pending(m_qChannelsToBeRemoved, c)

LEMMA HonouredStep == TypeOK /\ Next => RequestsHonoured /\ SessionsStay
<1> SUFFICES ASSUME TypeOK, Next PROVE RequestsHonoured /\ SessionsStay
  OBVIOUS
<1>1. /\ m_qChannelsToBeAdded \in Seq(Requests) /\ m_qChannelsToBeRemoved \in Seq(Requests)
      /\ sessions \in [Names -> Requests \cup {NoChannel}]
      /\ m_mChannels \in [ChannelIds -> Requests \cup {NoChannel}]
      /\ call \in Calls \cup {NoCall}
  BY DEF TypeOK
<1>2. CASE AddNext
  <2> DEFINE r == Head(m_qChannelsToBeAdded)
  <2>1. /\ m_qChannelsToBeAdded # <<>> /\ m_qChannelsToBeAdded' = Tail(m_qChannelsToBeAdded)
        /\ AddRtspMediaSession(r) /\ UNCHANGED m_qChannelsToBeRemoved
    BY <1>2 DEF AddNext
  <2>2. r \in Requests /\ r.name \in Names /\ r # NoChannel
    BY <1>1, <2>1, QueueStep, RequestFields
  <2> HIDE DEF r
  <2>3. /\ sessions'[r.name] = r \/ (sessions[r.name] # NoChannel /\ UNCHANGED sessions)
        /\ \A n \in Names : sessions[n] # NoChannel => sessions'[n] # NoChannel
    BY <1>1, <2>1, <2>2 DEF AddRtspMediaSession, server
  <2>4. \A c \in Requests : Pending(m_qChannelsToBeAdded, c) /\ c # r =>
                              Pending(m_qChannelsToBeAdded', c)
    BY <1>1, <2>1, PendingTail DEF r
  <2> QED
    BY <2>1, <2>3, <2>4 DEF RequestsHonoured, SessionsStay
<1>3. CASE RemoveNext
  <2> DEFINE r == Head(m_qChannelsToBeRemoved)
  <2>1. /\ m_qChannelsToBeRemoved # <<>> /\ m_qChannelsToBeRemoved' = Tail(m_qChannelsToBeRemoved)
        /\ UNCHANGED m_qChannelsToBeAdded
        /\ (pc' = "aborted" /\ UNCHANGED sessions) \/ RemoveRtspMediaSession(r)
    BY <1>3 DEF RemoveNext, server
  <2>2. r \in Requests /\ r.name \in Names /\ Pending(m_qChannelsToBeRemoved, r)
    <3>1. r \in Requests /\ r.name \in Names
      BY <1>1, <2>1, QueueStep, RequestFields
    <3>2. 1 \in DOMAIN m_qChannelsToBeRemoved /\ r = m_qChannelsToBeRemoved[1]
      BY <1>1, <2>1
    <3> QED
      BY <3>1, <3>2 DEF Pending
  <2>4. \A c \in Requests : Pending(m_qChannelsToBeRemoved, c) /\ c # r =>
                              Pending(m_qChannelsToBeRemoved', c)
    BY <1>1, <2>1, PendingTail DEF r
  <2> HIDE DEF r
  <2>5. CASE pc' = "aborted" /\ UNCHANGED sessions
    BY <2>1, <2>5 DEF RequestsHonoured, SessionsStay
  <2>6. CASE RemoveRtspMediaSession(r)
    <3>1. /\ sessions'[r.name] = NoChannel
          /\ \A n \in Names : n # r.name => sessions'[n] = sessions[n]
      BY <1>1, <2>2, <2>6 DEF RemoveRtspMediaSession, server
    <3>2. RequestsHonoured
      BY <2>1, <2>4, <3>1 DEF RequestsHonoured
    <3>3. SessionsStay
      BY <2>2, <3>1 DEF SessionsStay
    <3> QED
      BY <3>2, <3>3
  <2> QED
    BY <2>1, <2>5, <2>6
<1>4. CASE CreateChannel
  <2>1. /\ UNCHANGED <<m_qChannelsToBeRemoved, sessions>>
        /\ \/ UNCHANGED m_qChannelsToBeAdded
           \/ m_qChannelsToBeAdded' = Append(m_qChannelsToBeAdded, call.channel)
    BY <1>4 DEF CreateChannel, LeaveCall, server
  <2>2. call.channel \in Requests
    BY <1>1, <1>4, CallFields DEF CreateChannel
  <2>3. \A c : Pending(m_qChannelsToBeAdded, c) => Pending(m_qChannelsToBeAdded', c)
    BY <1>1, <2>1, <2>2, PendingAppend
  <2> QED
    BY <2>1, <2>3 DEF RequestsHonoured, SessionsStay
<1>5. CASE RemoveChannel
  <2>1. /\ UNCHANGED <<m_qChannelsToBeAdded, sessions>>
        /\ \/ UNCHANGED m_qChannelsToBeRemoved
           \/ /\ m_mChannels[call.id] # NoChannel
              /\ m_qChannelsToBeRemoved' = Append(m_qChannelsToBeRemoved, m_mChannels[call.id])
    BY <1>5 DEF RemoveChannel, LeaveCall, server
  <2>2. call.id \in ChannelIds
    BY <1>1, <1>5, CallFields DEF RemoveChannel
  <2>3. \A c : Pending(m_qChannelsToBeRemoved, c) => Pending(m_qChannelsToBeRemoved', c)
    BY <1>1, <2>1, <2>2, PendingAppend
  <2> QED
    BY <2>1, <2>3 DEF RequestsHonoured, SessionsStay
<1>6. CASE UNCHANGED <<m_qChannelsToBeAdded, m_qChannelsToBeRemoved>> /\ pc \in {"cleaning", "down"}
  BY <1>6 DEF RequestsHonoured, SessionsStay
<1>7. CASE UNCHANGED <<m_qChannelsToBeAdded, m_qChannelsToBeRemoved, sessions>>
  BY <1>7 DEF RequestsHonoured, SessionsStay
<1>8. \/ AddNext \/ RemoveNext \/ CreateChannel \/ RemoveChannel
      \/ UNCHANGED <<m_qChannelsToBeAdded, m_qChannelsToBeRemoved>> /\ pc \in {"cleaning", "down"}
      \/ UNCHANGED <<m_qChannelsToBeAdded, m_qChannelsToBeRemoved, sessions>>
  BY DEF Next, App, EventLoop, BeginCreate, BeginRemove, EnterCall, Stop, InitService, PollDue,
         LockForPoll, RemovalsDone, PollDone, EnterLoop, CheckWatch, OtherEvent,
         CleanupLiveMediaEnvironment, ClearChannels, Goto, api, server, loop
<1> QED
  BY <1>2, <1>3, <1>4, <1>5, <1>6, <1>7, <1>8

\* doCheckChannelsTask: whatever calls, polls, stops and restarts come between the
\* acceptance of a request and its poll, it stays queued until it takes effect, or, a
\* channel to be added, until it meets a session of the same name.
THEOREM NoRequestLost == Spec => [][RequestsHonoured]_vars
<1>1. TypeOK /\ [Next]_vars => [RequestsHonoured]_vars
  BY HonouredStep
<1> QED
  BY <1>1, TypeCorrect, PTL DEF Spec

\* A listed session is taken from the server only by a removal that was accepted for
\* its name, or together with the server.
THEOREM NoSessionVanishes == Spec => [][SessionsStay]_vars
<1>1. TypeOK /\ [Next]_vars => [SessionsStay]_vars
  BY HonouredStep
<1> QED
  BY <1>1, TypeCorrect, PTL DEF Spec
=============================================================================
