---------------------------- MODULE RtspService ----------------------------
(***************************************************************************)
(* The life cycle of lme::RtspService: application threads create and      *)
(* remove channels and ask the service to stop, while one event-loop       *)
(* thread polls the two request queues every 50 ms and keeps the RTSP      *)
(* server's session table and the live source scheduler's registry in step *)
(* with the service's own channel map.                                     *)
(*                                                                         *)
(* The event-loop thread is a program counter, pc.  The poll holds         *)
(* m_channelLock while it drains the queues one request per step.  An API  *)
(* call takes the lock in one step and runs its critical section in the    *)
(* next, so that code which forgets the lock can meet it half-way.  A       *)
(* failed assert stops the process with the lock held: pc = "aborted".      *)
(*                                                                         *)
(* The server is the one seen by a service without connected clients: a    *)
(* removed session dies at once.  LiveRtspServer.tla models the clients.   *)
(***************************************************************************)
EXTENDS Naturals, Sequences

CONSTANTS
  ChannelIds,   \* the uint32_t channel identifiers in use
  Names,        \* the channel (stream) names in use
  Sources,      \* source ids within a channel: 0, and 1 for audio beside video
  Requests,     \* the Channel values the application passes to createChannel
  NoChannel,    \* "not in the map" / lookupServerMediaSession() == NULL
  MaxPending,   \* bound on each request queue (unbounded std::deque in the code)
  Asserts       \* TRUE in a build without NDEBUG, where assert() aborts

ChannelType == [id : ChannelIds, name : Names, sources : SUBSET Sources]

ASSUME RequestsAssumption ==
  /\ Requests \subseteq ChannelType
  /\ \A c \in Requests : c.sources # {}
  /\ NoChannel \notin ChannelType

ASSUME BoundsAssumption == MaxPending \in Nat /\ Asserts \in BOOLEAN

(***************************************************************************)
(* The use of the service the properties assume where they say so: an id   *)
(* always comes with the same name and a name with the same id.  The code  *)
(* keys its map by id and the server's session table by name and checks    *)
(* neither against the other.                                              *)
(***************************************************************************)
NamesMatchIds == \A c, d \in Requests : c.id = d.id <=> c.name = d.name

VARIABLES
  pc,                     \* where the event-loop thread is
  m_bEventLoopRunning,    \* FALSE while init() runs the first poll itself
  m_cEventloop,           \* watch variable of the event loop: 1 means exit
  m_channelLock,          \* who holds the mutex: "free", "loop" or "app"
  call,                   \* the API call inside the critical section
  m_mChannels,            \* id -> channel, or NoChannel
  m_qChannelsToBeAdded,   \* requests accepted by createChannel
  m_qChannelsToBeRemoved, \* copies of map entries queued by removeChannel
  sessions,               \* RTSP server: name -> listed ServerMediaSession
  m_mMediaSessions        \* scheduler: id -> registered source ids

api == <<call, m_qChannelsToBeAdded, m_qChannelsToBeRemoved>>
server == <<sessions, m_mMediaSessions>>
loop == <<pc, m_bEventLoopRunning, m_cEventloop>>
vars == <<loop, m_channelLock, api, m_mChannels, server>>

Empty == [id \in ChannelIds |-> NoChannel]
NoSessions == [n \in Names |-> NoChannel]
NoRegistrations == [id \in ChannelIds |-> {}]

NoCall == [op |-> "none"]
Calls == [op : {"create"}, channel : Requests] \cup [op : {"remove"}, id : ChannelIds]

TypeOK ==
  /\ pc \in {"down", "created", "waiting", "removing", "adding", "ready",
             "looping", "stepping", "cleaning", "clearing", "aborted"}
  /\ m_bEventLoopRunning \in BOOLEAN
  /\ m_cEventloop \in {0, 1}
  /\ m_channelLock \in {"free", "loop", "app"}
  /\ call \in Calls \cup {NoCall}
  /\ m_mChannels \in [ChannelIds -> Requests \cup {NoChannel}]
  /\ m_qChannelsToBeAdded \in Seq(Requests)
  /\ m_qChannelsToBeRemoved \in Seq(Requests)
  /\ sessions \in [Names -> Requests \cup {NoChannel}]
  /\ m_mMediaSessions \in [ChannelIds -> SUBSET Sources]

Init ==
  /\ pc = "down"
  /\ m_bEventLoopRunning = FALSE
  /\ m_cEventloop = 0
  /\ m_channelLock = "free"
  /\ call = NoCall
  /\ m_mChannels = Empty
  /\ m_qChannelsToBeAdded = <<>>
  /\ m_qChannelsToBeRemoved = <<>>
  /\ sessions = NoSessions
  /\ m_mMediaSessions = NoRegistrations

-----------------------------------------------------------------------------
(***************************************************************************)
(* Application threads.                                                    *)
(***************************************************************************)

\* A thread enters createChannel or removeChannel and obtains the mutex.
EnterCall(c) ==
  /\ m_channelLock = "free"
  /\ m_channelLock' = "app"
  /\ call' = c
  /\ UNCHANGED <<loop, m_qChannelsToBeAdded, m_qChannelsToBeRemoved, m_mChannels, server>>

BeginCreate(c) ==
  /\ Len(m_qChannelsToBeAdded) < MaxPending
  /\ EnterCall([op |-> "create", channel |-> c])

BeginRemove(id) ==
  /\ Len(m_qChannelsToBeRemoved) < MaxPending
  /\ EnterCall([op |-> "remove", id |-> id])

LeaveCall ==
  /\ m_channelLock' = "free"
  /\ call' = NoCall
  /\ UNCHANGED <<loop, m_mChannels, server>>

\* createChannel: file_exists if the id is in the map, else the request is
\* queued.  Requests that are still queued are not looked at.
CreateChannel ==
  /\ m_channelLock = "app"
  /\ call.op = "create"
  /\ m_qChannelsToBeAdded' = IF m_mChannels[call.channel.id] # NoChannel
                               THEN m_qChannelsToBeAdded
                               ELSE Append(m_qChannelsToBeAdded, call.channel)
  /\ UNCHANGED m_qChannelsToBeRemoved
  /\ LeaveCall

\* removeChannel: a copy of the map entry is queued, else no_such_file_or_directory.
RemoveChannel ==
  /\ m_channelLock = "app"
  /\ call.op = "remove"
  /\ m_qChannelsToBeRemoved' = IF m_mChannels[call.id] # NoChannel
                                 THEN Append(m_qChannelsToBeRemoved, m_mChannels[call.id])
                                 ELSE m_qChannelsToBeRemoved
  /\ UNCHANGED m_qChannelsToBeAdded
  /\ LeaveCall

\* stop() writes the watch variable without a lock, whatever the loop is doing.
Stop ==
  /\ pc # "aborted"
  /\ m_cEventloop' = 1
  /\ UNCHANGED <<pc, m_bEventLoopRunning, m_channelLock, api, m_mChannels, server>>

-----------------------------------------------------------------------------
(***************************************************************************)
(* The RTSP server and the scheduler, as the poll calls them.              *)
(***************************************************************************)

\* createNewSMS constructs the subsessions of c; each registers itself.  The
\* second registration of a source is refused by addMediaSubsession.
Registered(reg, c) == [reg EXCEPT ![c.id] = @ \cup c.sources]

AlreadyRegistered(reg, c) == reg[c.id] \cap c.sources # {}

\* addRtspMediaSession: a name that is already listed is left alone.
AddRtspMediaSession(c) ==
  IF sessions[c.name] # NoChannel
    THEN UNCHANGED <<pc, server>>
    ELSE /\ sessions' = [sessions EXCEPT ![c.name] = c]
         /\ m_mMediaSessions' = Registered(m_mMediaSessions, c)
         /\ pc' = IF Asserts /\ AlreadyRegistered(m_mMediaSessions, c)
                    THEN "aborted" ELSE pc

\* Mutated form of RemoveRtspMediaSession: the subsessions do not deregister.
RemoveRtspMediaSessionKeepsSlots(c) ==
  /\ sessions' = [sessions EXCEPT ![c.name] = NoChannel]
  /\ UNCHANGED m_mMediaSessions

\* removeRtspMediaSession looks the session up by name.  Without clients it is
\* destroyed, and the destructor of its first subsession makes
\* removeMediaSubsession erase the scheduler's whole entry for the channel id
\* the session was made with.
RemoveRtspMediaSession(c) ==
  LET sms == sessions[c.name] IN
  IF sms = NoChannel
    THEN UNCHANGED server
    ELSE /\ sessions' = [sessions EXCEPT ![c.name] = NoChannel]
         /\ m_mMediaSessions' = [m_mMediaSessions EXCEPT ![sms.id] = {}]

-----------------------------------------------------------------------------
(***************************************************************************)
(* The event-loop thread.                                                  *)
(***************************************************************************)

\* init() builds scheduler, environment and server; checkChannelsTask follows.
\* When the port cannot be bound init() returns an error and nothing here moves.
InitService ==
  /\ pc = "down"
  /\ pc' = "created"
  /\ sessions' = NoSessions
  /\ m_mMediaSessions' = NoRegistrations
  /\ UNCHANGED <<m_bEventLoopRunning, m_cEventloop, m_channelLock, api, m_mChannels>>

Goto(from, to) ==
  /\ pc = from
  /\ pc' = to
  /\ UNCHANGED <<m_bEventLoopRunning, m_cEventloop, api>>

\* doCheckChannelsTask is entered, from init() or when the 50 ms timer fires.
PollDue ==
  /\ \/ Goto("created", "waiting")
     \/ Goto("stepping", "waiting")
  /\ UNCHANGED <<m_channelLock, m_mChannels, server>>

LockForPoll ==
  /\ Goto("waiting", "removing")
  /\ m_channelLock = "free"
  /\ m_channelLock' = "loop"
  /\ UNCHANGED <<m_mChannels, server>>

\* Mutated form of RemoveNext: the map entry goes, the server is not told.
RemoveNextMapOnly ==
  /\ pc = "removing"
  /\ m_qChannelsToBeRemoved # <<>>
  /\ m_qChannelsToBeRemoved' = Tail(m_qChannelsToBeRemoved)
  /\ m_mChannels' = [m_mChannels EXCEPT ![Head(m_qChannelsToBeRemoved).id] = NoChannel]
  /\ UNCHANGED <<loop, m_channelLock, call, m_qChannelsToBeAdded, server>>

\* One iteration of the removal loop.  The assert of line 216 guards it in a
\* debug build; a release build erases nothing and goes on to the server.
RemoveNext ==
  /\ pc = "removing"
  /\ m_qChannelsToBeRemoved # <<>>
  /\ LET c == Head(m_qChannelsToBeRemoved) IN
       /\ m_qChannelsToBeRemoved' = Tail(m_qChannelsToBeRemoved)
       /\ IF Asserts /\ m_mChannels[c.id] = NoChannel
            THEN /\ pc' = "aborted"
                 /\ UNCHANGED <<m_mChannels, server>>
            ELSE /\ m_mChannels' = [m_mChannels EXCEPT ![c.id] = NoChannel]
                 /\ RemoveRtspMediaSession(c)
                 /\ UNCHANGED pc
  /\ UNCHANGED <<m_bEventLoopRunning, m_cEventloop, m_channelLock, call, m_qChannelsToBeAdded>>

RemovalsDone ==
  /\ m_qChannelsToBeRemoved = <<>>
  /\ Goto("removing", "adding")
  /\ UNCHANGED <<m_channelLock, m_mChannels, server>>

\* Mutated form of AddNext: the queue is cleared after its first request.
AddNextDropsRest ==
  /\ pc = "adding"
  /\ m_qChannelsToBeAdded # <<>>
  /\ m_qChannelsToBeAdded' = <<>>
  /\ LET c == Head(m_qChannelsToBeAdded) IN
       /\ m_mChannels' = [m_mChannels EXCEPT ![c.id] = c]
       /\ AddRtspMediaSession(c)
  /\ UNCHANGED <<m_bEventLoopRunning, m_cEventloop, m_channelLock, call, m_qChannelsToBeRemoved>>

\* One iteration of the loop that adds the accepted channels.
AddNext ==
  /\ pc = "adding"
  /\ m_qChannelsToBeAdded # <<>>
  /\ LET c == Head(m_qChannelsToBeAdded) IN
       /\ m_qChannelsToBeAdded' = Tail(m_qChannelsToBeAdded)
       /\ m_mChannels' = [m_mChannels EXCEPT ![c.id] = c]
       /\ AddRtspMediaSession(c)
  /\ UNCHANGED <<m_bEventLoopRunning, m_cEventloop, m_channelLock, call, m_qChannelsToBeRemoved>>

\* The poll returns: to init(), or to the event loop's SingleStep.
PollDone ==
  /\ m_qChannelsToBeAdded = <<>>
  /\ Goto("adding", IF m_bEventLoopRunning THEN "looping" ELSE "ready")
  /\ m_channelLock' = "free"
  /\ UNCHANGED <<m_mChannels, server>>

\* start(): live555EventLoop clears the watch variable and enters the loop.
EnterLoop ==
  /\ pc = "ready"
  /\ pc' = "looping"
  /\ m_bEventLoopRunning' = TRUE
  /\ m_cEventloop' = 0
  /\ UNCHANGED <<m_channelLock, api, m_mChannels, server>>

\* Mutated form of CheckWatch: the loop waits for the request queues to be empty.
CheckWatchDrainsFirst ==
  /\ pc = "looping"
  /\ IF m_cEventloop = 1 /\ m_qChannelsToBeAdded = <<>> /\ m_qChannelsToBeRemoved = <<>>
       THEN pc' = "cleaning" /\ m_bEventLoopRunning' = FALSE
       ELSE pc' = "stepping" /\ UNCHANGED m_bEventLoopRunning
  /\ UNCHANGED <<m_cEventloop, m_channelLock, api, m_mChannels, server>>

\* doEventLoop tests the watch variable at the head of each iteration only.
CheckWatch ==
  /\ pc = "looping"
  /\ IF m_cEventloop = 1
       THEN pc' = "cleaning" /\ m_bEventLoopRunning' = FALSE
       ELSE pc' = "stepping" /\ UNCHANGED m_bEventLoopRunning
  /\ UNCHANGED <<m_cEventloop, m_channelLock, api, m_mChannels, server>>

\* SingleStep handles something other than the poll's timer.
OtherEvent ==
  /\ Goto("stepping", "looping")
  /\ UNCHANGED <<m_channelLock, m_mChannels, server>>

\* cleanupLiveMediaEnvironment: server and scheduler are destroyed.  The two
\* request queues keep what they hold.
CleanupLiveMediaEnvironment ==
  /\ Goto("cleaning", "clearing")
  /\ sessions' = NoSessions
  /\ m_mMediaSessions' = NoRegistrations
  /\ UNCHANGED <<m_channelLock, m_mChannels>>

\* Mutated form of ClearChannels: the map survives the server it described.
ClearChannelsForgotten ==
  /\ Goto("clearing", "down")
  /\ UNCHANGED <<m_mChannels, m_channelLock, server>>

\* m_mChannels.clear(), outside m_channelLock.
ClearChannels ==
  /\ Goto("clearing", "down")
  /\ m_mChannels' = Empty
  /\ UNCHANGED <<m_channelLock, server>>

-----------------------------------------------------------------------------
App ==
  \/ \E c \in Requests : BeginCreate(c)
  \/ \E id \in ChannelIds : BeginRemove(id)
  \/ CreateChannel
  \/ RemoveChannel
  \/ Stop

EventLoop ==
  \/ InitService
  \/ PollDue
  \/ LockForPoll
  \/ RemoveNext
  \/ RemovalsDone
  \/ AddNext
  \/ PollDone
  \/ EnterLoop
  \/ CheckWatch
  \/ OtherEvent
  \/ CleanupLiveMediaEnvironment
  \/ ClearChannels

Next == App \/ EventLoop

Spec == Init /\ [][Next]_vars

(***************************************************************************)
(* What the properties below assume of scheduling.  A thread that holds    *)
(* the mutex runs on; the event-loop thread runs on; a program that called *)
(* init() calls start().  The poll's timer fires every 50 ms, so among the *)
(* iterations of the loop the poll's turn always comes back, and a mutex   *)
(* that is released again and again is obtained in the end: both are       *)
(* strong fairness.  Nothing makes the application call init, create,      *)
(* remove or stop.                                                         *)
(***************************************************************************)
Fairness ==
  /\ WF_vars(CreateChannel \/ RemoveChannel)
  /\ WF_vars(RemoveNext \/ RemovalsDone \/ AddNext \/ PollDone)
  /\ WF_vars(EnterLoop \/ CheckWatch \/ OtherEvent)
  /\ WF_vars(CleanupLiveMediaEnvironment \/ ClearChannels)
  /\ SF_vars(PollDue)
  /\ SF_vars(LockForPoll)

FairSpec == Spec /\ Fairness

-----------------------------------------------------------------------------
(***************************************************************************)
(* Safety.                                                                 *)
(***************************************************************************)

\* The service's map (by id), the server's table (by name) and the scheduler's
\* registry (by id) describe the same channels, after every single request the
\* poll handles and across restarts: the only exception is the moment between
\* destroying the server and clearing the map.  Assumes NamesMatchIds.
MapMatchesServer ==
  \A id \in ChannelIds : m_mChannels[id] # NoChannel =>
    LET c == m_mChannels[id] IN
      /\ c.id = id
      /\ sessions[c.name] # NoChannel
      /\ m_mMediaSessions[id] = sessions[c.name].sources

ServerMatchesMap ==
  \A n \in Names : sessions[n] # NoChannel =>
    /\ sessions[n].name = n
    /\ m_mChannels[sessions[n].id] # NoChannel
    /\ m_mChannels[sessions[n].id].name = n

NothingElseRegistered ==
  \A id \in ChannelIds : m_mChannels[id] = NoChannel => m_mMediaSessions[id] = {}

InSync == pc # "clearing" => MapMatchesServer /\ ServerMatchesMap /\ NothingElseRegistered

\* The subsessions the poll is about to construct find their slots in the
\* scheduler free: the assert(false) of addMediaSubsession is never reached from
\* here.  Assumes NamesMatchIds.
SlotsFreeWhenAdding ==
  (pc = "adding" /\ m_qChannelsToBeAdded # <<>>) =>
    LET c == Head(m_qChannelsToBeAdded) IN
      sessions[c.name] = NoChannel => ~AlreadyRegistered(m_mMediaSessions, c)

\* The assert of doCheckChannelsTask: every channel taken from the removal queue
\* is in the map.
RemovalsAreKnown ==
  (pc = "removing" /\ m_qChannelsToBeRemoved # <<>>) =>
    m_mChannels[Head(m_qChannelsToBeRemoved).id] # NoChannel

\* Thread safety of createChannel and removeChannel: while one of them is in its
\* critical section the event-loop thread is not about to change the map.
MapChangedUnderLock ==
  pc \in {"removing", "adding", "clearing"} => m_channelLock # "app"

-----------------------------------------------------------------------------
(***************************************************************************)
(* Liveness, under Fairness.                                               *)
(***************************************************************************)

Serving == pc \notin {"down", "cleaning", "clearing", "aborted"}
Pending(q, c) == \E i \in DOMAIN q : q[i] = c

\* c is in the queue q and nothing of its name is queued before it.
FirstOfName(q, c) ==
  \E i \in DOMAIN q : q[i] = c /\ \A j \in 1 .. i - 1 : q[j].name # c.name

\* Of the requests for one name that are queued between two polls the first becomes
\* the listed session, with the sources it asked for, and still is when the poll that
\* added it lets the lock go, unless the service stops first.  Assumes NamesMatchIds.
CreatedIsPublished ==
  \A c \in Requests :
    (Serving /\ m_channelLock # "loop" /\ FirstOfName(m_qChannelsToBeAdded, c))
      ~> (~Serving \/ (sessions[c.name] = c /\ m_channelLock # "loop"))

\* A removal accepted by removeChannel takes the session off the server.
RemovedIsWithdrawn ==
  \A c \in Requests :
    (Serving /\ Pending(m_qChannelsToBeRemoved, c))
      ~> (~Serving \/ sessions[c.name] = NoChannel)

\* Once the loop has been entered, stop() ends it, whatever requests are
\* pending: the watch variable is not lost among the polls.
StopEndsLoop ==
  (m_bEventLoopRunning /\ m_cEventloop = 1) ~> (pc = "down" /\ m_mChannels = Empty)
=============================================================================
