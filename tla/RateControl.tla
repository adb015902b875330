---------------------------- MODULE RateControl ----------------------------
(***************************************************************************)
(* Rate adaptation of one H.264 subsession.  Every client has a device     *)
(* source with a SimpleRateAdaptation of its own, but they all pass their  *)
(* advice to the one global IRateController of the application, for there  *)
(* is one encoder.  Once a second processLiveMediaSessions lets each       *)
(* source look at the last receiver report of its sink.                    *)
(*                                                                         *)
(* Audio subsessions have no rate adaptation.  The controller is in the    *)
(* application: the model counts the steps it is asked for.                *)
(***************************************************************************)
EXTENDS Integers, FiniteSets

CONSTANTS
  Clients,     \* RTSP session ids
  TopChannel,  \* highest of the bit rates SimpleRateAdaptation assumes: 7
  Modulus,     \* packet numbers wrap here: 2^32
  NoReport,    \* the statistics table of the sink is empty
  MaxJoins     \* bound on the number of device sources of a behaviour

ASSUME RateAssumption ==
  /\ TopChannel \in Nat \ {0}
  /\ Modulus \in Nat \ {0}
  /\ MaxJoins \in Nat
  /\ NoReport \notin 0 .. Modulus - 1

VARIABLES
  m_vDeviceSources,          \* clients that have a device source
  polled,                    \* sources this processLiveMediaSessions has still to visit
  lastPacketNumReceived,     \* live555: client -> packet number of its last report
  m_uiLastPacketNumReceived, \* client -> packet number of the last report looked at
  nCurrentChannel,           \* client -> position of the ramp
  bUp,                       \* client -> direction of the ramp
  requested,  \* history: steps up minus steps down asked of the controller
  joins,      \* history: number of device sources so far
  news        \* history: client -> its report has changed since it was looked at

ramp == <<nCurrentChannel, bUp, requested>>
vars == <<m_vDeviceSources, polled, lastPacketNumReceived,
          m_uiLastPacketNumReceived, ramp, joins, news>>

Numbers == 0 .. Modulus - 1

TypeOK ==
  /\ m_vDeviceSources \subseteq Clients
  /\ polled \subseteq m_vDeviceSources
  /\ lastPacketNumReceived \in [Clients -> Numbers \cup {NoReport}]
  /\ m_uiLastPacketNumReceived \in [Clients -> Numbers]
  /\ nCurrentChannel \in [Clients -> 0 .. TopChannel]
  /\ bUp \in [Clients -> BOOLEAN]
  /\ requested \in Int
  /\ joins \in 0 .. MaxJoins
  /\ news \in [Clients -> BOOLEAN]

Init ==
  /\ m_vDeviceSources = {}
  /\ polled = {}
  /\ lastPacketNumReceived = [c \in Clients |-> NoReport]
  /\ m_uiLastPacketNumReceived = [c \in Clients |-> 0]
  /\ nCurrentChannel = [c \in Clients |-> 0]
  /\ bUp = [c \in Clients |-> TRUE]
  /\ requested = 0
  /\ joins = 0
  /\ news = [c \in Clients |-> FALSE]

-----------------------------------------------------------------------------
(***************************************************************************)
(* Handlers of the event loop other than the poll.                         *)
(***************************************************************************)

\* SETUP: a new device source with a new SimpleRateAdaptation and a new sink.
AddDeviceSource(c) ==
  /\ polled = {}
  /\ c \notin m_vDeviceSources
  /\ joins < MaxJoins
  /\ m_vDeviceSources' = m_vDeviceSources \cup {c}
  /\ lastPacketNumReceived' = [lastPacketNumReceived EXCEPT ![c] = NoReport]
  /\ m_uiLastPacketNumReceived' = [m_uiLastPacketNumReceived EXCEPT ![c] = 0]
  /\ nCurrentChannel' = [nCurrentChannel EXCEPT ![c] = 0]
  /\ bUp' = [bUp EXCEPT ![c] = TRUE]
  /\ joins' = joins + 1
  /\ news' = [news EXCEPT ![c] = FALSE]
  /\ UNCHANGED <<polled, requested>>

\* The client's stream ends: the source and its SimpleRateAdaptation go, the
\* encoder stays where it was asked to go.
RemoveDeviceSource(c) ==
  /\ polled = {}
  /\ c \in m_vDeviceSources
  /\ m_vDeviceSources' = m_vDeviceSources \ {c}
  /\ UNCHANGED <<polled, lastPacketNumReceived, m_uiLastPacketNumReceived,
                 ramp, joins, news>>

\* live555 notes a receiver report: the same number again if no packet came, or
\* a later one.  Within a second the numbers do not come round to the one
\* looked at last.
NoteReport(c, n) ==
  /\ polled = {}
  /\ c \in m_vDeviceSources
  /\ \/ lastPacketNumReceived[c] \in {NoReport, n}
     \/ n # m_uiLastPacketNumReceived[c]
  /\ lastPacketNumReceived' = [lastPacketNumReceived EXCEPT ![c] = n]
  /\ news' = [news EXCEPT ![c] = @ \/ n # lastPacketNumReceived[c]]
  /\ UNCHANGED <<m_vDeviceSources, polled, m_uiLastPacketNumReceived, ramp, joins>>

-----------------------------------------------------------------------------
(***************************************************************************)
(* The poll: one handler that visits the sources one after the other.      *)
(***************************************************************************)

ProcessLiveMediaSessions ==
  /\ polled = {}
  /\ m_vDeviceSources # {}
  /\ polled' = m_vDeviceSources
  /\ UNCHANGED <<m_vDeviceSources, lastPacketNumReceived,
                 m_uiLastPacketNumReceived, ramp, joins, news>>

\* Mutated form of HasNews: a report counts however often it is looked at.
HasReport(c) == lastPacketNumReceived[c] # NoReport

\* The filter of processReceiverReports.
HasNews(c) ==
  lastPacketNumReceived[c] \notin {NoReport, m_uiLastPacketNumReceived[c]}

\* Mutated form of SwitchUp: the ramp turns one channel before the last.
SwitchUpTurnsEarly(c) ==
  /\ bUp[c]
  /\ nCurrentChannel' = [nCurrentChannel EXCEPT ![c] = @ + 1]
  /\ bUp' = [bUp EXCEPT ![c] = nCurrentChannel[c] + 1 < TopChannel - 1]
  /\ requested' = requested + 1

SwitchUp(c) ==
  /\ bUp[c]
  /\ nCurrentChannel' = [nCurrentChannel EXCEPT ![c] = @ + 1]
  /\ bUp' = [bUp EXCEPT ![c] = nCurrentChannel[c] + 1 # TopChannel]
  /\ requested' = requested + 1

\* Mutated form of SwitchDown: the advice is SWITCH_UP as in the branch above.
SwitchDownAdvisesUp(c) ==
  /\ ~bUp[c]
  /\ nCurrentChannel' = [nCurrentChannel EXCEPT ![c] = @ - 1]
  /\ bUp' = [bUp EXCEPT ![c] = nCurrentChannel[c] - 1 = 0]
  /\ requested' = requested + 1

SwitchDown(c) ==
  /\ ~bUp[c]
  /\ nCurrentChannel' = [nCurrentChannel EXCEPT ![c] = @ - 1]
  /\ bUp' = [bUp EXCEPT ![c] = nCurrentChannel[c] - 1 = 0]
  /\ requested' = requested - 1

\* SimpleRateAdaptation compares the number with m_lastPacketNumReceived, which
\* stays 0: only number 0 makes it stay.
GetRateAdaptAdvice(c) ==
  \/ lastPacketNumReceived[c] = 0 /\ UNCHANGED ramp
  \/ lastPacketNumReceived[c] # 0 /\ (SwitchUp(c) \/ SwitchDown(c))

Asks(c) ==
  /\ HasNews(c)
  /\ m_uiLastPacketNumReceived' =
       [m_uiLastPacketNumReceived EXCEPT ![c] = lastPacketNumReceived[c]]
  /\ GetRateAdaptAdvice(c)

PassesOver(c) == ~HasNews(c) /\ UNCHANGED <<m_uiLastPacketNumReceived, ramp>>

ProcessReceiverReports(c) ==
  /\ c \in polled
  /\ polled' = polled \ {c}
  /\ news' = [news EXCEPT ![c] = FALSE]
  /\ Asks(c) \/ PassesOver(c)
  /\ UNCHANGED <<m_vDeviceSources, lastPacketNumReceived, joins>>

-----------------------------------------------------------------------------
Next ==
  \/ ProcessLiveMediaSessions
  \/ \E c \in Clients :
       \/ AddDeviceSource(c)
       \/ RemoveDeviceSource(c)
       \/ \E n \in Numbers : NoteReport(c, n)
       \/ ProcessReceiverReports(c)

Spec == Init /\ [][Next]_vars

\* The one-second timer is served, and its handler visits every source.
FairSpec ==
  /\ Spec
  /\ WF_vars(ProcessLiveMediaSessions)
  /\ \A c \in Clients : WF_vars(ProcessReceiverReports(c))

-----------------------------------------------------------------------------
\* "If we switch for a single source - single client, this will be ok. In the
\* case of multiple clients being connected, this will screw up the rate control"
\* (processReceiverReports).  How far: every device source there has been, gone
\* or not, adds at most a ramp of its own to what the controller is asked for.
\* Only the first keeps it within the bit rates: a second one starts from 0
\* wherever its predecessor left the encoder.
RequestsBounded == requested \in 0 .. TopChannel * joins

\* Every report moves the ramp of its client once: a repeated one never, a new
\* one always, however reports and polls alternate.  (Number 0 means no report
\* to this code.)
EachReportCountsOnce ==
  [][ \A c \in Clients : c \in polled /\ c \notin polled' =>
        (nCurrentChannel'[c] # nCurrentChannel[c]
           <=> news[c] /\ lastPacketNumReceived[c] # 0) ]_vars

\* A client that stays and goes on receiving is given every bit rate again and
\* again: its ramp never sticks.
RatesAreSwept ==
  \A c \in Clients :
    <>[](c \in m_vDeviceSources) /\ []<>HasNews(c) =>
      []<>(nCurrentChannel[c] = TopChannel) /\ []<>(nCurrentChannel[c] = 0)
=============================================================================
