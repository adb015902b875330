------------------------- MODULE VirtualMediaSource -------------------------
(***************************************************************************)
(* lme::VirtualMediaSource: a simulated capture device driven by an asio   *)
(* timer.  The handler makes a sample and arms the timer again, so that    *)
(* the source keeps itself going.  Handlers run one at a time on the       *)
(* thread of the io_service (external), and start() and stop() are taken   *)
(* to be called between them.  A wait that is cancelled runs the handler   *)
(* with an error, which does nothing, and is left out.                     *)
(***************************************************************************)
EXTENDS Naturals

CONSTANTS
  Interval,     \* m_uiIntervalMs, in the unit of presentation times
  MaxGenerated  \* bound on the number of samples made

ASSUME VirtualAssumption == Interval \in Nat /\ MaxGenerated \in Nat

VARIABLES
  m_timer,          \* "armed": a wait is pending; "idle"
  expired,          \* waits that ended in success and whose handler is yet to run
  m_dLastTimestamp, \* presentation time of the next sample
  generated         \* history: number of samples made

virtualVars == <<m_timer, expired, m_dLastTimestamp, generated>>

VirtualTypeOK ==
  /\ m_timer \in {"armed", "idle"}
  /\ expired \in Nat
  /\ m_dLastTimestamp = generated * Interval
  /\ generated \in 0 .. MaxGenerated

VirtualInit ==
  /\ m_timer = "idle"
  /\ expired = 0
  /\ m_dLastTimestamp = 0
  /\ generated = 0

\* generateMediaSampleTimeout without an error.  Its caller passes the sample on:
\* m_mediaCallback gets one of presentation time m_dLastTimestamp.  The timer is
\* armed anew, which cancels a wait that is pending.
GenerateMediaSample ==
  /\ generated < MaxGenerated
  /\ generated' = generated + 1
  /\ m_dLastTimestamp' = m_dLastTimestamp + Interval
  /\ m_timer' = "armed"

\* start() makes the first sample itself.
StartSource ==
  /\ GenerateMediaSample
  /\ UNCHANGED expired

\* asio: the wait ends and its handler is queued; cancel comes too late for it.
Expire ==
  /\ m_timer = "armed"
  /\ m_timer' = "idle"
  /\ expired' = expired + 1
  /\ UNCHANGED <<m_dLastTimestamp, generated>>

Timeout ==
  /\ expired > 0
  /\ expired' = expired - 1
  /\ GenerateMediaSample

\* stop() cancels the wait that is pending and sets no flag a handler could see: one
\* that is queued makes its sample and arms the timer again.
StopSource ==
  /\ m_timer' = "idle"
  /\ UNCHANGED <<expired, m_dLastTimestamp, generated>>
=============================================================================
