---------------------- MODULE LiveSourceTaskScheduler0 ----------------------
(***************************************************************************)
(* How samples get from the capture threads to the subsessions: the        *)
(* threads push batches into the bounded lock-free queues of a             *)
(* PacketManagerMediaChannel; the event loop runs processLiveSources once  *)
(* per iteration, which polls the registered subsessions' queues round     *)
(* robin and hands on at most MAX_SAMPLES samples in at most               *)
(* MAX_REVOLUTIONS rounds, so that the RTSP server gets its turn.          *)
(*                                                                         *)
(* A slot is a channel id and a source id; the scheduler's nested maps     *)
(* visit slots in the order of the two.  One getMedia with the hand-over   *)
(* of its sample is one step, so pushes fall between any two of them.      *)
(* Samples of a queue are not told apart: a queue is its length.           *)
(***************************************************************************)
EXTENDS Naturals, FiniteSets, Functions

CONSTANTS
  Slots,            \* the <<channel id, source id>> the channel manager serves
  MAX_REVOLUTIONS,
  MAX_SAMPLES,      \* MAX_SAMPLES_TO_BE_PROCESSED_IN_EVENT_LOOP
  LF_CAPACITY,      \* capacity of a queue
  BatchSizes,       \* samples a capture thread delivers at once
  NoSlot            \* value of "at" outside processLiveSources

ASSUME SchedulerAssumption ==
  /\ Slots \subseteq Nat \X Nat
  /\ IsFiniteSet(Slots)
  /\ MAX_REVOLUTIONS \in Nat \ {0}
  /\ MAX_SAMPLES \in Nat \ {0}
  /\ LF_CAPACITY \in Nat
  /\ BatchSizes \subseteq Nat
  /\ NoSlot \notin Slots

VARIABLES
  pc,                \* "stepping" (SingleStep) or "polling"
  m_mMediaSessions,  \* slots with a registered subsession
  queued,            \* slot -> samples in its queue
  at,                \* the slot the two iterators point to
  uiSessionCount,    \* rounds completed in this call
  uiSampleCount,     \* samples handed on in this call
  served,            \* history: slot -> samples handed on in the last call
  emptied            \* history: slots found empty in the last call

locals == <<at, uiSessionCount, uiSampleCount>>
history == <<served, emptied>>
vars == <<pc, m_mMediaSessions, queued, locals, history>>

TypeOK ==
  /\ pc \in {"stepping", "polling"}
  /\ m_mMediaSessions \subseteq Slots
  /\ queued \in [Slots -> 0..LF_CAPACITY]
  /\ at \in Slots \cup {NoSlot}
  /\ uiSessionCount \in 0..MAX_REVOLUTIONS
  /\ uiSampleCount \in 0..MAX_SAMPLES
  /\ served \in [Slots -> Nat]
  /\ emptied \subseteq Slots

Init ==
  /\ pc = "stepping"
  /\ m_mMediaSessions = {}
  /\ queued = [s \in Slots |-> 0]
  /\ at = NoSlot
  /\ uiSessionCount = 0
  /\ uiSampleCount = 0
  /\ served = [s \in Slots |-> 0]
  /\ emptied = {}

-----------------------------------------------------------------------------
(***************************************************************************)
(* The capture threads.                                                    *)
(***************************************************************************)

\* spsc_queue::push of a batch: what does not fit stays out.
Pushed(s, n) == IF queued[s] + n <= LF_CAPACITY THEN queued[s] + n ELSE LF_CAPACITY

\* deliverVideo and deliverAudio.  The rest of a batch that does not fit is
\* dropped: the assert behind the push is compiled out here.
Deliver(s, n) ==
  /\ queued' = [queued EXCEPT ![s] = Pushed(s, n)]
  /\ UNCHANGED <<pc, m_mMediaSessions, locals, history>>

-----------------------------------------------------------------------------
(***************************************************************************)
(* Handlers of SingleStep that change the registry.                        *)
(***************************************************************************)
AddMediaSubsession(s) ==
  /\ pc = "stepping"
  /\ s \notin m_mMediaSessions
  /\ m_mMediaSessions' = m_mMediaSessions \cup {s}
  /\ UNCHANGED <<pc, queued, locals, history>>

\* The entry of the channel is erased with all its sources.
RemoveMediaSubsession(s) ==
  /\ pc = "stepping"
  /\ s \in m_mMediaSessions
  /\ m_mMediaSessions' = {t \in m_mMediaSessions : t[1] # s[1]}
  /\ UNCHANGED <<pc, queued, locals, history>>

-----------------------------------------------------------------------------
(***************************************************************************)
(* processLiveSources.                                                     *)
(***************************************************************************)

\* The order of the std::map of channels and, within one, of sources.
Before(s, t) == s[1] < t[1] \/ (s[1] = t[1] /\ s[2] < t[2])

IsFirst(s, S) == s \in S /\ \A t \in S \ {s} : Before(s, t)

After(s) == {t \in m_mMediaSessions : Before(s, t)}

\* Without a registered subsession the call does nothing.
BeginCall ==
  /\ pc = "stepping"
  /\ \E s \in m_mMediaSessions : IsFirst(s, m_mMediaSessions) /\ at' = s
  /\ pc' = "polling"
  /\ uiSessionCount' = 0
  /\ uiSampleCount' = 0
  /\ served' = [s \in Slots |-> 0]
  /\ emptied' = {}
  /\ UNCHANGED <<m_mMediaSessions, queued>>

EndCall ==
  /\ pc' = "stepping"
  /\ at' = NoSlot
  /\ uiSessionCount' = MAX_REVOLUTIONS

\* Mutated form of NextRound: only the samples bound the rounds.
NextRoundUncounted ==
  /\ UNCHANGED <<pc, uiSessionCount>>
  /\ \E s \in m_mMediaSessions : IsFirst(s, m_mMediaSessions) /\ at' = s

\* The end of the for statement: the while statement counts the round.
NextRound ==
  IF uiSessionCount + 1 < MAX_REVOLUTIONS
    THEN /\ uiSessionCount' = uiSessionCount + 1
         /\ \E s \in m_mMediaSessions : IsFirst(s, m_mMediaSessions) /\ at' = s
         /\ UNCHANGED pc
    ELSE EndCall

\* Mutated form of Advance: only the first source of a channel is visited.
AdvanceChannel ==
  LET others == {t \in After(at) : t[1] # at[1]} IN
  \/ /\ \E s \in others : IsFirst(s, others) /\ at' = s
     /\ UNCHANGED <<pc, uiSessionCount>>
  \/ /\ others = {}
     /\ NextRound

\* The iterators move on.
Advance ==
  \/ /\ \E s \in After(at) : IsFirst(s, After(at)) /\ at' = s
     /\ UNCHANGED <<pc, uiSessionCount>>
  \/ /\ After(at) = {}
     /\ NextRound

\* Mutated form of Spent: one sample more.
SpentLate(n) == n > MAX_SAMPLES

\* The budget is spent, which leaves all three loops.
Spent(n) == n >= MAX_SAMPLES

\* getVideo or getAudio returns a sample.
Pop(s) ==
  /\ queued[s] > 0
  /\ queued' = [queued EXCEPT ![s] = @ - 1]

\* getMedia pops a sample, addMediaSample hands it to the subsession.
HandOver(s) ==
  /\ pc = "polling"
  /\ at = s
  /\ Pop(s)
  /\ uiSampleCount' = uiSampleCount + 1
  /\ served' = [served EXCEPT ![s] = @ + 1]
  /\ IF Spent(uiSampleCount + 1) THEN EndCall ELSE Advance
  /\ UNCHANGED <<m_mMediaSessions, emptied>>

\* Mutated form of NoMedia: the first empty queue ends the call.
NoMediaEndsCall(s) ==
  /\ pc = "polling"
  /\ at = s
  /\ queued[s] = 0
  /\ emptied' = emptied \cup {s}
  /\ EndCall
  /\ UNCHANGED <<m_mMediaSessions, queued, uiSampleCount, served>>

\* getMedia finds nothing.
NoMedia(s) ==
  /\ pc = "polling"
  /\ at = s
  /\ queued[s] = 0
  /\ emptied' = emptied \cup {s}
  /\ Advance
  /\ UNCHANGED <<m_mMediaSessions, queued, uiSampleCount, served>>

-----------------------------------------------------------------------------
Visit == \E s \in Slots : HandOver(s) \/ NoMedia(s)

Next ==
  \/ \E s \in Slots, n \in BatchSizes : Deliver(s, n)
  \/ \E s \in Slots : AddMediaSubsession(s)
  \/ \E s \in Slots : RemoveMediaSubsession(s)
  \/ BeginCall
  \/ Visit

Spec == Init /\ [][Next]_vars

(***************************************************************************)
(* The event-loop thread runs on: SingleStep waits at most m_uiMaxDelayTime*)
(* and a call never blocks.  The capture threads owe nothing.              *)
(***************************************************************************)
FairSpec == Spec /\ WF_vars(BeginCall) /\ WF_vars(Visit)

-----------------------------------------------------------------------------
(***************************************************************************)
(* Properties.                                                             *)
(***************************************************************************)

\* One call hands on no more samples than its budget, although three nested
\* loops test the count in different places: RTSP requests wait for no more.
BudgetKept == SumFunction(served) <= MAX_SAMPLES

\* Within a call no source gets ahead of another that has samples: whatever the
\* capture threads push meanwhile, a source that is two samples behind was found
\* empty.
NoSourceOvertaken ==
  pc = "polling" =>
    \A s, t \in m_mMediaSessions : served[s] > served[t] + 1 => t \in emptied

\* A call ends when its budget is spent, or when it has been to every source as
\* often as it may: none is left out because another one was empty.
CallDoesItsWork ==
  [][ (pc = "polling" /\ pc' = "stepping") =>
        \/ uiSampleCount' = MAX_SAMPLES
        \/ \A s \in m_mMediaSessions : s \in emptied' \/ served'[s] = MAX_REVOLUTIONS ]_vars

\* However much the capture threads push, the loop comes back to SingleStep.
LoopComesBack == []<>(pc = "stepping")

\* With no more slots than the budget, every registered source whose queue does
\* not stay empty is served again and again.  (With more slots than the budget
\* the last ones starve, as the comment in processLiveSources warns.)
SourcesAreServed ==
  \A s \in Slots :
    \/ []<>(s \notin m_mMediaSessions \/ queued[s] = 0)
    \/ []<><<HandOver(s)>>_vars
=============================================================================
