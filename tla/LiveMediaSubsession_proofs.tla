--------------------- MODULE LiveMediaSubsession_proofs ---------------------
(***************************************************************************)
(* Proofs about LiveMediaSubsession: the handshake between pushing and     *)
(* pulling never stalls a client, and every client gets a gapless piece of *)
(* the stream.                                                             *)
(***************************************************************************)
EXTENDS LiveMediaSubsession, SequenceTheorems, TLAPS

USE SubsessionAssumption

-----------------------------------------------------------------------------
(* Facts about sequences.                                                  *)

\* Moving the head of a queue to the end of what was sent changes nothing in
\* their concatenation.
LEMMA HandOver ==
  ASSUME NEW S, NEW s \in Seq(S), NEW q \in Seq(S), q # <<>>
  PROVE  /\ Head(q) \in S /\ Tail(q) \in Seq(S)
         /\ Append(s, Head(q)) \in Seq(S)
         /\ Append(s, Head(q)) \o Tail(q) = s \o q
<1>1. Head(q) \in S /\ Tail(q) \in Seq(S) /\ Append(s, Head(q)) \in Seq(S)
  OBVIOUS
<1>2. Len(Append(s, Head(q)) \o Tail(q)) = Len(s \o q)
  BY <1>1
<1>3. ASSUME NEW i \in 1..Len(s \o q)
      PROVE  (Append(s, Head(q)) \o Tail(q))[i] = (s \o q)[i]
  BY <1>1, <1>3
<1> QED
  BY <1>1, <1>2, <1>3, SeqEqual

\* The rest of a log from a position grows with the log.
LEMMA RestGrows ==
  ASSUME NEW S, NEW r \in Seq(S), NEW f \in Seq(S), NEW n \in 0..Len(r)
  PROVE  SubSeq(r \o f, n + 1, Len(r \o f)) = SubSeq(r, n + 1, Len(r)) \o f
<1>1. /\ SubSeq(r, n + 1, Len(r)) \in Seq(S)
      /\ Len(SubSeq(r, n + 1, Len(r))) = Len(r) - n
      /\ \A i \in 1..(Len(r) - n) : SubSeq(r, n + 1, Len(r))[i] = r[n + i]
  OBVIOUS
<1>2. /\ r \o f \in Seq(S)
      /\ Len(r \o f) = Len(r) + Len(f)
  OBVIOUS
<1>3. /\ SubSeq(r \o f, n + 1, Len(r \o f)) \in Seq(S)
      /\ Len(SubSeq(r \o f, n + 1, Len(r \o f))) = Len(r) + Len(f) - n
      /\ \A i \in 1..(Len(r) + Len(f) - n) :
           SubSeq(r \o f, n + 1, Len(r \o f))[i] = (r \o f)[n + i]
  BY <1>2
<1>4. /\ SubSeq(r, n + 1, Len(r)) \o f \in Seq(S)
      /\ Len(SubSeq(r, n + 1, Len(r)) \o f) = Len(r) + Len(f) - n
  BY <1>1
<1>5. ASSUME NEW i \in 1..(Len(r) + Len(f) - n)
      PROVE  SubSeq(r \o f, n + 1, Len(r \o f))[i] = (SubSeq(r, n + 1, Len(r)) \o f)[i]
  <2>1. SubSeq(r \o f, n + 1, Len(r \o f))[i] = (r \o f)[n + i]
    BY <1>3, <1>5
  <2>2. CASE i \in 1..(Len(r) - n)
    <3>1. n + i \in 1..Len(r)
      BY <2>2
    <3>2. (r \o f)[n + i] = r[n + i]
      BY <3>1
    <3>3. (SubSeq(r, n + 1, Len(r)) \o f)[i] = SubSeq(r, n + 1, Len(r))[i]
      BY <1>1, <2>2
    <3> QED
      BY <1>1, <2>1, <2>2, <3>2, <3>3
  <2>3. CASE i \notin 1..(Len(r) - n)
    <3>1. n + i \in (Len(r) + 1)..(Len(r) + Len(f))
      BY <1>5, <2>3
    <3>2. (r \o f)[n + i] = f[n + i - Len(r)]
      BY <3>1
    <3>3. (SubSeq(r, n + 1, Len(r)) \o f)[i] = f[i - (Len(r) - n)]
      BY <1>1, <1>5, <2>3, ConcatProperties
    <3>4. n + i - Len(r) = i - (Len(r) - n)
      BY <1>5
    <3> QED
      BY <2>1, <3>2, <3>3, <3>4
  <2> QED
    BY <2>2, <2>3
<1> QED
  BY <1>1, <1>3, <1>4, <1>5, SeqEqual

\* Nothing is left of a log from its end on.
LEMMA RestOfAll ==
  ASSUME NEW S, NEW r \in Seq(S)
  PROVE  SubSeq(r, Len(r) + 1, Len(r)) = <<>>
<1>1. SubSeq(r, Len(r) + 1, Len(r)) \in Seq(S) /\ Len(SubSeq(r, Len(r) + 1, Len(r))) = 0
  OBVIOUS
<1> QED
  BY <1>1

-----------------------------------------------------------------------------
(* Type correctness.                                                       *)

\* The frames of a payload are frames of the sample that comes next.
LEMMA FramesTyped ==
  ASSUME TypeOK, count < MaxPayloads, NEW p \in Payloads
  PROVE  FramesOf(p, count + 1) \in Seq(Frames)
<1>1. count + 1 \in 1..MaxPayloads
  BY DEF TypeOK
<1>2. p \in Seq(Kinds)
  OBVIOUS
<1>3. /\ DOMAIN p = 1..Len(p) /\ Len(p) \in Nat
      /\ \A i \in 1..Len(p) : p[i] \in Kinds
  BY <1>2
<1>4. FramesOf(p, count + 1) \in [1..Len(p) -> Frames]
  BY <1>1, <1>3 DEF FramesOf, Frames
<1> QED
  BY <1>3, <1>4

\* What a client has queued when the sample is in: frames, none lost.
LEMMA RetrievedTyped ==
  ASSUME TypeOK, count < MaxPayloads, NEW p \in Payloads, NEW c \in Clients
  PROVE  Retrieved(c, p) \in Seq(Frames)
<1>1. m_qMediaSamples[c] \in Seq(Frames)
  BY DEF TypeOK
<1> QED
  BY <1>1, FramesTyped DEF Retrieved

\* A client that a sample is pushed to has a frame to give.
LEMMA PushedIsQueued ==
  ASSUME NEW p \in Payloads, NEW c \in Clients, ~DeliversNothing(p), Pushes(c, p)
  PROVE  Retrieved(c, p) # <<>>
  BY DEF DeliversNothing

LEMMA TypeOKInductive == TypeOK /\ [Next]_vars => TypeOK'
<1> SUFFICES ASSUME TypeOK, [Next]_vars PROVE TypeOK'
  OBVIOUS
<1>1. ASSUME NEW c \in Clients, AddDeviceSource(c) PROVE TypeOK'
  BY <1>1 DEF TypeOK, AddDeviceSource
<1>2. ASSUME NEW c \in Clients, RemoveDeviceSource(c) PROVE TypeOK'
  BY <1>2 DEF TypeOK, RemoveDeviceSource, history
<1>3. ASSUME NEW c \in Clients, Play(c) PROVE TypeOK'
  BY <1>3 DEF TypeOK, Play, source, history
<1>4. ASSUME NEW c \in Clients, StopGettingFrames(c) PROVE TypeOK'
  BY <1>4 DEF TypeOK, StopGettingFrames, history
<1>5. ASSUME NEW c \in Clients, GetNextFrame(c) PROVE TypeOK'
  <2>1. CASE GetNextFrameEmpty(c)
    BY <1>5, <2>1 DEF TypeOK, GetNextFrame, GetNextFrameEmpty
  <2>2. CASE GetNextFrameQueued(c)
    <3>1. /\ Tail(m_qMediaSamples[c]) \in Seq(Frames)
          /\ Append(delivered[c], Head(m_qMediaSamples[c])) \in Seq(Frames)
      BY <2>2, HandOver DEF TypeOK, GetNextFrameQueued
    <3> QED
      BY <1>5, <2>2, <3>1 DEF TypeOK, GetNextFrame, GetNextFrameQueued
  <2> QED
    BY <1>5, <2>1, <2>2 DEF GetNextFrame
<1>6. ASSUME NEW p \in Payloads, AddMediaSample(p) PROVE TypeOK'
  <2>1. /\ received' \in Seq(Frames) /\ count' \in 0..MaxPayloads
        /\ Len(received) \in Nat /\ Len(received') \in Nat
    <3>1. /\ count < MaxPayloads /\ count' = count + 1
          /\ received' = received \o FramesOf(p, count + 1)
      BY <1>6 DEF AddMediaSample
    <3>2. FramesOf(p, count + 1) \in Seq(Frames)
      BY <3>1, FramesTyped
    <3>3. received \in Seq(Frames) /\ count \in 0..MaxPayloads
      BY DEF TypeOK
    <3> QED
      BY <3>1, <3>2, <3>3
  <2>2. CASE DeliversNothing(p)
    BY <1>6, <2>1, <2>2 DEF TypeOK, AddMediaSample, source
  <2>3. CASE ~DeliversNothing(p)
    <3>1. m_bWaitingForIdr' \in [Clients -> BOOLEAN] /\ awaiting' \in [Clients -> BOOLEAN]
      BY <1>6, <2>3 DEF TypeOK, AddMediaSample
    <3>2. start' \in [Clients -> Nat]
      BY <1>6, <2>1, <2>3 DEF TypeOK, AddMediaSample
    <3>3. ASSUME NEW c \in Clients
          PROVE  /\ Retrieved(c, p) \in Seq(Frames)
                 /\ Pushes(c, p) => /\ Tail(Retrieved(c, p)) \in Seq(Frames)
                                    /\ Append(delivered[c], Head(Retrieved(c, p))) \in Seq(Frames)
      <4>1. Retrieved(c, p) \in Seq(Frames) /\ delivered[c] \in Seq(Frames)
        BY <1>6, RetrievedTyped DEF AddMediaSample, TypeOK
      <4> QED
        BY <2>3, <4>1, PushedIsQueued, HandOver
    <3>4. m_qMediaSamples' \in [Clients -> Seq(Frames)]
      BY <1>6, <2>3, <3>3 DEF AddMediaSample
    <3>5. delivered' \in [Clients -> Seq(Frames)]
      <4>1. \A c \in Clients : delivered[c] \in Seq(Frames)
        BY DEF TypeOK
      <4>2. delivered' = [c \in Clients |->
                 IF Pushes(c, p) THEN Append(delivered[c], Head(Retrieved(c, p)))
                                 ELSE delivered[c]]
        BY <1>6, <2>3 DEF AddMediaSample
      <4> QED
        BY <3>3, <4>1, <4>2
    <3>6. UNCHANGED <<aborted, m_bIsPlaying, m_vDeviceSources, playing, joined>>
      BY <1>6, <2>3 DEF AddMediaSample
    <3> QED
      BY <2>1, <3>1, <3>2, <3>4, <3>5, <3>6 DEF TypeOK
  <2> QED
    BY <2>2, <2>3
<1>7. CASE UNCHANGED vars
  BY <1>7 DEF TypeOK, vars, source, history
<1> QED
  BY <1>1, <1>2, <1>3, <1>4, <1>5, <1>6, <1>7 DEF Next

LEMMA InitTyped == Init => TypeOK
<1> SUFFICES ASSUME Init PROVE TypeOK
  OBVIOUS
<1>1. 0 \in 0..MaxPayloads /\ <<>> \in Seq(Frames)
  OBVIOUS
<1>2. /\ playing \in [Clients -> BOOLEAN] /\ awaiting \in [Clients -> BOOLEAN]
      /\ m_bIsPlaying \in [Clients -> BOOLEAN]
      /\ m_bWaitingForIdr \in [Clients -> BOOLEAN]
  BY DEF Init
<1>3. /\ m_qMediaSamples \in [Clients -> Seq(Frames)]
      /\ delivered \in [Clients -> Seq(Frames)]
      /\ joined \in [Clients -> Nat] /\ start \in [Clients -> Nat]
  BY <1>1 DEF Init
<1> QED
  BY <1>1, <1>2, <1>3 DEF Init, TypeOK

\* TypeOK of LiveMediaSubsession, for every set of clients and payloads.
THEOREM TypeCorrect == Spec => []TypeOK
  BY InitTyped, TypeOKInductive, PTL DEF Spec

-----------------------------------------------------------------------------
(* The handshake between pushing and pulling.                              *)

\* Only the stream of an attached device source plays.
PlayingIsAttached == \A c \in Clients : playing[c] => c \in m_vDeviceSources

LEMMA PlayingInductive == TypeOK /\ PlayingIsAttached /\ [Next]_vars => PlayingIsAttached'
<1> SUFFICES ASSUME TypeOK, PlayingIsAttached, [Next]_vars PROVE PlayingIsAttached'
  OBVIOUS
<1> USE DEF PlayingIsAttached, TypeOK
<1>1. ASSUME NEW c \in Clients, AddDeviceSource(c) PROVE PlayingIsAttached'
  BY <1>1 DEF AddDeviceSource
<1>2. ASSUME NEW c \in Clients, RemoveDeviceSource(c) PROVE PlayingIsAttached'
  BY <1>2 DEF RemoveDeviceSource
<1>3. ASSUME NEW c \in Clients, Play(c) \/ StopGettingFrames(c) PROVE PlayingIsAttached'
  BY <1>3 DEF Play, StopGettingFrames
<1>4. ASSUME NEW c \in Clients, GetNextFrame(c) PROVE PlayingIsAttached'
  BY <1>4 DEF GetNextFrame
<1>5. ASSUME NEW p \in Payloads, AddMediaSample(p) PROVE PlayingIsAttached'
  BY <1>5 DEF AddMediaSample
<1>6. CASE UNCHANGED vars
  BY <1>6 DEF vars
<1> QED
  BY <1>1, <1>2, <1>3, <1>4, <1>5, <1>6 DEF Next

\* A waiting sink stays told and unserved until a frame is handed to it.
LEMMA HandshakeInductive ==
  TypeOK /\ PlayingIsAttached /\ NoStalledFrame /\ [Next]_vars => NoStalledFrame'
<1> SUFFICES ASSUME TypeOK, PlayingIsAttached, NoStalledFrame, [Next]_vars
             PROVE  NoStalledFrame'
  OBVIOUS
<1> USE DEF NoStalledFrame
<1>1. ASSUME NEW c \in Clients, AddDeviceSource(c) PROVE NoStalledFrame'
  BY <1>1 DEF TypeOK, AddDeviceSource
<1>2. ASSUME NEW c \in Clients, RemoveDeviceSource(c) PROVE NoStalledFrame'
  BY <1>2 DEF TypeOK, RemoveDeviceSource
<1>3. ASSUME NEW c \in Clients, Play(c) PROVE NoStalledFrame'
  BY <1>3 DEF TypeOK, Play, source
<1>4. ASSUME NEW c \in Clients, StopGettingFrames(c) PROVE NoStalledFrame'
  BY <1>4 DEF TypeOK, StopGettingFrames
<1>5. ASSUME NEW c \in Clients, GetNextFrame(c) PROVE NoStalledFrame'
  <2>1. CASE GetNextFrameEmpty(c)
    BY <1>5, <2>1 DEF TypeOK, PlayingIsAttached, GetNextFrame, GetNextFrameEmpty
  <2>2. CASE GetNextFrameQueued(c)
    BY <1>5, <2>2 DEF TypeOK, GetNextFrame, GetNextFrameQueued
  <2> QED
    BY <1>5, <2>1, <2>2 DEF GetNextFrame
<1>6. ASSUME NEW p \in Payloads, AddMediaSample(p) PROVE NoStalledFrame'
  <2>1. CASE DeliversNothing(p)
    BY <1>6, <2>1 DEF AddMediaSample, source
  <2>2. CASE ~DeliversNothing(p)
    <3> SUFFICES ASSUME NEW c \in Clients, awaiting'[c]
                 PROVE  /\ c \in m_vDeviceSources' /\ ~m_bIsPlaying'[c]
                        /\ m_qMediaSamples'[c] = <<>>
      OBVIOUS
    <3>1. awaiting[c] /\ ~Pushes(c, p)
      BY <1>6, <2>2 DEF AddMediaSample
    <3>2. c \in m_vDeviceSources /\ ~m_bIsPlaying[c] /\ m_qMediaSamples[c] = <<>>
      BY <3>1
    <3>3. ~Retrieves(c, p)
      BY <3>1, <3>2 DEF Pushes
    <3>4. Retrieved(c, p) = <<>>
      BY <3>2, <3>3 DEF Retrieved
    <3>5. m_qMediaSamples'[c] = Retrieved(c, p)
      BY <1>6, <2>2, <3>1 DEF AddMediaSample
    <3>6. UNCHANGED <<m_vDeviceSources, m_bIsPlaying>>
      BY <1>6, <2>2 DEF AddMediaSample
    <3> QED
      BY <3>2, <3>4, <3>5, <3>6
  <2> QED
    BY <2>1, <2>2
<1>7. CASE UNCHANGED vars
  BY <1>7 DEF vars, source
<1> QED
  BY <1>1, <1>2, <1>3, <1>4, <1>5, <1>6, <1>7 DEF Next

\* NoStalledFrame of LiveMediaSubsession: a sink never waits while a frame is
\* queued for it, whatever the order of pushes, pulls, pauses and leavings.
THEOREM NoStall == Spec => []NoStalledFrame
<1>1. Init => PlayingIsAttached /\ NoStalledFrame
  BY DEF Init, PlayingIsAttached, NoStalledFrame
<1> QED
  BY <1>1, TypeCorrect, PlayingInductive, HandshakeInductive, PTL DEF Spec

-----------------------------------------------------------------------------
(* What a client gets is a gapless piece of the stream.                    *)

\* Where a client's stream starts: within what was received and, as long as the
\* client waits for an IDR frame, at its end, with nothing queued or sent.
Positions ==
  \A c \in m_vDeviceSources :
    /\ start[c] <= Len(received)
    /\ m_bWaitingForIdr[c] =>
         start[c] = Len(received) /\ m_qMediaSamples[c] = <<>> /\ delivered[c] = <<>>

\* The inductive invariant of the delivery of frames.
DeliveryInv == TypeOK /\ PlayingIsAttached /\ Positions /\ NoGap

\* What one sample does to one client, when no queue is found empty.
LEMMA SampleForClient ==
  ASSUME TypeOK, NEW p \in Payloads, AddMediaSample(p), ~DeliversNothing(p),
         NEW c \in m_vDeviceSources
  PROVE  /\ delivered'[c] \o m_qMediaSamples'[c] = delivered[c] \o Retrieved(c, p)
         /\ m_bWaitingForIdr'[c] = (m_bWaitingForIdr[c] /\ ~Retrieves(c, p))
         /\ start'[c] = IF m_bWaitingForIdr[c]
                          THEN IF Retrieves(c, p) THEN Len(received) ELSE Len(received')
                          ELSE start[c]
         /\ ~Retrieves(c, p) => UNCHANGED <<delivered[c], m_qMediaSamples[c]>>
<1>1. c \in Clients
  BY DEF TypeOK
<1>2. /\ m_qMediaSamples'[c] = IF Pushes(c, p) THEN Tail(Retrieved(c, p)) ELSE Retrieved(c, p)
      /\ delivered'[c] = IF Pushes(c, p) THEN Append(delivered[c], Head(Retrieved(c, p)))
                                         ELSE delivered[c]
  BY <1>1 DEF AddMediaSample
<1>3. delivered'[c] \o m_qMediaSamples'[c] = delivered[c] \o Retrieved(c, p)
  <2>1. delivered[c] \in Seq(Frames) /\ Retrieved(c, p) \in Seq(Frames)
    BY <1>1, RetrievedTyped DEF AddMediaSample, TypeOK
  <2>2. CASE Pushes(c, p)
    BY <1>1, <1>2, <2>1, <2>2, PushedIsQueued, HandOver
  <2>3. CASE ~Pushes(c, p)
    BY <1>2, <2>3
  <2> QED
    BY <2>2, <2>3
<1>4. ~Retrieves(c, p) => UNCHANGED <<delivered[c], m_qMediaSamples[c]>>
  BY <1>2 DEF Pushes, Retrieved
<1>5. m_bWaitingForIdr'[c] = (m_bWaitingForIdr[c] /\ ~Retrieves(c, p))
  BY <1>1 DEF AddMediaSample
<1>6. start'[c] = IF m_bWaitingForIdr[c]
                    THEN IF Retrieves(c, p) THEN Len(received) ELSE Len(received')
                    ELSE start[c]
  BY <1>1 DEF AddMediaSample
<1> QED
  BY <1>3, <1>4, <1>5, <1>6

\* A step that leaves what the clients got, have queued and start with alone.
LEMMA DeliveryUntouched ==
  ASSUME Positions, NoGap, m_vDeviceSources' \subseteq m_vDeviceSources,
         UNCHANGED <<received, start, m_bWaitingForIdr, m_qMediaSamples, delivered>>
  PROVE  Positions' /\ NoGap'
  BY DEF Positions, NoGap

LEMMA SampleKeepsDelivery ==
  ASSUME DeliveryInv, NEW p \in Payloads, AddMediaSample(p)
  PROVE  Positions' /\ NoGap'
<1> DEFINE f == FramesOf(p, count + 1)
<1>1. /\ TypeOK /\ received \in Seq(Frames) /\ f \in Seq(Frames)
      /\ received' = received \o f /\ m_vDeviceSources' = m_vDeviceSources
  BY FramesTyped DEF DeliveryInv, TypeOK, AddMediaSample
<1>2. /\ received' \in Seq(Frames) /\ Len(received) \in Nat /\ Len(f) \in Nat
      /\ Len(received') = Len(received) + Len(f)
  BY <1>1
<1>3. CASE DeliversNothing(p)
  <2>1. p = <<>>
    <3>1. PICK c \in Clients : Pushes(c, p) /\ Retrieved(c, p) = <<>>
      BY <1>3 DEF DeliversNothing
    <3>2. m_qMediaSamples[c] \o f = <<>> /\ m_qMediaSamples[c] \in Seq(Frames)
      BY <1>1, <3>1 DEF Pushes, Retrieved, TypeOK
    <3>3. Len(f) = 0
      BY <1>1, <3>2
    <3>4. p \in Seq(Kinds) /\ DOMAIN f = DOMAIN p
      BY DEF FramesOf
    <3> QED
      BY <1>1, <3>3, <3>4
  <2>2. f = <<>>
    BY <2>1 DEF FramesOf
  <2>3. received' = received
    BY <1>1, <2>2
  <2>4. UNCHANGED <<start, m_bWaitingForIdr, m_qMediaSamples, delivered>>
    BY <1>3 DEF AddMediaSample, source
  <2> QED
    BY <1>1, <2>3, <2>4, DeliveryUntouched DEF DeliveryInv
<1>4. CASE ~DeliversNothing(p)
  <2> SUFFICES ASSUME NEW c \in m_vDeviceSources
               PROVE  /\ start'[c] <= Len(received')
                      /\ m_bWaitingForIdr'[c] =>
                           /\ start'[c] = Len(received')
                           /\ m_qMediaSamples'[c] = <<>> /\ delivered'[c] = <<>>
                      /\ delivered'[c] \o m_qMediaSamples'[c]
                           = SubSeq(received', start'[c] + 1, Len(received'))
    BY <1>1 DEF Positions, NoGap
  <2>1. /\ start[c] \in 0..Len(received)
        /\ m_bWaitingForIdr[c] =>
             start[c] = Len(received) /\ m_qMediaSamples[c] = <<>> /\ delivered[c] = <<>>
        /\ delivered[c] \o m_qMediaSamples[c] = SubSeq(received, start[c] + 1, Len(received))
        /\ delivered[c] \in Seq(Frames) /\ m_qMediaSamples[c] \in Seq(Frames)
    <3>1. /\ delivered[c] \in Seq(Frames) /\ m_qMediaSamples[c] \in Seq(Frames)
          /\ start[c] \in Nat
      BY <1>1 DEF TypeOK
    <3>2. /\ start[c] <= Len(received)
          /\ m_bWaitingForIdr[c] =>
               start[c] = Len(received) /\ m_qMediaSamples[c] = <<>> /\ delivered[c] = <<>>
      BY DEF DeliveryInv, Positions
    <3>3. delivered[c] \o m_qMediaSamples[c] = SubSeq(received, start[c] + 1, Len(received))
      BY DEF DeliveryInv, NoGap
    <3> QED
      BY <1>2, <3>1, <3>2, <3>3
  <2>2. CASE Retrieves(c, p)
    <3>1. start'[c] = start[c] /\ ~m_bWaitingForIdr'[c]
      BY <1>1, <1>4, <2>1, <2>2, SampleForClient
    <3>2. Retrieved(c, p) = m_qMediaSamples[c] \o f
      BY <2>2 DEF Retrieved
    <3>3. delivered'[c] \o m_qMediaSamples'[c] = (delivered[c] \o m_qMediaSamples[c]) \o f
      <4>1. delivered'[c] \o m_qMediaSamples'[c] = delivered[c] \o Retrieved(c, p)
        BY <1>1, <1>4, SampleForClient
      <4>2. (delivered[c] \o m_qMediaSamples[c]) \o f = delivered[c] \o (m_qMediaSamples[c] \o f)
        <5>1. \A s, t, u \in Seq(Frames) : (s \o t) \o u = s \o (t \o u)
          BY ConcatAssociative
        <5> HIDE DEF f
        <5> QED
          BY <1>1, <2>1, <5>1, Zenon
      <4> QED
        BY <3>2, <4>1, <4>2
    <3>4. SubSeq(received \o f, start[c] + 1, Len(received \o f))
            = SubSeq(received, start[c] + 1, Len(received)) \o f
      BY <1>1, <2>1, RestGrows
    <3>5. start'[c] <= Len(received')
      BY <1>2, <2>1, <3>1
    <3>6. delivered'[c] \o m_qMediaSamples'[c]
            = SubSeq(received', start'[c] + 1, Len(received'))
      BY <1>1, <2>1, <3>1, <3>3, <3>4
    <3> QED
      BY <3>1, <3>5, <3>6
  <2>3. CASE ~Retrieves(c, p)
    <3>1. m_bWaitingForIdr[c] /\ start'[c] = Len(received')
      BY <1>1, <1>4, <2>3, SampleForClient DEF Retrieves
    <3>2. delivered'[c] = <<>> /\ m_qMediaSamples'[c] = <<>>
      BY <1>1, <1>4, <2>1, <2>3, <3>1, SampleForClient
    <3>3. SubSeq(received', Len(received') + 1, Len(received')) = <<>>
      BY <1>2, RestOfAll
    <3>4. <<>> \o <<>> = <<>>
      OBVIOUS
    <3> QED
      BY <1>2, <3>1, <3>2, <3>3, <3>4
  <2> QED
    BY <2>2, <2>3
<1> QED
  BY <1>3, <1>4

LEMMA DeliveryInductive == DeliveryInv /\ [Next]_vars => DeliveryInv'
<1> SUFFICES ASSUME DeliveryInv, [Next]_vars PROVE Positions' /\ NoGap'
  BY TypeOKInductive, PlayingInductive DEF DeliveryInv
<1>0. TypeOK /\ Positions /\ NoGap
  BY DEF DeliveryInv
<1>1. ASSUME NEW c \in Clients, AddDeviceSource(c) PROVE Positions' /\ NoGap'
  <2>1. /\ received' = received /\ received \in Seq(Frames) /\ Len(received) \in Nat
        /\ start'[c] = Len(received) /\ delivered'[c] = <<>> /\ m_qMediaSamples'[c] = <<>>
        /\ m_vDeviceSources' = m_vDeviceSources \cup {c}
    BY <1>0, <1>1 DEF AddDeviceSource, TypeOK
  <2>2. \A d \in Clients \ {c} :
          UNCHANGED <<start[d], m_bWaitingForIdr[d], m_qMediaSamples[d], delivered[d]>>
    BY <1>0, <1>1 DEF AddDeviceSource, TypeOK
  <2>3. SubSeq(received, Len(received) + 1, Len(received)) = <<>>
    BY <2>1, RestOfAll
  <2>4. <<>> \o <<>> = <<>>
    OBVIOUS
  <2>5. m_vDeviceSources \subseteq Clients /\ c \notin m_vDeviceSources
    BY <1>0, <1>1 DEF AddDeviceSource, TypeOK
  <2>6. Positions'
    BY <1>0, <2>1, <2>2, <2>5 DEF Positions
  <2>7. NoGap'
    BY <1>0, <2>1, <2>2, <2>3, <2>4, <2>5 DEF NoGap
  <2> QED
    BY <2>6, <2>7
<1>2. ASSUME NEW c \in Clients,
             RemoveDeviceSource(c) \/ Play(c) \/ StopGettingFrames(c)
      PROVE  Positions' /\ NoGap'
  <2>1. /\ m_vDeviceSources' \subseteq m_vDeviceSources
        /\ UNCHANGED <<received, start, m_bWaitingForIdr, m_qMediaSamples, delivered>>
    BY <1>2 DEF RemoveDeviceSource, Play, StopGettingFrames, source, history
  <2> QED
    BY <1>0, <2>1, DeliveryUntouched
<1>3. ASSUME NEW c \in Clients, GetNextFrame(c) PROVE Positions' /\ NoGap'
  <2>1. UNCHANGED <<m_vDeviceSources, m_bWaitingForIdr, received, start>>
    BY <1>3 DEF GetNextFrame
  <2>2. CASE GetNextFrameEmpty(c)
    BY <1>0, <2>1, <2>2, DeliveryUntouched DEF GetNextFrameEmpty
  <2>3. CASE GetNextFrameQueued(c)
    <3>1. /\ m_qMediaSamples[c] \in Seq(Frames) /\ delivered[c] \in Seq(Frames)
          /\ m_qMediaSamples[c] # <<>>
      BY <1>0, <2>3 DEF GetNextFrameQueued, TypeOK
    <3>2. delivered'[c] \o m_qMediaSamples'[c] = delivered[c] \o m_qMediaSamples[c]
      <4>1. /\ m_qMediaSamples'[c] = Tail(m_qMediaSamples[c])
            /\ delivered'[c] = Append(delivered[c], Head(m_qMediaSamples[c]))
        BY <1>0, <2>3 DEF GetNextFrameQueued, TypeOK
      <4>2. Append(delivered[c], Head(m_qMediaSamples[c])) \o Tail(m_qMediaSamples[c])
              = delivered[c] \o m_qMediaSamples[c]
        BY <3>1, HandOver, Zenon
      <4> QED
        BY <4>1, <4>2
    <3>3. \A d \in Clients \ {c} : UNCHANGED <<m_qMediaSamples[d], delivered[d]>>
      BY <1>0, <2>3 DEF GetNextFrameQueued, TypeOK
    <3>4. m_vDeviceSources \subseteq Clients
      BY <1>0 DEF TypeOK
    <3>5. Positions'
      BY <1>0, <2>1, <3>1, <3>3, <3>4 DEF Positions
    <3>6. NoGap'
      BY <1>0, <2>1, <3>2, <3>3, <3>4 DEF NoGap
    <3> QED
      BY <3>5, <3>6
  <2> QED
    BY <1>3, <2>2, <2>3 DEF GetNextFrame
<1>4. ASSUME NEW p \in Payloads, AddMediaSample(p) PROVE Positions' /\ NoGap'
  BY <1>4, SampleKeepsDelivery
<1>5. CASE UNCHANGED vars
  BY <1>0, <1>5, DeliveryUntouched DEF vars, source, history
<1> QED
  BY <1>1, <1>2, <1>3, <1>4, <1>5 DEF Next

LEMMA DeliveryInit == Init => DeliveryInv
  BY InitTyped DEF Init, DeliveryInv, PlayingIsAttached, Positions, NoGap

\* NoGap of LiveMediaSubsession: what a client got and has queued is exactly what
\* was handed to the subsession from its first sample on, for any clients, kinds
\* of payload and lengths, and also for payloads without a frame.
THEOREM Gapless == Spec => []NoGap
<1>1. DeliveryInv => NoGap
  BY DEF DeliveryInv
<1> QED
  BY <1>1, DeliveryInit, DeliveryInductive, PTL DEF Spec

-----------------------------------------------------------------------------
(* The subsession implements LiveStream.                                   *)

\* The last element of a sequence stays where it is when more is appended.
LEMMA LastStays ==
  ASSUME NEW S, NEW d \in Seq(S), d # <<>>, NEW q \in Seq(S)
  PROVE  /\ Len(d) \in Nat /\ Len(d) > 0 /\ Len(q) \in Nat
         /\ Len(d \o q) = Len(d) + Len(q)
         /\ (d \o q)[Len(d)] = d[Len(d)]
<1>1. Len(d) \in Nat /\ Len(d) > 0 /\ Len(q) \in Nat
  OBVIOUS
<1>2. Len(d \o q) = Len(d) + Len(q)
  OBVIOUS
<1>3. (d \o q)[Len(d)] = d[Len(d)]
  BY <1>1
<1> QED
  BY <1>1, <1>2, <1>3

\* The last frame sent, in a gapless piece that starts at n, is the one the log
\* holds there.
LEMMA LastOfPiece ==
  ASSUME NEW S, NEW d \in Seq(S), d # <<>>, NEW q \in Seq(S), NEW r \in Seq(S),
         NEW n \in 0..Len(r), d \o q = SubSeq(r, n + 1, Len(r))
  PROVE  n + Len(d) \in 1..Len(r) /\ d[Len(d)] = r[n + Len(d)]
<1>1. Len(d) \in Nat /\ Len(d) > 0 /\ Len(q) \in Nat
  OBVIOUS
<1>2. Len(d \o q) = Len(d) + Len(q) /\ (d \o q)[Len(d)] = d[Len(d)]
  BY LastStays, Zenon
<1>3. /\ Len(SubSeq(r, n + 1, Len(r))) = Len(r) - n
      /\ \A i \in 1..(Len(r) - n) : SubSeq(r, n + 1, Len(r))[i] = r[n + i]
  OBVIOUS
<1>4. Len(d) + Len(q) = Len(r) - n
  BY <1>2, <1>3
<1>5. Len(d) \in 1..(Len(r) - n)
  BY <1>1, <1>4
<1>6. SubSeq(r, n + 1, Len(r))[Len(d)] = r[n + Len(d)]
  BY <1>3, <1>5
<1> QED
  BY <1>1, <1>2, <1>5, <1>6

\* A client that is handed a frame reads the next entry of the log.
LEMMA HandedIsRead ==
  ASSUME DeliveryInv, DeliveryInv', NEW c \in m_vDeviceSources, NEW e \in Frames,
         m_vDeviceSources' = m_vDeviceSources,
         delivered'[c] = Append(delivered[c], e)
  PROVE  Stream!Reads(c)
<1>1. /\ delivered[c] \in Seq(Frames) /\ delivered'[c] \in Seq(Frames)
      /\ m_qMediaSamples'[c] \in Seq(Frames)
      /\ received' \in Seq(Frames) /\ start'[c] \in Nat
  BY DEF DeliveryInv, TypeOK
<1>2. start'[c] \in 0..Len(received')
  BY <1>1 DEF DeliveryInv, Positions
<1>3. delivered'[c] \o m_qMediaSamples'[c]
        = SubSeq(received', start'[c] + 1, Len(received'))
  BY DEF DeliveryInv, NoGap
<1>4. /\ Len(delivered'[c]) = Len(delivered[c]) + 1 /\ delivered'[c] # <<>>
      /\ delivered'[c][Len(delivered'[c])] = e
  <2>1. /\ Len(Append(delivered[c], e)) = Len(delivered[c]) + 1
        /\ Append(delivered[c], e) # <<>>
        /\ Append(delivered[c], e)[Len(delivered[c]) + 1] = e
    BY <1>1, AppendProperties
  <2> QED
    BY <2>1, Zenon
<1>5. /\ start'[c] + Len(delivered'[c]) \in 1..Len(received')
      /\ delivered'[c][Len(delivered'[c])] = received'[start'[c] + Len(delivered'[c])]
  <2>1. \A d, q, r \in Seq(Frames) : \A n \in 0..Len(r) :
          d # <<>> /\ d \o q = SubSeq(r, n + 1, Len(r)) =>
            n + Len(d) \in 1..Len(r) /\ d[Len(d)] = r[n + Len(d)]
    BY LastOfPiece, Zenon
  <2> QED
    BY <1>1, <1>2, <1>3, <1>4, <2>1, Zenon
<1>6. start'[c] + Len(delivered[c]) + 1 = start'[c] + Len(delivered'[c])
  <2>1. Len(delivered[c]) \in Nat /\ start'[c] \in Nat
    BY <1>1
  <2>2. \A m, n, k \in Nat : k = m + 1 => n + m + 1 = n + k
    OBVIOUS
  <2>3. Len(delivered'[c]) = Len(delivered[c]) + 1 /\ Len(delivered'[c]) \in Nat
    BY <1>1, <1>4
  <2> QED
    BY <2>1, <2>2, <2>3, Zenon
<1>7. /\ start'[c] + Len(delivered[c]) + 1 \in 1..Len(received')
      /\ received'[start'[c] + Len(delivered[c]) + 1] = e
  BY <1>4, <1>5, <1>6, Zenon
<1> QED
  BY <1>7, Zenon DEF Stream!Reads

LEMMA SampleIsFlow ==
  ASSUME DeliveryInv, DeliveryInv', NEW p \in Payloads, AddMediaSample(p)
  PROVE  Stream!Flow
<1>1. /\ TypeOK /\ TypeOK' /\ received \in Seq(Frames)
      /\ FramesOf(p, count + 1) \in Seq(Frames)
      /\ received' = received \o FramesOf(p, count + 1)
      /\ UNCHANGED m_vDeviceSources
  BY FramesTyped DEF DeliveryInv, AddMediaSample, TypeOK
<1>2. Len(received) <= Len(received') /\ SubSeq(received', 1, Len(received)) = received
  <2>1. Len(received') = Len(received) + Len(FramesOf(p, count + 1))
    BY <1>1
  <2>2. /\ SubSeq(received', 1, Len(received)) \in Seq(Frames)
        /\ Len(SubSeq(received', 1, Len(received))) = Len(received)
        /\ \A i \in 1..Len(received) : SubSeq(received', 1, Len(received))[i] = received[i]
    BY <1>1
  <2>3. SubSeq(received', 1, Len(received)) = received
    BY <1>1, <2>2, SeqEqual
  <2> QED
    BY <1>1, <2>1, <2>3
<1>3. /\ received' \in Seq(Frames) /\ start' \in [Clients -> Nat]
      /\ delivered' \in [Clients -> Seq(Frames)]
  BY <1>1 DEF TypeOK
<1>4. ASSUME NEW c \in Clients
      PROVE  /\ start'[c] = start[c] \/ Stream!Skips(c)
             /\ delivered'[c] = delivered[c] \/ Stream!Reads(c)
  <2>1. CASE DeliversNothing(p)
    BY <2>1 DEF AddMediaSample
  <2>2. CASE ~DeliversNothing(p) /\ c \notin m_vDeviceSources
    BY <2>2 DEF AddMediaSample, Pushes
  <2>3. CASE ~DeliversNothing(p) /\ c \in m_vDeviceSources
    <3>1. start'[c] = start[c] \/ Stream!Skips(c)
      <4>1. CASE m_bWaitingForIdr[c]
        <5>1. delivered[c] = <<>> /\ start[c] = Len(received)
          BY <2>3, <4>1 DEF DeliveryInv, Positions
        <5>2. start'[c] = Len(received) \/ start'[c] = Len(received')
          BY <1>1, <2>3, <4>1, SampleForClient
        <5> QED
          BY <1>1, <1>2, <2>3, <5>1, <5>2 DEF Stream!Skips
      <4>2. CASE ~m_bWaitingForIdr[c]
        BY <1>1, <2>3, <4>2, SampleForClient
      <4> QED
        BY <4>1, <4>2
    <3>2. delivered'[c] = delivered[c] \/ Stream!Reads(c)
      <4>1. CASE Pushes(c, p)
        <5>1. /\ delivered'[c] = Append(delivered[c], Head(Retrieved(c, p)))
              /\ Retrieved(c, p) \in Seq(Frames) /\ Retrieved(c, p) # <<>>
          BY <1>1, <2>3, <4>1, RetrievedTyped, PushedIsQueued DEF AddMediaSample
        <5>2. Head(Retrieved(c, p)) \in Frames
          BY <5>1
        <5> QED
          BY <1>1, <2>3, <5>1, <5>2, HandedIsRead
      <4>2. CASE ~Pushes(c, p)
        BY <2>3, <4>2 DEF AddMediaSample
      <4> QED
        BY <4>1, <4>2
    <3> QED
      BY <3>1, <3>2
  <2> QED
    BY <2>1, <2>2, <2>3
<1> QED
  BY <1>1, <1>2, <1>3, <1>4 DEF Stream!Flow

\* Each step of the subsession is a step of the log and its readers, or none.
LEMMA StepIsStreamStep ==
  DeliveryInv /\ DeliveryInv' /\ [Next]_vars => [Stream!Next]_(Stream!vars)
<1> SUFFICES ASSUME DeliveryInv, DeliveryInv', [Next]_vars
             PROVE  [Stream!Next]_(Stream!vars)
  OBVIOUS
<1>1. ASSUME NEW c \in Clients, AddDeviceSource(c) PROVE Stream!Attach(c)
  BY <1>1 DEF AddDeviceSource, Stream!Attach
<1>2. ASSUME NEW c \in Clients, RemoveDeviceSource(c) PROVE Stream!Detach(c)
  BY <1>2 DEF RemoveDeviceSource, history, Stream!Detach
<1>3. ASSUME NEW c \in Clients, Play(c) \/ StopGettingFrames(c)
      PROVE  UNCHANGED Stream!vars
  BY <1>3 DEF Play, StopGettingFrames, history, Stream!vars
<1>4. ASSUME NEW c \in Clients, GetNextFrame(c)
      PROVE  Stream!Flow \/ UNCHANGED Stream!vars
  <2>1. CASE GetNextFrameEmpty(c)
    BY <1>4, <2>1 DEF GetNextFrame, GetNextFrameEmpty, Stream!vars
  <2>2. CASE GetNextFrameQueued(c)
    <3>1. UNCHANGED <<received, m_vDeviceSources, start>> /\ TypeOK /\ TypeOK'
      BY <1>4 DEF GetNextFrame, DeliveryInv
    <3>2. SubSeq(received, 1, Len(received)) = received
      BY <3>1 DEF TypeOK
    <3>3. \A d \in Clients \ {c} : delivered'[d] = delivered[d]
      BY <2>2, <3>1 DEF GetNextFrameQueued, TypeOK
    <3>4. delivered'[c] = delivered[c] \/ Stream!Reads(c)
      <4>1. CASE c \in m_vDeviceSources
        <5>1. /\ delivered'[c] = Append(delivered[c], Head(m_qMediaSamples[c]))
              /\ m_qMediaSamples[c] \in Seq(Frames) /\ m_qMediaSamples[c] # <<>>
          BY <2>2, <3>1 DEF GetNextFrameQueued, TypeOK
        <5>2. Head(m_qMediaSamples[c]) \in Frames
          BY <5>1
        <5> QED
          BY <3>1, <4>1, <5>1, <5>2, HandedIsRead
      <4> QED
        BY <1>4, <4>1 DEF GetNextFrame, DeliveryInv, PlayingIsAttached
    <3> QED
      BY <3>1, <3>2, <3>3, <3>4 DEF Stream!Flow, TypeOK
  <2> QED
    BY <1>4, <2>1, <2>2 DEF GetNextFrame
<1>5. ASSUME NEW p \in Payloads, AddMediaSample(p) PROVE Stream!Flow
  BY <1>5, SampleIsFlow
<1>6. CASE UNCHANGED vars
  BY <1>6 DEF vars, history, Stream!vars
<1> QED
  BY <1>1, <1>2, <1>3, <1>4, <1>5, <1>6 DEF Next, Stream!Next

\* ImplementsLiveStream of LiveMediaSubsession: queues, flags and the wait for the
\* IDR frame are invisible in what the clients get, for every value of the constants.
THEOREM Implements == Spec => ImplementsLiveStream
<1>1. Init => Stream!Init
  BY DEF Init, Stream!Init
<1> QED
  BY <1>1, DeliveryInit, DeliveryInductive, StepIsStreamStep, PTL
     DEF Spec, ImplementsLiveStream, Stream!Spec

-----------------------------------------------------------------------------
(* A stream starts with the first IDR sample.                              *)

\* From position n on, log r starts with a new sample that holds an IDR frame.
OpensWithIdr(r, n) ==
  /\ n < Len(r)
  /\ \E j \in n + 1 .. Len(r) : r[j].sample = r[n + 1].sample /\ r[j].kind = "idr"
  /\ \A i \in 1 .. n : r[i].sample # r[n + 1].sample

NoIdr(r, m, n) == \A i \in m + 1 .. n : r[i].kind # "idr"

\* What a client has been through: nothing but samples without IDR frame, and, if
\* it waits no more, the sample its stream starts with.
FirstIdr ==
  WaitForIdr => \A c \in m_vDeviceSources :
    /\ joined[c] <= start[c]
    /\ NoIdr(received, joined[c], start[c])
    /\ ~m_bWaitingForIdr[c] => OpensWithIdr(received, start[c])

SamplesCounted == \A i \in DOMAIN received : received[i].sample <= count

IdrInv == DeliveryInv /\ SamplesCounted /\ FirstIdr

\* Entries of a log that grows.
LEMMA EntriesOfGrown ==
  ASSUME NEW S, NEW r \in Seq(S), NEW f \in Seq(S)
  PROVE  /\ Len(r) \in Nat /\ Len(f) \in Nat /\ Len(r \o f) = Len(r) + Len(f)
         /\ \A i \in 1 .. Len(r) : (r \o f)[i] = r[i]
         /\ \A i \in 1 .. Len(f) : (r \o f)[Len(r) + i] = f[i]
         /\ \A i \in Len(r) + 1 .. Len(r) + Len(f) :
              i - Len(r) \in 1 .. Len(f) /\ (r \o f)[i] = f[i - Len(r)]
<1>1. /\ Len(r) \in Nat /\ Len(f) \in Nat /\ Len(r \o f) = Len(r) + Len(f)
      /\ \A i \in 1 .. Len(r) + Len(f) :
           (r \o f)[i] = IF i <= Len(r) THEN r[i] ELSE f[i - Len(r)]
  OBVIOUS
<1> QED
  BY <1>1

LEMMA EntriesOfPiece ==
  ASSUME NEW S, NEW r \in Seq(S), NEW m \in Nat, NEW n \in Nat, m <= n, n <= Len(r)
  PROVE  /\ DOMAIN SubSeq(r, m + 1, n) = 1 .. n - m
         /\ \A i \in 1 .. n - m : SubSeq(r, m + 1, n)[i] = r[m + i]
<1>1. Len(SubSeq(r, m + 1, n)) = n - m
  OBVIOUS
<1> QED
  BY <1>1

LEMMA SampleIsNumber ==
  ASSUME NEW r \in Seq(Frames), NEW i \in 1 .. Len(r)
  PROVE  r[i].sample \in Nat
<1>1. r[i] \in Frames
  OBVIOUS
<1>2. r[i].sample \in 1 .. MaxPayloads
  BY <1>1 DEF Frames
<1> QED
  BY <1>2

LEMMA OpeningStays ==
  ASSUME NEW S, NEW r \in Seq(S), NEW f \in Seq(S), NEW n \in Nat, OpensWithIdr(r, n)
  PROVE  OpensWithIdr(r \o f, n)
<1> DEFINE g == r \o f
<1>1. /\ n + 1 \in 1 .. Len(r) /\ Len(r) \in Nat /\ Len(f) \in Nat
      /\ Len(g) = Len(r) + Len(f)
      /\ \A i \in 1 .. Len(r) : g[i] = r[i]
  BY EntriesOfGrown DEF OpensWithIdr
<1> HIDE DEF g
<1>2. PICK j \in n + 1 .. Len(r) : r[j].sample = r[n + 1].sample /\ r[j].kind = "idr"
  BY DEF OpensWithIdr
<1>3. j \in n + 1 .. Len(g) /\ g[j] = r[j] /\ g[n + 1] = r[n + 1] /\ n < Len(g)
  BY <1>1
<1>4. \A i \in 1 .. n : g[i].sample # g[n + 1].sample
  BY <1>1 DEF OpensWithIdr
<1>5. OpensWithIdr(g, n)
  BY <1>2, <1>3, <1>4 DEF OpensWithIdr
<1> QED
  BY <1>5 DEF g

LEMMA SampleOpens ==
  ASSUME NEW r \in Seq(Frames), NEW f \in Seq(Frames), NEW k \in Nat,
         \A i \in 1 .. Len(r) : r[i].sample <= k,
         \A i \in 1 .. Len(f) : f[i].sample = k + 1,
         NEW j \in 1 .. Len(f), f[j].kind = "idr"
  PROVE  OpensWithIdr(r \o f, Len(r))
<1> DEFINE g == r \o f
           n == Len(r)
<1>1. /\ n \in Nat /\ Len(f) \in Nat /\ Len(g) = n + Len(f)
      /\ \A i \in 1 .. n : g[i] = r[i]
      /\ \A i \in 1 .. Len(f) : g[n + i] = f[i]
  BY EntriesOfGrown
<1>2. \A i \in 1 .. n : r[i].sample \in Nat /\ r[i].sample <= k
  BY SampleIsNumber
<1> HIDE DEF g, n
<1>3. /\ g[n + j].sample = k + 1 /\ g[n + j].kind = "idr" /\ g[n + 1].sample = k + 1
      /\ n + j \in n + 1 .. Len(g) /\ n < Len(g)
  BY <1>1
<1>4. \A i \in 1 .. n : g[i].sample # g[n + 1].sample
  BY <1>1, <1>2, <1>3
<1>5. OpensWithIdr(g, n)
  BY <1>3, <1>4 DEF OpensWithIdr
<1> QED
  BY <1>5 DEF g, n

LEMMA SampleKeepsIdr ==
  ASSUME IdrInv, NEW p \in Payloads, AddMediaSample(p)
  PROVE  SamplesCounted' /\ FirstIdr'
<1> DEFINE f == FramesOf(p, count + 1)
<1>1. /\ TypeOK /\ received \in Seq(Frames) /\ f \in Seq(Frames) /\ count \in Nat
      /\ received' = received \o f /\ count' = count + 1
      /\ UNCHANGED <<m_vDeviceSources, joined>>
  BY FramesTyped DEF IdrInv, DeliveryInv, TypeOK, AddMediaSample
<1>2. /\ p \in Seq(Kinds) /\ Len(f) = Len(p) /\ Len(p) \in Nat
      /\ \A i \in 1 .. Len(f) : f[i].sample = count + 1 /\ f[i].kind = p[i]
  <2>1. p \in Seq(Kinds) /\ DOMAIN f = DOMAIN p
    BY DEF FramesOf
  <2>2. DOMAIN p = 1 .. Len(p) /\ DOMAIN f = 1 .. Len(f) /\ Len(p) \in Nat /\ Len(f) \in Nat
    BY <1>1, <2>1
  <2>3. Len(f) = Len(p)
    BY <2>1, <2>2
  <2> QED
    BY <2>1, <2>2, <2>3 DEF FramesOf
<1>3. \A i \in 1 .. Len(received) : received[i].sample \in Nat /\ received[i].sample <= count
  <2>1. DOMAIN received = 1 .. Len(received)
    BY <1>1
  <2> QED
    BY <1>1, <2>1, SampleIsNumber DEF IdrInv, SamplesCounted
<1> HIDE DEF f
<1>4. /\ Len(received) \in Nat /\ Len(f) \in Nat /\ Len(received') = Len(received) + Len(f)
      /\ \A i \in 1 .. Len(received) : received'[i] = received[i]
      /\ \A i \in Len(received) + 1 .. Len(received) + Len(f) :
           i - Len(received) \in 1 .. Len(f) /\ received'[i] = f[i - Len(received)]
  BY <1>1, EntriesOfGrown
<1>5. SamplesCounted'
  <2>1. DOMAIN received' = 1 .. Len(received) + Len(f)
    BY <1>1, <1>4
  <2>2. ASSUME NEW i \in 1 .. Len(received) + Len(f)
        PROVE  received'[i].sample <= count + 1
    <3>1. CASE i <= Len(received)
      BY <1>1, <1>3, <1>4, <3>1
    <3>2. CASE i > Len(received)
      <4>1. i - Len(received) \in 1 .. Len(f) /\ received'[i] = f[i - Len(received)]
        BY <1>4, <3>2
      <4>2. received'[i].sample = count + 1
        BY <1>2, <4>1
      <4> QED
        BY <1>1, <4>2
    <3> QED
      BY <1>4, <3>1, <3>2
  <2> QED
    BY <1>1, <2>1, <2>2 DEF SamplesCounted
<1>6. ASSUME WaitForIdr, NEW c \in m_vDeviceSources
      PROVE  /\ joined[c] <= start'[c]
             /\ NoIdr(received', joined[c], start'[c])
             /\ ~m_bWaitingForIdr'[c] => OpensWithIdr(received', start'[c])
  <2>1. /\ joined[c] \in Nat /\ start[c] \in Nat
        /\ joined[c] <= start[c] /\ start[c] <= Len(received)
        /\ NoIdr(received, joined[c], start[c])
        /\ ~m_bWaitingForIdr[c] => OpensWithIdr(received, start[c])
        /\ m_bWaitingForIdr[c] => start[c] = Len(received)
    BY <1>1, <1>6 DEF IdrInv, FirstIdr, DeliveryInv, Positions, TypeOK
  <2>2. NoIdr(received', joined[c], start[c])
    <3> SUFFICES ASSUME NEW i \in joined[c] + 1 .. start[c]
                 PROVE  received'[i].kind # "idr"
      BY DEF NoIdr
    <3>1. i \in 1 .. Len(received)
      BY <1>4, <2>1
    <3>2. received'[i] = received[i]
      BY <1>4, <3>1
    <3> QED
      BY <2>1, <3>2 DEF NoIdr
  <2>3. CASE start'[c] = start[c] /\ ~m_bWaitingForIdr[c]
    BY <1>1, <2>1, <2>2, <2>3, OpeningStays
  <2>4. CASE DeliversNothing(p)
    <3>1. start'[c] = start[c] /\ m_bWaitingForIdr'[c] = m_bWaitingForIdr[c]
      BY <2>4 DEF AddMediaSample, source
    <3> QED
      BY <1>1, <2>1, <2>2, <3>1, OpeningStays
  <2>5. CASE ~DeliversNothing(p) /\ m_bWaitingForIdr[c] /\ HasIdr(p)
    <3>1. start'[c] = Len(received) /\ Len(received) = start[c]
      BY <1>1, <2>1, <2>5, SampleForClient DEF Retrieves
    <3>2. PICK j \in DOMAIN p : p[j] = "idr"
      BY <2>5 DEF HasIdr
    <3>3. j \in 1 .. Len(f) /\ f[j].kind = "idr"
      BY <1>2, <3>2
    <3>4. \A i \in 1 .. Len(f) : f[i].sample = count + 1
      BY <1>2
    <3>5. \A i \in 1 .. Len(received) : received[i].sample <= count
      BY <1>3
    <3>6. OpensWithIdr(received \o f, Len(received))
      BY <1>1, <3>3, <3>4, <3>5, SampleOpens
    <3> QED
      BY <1>1, <2>1, <2>2, <3>1, <3>6
  <2>6. CASE ~DeliversNothing(p) /\ m_bWaitingForIdr[c] /\ ~HasIdr(p)
    <3>1. start'[c] = Len(received') /\ m_bWaitingForIdr'[c]
      BY <1>1, <2>6, SampleForClient DEF Retrieves
    <3>2. \A i \in 1 .. Len(f) : f[i].kind # "idr"
      BY <1>2, <2>6 DEF HasIdr
    <3>3. ASSUME NEW i \in joined[c] + 1 .. Len(received')
          PROVE  received'[i].kind # "idr"
      <4>1. CASE i <= Len(received)
        BY <1>4, <2>1, <2>2, <2>6, <4>1 DEF NoIdr
      <4>2. CASE i > Len(received)
        <5>1. i - Len(received) \in 1 .. Len(f) /\ received'[i] = f[i - Len(received)]
          BY <1>4, <2>1, <4>2
        <5> QED
          BY <3>2, <5>1
      <4> QED
        BY <1>4, <2>1, <4>1, <4>2
    <3> QED
      BY <1>4, <2>1, <3>1, <3>3 DEF NoIdr
  <2>7. CASE ~DeliversNothing(p) /\ ~m_bWaitingForIdr[c]
    BY <1>1, <2>3, <2>7, SampleForClient
  <2> QED
    BY <2>4, <2>5, <2>6, <2>7
<1> QED
  BY <1>1, <1>5, <1>6 DEF FirstIdr

LEMMA IdrInductive == IdrInv /\ [Next]_vars => IdrInv'
<1> SUFFICES ASSUME IdrInv, [Next]_vars PROVE SamplesCounted' /\ FirstIdr'
  BY DeliveryInductive DEF IdrInv
<1>0. TypeOK /\ Positions /\ DeliveryInv /\ DeliveryInv'
  BY DeliveryInductive DEF IdrInv, DeliveryInv
<1>1. ASSUME NEW c \in Clients, AddDeviceSource(c) PROVE SamplesCounted' /\ FirstIdr'
  <2>1. /\ UNCHANGED <<received, count>> /\ Len(received) \in Nat
        /\ joined'[c] = Len(received) /\ start'[c] = Len(received)
        /\ m_bWaitingForIdr'[c] = WaitForIdr
        /\ m_vDeviceSources' = m_vDeviceSources \cup {c}
    BY <1>0, <1>1 DEF AddDeviceSource, TypeOK
  <2>2. \A d \in Clients \ {c} : UNCHANGED <<start[d], joined[d], m_bWaitingForIdr[d]>>
    BY <1>0, <1>1 DEF AddDeviceSource, TypeOK
  <2>3. m_vDeviceSources \subseteq Clients /\ c \notin m_vDeviceSources
    BY <1>0, <1>1 DEF AddDeviceSource, TypeOK
  <2>4. NoIdr(received, Len(received), Len(received))
    BY <2>1 DEF NoIdr
  <2> QED
    BY <2>1, <2>2, <2>3, <2>4 DEF IdrInv, SamplesCounted, FirstIdr
<1>2. ASSUME NEW c \in Clients,
             RemoveDeviceSource(c) \/ Play(c) \/ StopGettingFrames(c) \/ GetNextFrame(c)
      PROVE  SamplesCounted' /\ FirstIdr'
  <2>1. /\ m_vDeviceSources' \subseteq m_vDeviceSources
        /\ UNCHANGED <<received, count, joined, start, m_bWaitingForIdr>>
    BY <1>2
    DEF RemoveDeviceSource, Play, StopGettingFrames, GetNextFrame, source, history
  <2> QED
    BY <2>1 DEF IdrInv, SamplesCounted, FirstIdr
<1>3. ASSUME NEW p \in Payloads, AddMediaSample(p) PROVE SamplesCounted' /\ FirstIdr'
  BY <1>3, SampleKeepsIdr
<1>4. CASE UNCHANGED vars
  BY <1>4 DEF vars, source, history, IdrInv, SamplesCounted, FirstIdr
<1> QED
  BY <1>1, <1>2, <1>3, <1>4 DEF Next

\* StartsAtFirstIdr of LiveMediaSubsession: whenever a client joins, its stream
\* starts with all frames of the first sample after that which has an IDR frame.
THEOREM StartsRight == Spec => []StartsAtFirstIdr
<1>1. Init => IdrInv
  BY DeliveryInit DEF Init, IdrInv, SamplesCounted, FirstIdr
<1>2. IdrInv => StartsAtFirstIdr
  <2> SUFFICES ASSUME IdrInv, WaitForIdr, NEW c \in m_vDeviceSources
               PROVE  LET sent == delivered[c] \o m_qMediaSamples[c]
                          skipped == SubSeq(received, joined[c] + 1, start[c])
                      IN /\ \A i \in DOMAIN skipped : skipped[i].kind # "idr"
                         /\ sent # <<>> =>
                              /\ \E i \in DOMAIN sent : sent[i].sample = sent[1].sample /\ sent[i].kind = "idr"
                              /\ \A i \in DOMAIN skipped : skipped[i].sample # sent[1].sample
    BY DEF StartsAtFirstIdr
  <2> DEFINE sent == delivered[c] \o m_qMediaSamples[c]
             skipped == SubSeq(received, joined[c] + 1, start[c])
             r == received
             n == start[c]
             m == joined[c]
  <2>1. /\ r \in Seq(Frames) /\ m \in Nat /\ n \in Nat /\ m <= n /\ n <= Len(r) /\ Len(r) \in Nat
        /\ NoIdr(r, m, n)
        /\ ~m_bWaitingForIdr[c] => OpensWithIdr(r, n)
        /\ m_bWaitingForIdr[c] => n = Len(r)
        /\ sent = SubSeq(r, n + 1, Len(r))
    BY DEF IdrInv, FirstIdr, DeliveryInv, Positions, NoGap, TypeOK
  <2>2. /\ DOMAIN skipped = 1 .. n - m
        /\ \A i \in 1 .. n - m : skipped[i] = r[m + i]
    BY <2>1, EntriesOfPiece
  <2>3. /\ DOMAIN sent = 1 .. Len(r) - n
        /\ \A i \in 1 .. Len(r) - n : sent[i] = r[n + i]
    <3> HIDE DEF sent, r, n, m
    <3> QED
      BY <2>1, EntriesOfPiece
  <2> HIDE DEF sent, skipped, r, n, m
  <2>4. \A i \in 1 .. n - m : m + i \in m + 1 .. n /\ m + i \in 1 .. n
    BY <2>1
  <2>5. \A i \in DOMAIN skipped : skipped[i].kind # "idr"
    BY <2>1, <2>2, <2>4 DEF NoIdr
  <2>6. ASSUME sent # <<>>
        PROVE  /\ \E i \in DOMAIN sent : sent[i].sample = sent[1].sample /\ sent[i].kind = "idr"
               /\ \A i \in DOMAIN skipped : skipped[i].sample # sent[1].sample
    <3>1. n # Len(r)
      BY <2>1, <2>6, RestOfAll
    <3>2. OpensWithIdr(r, n) /\ sent[1] = r[n + 1]
      BY <2>1, <2>3, <3>1
    <3>3. PICK j \in n + 1 .. Len(r) : r[j].sample = r[n + 1].sample /\ r[j].kind = "idr"
      BY <3>2 DEF OpensWithIdr
    <3>4. j - n \in 1 .. Len(r) - n /\ n + (j - n) = j
      BY <2>1
    <3>5. j - n \in DOMAIN sent /\ sent[j - n] = r[j]
      BY <2>3, <3>4
    <3>6. \A i \in DOMAIN skipped : skipped[i].sample # sent[1].sample
      <4>1. \A i \in 1 .. n : r[i].sample # r[n + 1].sample
        BY <3>2 DEF OpensWithIdr
      <4> QED
        BY <2>2, <2>4, <3>2, <4>1
    <3> QED
      BY <3>2, <3>3, <3>5, <3>6
  <2> QED
    BY <2>5, <2>6 DEF sent, skipped
<1> QED
  BY <1>1, <1>2, IdrInductive, PTL DEF Spec
=============================================================================
