------------------------ MODULE LiveMediaSubsession ------------------------
(***************************************************************************)
(* One lme::LiveMediaSubsession with a device source per client: samples   *)
(* are pushed in by the scheduler (addMediaSample) and pulled out by each  *)
(* client's RTP sink (getNextFrame).  The two meet in a per-client queue   *)
(* and two flags, m_bIsPlaying and live555's isCurrentlyAwaitingData, that *)
(* decide who hands over the next frame.  For H.264 a device source first  *)
(* waits for a payload with an IDR frame.                                  *)
(*                                                                         *)
(* Everything runs in the live555 event loop, one handler at a time.  A    *)
(* sink may ask for its next frame from within the delivery of the last    *)
(* one or from a later timer: the request is a step of its own either way, *)
(* since deliverFrame does nothing after it hands over and the device      *)
(* sources of a subsession share nothing but the payload.                  *)
(***************************************************************************)
EXTENDS Naturals, Sequences

CONSTANTS
  Clients,     \* RTSP session ids
  Kinds,       \* kinds of NAL units (or audio frames), "idr" among them for H.264
  Payloads,    \* samples the application delivers: sequences of kinds
  WaitForIdr,  \* TRUE for LiveH264VideoDeviceSource, FALSE for LiveDeviceSource
  MaxPayloads  \* bound on the number of samples of a behaviour

ASSUME SubsessionAssumption ==
  /\ Payloads \subseteq Seq(Kinds)
  /\ WaitForIdr \in BOOLEAN
  /\ MaxPayloads \in Nat

VARIABLES
  aborted,         \* deliverFrame found its queue empty: assert or undefined behaviour
  m_vDeviceSources,\* clients whose device source the subsession feeds
  playing,         \* live555: the client's stream runs (PLAY, not PAUSE)
  awaiting,        \* live555: isCurrentlyAwaitingData()
  m_bIsPlaying,    \* the last request of the sink found a sample queued
  m_bWaitingForIdr,
  m_qMediaSamples, \* client -> frames queued for it
  received,        \* history: every frame handed to the subsession, in order
  count,           \* history: number of samples handed to the subsession
  joined,          \* history: client -> Len(received) when it joined
  start,           \* history: client -> Len(received) before its first sample
  delivered        \* history: client -> frames its sink got

source == <<awaiting, m_bIsPlaying, m_bWaitingForIdr, m_qMediaSamples>>
history == <<received, count, joined, start, delivered>>
vars == <<aborted, m_vDeviceSources, playing, source, history>>

\* A frame is told apart by the sample it came in.
Frames == [sample : 1..MaxPayloads, kind : Kinds]

TypeOK ==
  /\ aborted \in BOOLEAN
  /\ m_vDeviceSources \subseteq Clients
  /\ playing \in [Clients -> BOOLEAN]
  /\ awaiting \in [Clients -> BOOLEAN]
  /\ m_bIsPlaying \in [Clients -> BOOLEAN]
  /\ m_bWaitingForIdr \in [Clients -> BOOLEAN]
  /\ m_qMediaSamples \in [Clients -> Seq(Frames)]
  /\ received \in Seq(Frames)
  /\ count \in 0..MaxPayloads
  /\ joined \in [Clients -> Nat]
  /\ start \in [Clients -> Nat]
  /\ delivered \in [Clients -> Seq(Frames)]

Init ==
  /\ aborted = FALSE
  /\ m_vDeviceSources = {}
  /\ playing = [c \in Clients |-> FALSE]
  /\ awaiting = [c \in Clients |-> FALSE]
  /\ m_bIsPlaying = [c \in Clients |-> FALSE]
  /\ m_bWaitingForIdr = [c \in Clients |-> WaitForIdr]
  /\ m_qMediaSamples = [c \in Clients |-> <<>>]
  /\ received = <<>>
  /\ count = 0
  /\ joined = [c \in Clients |-> 0]
  /\ start = [c \in Clients |-> 0]
  /\ delivered = [c \in Clients |-> <<>>]

-----------------------------------------------------------------------------
(***************************************************************************)
(* Clients come and go.                                                    *)
(***************************************************************************)

\* SETUP: createNewStreamSource makes a device source, which adds itself.
AddDeviceSource(c) ==
  /\ ~aborted
  /\ c \notin m_vDeviceSources
  /\ m_vDeviceSources' = m_vDeviceSources \cup {c}
  /\ playing' = [playing EXCEPT ![c] = FALSE]
  /\ awaiting' = [awaiting EXCEPT ![c] = FALSE]
  /\ m_bIsPlaying' = [m_bIsPlaying EXCEPT ![c] = FALSE]
  /\ m_bWaitingForIdr' = [m_bWaitingForIdr EXCEPT ![c] = WaitForIdr]
  /\ m_qMediaSamples' = [m_qMediaSamples EXCEPT ![c] = <<>>]
  /\ joined' = [joined EXCEPT ![c] = Len(received)]
  /\ start' = [start EXCEPT ![c] = Len(received)]
  /\ delivered' = [delivered EXCEPT ![c] = <<>>]
  /\ UNCHANGED <<aborted, received, count>>

\* The stream is deleted: the destructor takes the source off the list.
RemoveDeviceSource(c) ==
  /\ ~aborted
  /\ c \in m_vDeviceSources
  /\ m_vDeviceSources' = m_vDeviceSources \ {c}
  /\ playing' = [playing EXCEPT ![c] = FALSE]
  /\ awaiting' = [awaiting EXCEPT ![c] = FALSE]
  /\ UNCHANGED <<aborted, m_bIsPlaying, m_bWaitingForIdr, m_qMediaSamples, history>>

\* live555, on PLAY: the sink may ask for frames.
Play(c) ==
  /\ ~aborted
  /\ c \in m_vDeviceSources
  /\ ~playing[c]
  /\ playing' = [playing EXCEPT ![c] = TRUE]
  /\ UNCHANGED <<aborted, m_vDeviceSources, source, history>>

\* live555, on PAUSE: stopGettingFrames withdraws the sink's request.  The device
\* source redefines nothing for it, so its own flags stay.
StopGettingFrames(c) ==
  /\ ~aborted
  /\ playing[c]
  /\ playing' = [playing EXCEPT ![c] = FALSE]
  /\ awaiting' = [awaiting EXCEPT ![c] = FALSE]
  /\ UNCHANGED <<aborted, m_vDeviceSources, m_bIsPlaying, m_bWaitingForIdr, m_qMediaSamples, history>>

-----------------------------------------------------------------------------
(***************************************************************************)
(* The sink asks for a frame: FramedSource::getNextFrame (live555) marks   *)
(* the source as awaited and calls doGetNextFrame, which delivers at once  *)
(* if it can.                                                              *)
(***************************************************************************)

\* Mutated form of GetNextFrameEmpty: the flag is not taken back.
GetNextFrameEmptyKeepsFlag(c) ==
  /\ m_qMediaSamples[c] = <<>>
  /\ awaiting' = [awaiting EXCEPT ![c] = TRUE]
  /\ UNCHANGED <<m_bIsPlaying, m_qMediaSamples, delivered>>

GetNextFrameEmpty(c) ==
  /\ m_qMediaSamples[c] = <<>>
  /\ awaiting' = [awaiting EXCEPT ![c] = TRUE]
  /\ m_bIsPlaying' = [m_bIsPlaying EXCEPT ![c] = FALSE]
  /\ UNCHANGED <<m_qMediaSamples, delivered>>

\* deliverFrame hands over the head of the queue; afterGetting ends the wait.
GetNextFrameQueued(c) ==
  /\ m_qMediaSamples[c] # <<>>
  /\ awaiting' = [awaiting EXCEPT ![c] = FALSE]
  /\ m_bIsPlaying' = [m_bIsPlaying EXCEPT ![c] = TRUE]
  /\ m_qMediaSamples' = [m_qMediaSamples EXCEPT ![c] = Tail(@)]
  /\ delivered' = [delivered EXCEPT ![c] = Append(@, Head(m_qMediaSamples[c]))]

GetNextFrame(c) ==
  /\ ~aborted
  /\ playing[c]
  /\ ~awaiting[c]
  /\ GetNextFrameEmpty(c) \/ GetNextFrameQueued(c)
  /\ UNCHANGED <<aborted, m_vDeviceSources, playing, m_bWaitingForIdr, received, count, joined, start>>

-----------------------------------------------------------------------------
(***************************************************************************)
(* The scheduler hands the subsession a sample.  Every device source       *)
(* retrieves it from the sample buffer and, unless the sink is working     *)
(* through the queue by itself, delivers.                                  *)
(***************************************************************************)
HasIdr(p) == \E i \in DOMAIN p : p[i] = "idr"

\* splitPayloadIntoMediaSamples: the NAL units of a payload, in order.
FramesOf(p, k) == [i \in DOMAIN p |-> [sample |-> k, kind |-> p[i]]]

\* Mutated form of Retrieves: the wait for the IDR frame ends with any payload.
RetrievesAnything(c, p) == TRUE

\* retrieveMediaSampleFromBuffer returns FALSE only while it waits for an IDR
\* frame: also a payload without any frame counts as retrieved afterwards.
Retrieves(c, p) == m_bWaitingForIdr[c] => HasIdr(p)

\* Mutated form of Retrieved: the frames replace what is still queued.
RetrievedReplaces(c, p) ==
  IF c \in m_vDeviceSources /\ Retrieves(c, p)
    THEN FramesOf(p, count + 1)
    ELSE m_qMediaSamples[c]

\* The client's queue with the frames of the payload at its end.
Retrieved(c, p) ==
  IF c \in m_vDeviceSources /\ Retrieves(c, p)
    THEN m_qMediaSamples[c] \o FramesOf(p, count + 1)
    ELSE m_qMediaSamples[c]

\* addMediaSample goes on to deliverFrame, and the sink awaits a frame.
Pushes(c, p) ==
  /\ c \in m_vDeviceSources
  /\ Retrieves(c, p)
  /\ ~m_bIsPlaying[c]
  /\ awaiting[c]

\* deliverFrame asserts that its queue is not empty before it takes the head.
DeliversNothing(p) == \E c \in Clients : Pushes(c, p) /\ Retrieved(c, p) = <<>>

AddMediaSample(p) ==
  /\ ~aborted
  /\ count < MaxPayloads
  /\ count' = count + 1
  /\ received' = received \o FramesOf(p, count + 1)
  /\ IF DeliversNothing(p)
       THEN /\ aborted' = TRUE
            /\ UNCHANGED <<source, start, delivered>>
       ELSE /\ m_bWaitingForIdr' =
                 [c \in Clients |-> IF c \in m_vDeviceSources
                                      THEN m_bWaitingForIdr[c] /\ ~Retrieves(c, p)
                                      ELSE m_bWaitingForIdr[c]]
            /\ start' =
                 [c \in Clients |-> IF c \in m_vDeviceSources /\ m_bWaitingForIdr[c]
                                      THEN IF Retrieves(c, p) THEN Len(received) ELSE Len(received')
                                      ELSE start[c]]
            /\ m_qMediaSamples' =
                 [c \in Clients |-> IF Pushes(c, p) THEN Tail(Retrieved(c, p)) ELSE Retrieved(c, p)]
            /\ delivered' =
                 [c \in Clients |-> IF Pushes(c, p) THEN Append(delivered[c], Head(Retrieved(c, p)))
                                                    ELSE delivered[c]]
            /\ awaiting' = [c \in Clients |-> awaiting[c] /\ ~Pushes(c, p)]
            /\ UNCHANGED <<aborted, m_bIsPlaying>>
  /\ UNCHANGED <<m_vDeviceSources, playing, joined>>

-----------------------------------------------------------------------------
Next ==
  \/ \E c \in Clients :
       \/ AddDeviceSource(c)
       \/ RemoveDeviceSource(c)
       \/ Play(c)
       \/ StopGettingFrames(c)
       \/ GetNextFrame(c)
  \/ \E p \in Payloads : AddMediaSample(p)

Spec == Init /\ [][Next]_vars

(***************************************************************************)
(* A sink whose stream plays asks for the next frame after each one it     *)
(* got: live555 sends a packet and schedules the next request.             *)
(***************************************************************************)
FairSpec == Spec /\ \A c \in Clients : WF_vars(GetNextFrame(c))

-----------------------------------------------------------------------------
(***************************************************************************)
(* Properties.                                                             *)
(***************************************************************************)

\* The handshake of the two flags never leaves a client stuck: a sink that waits
\* has been told that nothing is queued, and addMediaSample will push to it.
NoStalledFrame ==
  \A c \in Clients : awaiting[c] =>
    c \in m_vDeviceSources /\ ~m_bIsPlaying[c] /\ m_qMediaSamples[c] = <<>>

\* What a client got and what is queued for it are exactly the frames handed to
\* the subsession since the sample its stream starts with: nothing is lost,
\* doubled or reordered between push and pull, for any number of clients.
NoGap ==
  \A c \in m_vDeviceSources :
    delivered[c] \o m_qMediaSamples[c] = SubSeq(received, start[c] + 1, Len(received))

\* An H.264 stream starts with the first sample after the client's SETUP that
\* holds an IDR frame, with all frames of that sample (SPS and PPS among them).
StartsAtFirstIdr ==
  WaitForIdr => \A c \in m_vDeviceSources :
    LET sent == delivered[c] \o m_qMediaSamples[c]
        skipped == SubSeq(received, joined[c] + 1, start[c])
    IN /\ \A i \in DOMAIN skipped : skipped[i].kind # "idr"
       /\ sent # <<>> =>
            /\ \E i \in DOMAIN sent : sent[i].sample = sent[1].sample /\ sent[i].kind = "idr"
            /\ \A i \in DOMAIN skipped : skipped[i].sample # sent[1].sample

\* deliverFrame never runs on an empty queue: retrieveMediaSampleFromBuffer
\* "returns true if a frame is retrieved from the live source buffer".
NeverDeliversNothing == ~aborted

\* The subsession with its queues and flags implements the plain log: frames flow
\* to each client contiguously from a point that is fixed with its first frame.
Stream == INSTANCE LiveStream WITH
  Readers <- Clients, Entries <- Frames,
  log <- received, readers <- m_vDeviceSources, from <- start, got <- delivered

ImplementsLiveStream == Stream!Spec

\* Every frame queued for a client reaches its sink, however pushes and pulls
\* alternate, unless the client pauses or leaves.
FramesAreDelivered ==
  \A c \in Clients, i \in 1..(2 * MaxPayloads) :
    (playing[c] /\ i \in Len(delivered[c])+1 .. Len(delivered[c]) + Len(m_qMediaSamples[c]))
      ~> (~playing[c] \/ Len(delivered[c]) >= i)
=============================================================================
