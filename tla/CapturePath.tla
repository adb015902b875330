----------------------------- MODULE CapturePath -----------------------------
(***************************************************************************)
(* From the capture device to the RTP packet, for one client: the path the *)
(* demo application wires up.  A VirtualMediaSource on the thread of the   *)
(* io_service, or an application thread, gives media samples to the packet *)
(* manager; the live555 event loop takes them from its queue one by one    *)
(* and pushes them through the sample buffer and the device source to the  *)
(* sink.  LiveSourceTaskScheduler0 and PacketManagerMediaChannel are the   *)
(* single queue "pending" here: their own models show what they do with    *)
(* several sources and channels.                                           *)
(***************************************************************************)
EXTENDS LiveDeviceSource, VirtualMediaSource

CONSTANTS
  Configs,     \* [virtual, amr, channels, audioChannels, bound, increments]: what a path
               \* may consist of, bound being the number of samples an application
               \* captures and increments what lies between their start times
  Headers,     \* first bytes of captured AMR frames
  Lengths      \* sizes of captured payloads

\* Buffers of one channel and of two stand for those of any number.  The AMR
\* subsession has the buffer of one, and the virtual source makes samples for such.
ASSUME PathAssumption ==
  /\ \A c \in Configs :
       /\ c.amr \in BOOLEAN /\ c.virtual \in BOOLEAN /\ c.channels \in {1, 2}
       /\ (c.amr \/ c.virtual) => c.channels = 1
       /\ c.increments \subseteq Int
  /\ Headers \subseteq 0 .. 255
  /\ Lengths \subseteq Nat \ {0}

VARIABLES
  samples,  \* history: every sample given to the packet manager
  pending   \* the packet manager's queue: samples not taken yet

vars == <<deviceVars, virtualVars, samples, pending>>

TypeOK ==
  /\ VirtualTypeOK
  /\ DeviceTypeOK
  /\ Len(pending) <= Len(samples)

Init ==
  /\ config \in Configs
  /\ DeviceInit
  /\ VirtualInit
  /\ samples = <<>>
  /\ pending = <<>>

-----------------------------------------------------------------------------
(***************************************************************************)
(* Samples: [start, data, carries], the last being the payload the first   *)
(* channel is to get, and empty for a sample the buffer rejects.           *)
(***************************************************************************)
Payload(i, length, byte) ==
  [p \in 1 .. length |-> <<Len(samples) + 1, i, p, IF p = 1 THEN byte ELSE 0>>]

\* A sample of a codec with one channel, which has no multiplexing header.
SingleSample(start, length, byte) ==
  [start |-> start, data |-> Payload(1, length, byte), carries |-> Payload(1, length, byte)]

AmrSamples(start) == {SingleSample(start, 2, byte) : byte \in Headers}
PlainSamples(start) == {SingleSample(start, n, 0) : n \in Lengths}

\* A sample of two multiplexed streams.
MuxedSample(start, fourCC, length) ==
  [ start   |-> start,
    data    |-> WriteHeader([fourCC |-> fourCC, lengths |-> <<length, 1>>])
                  \o Payload(1, length, 0) \o Payload(2, 1, 0),
    carries |-> Payload(1, length, 0) ]

MuxedSamples(start) == {MuxedSample(start, fourCC, n) : fourCC \in {0, 7}, n \in Lengths}

\* Samples of a source that has one stream, and ones that end in their header.
RejectedSamples(start) ==
  { [start |-> start, data |-> data, carries |-> <<>>] :
      data \in { WriteHeader([fourCC |-> 0, lengths |-> <<1>>]) \o Payload(1, 1, 0),
                 SubSeq(WriteHeader([fourCC |-> 0, lengths |-> <<1, 1>>]), 1, 2) } }

Samples(start) ==
  IF config.channels > 1 THEN MuxedSamples(start) \cup RejectedSamples(start)
  ELSE IF config.amr THEN AmrSamples(start)
  ELSE PlainSamples(start)

Give(s) ==
  /\ samples' = Append(samples, s)
  /\ pending' = Append(pending, s)

LastStart == IF samples = <<>> THEN 0 ELSE samples[Len(samples)].start

\* addAudioMediaSamples by an application thread.
Capture ==
  /\ ~config.virtual
  /\ Len(samples) < config.bound
  /\ \E inc \in config.increments : \E s \in Samples(LastStart + inc) : Give(s)
  /\ UNCHANGED <<deviceVars, virtualVars>>

\* m_mediaCallback of the virtual source: its bytes begin with 0.
Generated == Give(SingleSample(m_dLastTimestamp, 2, 0))

Start == config.virtual /\ StartSource /\ Generated /\ UNCHANGED deviceVars
TimeoutHandler == config.virtual /\ Timeout /\ Generated /\ UNCHANGED deviceVars
Expiry == config.virtual /\ Expire /\ UNCHANGED <<deviceVars, samples, pending>>
Stop == config.virtual /\ StopSource /\ UNCHANGED <<deviceVars, samples, pending>>

\* The event loop takes a sample and hands it to the subsession.
Poll ==
  /\ pending # <<>>
  /\ AddMediaSample(Head(pending))
  /\ pending' = Tail(pending)
  /\ UNCHANGED <<virtualVars, samples>>

Ask == GetNextFrame /\ UNCHANGED <<virtualVars, samples, pending>>
SendNext == BuildNextPacket /\ UNCHANGED <<virtualVars, samples, pending>>
Play == StartPlaying /\ UNCHANGED <<virtualVars, samples, pending>>
Pause == StopPlaying /\ UNCHANGED <<virtualVars, samples, pending>>

Next ==
  \/ Capture
  \/ Start
  \/ TimeoutHandler
  \/ Expiry
  \/ Stop
  \/ Poll
  \/ Ask
  \/ SendNext
  \/ Play
  \/ Pause

Spec == Init /\ [][Next]_vars

(***************************************************************************)
(* The event loop keeps polling, and live555 runs the delayed task of a    *)
(* sink that has sent a packet.                                            *)
(***************************************************************************)
FairSpec == Spec /\ WF_vars(Poll) /\ WF_vars(Ask) /\ WF_vars(SendNext)

-----------------------------------------------------------------------------
(***************************************************************************)
(* Properties.                                                             *)
(***************************************************************************)
Body(payload) == IF config.amr THEN Tail(payload) ELSE payload

\* The payload the k-th frame comes from: that of the last good sample up to it.
Carried(k) ==
  LET good == {j \in 1 .. k : samples[j].carries # <<>>} IN
  IF good = {} THEN <<>>
               ELSE Body(samples[CHOOSE j \in good : \A i \in good : i <= j].carries)

SizeBefore(frames, k) == IF k = 1 THEN 0 ELSE frames[k - 1].size

\* Every sample becomes one frame, in order and with its own start time, through header,
\* sample buffer and queue, and the frame has the payload of the last sample that the
\* buffer did not reject.  At the sink a frame that fits is whole and counts as such.  One
\* that does not fit has no content, though it counts as fMaxSize, and what is said to be
\* omitted is its size less that of the frame before it: "it should be truncated, and
\* fNumTruncatedBytes set accordingly" is not kept.
FramesAreCaptured ==
  LET frames == delivered \o m_qMediaSamples IN
  /\ Len(frames) + Len(pending) = Len(samples)
  /\ \A k \in DOMAIN frames :
       /\ frames[k].start = samples[k].start
       /\ k > Len(delivered) => frames[k].data = Carried(k)
  /\ \A k \in DOMAIN delivered :
       LET c == Carried(k)
           d == delivered[k]
       IN  IF Len(c) > fMaxSize
             THEN /\ d.data = Garbage /\ d.size = fMaxSize
                  /\ ~config.amr => d.truncated = Len(c) - SizeBefore(delivered, k)
             ELSE d.data = c /\ d.size = Len(c) /\ d.truncated = 0

Instant(pres) == pres.sec * TicksPerSecond + pres.usec

\* By how much two frames are presented closer together than they were captured.
Lag(i, j) ==
  (delivered[j].start - delivered[i].start)
    - (Instant(delivered[j].pres) - Instant(delivered[i].pres))

\* The presentation times of any two frames lie as far apart as their start times,
\* however many frames, seconds and steps back lie between them, but for the tick that
\* each may lose to the conversion and the one between the first frame's two readings of
\* the clock: nothing adds up.
PresentationKeepsDistance ==
  \A i, j \in DOMAIN delivered : i < j => Lag(i, j) \in -2 .. 2

\* Nor do two frames after the first change places, or frames captured together part:
\* also not where a difference falls short of its second, or turns negative.
PresentationKeepsOrder ==
  \A i, j \in DOMAIN delivered \ {1} :
    delivered[i].start <= delivered[j].start =>
      Instant(delivered[i].pres) <= Instant(delivered[j].pres)

HeaderOf(k) == samples[k].data[1][4] % 128

PackedFrames ==
  (UNION { {sent[n].frames[j] : j \in DOMAIN sent[n].frames} : n \in DOMAIN sent })
    \cup {packet.frames[j] : j \in DOMAIN packet.frames}

\* The table-of-contents entry of an AMR frame is the frame's own header if the
\* sink had caught up when it was packed, and otherwise the header of the newest
\* frame in the queue: never that of an earlier frame, also across pauses and for
\* headers the source finds invalid.
TocOwnUnlessBehind ==
  config.amr =>
    \A f \in PackedFrames : f.toc = HeaderOf(f.frame + delivered[f.frame].behind)

\* "Set the TOC field for the current frame, based on the FT and Q values from our
\* source": each frame is sent under its own header.
TocIsOwn == config.amr => \A f \in PackedFrames : f.toc = HeaderOf(f.frame)

\* AMR packets are complete, say so in their F bits, and lose no frames but those
\* of a packet that a pause interrupts: a packet without the marker continues where
\* the one before it ended.
PacketsAreComplete ==
  config.amr => \A n \in DOMAIN sent :
    LET frames == sent[n].frames IN
    /\ Len(frames) = FramesPerPacket
    /\ \A j \in DOMAIN frames :
         /\ frames[j].more = (j < FramesPerPacket)
         /\ frames[j].frame = frames[1].frame + j - 1
    /\ n = 1 => sent[n].marker
    /\ n > 1 => LET last == sent[n - 1].frames[FramesPerPacket].frame IN
                  IF sent[n].marker THEN frames[1].frame > last ELSE frames[1].frame = last + 1

\* Whatever has been captured reaches the sink of a client that plays, unless the
\* client pauses.
CapturedIsDelivered ==
  \A k \in 1 .. MaxGenerated :
    (sink # "stopped" /\ Len(samples) >= k) ~> (sink = "stopped" \/ Len(delivered) >= k)
=============================================================================
