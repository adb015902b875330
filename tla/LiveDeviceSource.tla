-------------------------- MODULE LiveDeviceSource --------------------------
(***************************************************************************)
(* One client's device source and RTP sink: retrieval from the subsession's*)
(* sample buffer, delivery with sizes and presentation times               *)
(* (lme::LiveDeviceSource), the frame headers of AMR                       *)
(* (lme::LiveAMRAudioDeviceSource), and their packing into RTP packets     *)
(* (lme::LiveAMRAudioRTPSink on live555's MultiFramedRTPSink).             *)
(*                                                                         *)
(* LiveMediaSubsession models the hand-over between many clients; here it  *)
(* is what a frame carries that counts.  An action is a handler of the     *)
(* event loop, but for the sink: it asks for frame after frame in one call *)
(* chain, which is broken into steps between which nothing else runs       *)
(* (sink = "asking").                                                      *)
(***************************************************************************)
EXTENDS SampleBuffer

CONSTANTS
  FramesPerPacket, \* AUDIO_FRAMES_PER_RTP_FRAME, 5 in the code
  fMaxSize,        \* live555: room for a frame at the sink
  TicksPerSecond,  \* the fraction of a second that stands for 1000000 us
  ClockTimes,      \* what gettimeofday may say at the first delivery, in ticks
  FallsShort       \* <<start, offset>> whose difference as a double is just short of
                   \* the whole tick it stands for, as 1.2 - 1 is short of 0.2

ASSUME SourceAssumption ==
  /\ FramesPerPacket \in Nat \ {0}
  /\ fMaxSize \in Nat \ {0}
  /\ TicksPerSecond \in Nat \ {0}
  /\ ClockTimes \subseteq Nat
  /\ FallsShort \subseteq Int \X Int

VARIABLES
  config,            \* [amr, channels, audioChannels]: the subsession the factory made
  m_pSampleBuffer,
  m_qMediaSamples,   \* frames retrieved, [start, data]
  m_bIsPlaying,
  fFrameSize,        \* live555: size of the last frame delivered
  m_bOffsetSet,
  m_dOffsetTime,     \* start time of the first frame
  m_tOffsetTime,     \* the clock then, [sec, usec]
  fLastFrameHeader,  \* AMR: first byte of the last frame retrieved
  sink,              \* "stopped", "asking", "waiting" (isCurrentlyAwaitingData), "sending"
  packet,            \* the packet being built, [marker, frames]
  delivered,         \* history: what the sink was given
  sent               \* history: packets sent

timeBase == <<m_bOffsetSet, m_dOffsetTime, m_tOffsetTime>>
sourceVars == <<m_pSampleBuffer, m_qMediaSamples, m_bIsPlaying, fFrameSize, timeBase, fLastFrameHeader>>
sinkVars == <<sink, packet, delivered, sent>>
deviceVars == <<config, sourceVars, sinkVars>>

Garbage == <<>>  \* content of a frame that was never copied
Frame == [start : Int, data : Seq(Cells)]
TimeVal == [sec : Int, usec : Int]
NoPacket == [marker |-> FALSE, frames |-> <<>>]

DeviceTypeOK ==
  /\ config.channels \in Nat \ {0}
  /\ Len(m_pSampleBuffer.payload) = config.channels
  /\ \A i \in DOMAIN m_pSampleBuffer.payload :
       Len(m_pSampleBuffer.payload[i]) <= m_pSampleBuffer.size[i]
  /\ \A i \in DOMAIN m_qMediaSamples : DOMAIN m_qMediaSamples[i] = {"start", "data"}
  /\ m_bIsPlaying \in BOOLEAN
  /\ fFrameSize \in Nat
  /\ m_bOffsetSet \in BOOLEAN
  /\ m_dOffsetTime \in Int
  /\ m_tOffsetTime \in TimeVal
  /\ fLastFrameHeader \in 0 .. 255
  /\ sink \in {"stopped", "asking", "waiting", "sending"}
  /\ packet.marker \in BOOLEAN
  /\ Len(packet.frames) < FramesPerPacket

DeviceInit ==
  /\ m_pSampleBuffer = NewBuffer(config.channels)
  /\ m_qMediaSamples = <<>>
  /\ m_bIsPlaying = FALSE
  /\ fFrameSize = 0
  /\ m_bOffsetSet = FALSE
  /\ m_dOffsetTime = 0
  /\ m_tOffsetTime = [sec |-> 0, usec |-> 0]
  /\ fLastFrameHeader = 0
  /\ sink = "stopped"
  /\ packet = NoPacket
  /\ delivered = <<>>
  /\ sent = <<>>

-----------------------------------------------------------------------------
(***************************************************************************)
(* Retrieval.                                                              *)
(***************************************************************************)
Invalid == 65535

\* Frame types of narrowband AMR by the bits 3 to 6 of the header.
frameSize ==
  [ft \in 0 .. 15 |->
    IF ft <= 8 THEN <<12, 13, 15, 17, 19, 20, 26, 31, 5>>[ft + 1]
               ELSE IF ft = 15 THEN 0 ELSE Invalid]

\* header & 0x83: a padding bit is set.
BadPadding(header) == header \div 128 = 1 \/ header % 4 # 0

\* Mutated form of AmrHeader: only a good header is remembered.
AmrHeaderIfGood(buf) ==
  LET header == buf.payload[1][1][4] IN
  IF BadPadding(header) THEN fLastFrameHeader ELSE header

\* The AMR source remembers the first byte of every payload it retrieves.
AmrHeader(buf) == buf.payload[1][1][4]

\* retrieveMediaSampleFromBuffer of the AMR source.  The header is taken off and
\* looked up, but the frame is queued whatever was found.  The size it announces
\* goes into fFrameSize, which belongs to the frame delivered last.
RetrieveAmr(buf) ==
  [ frame  |-> [NextFrame(buf) EXCEPT !.data = Tail(@)],
    header |-> AmrHeader(buf),
    size   |-> IF BadPadding(buf.payload[1][1][4]) THEN fFrameSize
               ELSE frameSize[(buf.payload[1][1][4] \div 8) % 16] ]

\* LiveDeviceSource::retrieveMediaSampleFromBuffer.
RetrievePlain(buf) ==
  [frame |-> NextFrame(buf), header |-> fLastFrameHeader, size |-> fFrameSize]

Retrieve(buf) == IF config.amr THEN RetrieveAmr(buf) ELSE RetrievePlain(buf)

-----------------------------------------------------------------------------
(***************************************************************************)
(* Presentation times.  A fraction of a second counts in ticks, and start  *)
(* times are whole ticks: doubles below 2^32 s stand for microseconds so   *)
(* closely that a difference comes out within one of the true one.         *)
(***************************************************************************)
ClockTime(t) == [sec |-> t \div TicksPerSecond, usec |-> t % TicksPerSecond]

\* A conversion to long rounds towards 0.
WholeSeconds(d) ==
  IF d >= 0 THEN d \div TicksPerSecond ELSE - ((- d) \div TicksPerSecond)

\* The whole ticks of a difference of start times: one that falls short of its tick
\* loses it.  Equal start times have the difference 0.
Elapsed(start) ==
  LET d == start - m_dOffsetTime IN
  IF <<start, m_dOffsetTime>> \notin FallsShort \/ d = 0 THEN d
  ELSE IF d > 0 THEN d - 1
  ELSE d + 1

\* Mutated form of PresentationTime: the clock's own fraction is dropped.
PresentationTimeWhole(start) ==
  LET d == Elapsed(start) IN
  [ sec  |-> m_tOffsetTime.sec + WholeSeconds(d),
    usec |-> d - WholeSeconds(d) * TicksPerSecond ]

\* Mutated form of PresentationTime: the fraction is kept below a second, uncarried.
PresentationTimeWraps(start) ==
  LET d == Elapsed(start) IN
  [ sec  |-> m_tOffsetTime.sec + WholeSeconds(d),
    usec |-> (m_tOffsetTime.usec + (d - WholeSeconds(d) * TicksPerSecond)) % TicksPerSecond ]

\* The clock at the first frame, advanced by the difference of the start times.
\* Seconds and fractions are added up separately, without a carry.
PresentationTime(start) ==
  LET d == Elapsed(start) IN
  [ sec  |-> m_tOffsetTime.sec + WholeSeconds(d),
    usec |-> m_tOffsetTime.usec + (d - WholeSeconds(d) * TicksPerSecond) ]

-----------------------------------------------------------------------------
(***************************************************************************)
(* live555's sink: a packet takes FramesPerPacket AMR frames               *)
(* (frameCanAppearAfterPacketStart); other formats send each frame off.    *)
(* After a packet the next one is scheduled, after a frame the next one is *)
(* asked for at once.                                                      *)
(***************************************************************************)
PacketFull(frames) == Len(frames) = IF config.amr THEN FramesPerPacket ELSE 1

\* doSpecialFrameHandling: bit F of the table of contents, more frames follow.
MoreFollow == Len(packet.frames) < FramesPerPacket - 1

\* The entry of the frame to be delivered next: bits 0 to 6 are those of the header
\* the source holds now.
TocEntry(header) ==
  [frame |-> Len(delivered) + 1, toc |-> header % 128, more |-> MoreFollow]

Pack(header) ==
  LET frames == Append(packet.frames, TocEntry(header)) IN
  IF PacketFull(frames)
    THEN /\ sent' = Append(sent, [packet EXCEPT !.frames = frames])
         /\ packet' = NoPacket
         /\ sink' = "sending"
    ELSE /\ packet' = [packet EXCEPT !.frames = frames]
         /\ sink' = "asking"
         /\ UNCHANGED sent

-----------------------------------------------------------------------------
(***************************************************************************)
(* Delivery of the head of the queue, with fFrameSize and the remembered   *)
(* header as they are by then.                                             *)
(***************************************************************************)

\* A frame beyond fMaxSize is not copied at all, and the count of bytes left out
\* starts from the size of the frame before it (unsigned in the code: a negative
\* count stands for the number it wraps to).
Delivery(frame, pres, behind, size) ==
  LET nSize == Len(frame.data) IN
  IF nSize > fMaxSize
    THEN [ start |-> frame.start, pres |-> pres, behind |-> behind,
           data |-> Garbage, size |-> fMaxSize, truncated |-> nSize - size ]
    ELSE [ start |-> frame.start, pres |-> pres, behind |-> behind,
           data |-> frame.data, size |-> nSize, truncated |-> 0 ]

HandOver(q, pres, size) ==
  LET d == Delivery(Head(q), pres, Len(q) - 1, size) IN
  /\ m_qMediaSamples' = Tail(q)
  /\ fFrameSize' = d.size
  /\ delivered' = Append(delivered, d)

\* deliverFrame.  The first frame is stamped with the clock, which is read a
\* second time after the reading that is kept.
DeliverFrame(q, size, header) ==
  /\ \/ /\ ~m_bOffsetSet
        /\ \E t \in ClockTimes, skew \in 0 .. 1 :
             /\ m_tOffsetTime' = ClockTime(t)
             /\ HandOver(q, ClockTime(t + skew), size)
        /\ m_dOffsetTime' = Head(q).start
        /\ m_bOffsetSet' = TRUE
     \/ /\ m_bOffsetSet
        /\ HandOver(q, PresentationTime(Head(q).start), size)
        /\ UNCHANGED timeBase
  /\ Pack(header)

\* addMediaSample of the subsession: into the buffer, out to the source's queue,
\* and on to a sink that waits.
AddMediaSample(s) ==
  LET buf == AddToBuffer(m_pSampleBuffer, s)
      r == Retrieve(buf)
      q == Append(m_qMediaSamples, r.frame)
  IN
  /\ sink # "asking"
  /\ m_pSampleBuffer' = buf
  /\ fLastFrameHeader' = r.header
  /\ IF ~m_bIsPlaying /\ sink = "waiting"
       THEN DeliverFrame(q, r.size, r.header)
       ELSE /\ m_qMediaSamples' = q
            /\ fFrameSize' = r.size
            /\ UNCHANGED <<timeBase, sinkVars>>
  /\ UNCHANGED <<config, m_bIsPlaying>>

\* Mutated form of Await: the source still counts as playing.
AwaitPlaying ==
  /\ sink' = "waiting"
  /\ UNCHANGED <<m_bIsPlaying, m_qMediaSamples, fFrameSize, timeBase, packet, delivered, sent>>

\* doGetNextFrame with nothing queued: addMediaSample is to deliver.
Await ==
  /\ sink' = "waiting"
  /\ m_bIsPlaying' = FALSE
  /\ UNCHANGED <<m_qMediaSamples, fFrameSize, timeBase, packet, delivered, sent>>

\* getNextFrame (live555) and doGetNextFrame.
GetNextFrame ==
  /\ sink = "asking"
  /\ IF m_qMediaSamples = <<>>
       THEN Await
       ELSE /\ m_bIsPlaying' = TRUE
            /\ DeliverFrame(m_qMediaSamples, fFrameSize, fLastFrameHeader)
  /\ UNCHANGED <<config, m_pSampleBuffer, fLastFrameHeader>>

\* The delayed task for the next packet.
BuildNextPacket ==
  /\ sink = "sending"
  /\ sink' = "asking"
  /\ UNCHANGED <<config, sourceVars, packet, delivered, sent>>

-----------------------------------------------------------------------------
\* sourceIsCompatibleWithUs: the sink is made for the channels of the audio
\* descriptor, the AMR source always says 1 (and narrowband, as the sink does).
SourceIsCompatibleWithUs == config.amr => config.audioChannels = 1

\* PLAY: the first packet of a talk spurt has its marker bit set.
StartPlaying ==
  /\ sink = "stopped"
  /\ SourceIsCompatibleWithUs
  /\ sink' = "asking"
  /\ packet' = [NoPacket EXCEPT !.marker = TRUE]
  /\ UNCHANGED <<config, sourceVars, delivered, sent>>

\* Mutated form of StopPlaying: the packet being built is kept and sent.
StopPlayingKeepsPacket ==
  /\ sink \in {"waiting", "sending"}
  /\ sink' = "stopped"
  /\ sent' = IF packet.frames = <<>> THEN sent ELSE Append(sent, packet)
  /\ packet' = NoPacket
  /\ UNCHANGED <<config, sourceVars, delivered>>

\* PAUSE: live555 drops the packet being built and withdraws the request.
StopPlaying ==
  /\ sink \in {"waiting", "sending"}
  /\ sink' = "stopped"
  /\ packet' = NoPacket
  /\ UNCHANGED <<config, sourceVars, delivered, sent>>
=============================================================================
