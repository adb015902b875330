------------------------- MODULE CapturePath_proofs -------------------------
(***************************************************************************)
(* Proofs about CapturePath, for any samples, headers, packet sizes and    *)
(* clocks: AMR packets are complete, and whose header stands in their table*)
(* of contents; the presentation times keep the distances of the start     *)
(* times; every sample becomes one frame, in order and with its own        *)
(* payload, through the in-band header and the sample buffer; and no       *)
(* payload is larger than what its buffer has allocated.                   *)
(***************************************************************************)
EXTENDS CapturePath, SequenceTheorems, WellFoundedInduction, TLAPS

-----------------------------------------------------------------------------
(***************************************************************************)
(* Sequences, of whatever elements.                                        *)
(***************************************************************************)
IsSequence(s) == s \in Seq({s[i] : i \in DOMAIN s})

\* A sequence of some set is a sequence of its own elements.
LEMMA SequenceOfAny ==
  ASSUME NEW S, NEW s \in Seq(S)
  PROVE  IsSequence(s)
  <1>1. Len(s) \in Nat /\ s \in [1 .. Len(s) -> {s[i] : i \in DOMAIN s}]
    OBVIOUS
  <1> QED
    BY <1>1 DEF IsSequence

LEMMA EmptyIsSequence == IsSequence(<<>>) /\ Len(<<>>) = 0
  BY DEF IsSequence

LEMMA Extent ==
  ASSUME NEW s, IsSequence(s)
  PROVE  /\ Len(s) \in Nat /\ DOMAIN s = 1 .. Len(s)
         /\ s # <<>> => Len(s) > 0
         /\ s = <<>> => Len(s) = 0
  BY DEF IsSequence

LEMMA Appended ==
  ASSUME NEW s, IsSequence(s), NEW e
  PROVE  /\ IsSequence(Append(s, e)) /\ Append(s, e) # <<>>
         /\ Len(Append(s, e)) = Len(s) + 1
         /\ \A i \in 1 .. Len(s) : Append(s, e)[i] = s[i]
         /\ Append(s, e)[Len(s) + 1] = e
  <1> DEFINE S == {s[i] : i \in DOMAIN s} \cup {e}
  <1>1. s \in Seq(S) /\ e \in S
    <2>1. Len(s) \in Nat /\ s \in [1 .. Len(s) -> S]
      BY DEF IsSequence
    <2> QED
      BY <2>1
  <1> HIDE DEF S
  <1>2. /\ Append(s, e) \in Seq(S)
        /\ Len(Append(s, e)) = Len(s) + 1
        /\ \A i \in 1 .. Len(s) : Append(s, e)[i] = s[i]
        /\ Append(s, e)[Len(s) + 1] = e
        /\ Append(s, e) # <<>>
    BY <1>1, AppendProperties
  <1> QED
    BY <1>2, SequenceOfAny

LEMMA Shortened ==
  ASSUME NEW s, IsSequence(s), s # <<>>
  PROVE  /\ IsSequence(Tail(s)) /\ Len(Tail(s)) = Len(s) - 1
         /\ \A i \in 1 .. Len(s) - 1 : Tail(s)[i] = s[i + 1]
         /\ Head(s) = s[1]
  <1> DEFINE S == {s[i] : i \in DOMAIN s}
  <1>1. s \in Seq(S)
    BY DEF IsSequence
  <1> HIDE DEF S
  <1>2. /\ Tail(s) \in Seq(S) /\ Len(Tail(s)) = Len(s) - 1
        /\ \A i \in 1 .. Len(s) - 1 : Tail(s)[i] = s[i + 1]
        /\ Head(s) = s[1]
    BY <1>1
  <1> QED
    BY <1>2, SequenceOfAny

-----------------------------------------------------------------------------
(***************************************************************************)
(* The invariant.                                                          *)
(***************************************************************************)
AllSequences ==
  /\ IsSequence(samples) /\ IsSequence(pending) /\ IsSequence(m_qMediaSamples)
  /\ IsSequence(delivered) /\ IsSequence(sent) /\ IsSequence(packet.frames)
  /\ packet = [marker |-> packet.marker, frames |-> packet.frames]

\* The samples are, in order, what was delivered, what is queued and what is pending.
Fits(given, del, q, pend) ==
  /\ Len(del) + Len(q) + Len(pend) = Len(given)
  /\ \A i \in 1 .. Len(del) : del[i].start = given[i].start
  /\ \A i \in 1 .. Len(q) : q[i].start = given[Len(del) + i].start
  /\ \A i \in 1 .. Len(pend) : pend[i] = given[Len(del) + Len(q) + i]

Retrieved == Len(delivered) + Len(m_qMediaSamples)

\* The header an AMR source holds is that of the sample it retrieved last.
HeaderIsNewest ==
  config.amr /\ Retrieved > 0 => fLastFrameHeader = samples[Retrieved].data[1][4]

\* The frames of the packet being built are the last ones delivered.
PacketIsNewest ==
  config.amr =>
    /\ Len(packet.frames) < FramesPerPacket
    /\ \A j \in 1 .. Len(packet.frames) :
         /\ packet.frames[j].frame = Len(delivered) - Len(packet.frames) + j
         /\ packet.frames[j].more = (j < FramesPerPacket)

\* Where the packet being built continues.
PacketContinues ==
  config.amr =>
    /\ sink = "stopped" => packet = NoPacket
    /\ Len(packet.frames) <= Len(delivered)
    /\ sent = <<>> => sink = "stopped" \/ packet.marker
    /\ sent # <<>> =>
         LET last == sent[Len(sent)].frames[FramesPerPacket].frame IN
         /\ last \in Nat /\ last <= Len(delivered) - Len(packet.frames)
         /\ sink = "stopped" \/ packet.marker \/ last = Len(delivered) - Len(packet.frames)

\* The entry of a frame delivered is the header of the last sample in the queue then.
TocOfNewest(f, del, given) ==
  /\ f.frame \in 1 .. Len(del)
  /\ f.frame + del[f.frame].behind \in 1 .. Len(given)
  /\ f.toc = given[f.frame + del[f.frame].behind].data[1][4] % 128

\* TocOwnUnlessBehind, of frames and samples that exist.
TocExists ==
  config.amr =>
    /\ \A n \in DOMAIN sent : \A j \in DOMAIN sent[n].frames :
         TocOfNewest(sent[n].frames[j], delivered, samples)
    /\ \A j \in DOMAIN packet.frames : TocOfNewest(packet.frames[j], delivered, samples)

PathParts ==
  /\ AllSequences
  /\ Fits(samples, delivered, m_qMediaSamples, pending)
  /\ HeaderIsNewest
  /\ TocExists
  /\ PacketIsNewest
  /\ PacketContinues
  /\ PacketsAreComplete

PathInv ==
  /\ config \in Configs
  /\ config.amr => Len(m_pSampleBuffer.payload) = 1
  /\ PathParts

-----------------------------------------------------------------------------
(***************************************************************************)
(* Samples, frames and their order.                                        *)
(***************************************************************************)
\* A sample that is given joins the pending ones.
LEMMA GivenFits ==
  ASSUME NEW given, NEW del, NEW q, NEW pend, NEW s,
         IsSequence(given), IsSequence(del), IsSequence(q), IsSequence(pend),
         Fits(given, del, q, pend)
  PROVE  Fits(Append(given, s), del, q, Append(pend, s))
  <1>1. /\ Len(given) \in Nat /\ Len(del) \in Nat /\ Len(q) \in Nat /\ Len(pend) \in Nat
        /\ Len(Append(given, s)) = Len(given) + 1
        /\ Len(Append(pend, s)) = Len(pend) + 1
        /\ \A i \in 1 .. Len(given) : Append(given, s)[i] = given[i]
        /\ \A i \in 1 .. Len(pend) : Append(pend, s)[i] = pend[i]
        /\ Append(given, s)[Len(given) + 1] = s
        /\ Append(pend, s)[Len(pend) + 1] = s
    BY Extent, Appended
  <1>2. /\ Len(del) + Len(q) + Len(pend) = Len(given)
        /\ \A i \in 1 .. Len(del) : i \in 1 .. Len(given)
        /\ \A i \in 1 .. Len(q) : Len(del) + i \in 1 .. Len(given)
        /\ \A i \in 1 .. Len(pend) : Len(del) + Len(q) + i \in 1 .. Len(given)
    BY <1>1 DEF Fits
  <1>3. ASSUME NEW i \in 1 .. Len(pend) + 1
        PROVE  Append(pend, s)[i] = Append(given, s)[Len(del) + Len(q) + i]
    <2>1. CASE i \in 1 .. Len(pend)
      BY <1>1, <1>2, <2>1 DEF Fits
    <2>2. CASE i = Len(pend) + 1
      <3>1. Len(del) + Len(q) + i = Len(given) + 1
        BY <1>1, <1>2, <2>2
      <3>2. Append(given, s)[Len(del) + Len(q) + i] = s
        BY <3>1, <1>1
      <3>3. Append(pend, s)[i] = s
        BY <2>2, <1>1
      <3> QED
        BY <3>2, <3>3
    <2>3. i \in 1 .. Len(pend) \/ i = Len(pend) + 1
      BY <1>1
    <2> QED
      BY <2>1, <2>2, <2>3
  <1> DEFINE G == Append(given, s)
             P == Append(pend, s)
  <1>4. Len(del) + Len(q) + Len(P) = Len(G)
    BY <1>1, <1>2
  <1>5. \A i \in 1 .. Len(del) : del[i].start = G[i].start
    <2> SUFFICES ASSUME NEW i \in 1 .. Len(del)  PROVE del[i].start = G[i].start
      OBVIOUS
    <2>1. G[i] = given[i] /\ del[i].start = given[i].start
      BY <1>1, <1>2 DEF Fits
    <2> QED
      BY <2>1
  <1>6. \A i \in 1 .. Len(q) : q[i].start = G[Len(del) + i].start
    <2> SUFFICES ASSUME NEW i \in 1 .. Len(q)  PROVE q[i].start = G[Len(del) + i].start
      OBVIOUS
    <2>1. G[Len(del) + i] = given[Len(del) + i] /\ q[i].start = given[Len(del) + i].start
      BY <1>1, <1>2 DEF Fits
    <2> QED
      BY <2>1
  <1>7. \A i \in 1 .. Len(P) : P[i] = G[Len(del) + Len(q) + i]
    BY <1>1, <1>3
  <1> HIDE DEF G, P
  <1>8. Fits(G, del, q, P)
    BY <1>4, <1>5, <1>6, <1>7 DEF Fits
  <1> QED
    BY <1>8 DEF G, P

\* A frame that is retrieved takes the place of the first pending sample.
LEMMA RetrievedFits ==
  ASSUME NEW given, NEW del, NEW q, NEW pend, NEW f,
         IsSequence(del), IsSequence(q), IsSequence(pend), pend # <<>>,
         Fits(given, del, q, pend), f.start = Head(pend).start
  PROVE  Fits(given, del, Append(q, f), Tail(pend))
  <1>1. /\ Len(del) \in Nat /\ Len(q) \in Nat /\ Len(pend) \in Nat /\ Len(pend) > 0
        /\ Len(Append(q, f)) = Len(q) + 1
        /\ \A i \in 1 .. Len(q) : Append(q, f)[i] = q[i]
        /\ Append(q, f)[Len(q) + 1] = f
        /\ Len(Tail(pend)) = Len(pend) - 1
        /\ \A i \in 1 .. Len(pend) - 1 : Tail(pend)[i] = pend[i + 1]
        /\ Head(pend) = pend[1]
    BY Extent, Appended, Shortened
  <1>2. ASSUME NEW i \in 1 .. Len(q) + 1
        PROVE  Append(q, f)[i].start = given[Len(del) + i].start
    <2>1. CASE i \in 1 .. Len(q)
      BY <1>1, <2>1 DEF Fits
    <2>2. CASE i = Len(q) + 1
      <3>1. pend[1] = given[Len(del) + i]
        BY <1>1, <2>2 DEF Fits
      <3> QED
        BY <1>1, <2>2, <3>1
    <2> QED
      BY <1>1, <2>1, <2>2
  <1>3. ASSUME NEW i \in 1 .. Len(pend) - 1
        PROVE  Tail(pend)[i] = given[Len(del) + (Len(q) + 1) + i]
    <2>1. pend[i + 1] = given[Len(del) + Len(q) + (i + 1)]
      BY <1>1 DEF Fits
    <2>2. Len(del) + Len(q) + (i + 1) = Len(del) + (Len(q) + 1) + i
      BY <1>1
    <2> QED
      BY <1>1, <2>1, <2>2
  <1> QED
    BY <1>1, <1>2, <1>3 DEF Fits

\* A frame that is delivered leaves the front of the queue.
LEMMA DeliveredFits ==
  ASSUME NEW given, NEW del, NEW q, NEW pend, NEW d,
         IsSequence(del), IsSequence(q), IsSequence(pend), q # <<>>,
         Fits(given, del, q, pend), d.start = Head(q).start
  PROVE  Fits(given, Append(del, d), Tail(q), pend)
  <1>1. /\ Len(del) \in Nat /\ Len(q) \in Nat /\ Len(pend) \in Nat /\ Len(q) > 0
        /\ Len(Append(del, d)) = Len(del) + 1
        /\ \A i \in 1 .. Len(del) : Append(del, d)[i] = del[i]
        /\ Append(del, d)[Len(del) + 1] = d
        /\ Len(Tail(q)) = Len(q) - 1
        /\ \A i \in 1 .. Len(q) - 1 : Tail(q)[i] = q[i + 1]
        /\ Head(q) = q[1]
    BY Extent, Appended, Shortened
  <1>2. ASSUME NEW i \in 1 .. Len(del) + 1
        PROVE  Append(del, d)[i].start = given[i].start
    <2>1. CASE i \in 1 .. Len(del)
      BY <1>1, <2>1 DEF Fits
    <2>2. CASE i = Len(del) + 1
      <3>1. q[1].start = given[Len(del) + 1].start
        BY <1>1 DEF Fits
      <3> QED
        BY <1>1, <2>2, <3>1
    <2> QED
      BY <1>1, <2>1, <2>2
  <1>3. ASSUME NEW i \in 1 .. Len(q) - 1
        PROVE  Tail(q)[i].start = given[(Len(del) + 1) + i].start
    <2>1. q[i + 1].start = given[Len(del) + (i + 1)].start
      BY <1>1 DEF Fits
    <2>2. Len(del) + (i + 1) = (Len(del) + 1) + i
      BY <1>1
    <2> QED
      BY <1>1, <2>1, <2>2
  <1>4. ASSUME NEW i \in 1 .. Len(pend)
        PROVE  pend[i] = given[(Len(del) + 1) + (Len(q) - 1) + i]
    <2>1. (Len(del) + 1) + (Len(q) - 1) + i = Len(del) + Len(q) + i
      BY <1>1
    <2> QED
      BY <2>1 DEF Fits
  <1> QED
    BY <1>1, <1>2, <1>3, <1>4 DEF Fits

-----------------------------------------------------------------------------
(***************************************************************************)
(* A delivery: one frame leaves the queue, and its entry joins a packet.   *)
(***************************************************************************)
LEMMA Delivers ==
  ASSUME NEW q, NEW size, NEW header, DeliverFrame(q, size, header)
  PROVE  /\ m_qMediaSamples' = Tail(q)
         /\ Pack(header)
         /\ \E d : /\ delivered' = Append(delivered, d)
                   /\ d.start = Head(q).start
                   /\ d.behind = Len(q) - 1
  <1>1. Pack(header) /\ \E pres : HandOver(q, pres, size)
    BY DEF DeliverFrame
  <1>2. PICK pres : HandOver(q, pres, size)
    BY <1>1
  <1> DEFINE d == Delivery(Head(q), pres, Len(q) - 1, size)
  <1>3. m_qMediaSamples' = Tail(q) /\ delivered' = Append(delivered, d)
    BY <1>2 DEF HandOver
  <1>4. d.start = Head(q).start /\ d.behind = Len(q) - 1
    BY DEF Delivery
  <1> HIDE DEF d
  <1> QED
    BY <1>1, <1>3, <1>4

\* The sequences after a step of the sink, and what the new packet is.
LEMMA PackAdds ==
  ASSUME NEW header, Pack(header), AllSequences
  PROVE  LET frames == Append(packet.frames, TocEntry(header)) IN
         /\ IsSequence(sent') /\ IsSequence(packet.frames)'
         /\ (packet = [marker |-> packet.marker, frames |-> packet.frames])'
         /\ \/ /\ PacketFull(frames)
               /\ sent' = Append(sent, [marker |-> packet.marker, frames |-> frames])
               /\ packet' = NoPacket
               /\ sink' = "sending"
            \/ /\ ~PacketFull(frames)
               /\ sent' = sent
               /\ packet' = [marker |-> packet.marker, frames |-> frames]
               /\ sink' = "asking"
  <1> DEFINE frames == Append(packet.frames, TocEntry(header))
             full == [packet EXCEPT !.frames = frames]
  <1>1. IsSequence(frames)
    BY Appended DEF AllSequences
  <1>2. full = [marker |-> packet.marker, frames |-> frames]
    BY DEF AllSequences
  <1>3. CASE PacketFull(frames)
    <2>1. sent' = Append(sent, full) /\ packet' = NoPacket /\ sink' = "sending"
      BY <1>3 DEF Pack
    <2>2. IsSequence(sent')
      BY <2>1, Appended DEF AllSequences
    <2>3. packet'.frames = <<>> /\ packet' = [marker |-> packet'.marker, frames |-> packet'.frames]
      BY <2>1 DEF NoPacket
    <2> QED
      BY <1>2, <1>3, <2>1, <2>2, <2>3, EmptyIsSequence
  <1>4. CASE ~PacketFull(frames)
    <2>1. sent' = sent /\ packet' = [marker |-> packet.marker, frames |-> frames] /\ sink' = "asking"
      BY <1>2, <1>4 DEF Pack
    <2> HIDE DEF frames
    <2>2. packet'.frames = frames /\ packet' = [marker |-> packet'.marker, frames |-> packet'.frames]
      BY <2>1
    <2> QED
      BY <1>1, <1>4, <2>1, <2>2 DEF AllSequences, frames
  <1> QED
    BY <1>3, <1>4

\* Each frame that is packed has an entry of its own; those packed before are kept.
LEMMA DeliveredToc ==
  ASSUME NEW header, NEW d, Pack(header), AllSequences, TocExists,
         delivered' = Append(delivered, d), samples' = samples, config' = config,
         config.amr => /\ Len(delivered) + 1 + d.behind \in 1 .. Len(samples)
                       /\ header = samples[Len(delivered) + 1 + d.behind].data[1][4]
  PROVE  TocExists'
  <1> DEFINE e == TocEntry(header)
             frames == Append(packet.frames, e)
  <1>1. SUFFICES ASSUME config.amr
                 PROVE  /\ \A n \in DOMAIN sent' : \A j \in DOMAIN sent'[n].frames :
                             TocOfNewest(sent'[n].frames[j], delivered', samples)
                        /\ \A j \in DOMAIN packet'.frames : TocOfNewest(packet'.frames[j], delivered', samples)
    BY DEF TocExists
  <1>2. /\ Len(delivered) \in Nat /\ DOMAIN delivered = 1 .. Len(delivered)
        /\ Len(delivered') = Len(delivered) + 1
        /\ \A i \in 1 .. Len(delivered) : delivered'[i] = delivered[i]
        /\ delivered'[Len(delivered) + 1] = d
    BY Appended, Extent DEF AllSequences
  <1>3. /\ Len(packet.frames) \in Nat /\ DOMAIN packet.frames = 1 .. Len(packet.frames)
        /\ DOMAIN frames = 1 .. Len(packet.frames) + 1
        /\ \A j \in 1 .. Len(packet.frames) : frames[j] = packet.frames[j]
        /\ frames[Len(packet.frames) + 1] = e
    BY Appended, Extent DEF AllSequences
  <1>4. ASSUME NEW f, TocOfNewest(f, delivered, samples)
        PROVE  TocOfNewest(f, delivered', samples)
    <2>1. f.frame \in 1 .. Len(delivered') /\ delivered'[f.frame] = delivered[f.frame]
      BY <1>2, <1>4 DEF TocOfNewest
    <2> QED
      BY <1>4, <2>1 DEF TocOfNewest
  <1>5. TocOfNewest(e, delivered', samples)
    <2>1. e.frame = Len(delivered) + 1 /\ e.toc = header % 128
      BY DEF TocEntry
    <2>2. e.frame \in 1 .. Len(delivered') /\ delivered'[e.frame] = d
      BY <1>2, <2>1
    <2> QED
      BY <1>1, <2>1, <2>2 DEF TocOfNewest
  <1> HIDE DEF e
  <1>6. \A j \in DOMAIN frames : TocOfNewest(frames[j], delivered', samples)
    <2> SUFFICES ASSUME NEW j \in DOMAIN frames PROVE TocOfNewest(frames[j], delivered', samples)
      OBVIOUS
    <2>1. CASE j \in 1 .. Len(packet.frames)
      BY <1>1, <1>3, <1>4, <2>1 DEF TocExists
    <2>2. CASE j = Len(packet.frames) + 1
      BY <1>3, <1>5, <2>2
    <2> QED
      BY <1>3, <2>1, <2>2
  <1> HIDE DEF frames
  <1>7. CASE /\ sent' = Append(sent, [marker |-> packet.marker, frames |-> frames])
             /\ packet' = NoPacket
    <2>1. /\ DOMAIN sent' = 1 .. Len(sent) + 1 /\ Len(sent) \in Nat /\ DOMAIN sent = 1 .. Len(sent)
          /\ \A n \in 1 .. Len(sent) : sent'[n] = sent[n]
          /\ sent'[Len(sent) + 1].frames = frames
      BY <1>7, Appended, Extent DEF AllSequences
    <2>2. ASSUME NEW n \in DOMAIN sent', NEW j \in DOMAIN sent'[n].frames
          PROVE  TocOfNewest(sent'[n].frames[j], delivered', samples)
      <3>1. CASE n \in 1 .. Len(sent)
        BY <1>1, <1>4, <2>1, <3>1 DEF TocExists
      <3>2. CASE n = Len(sent) + 1
        BY <1>6, <2>1, <3>2
      <3> QED
        BY <2>1, <3>1, <3>2
    <2>3. DOMAIN packet'.frames = {}
      BY <1>7 DEF NoPacket
    <2> QED
      BY <2>2, <2>3
  <1>8. CASE sent' = sent /\ packet' = [marker |-> packet.marker, frames |-> frames]
    <2>1. packet'.frames = frames
      BY <1>8
    <2>2. \A n \in DOMAIN sent : \A j \in DOMAIN sent[n].frames : TocOfNewest(sent[n].frames[j], delivered', samples)
      BY <1>1, <1>4 DEF TocExists
    <2> QED
      BY <1>6, <1>8, <2>1, <2>2
  <1> QED
    BY <1>7, <1>8, PackAdds DEF e, frames

LEMMA Difference == \A a, b \in Nat : \E c \in Int : c = a - b /\ a = c + b
  <1> SUFFICES ASSUME NEW a \in Nat, NEW b \in Nat PROVE \E c \in Int : c = a - b /\ a = c + b
    OBVIOUS
  <1>1. a - b \in Int /\ a = (a - b) + b
    OBVIOUS
  <1> QED
    BY <1>1

\* The packet being built stays the newest frames, and a full one goes out whole.
LEMMA DeliveredPacket ==
  ASSUME NEW header, NEW d, Pack(header), AllSequences,
         PacketIsNewest, PacketContinues, PacketsAreComplete, sink # "stopped",
         delivered' = Append(delivered, d), config' = config, config.amr \in BOOLEAN
  PROVE  PacketIsNewest' /\ PacketContinues' /\ PacketsAreComplete'
  <1> DEFINE e == TocEntry(header)
             frames == Append(packet.frames, e)
  <1>1. SUFFICES ASSUME config.amr
                 PROVE  PacketIsNewest' /\ PacketContinues' /\ PacketsAreComplete'
    BY DEF PacketIsNewest, PacketContinues, PacketsAreComplete
  <1>2. Len(delivered) \in Nat /\ Len(delivered') = Len(delivered) + 1
    BY Appended, Extent DEF AllSequences
  <1>3. /\ Len(packet.frames) \in Nat /\ DOMAIN packet.frames = 1 .. Len(packet.frames)
        /\ Len(frames) = Len(packet.frames) + 1
        /\ DOMAIN frames = 1 .. Len(packet.frames) + 1
        /\ \A j \in 1 .. Len(packet.frames) : frames[j] = packet.frames[j]
        /\ frames[Len(packet.frames) + 1] = e
    BY Appended, Extent DEF AllSequences
  <1>4. FramesPerPacket \in Nat \ {0} /\ Len(packet.frames) < FramesPerPacket
    BY <1>1, SourceAssumption DEF PacketIsNewest
  <1>5. e.frame = Len(delivered) + 1 /\ e.more = (Len(packet.frames) < FramesPerPacket - 1)
    BY DEF TocEntry, MoreFollow
  <1> HIDE DEF e, frames
  <1>a. PICK D \in Nat, P \in Nat, B \in Int :
          D = Len(delivered) /\ P = Len(packet.frames) /\ B = Len(delivered) - Len(packet.frames) /\ D = B + P
    BY <1>2, <1>3, Difference
  <1>d. D = B + P
    BY <1>a
  <1>6. ASSUME NEW j \in 1 .. P + 1
        PROVE  /\ frames[j].frame = B + j
               /\ frames[j].more = (j < FramesPerPacket)
    <2>1. CASE j \in 1 .. P
      BY <1>a, <1>1, <1>3, <2>1 DEF PacketIsNewest
    <2>2. CASE j = P + 1
      <3>1. (j < FramesPerPacket) = (P < FramesPerPacket - 1)
        BY <1>a, <1>3, <1>4, <2>2
      <3>2. D + 1 = B + j
        BY <1>d, <2>2
      <3> QED
        BY <1>a, <1>3, <1>5, <2>2, <3>1, <3>2
    <2>3. j \in 1 .. P \/ j = P + 1
      BY <1>a, <1>3
    <2> QED
      BY <2>1, <2>2, <2>3
  <1>b. frames[1].frame = B + 1
    <2>1. 1 \in 1 .. P + 1
      BY <1>a
    <2> QED
      BY <1>a, <1>6, <2>1
  <1>7. PacketFull(frames) <=> P + 1 = FramesPerPacket
    BY <1>a, <1>1, <1>3 DEF PacketFull
  <1>8. CASE /\ PacketFull(frames)
             /\ sent' = Append(sent, [marker |-> packet.marker, frames |-> frames])
             /\ packet' = NoPacket
             /\ sink' = "sending"
    <2>1. /\ Len(sent) \in Nat /\ DOMAIN sent = 1 .. Len(sent)
          /\ Len(sent') = Len(sent) + 1 /\ DOMAIN sent' = 1 .. Len(sent) + 1 /\ sent' # <<>>
          /\ \A n \in 1 .. Len(sent) : sent'[n] = sent[n]
          /\ sent'[Len(sent) + 1].frames = frames
          /\ sent'[Len(sent) + 1].marker = packet.marker
          /\ sent # <<>> => Len(sent) > 0
          /\ sent = <<>> => Len(sent) = 0
      BY <1>8, Appended, Extent DEF AllSequences
    <2>2. P + 1 = FramesPerPacket
      BY <1>7, <1>8
    <2>3. packet'.frames = <<>> /\ Len(packet'.frames) = 0 /\ packet' = NoPacket
      BY <1>8 DEF NoPacket
    <2>4. PacketIsNewest'
      BY <1>4, <2>3 DEF PacketIsNewest
    <2>5. frames[FramesPerPacket].frame = Len(delivered')
      BY <1>a, <1>2, <1>3, <1>5, <2>2
    <2>6. PacketContinues'
      <3>1. Len(delivered') \in Nat /\ Len(delivered') <= Len(delivered') - 0
        BY <1>a, <1>2
      <3>2. sent'[Len(sent')].frames[FramesPerPacket].frame = Len(delivered')
        BY <2>1, <2>5
      <3> QED
        BY <1>a, <1>2, <2>1, <2>3, <3>1, <3>2 DEF PacketContinues
    <2>7. /\ Len(frames) = FramesPerPacket
          /\ \A j \in DOMAIN frames :
               frames[j].more = (j < FramesPerPacket) /\ frames[j].frame = frames[1].frame + j - 1
      <3>2. ASSUME NEW j \in DOMAIN frames
            PROVE  frames[j].more = (j < FramesPerPacket) /\ frames[j].frame = frames[1].frame + j - 1
        <4>1. /\ frames[j].frame = B + j
              /\ frames[j].more = (j < FramesPerPacket)
          BY <1>a, <1>3, <1>6
        <4>2. j \in Nat
          BY <1>a, <1>3
        <4>3. B + j = (B + 1) + j - 1
          BY <4>2
        <4> QED
          BY <1>a, <1>b, <4>1, <4>3
      <3> QED
        BY <1>a, <1>3, <2>2, <3>2
    <2>8. ASSUME NEW n \in DOMAIN sent'
          PROVE  LET fs == sent'[n].frames IN
                 /\ Len(fs) = FramesPerPacket
                 /\ \A j \in DOMAIN fs :
                      /\ fs[j].more = (j < FramesPerPacket)
                      /\ fs[j].frame = fs[1].frame + j - 1
                 /\ n = 1 => sent'[n].marker
                 /\ n > 1 => LET last == sent'[n - 1].frames[FramesPerPacket].frame IN
                               IF sent'[n].marker THEN fs[1].frame > last
                                                  ELSE fs[1].frame = last + 1
      <3>1. CASE n \in 1 .. Len(sent)
        <4>1. sent'[n] = sent[n] /\ (n > 1 => sent'[n - 1] = sent[n - 1])
          BY <2>1, <3>1
        <4>2. n \in DOMAIN sent
          BY <2>1, <3>1
        <4> QED
          BY <1>1, <4>1, <4>2 DEF PacketsAreComplete
      <3>2. CASE n = Len(sent) + 1
        <4>1. n = 1 => sent'[n].marker
          BY <1>a, <1>1, <2>1, <3>2 DEF PacketContinues
        <4>2. ASSUME n > 1
              PROVE  LET last == sent'[n - 1].frames[FramesPerPacket].frame IN
                     IF sent'[n].marker THEN frames[1].frame > last ELSE frames[1].frame = last + 1
          <5> DEFINE last == sent[Len(sent)].frames[FramesPerPacket].frame
          <5>1. sent # <<>> /\ sent'[n - 1] = sent[Len(sent)]
            BY <2>1, <3>2, <4>2
          <5>2. /\ last <= B
                /\ packet.marker \/ last = B
            BY <1>a, <1>1, <5>1 DEF PacketContinues
          <5>3. last \in Nat
            BY <1>a, <1>1, <5>1 DEF PacketContinues
          <5>4. sent'[n].marker = packet.marker /\ sent'[n - 1].frames[FramesPerPacket].frame = last
            BY <2>1, <3>2, <5>1
          <5> HIDE DEF last
          <5>5. frames[1].frame > last
            BY <1>b, <5>2, <5>3
          <5>6. ~packet.marker => frames[1].frame = last + 1
            BY <1>b, <5>2
          <5> QED
            BY <5>4, <5>5, <5>6
        <4> QED
          BY <2>1, <2>7, <3>2, <4>1, <4>2
      <3> QED
        BY <2>1, <3>1, <3>2
    <2>9. PacketsAreComplete'
      BY <2>8 DEF PacketsAreComplete
    <2> QED
      BY <2>4, <2>6, <2>9
  <1>9. CASE /\ ~PacketFull(frames)
             /\ sent' = sent
             /\ packet' = [marker |-> packet.marker, frames |-> frames]
             /\ sink' = "asking"
    <2>1. /\ packet'.frames = frames /\ packet'.marker = packet.marker
          /\ Len(packet'.frames) = P + 1
      BY <1>a, <1>3, <1>9
    <2>2. P + 1 < FramesPerPacket
      BY <1>a, <1>3, <1>4, <1>7, <1>9
    <2>3. (D + 1) - (P + 1) = B
      BY <1>a
    <2>4. ASSUME NEW j \in 1 .. P + 1
          PROVE  /\ frames[j].frame = (D + 1) - (P + 1) + j
                 /\ frames[j].more = (j < FramesPerPacket)
      BY <1>6, <2>3
    <2>8. Len(delivered') = D + 1
      BY <1>a, <1>2
    <2>5. PacketIsNewest'
      BY <2>1, <2>2, <2>4, <2>8 DEF PacketIsNewest
    <2>6. PacketContinues'
      <3>1. P + 1 <= D + 1
        BY <1>a, <1>1, <1>2, <1>3 DEF PacketContinues
      <3> QED
        BY <1>a, <1>1, <1>2, <1>9, <2>1, <2>3, <3>1 DEF PacketContinues
    <2>7. PacketsAreComplete'
      BY <1>9 DEF PacketsAreComplete
    <2> QED
      BY <2>5, <2>6, <2>7
  <1> QED
    BY <1>8, <1>9, PackAdds DEF e, frames

-----------------------------------------------------------------------------
(***************************************************************************)
(* The steps.                                                              *)
(***************************************************************************)
\* A delivery from a queue that is complete, under the header of its last sample.
LEMMA DeliveryKeeps ==
  ASSUME NEW q, NEW size, NEW header, DeliverFrame(q, size, header),
         config \in Configs, IsSequence(q), q # <<>>, IsSequence(pending'),
         AllSequences, TocExists, PacketIsNewest, PacketContinues, PacketsAreComplete,
         sink # "stopped", UNCHANGED <<config, samples>>,
         Fits(samples, delivered, q, pending'), fLastFrameHeader' = header,
         config.amr => header = samples[Len(delivered) + Len(q)].data[1][4]
  PROVE  PathParts'
  <1>1. m_qMediaSamples' = Tail(q) /\ Pack(header)
    BY Delivers
  <1>2. PICK d : delivered' = Append(delivered, d) /\ d.start = Head(q).start /\ d.behind = Len(q) - 1
    BY Delivers
  <1>3. Fits(samples', delivered', m_qMediaSamples', pending')
    BY <1>1, <1>2, DeliveredFits DEF AllSequences
  <1>4. AllSequences'
    BY <1>1, <1>2, PackAdds, Appended, Shortened DEF AllSequences
  <1>5. /\ Len(delivered) \in Nat /\ Len(q) \in Nat /\ Len(q) > 0
        /\ Len(samples) \in Nat /\ Len(pending') \in Nat
        /\ Len(delivered') = Len(delivered) + 1 /\ Len(m_qMediaSamples') = Len(q) - 1
    BY <1>1, <1>2, Extent, Appended, Shortened DEF AllSequences
  <1>6. Len(delivered) + 1 + d.behind = Len(delivered) + Len(q)
    BY <1>2, <1>5
  <1>7. Len(delivered) + Len(q) \in 1 .. Len(samples)
    BY <1>5 DEF Fits
  <1>8. TocExists'
    BY <1>1, <1>2, <1>6, <1>7, DeliveredToc
  <1>9. PacketIsNewest' /\ PacketContinues' /\ PacketsAreComplete'
    BY <1>1, <1>2, DeliveredPacket, PathAssumption
  <1>10. HeaderIsNewest'
    <2>1. Retrieved' = Len(delivered) + Len(q)
      BY <1>5 DEF Retrieved
    <2> QED
      BY <2>1 DEF HeaderIsNewest
  <1> QED
    BY <1>3, <1>4, <1>8, <1>9, <1>10 DEF PathParts

\* What is retrieved has the start time and, if AMR, the header of the sample added.
LEMMA RetrievedSample ==
  ASSUME NEW s, config.amr => Len(m_pSampleBuffer.payload) = 1
  PROVE  LET buf == AddToBuffer(m_pSampleBuffer, s) IN
         /\ Retrieve(buf).frame.start = s.start
         /\ config.amr => Len(buf.payload) = 1 /\ Retrieve(buf).header = s.data[1][4]
  <1> DEFINE buf == AddToBuffer(m_pSampleBuffer, s)
  <1>1. buf.start = s.start
    BY DEF AddToBuffer, AddToSingle, AddToMulti
  <1>2. config.amr => buf.payload = <<s.data>>
    BY DEF AddToBuffer, AddToSingle
  <1> HIDE DEF buf
  <1>3. NextFrame(buf).start = s.start /\ [NextFrame(buf) EXCEPT !.data = Tail(@)].start = s.start
    BY <1>1 DEF NextFrame
  <1>4. Retrieve(buf).frame.start = s.start
    BY <1>3 DEF Retrieve, RetrieveAmr, RetrievePlain
  <1>5. config.amr => Len(buf.payload) = 1 /\ Retrieve(buf).header = s.data[1][4]
    BY <1>2 DEF Retrieve, RetrieveAmr, AmrHeader
  <1> QED
    BY <1>4, <1>5 DEF buf

\* A sample is given to the packet manager.
LEMMA GiveStep ==
  ASSUME NEW s, PathInv, Give(s), UNCHANGED deviceVars
  PROVE  PathInv'
  <1> USE DEF PathInv, PathParts, deviceVars, sourceVars, sinkVars
  <1>1. /\ Len(samples) \in Nat /\ Len(samples') = Len(samples) + 1
        /\ \A i \in 1 .. Len(samples) : samples'[i] = samples[i]
    BY Appended, Extent DEF Give, AllSequences
  <1>2. AllSequences'
    BY Appended DEF Give, AllSequences
  <1>3. Fits(samples, delivered, m_qMediaSamples, pending)'
    BY GivenFits DEF Give, AllSequences
  <1>4. HeaderIsNewest'
    <2>1. Retrieved' = Retrieved
      BY DEF Retrieved
    <2>2. Retrieved \in Nat /\ Retrieved <= Len(samples)
      BY <1>1, Extent DEF Retrieved, Fits, AllSequences
    <2> QED
      BY <1>1, <2>1, <2>2 DEF HeaderIsNewest
  <1>5. TocExists'
    <2>1. ASSUME NEW f, TocOfNewest(f, delivered, samples)
          PROVE  TocOfNewest(f, delivered, samples')
      BY <1>1, <2>1 DEF TocOfNewest
    <2> QED
      BY <2>1 DEF TocExists
  <1>6. PacketIsNewest' /\ PacketContinues' /\ PacketsAreComplete'
    BY DEF PacketIsNewest, PacketContinues, PacketsAreComplete
  <1> QED
    BY <1>2, <1>3, <1>4, <1>5, <1>6

\* The event loop takes a sample: it is queued, or delivered at once.
LEMMA PollStep ==
  ASSUME PathInv, Poll
  PROVE  PathInv'
  <1> DEFINE s == Head(pending)
             buf == AddToBuffer(m_pSampleBuffer, s)
             r == Retrieve(buf)
             q == Append(m_qMediaSamples, r.frame)
  <1> USE DEF PathInv, PathParts
  <1>1. /\ sink # "asking" /\ m_pSampleBuffer' = buf /\ fLastFrameHeader' = r.header
        /\ UNCHANGED <<config, m_bIsPlaying, samples>>
        /\ pending # <<>> /\ pending' = Tail(pending)
        /\ IF ~m_bIsPlaying /\ sink = "waiting"
             THEN DeliverFrame(q, r.size, r.header)
             ELSE m_qMediaSamples' = q /\ UNCHANGED sinkVars
    BY DEF Poll, AddMediaSample
  <1>2. /\ r.frame.start = s.start
        /\ config.amr => Len(buf.payload) = 1 /\ r.header = s.data[1][4]
    BY RetrievedSample
  <1> HIDE DEF r, buf
  <1>3. /\ IsSequence(q) /\ q # <<>> /\ Len(q) = Len(m_qMediaSamples) + 1
        /\ IsSequence(pending')
    BY <1>1, Appended, Shortened DEF AllSequences
  <1>4. Fits(samples, delivered, q, pending')
    BY <1>1, <1>2, RetrievedFits DEF AllSequences
  <1> HIDE DEF q
  <1>5. config.amr => r.header = samples[Len(delivered) + Len(q)].data[1][4]
    <2>1. s = pending[1] /\ Len(pending) \in Nat /\ Len(pending) > 0
      BY <1>1, Extent, Shortened DEF AllSequences
    <2>2. s = samples[Len(delivered) + Len(m_qMediaSamples) + 1]
      BY <2>1 DEF Fits
    <2>3. Len(delivered) + Len(m_qMediaSamples) + 1 = Len(delivered) + Len(q)
      BY <1>3, Extent DEF AllSequences
    <2> QED
      BY <1>2, <2>2, <2>3
  <1>6. (config \in Configs)' /\ (config.amr => Len(m_pSampleBuffer.payload) = 1)'
    BY <1>1, <1>2
  <1>7. CASE ~m_bIsPlaying /\ sink = "waiting"
    BY <1>1, <1>3, <1>4, <1>5, <1>6, <1>7, DeliveryKeeps
  <1>8. CASE ~(~m_bIsPlaying /\ sink = "waiting")
    <2>1. m_qMediaSamples' = q /\ UNCHANGED <<sink, packet, delivered, sent>>
      BY <1>1, <1>8 DEF sinkVars
    <2>2. AllSequences' /\ TocExists' /\ PacketIsNewest' /\ PacketContinues' /\ PacketsAreComplete'
      BY <1>1, <1>3, <2>1
         DEF AllSequences, TocExists, PacketIsNewest, PacketContinues, PacketsAreComplete
    <2>3. HeaderIsNewest'
      BY <1>1, <1>5, <2>1 DEF HeaderIsNewest, Retrieved
    <2>4. Fits(samples, delivered, m_qMediaSamples, pending)'
      BY <1>1, <1>4, <2>1
    <2> QED
      BY <1>6, <2>2, <2>3, <2>4
  <1> QED
    BY <1>7, <1>8

\* The sink asks: it is given the front of the queue, or waits.
LEMMA AskStep ==
  ASSUME PathInv, Ask
  PROVE  PathInv'
  <1> USE DEF PathInv, PathParts
  <1>1. /\ sink = "asking" /\ UNCHANGED <<config, m_pSampleBuffer, fLastFrameHeader, samples, pending>>
        /\ IF m_qMediaSamples = <<>>
             THEN Await
             ELSE DeliverFrame(m_qMediaSamples, fFrameSize, fLastFrameHeader)
    BY DEF Ask, GetNextFrame
  <1>2. CASE m_qMediaSamples = <<>>
    <2>1. sink' = "waiting" /\ UNCHANGED <<m_qMediaSamples, packet, delivered, sent>>
      BY <1>1, <1>2 DEF Await
    <2> QED
      BY <1>1, <2>1
         DEF AllSequences, TocExists, PacketIsNewest, PacketContinues, PacketsAreComplete,
             HeaderIsNewest, Retrieved
  <1>3. CASE m_qMediaSamples # <<>>
    <2>1. Len(delivered) + Len(m_qMediaSamples) > 0
      BY <1>3, Extent DEF AllSequences
    <2>2. config.amr => fLastFrameHeader = samples[Len(delivered) + Len(m_qMediaSamples)].data[1][4]
      BY <2>1 DEF HeaderIsNewest, Retrieved
    <2>3. IsSequence(m_qMediaSamples) /\ IsSequence(pending')
      BY <1>1 DEF AllSequences
    <2>4. PathParts'
      BY <1>1, <1>3, <2>2, <2>3, DeliveryKeeps
    <2> QED
      BY <1>1, <2>4
  <1> QED
    BY <1>2, <1>3

\* A sink that starts, stops or asks on keeps the queue and drops at most its packet.
LEMMA SinkStep ==
  ASSUME PathInv, Play \/ Pause \/ SendNext
  PROVE  PathInv'
  <1> USE DEF PathInv, PathParts
  <1>1. UNCHANGED <<config, sourceVars, delivered, sent, samples, pending>>
    BY DEF Play, Pause, SendNext, StartPlaying, StopPlaying, BuildNextPacket
  <1>2. \/ packet' = packet /\ sink # "stopped" /\ sink' # "stopped"
        \/ packet' = [marker |-> FALSE, frames |-> <<>>] /\ sink' = "stopped"
        \/ packet' = [marker |-> TRUE, frames |-> <<>>] /\ sink' # "stopped"
    BY DEF Play, Pause, SendNext, StartPlaying, StopPlaying, BuildNextPacket, NoPacket
  <1>3. packet' = packet \/ (packet'.frames = <<>> /\ packet' = [marker |-> packet'.marker, frames |-> <<>>])
    BY <1>2
  <1>4. AllSequences' /\ Fits(samples, delivered, m_qMediaSamples, pending)' /\ HeaderIsNewest'
    BY <1>1, <1>3, EmptyIsSequence DEF AllSequences, HeaderIsNewest, Retrieved, sourceVars
  <1>5. TocExists'
    BY <1>1, <1>3 DEF TocExists
  <1>6. PacketIsNewest'
    BY <1>1, <1>3, SourceAssumption DEF PacketIsNewest
  <1>7. PacketsAreComplete'
    BY <1>1 DEF PacketsAreComplete
  <1>8. PacketContinues'
    <2>1. Len(delivered) \in Nat /\ Len(packet.frames) \in Nat
      BY Extent DEF AllSequences
    <2>2. CASE packet' = packet /\ sink # "stopped" /\ sink' # "stopped"
      BY <1>1, <2>2 DEF PacketContinues
    <2>3. CASE packet' = NoPacket /\ sink' = "stopped"
      <3>1. packet'.frames = <<>> /\ Len(packet'.frames) = 0
        BY <2>3 DEF NoPacket
      <3> QED
        BY <1>1, <2>1, <2>3, <3>1 DEF PacketContinues
    <2>4. CASE packet' = [marker |-> TRUE, frames |-> <<>>] /\ sink' # "stopped"
      <3>1. packet'.frames = <<>> /\ Len(packet'.frames) = 0 /\ packet'.marker
        BY <2>4
      <3> QED
        BY <1>1, <2>1, <2>4, <3>1 DEF PacketContinues
    <2> QED
      BY <1>2, <2>2, <2>3, <2>4 DEF NoPacket
  <1> QED
    BY <1>1, <1>4, <1>5, <1>6, <1>7, <1>8 DEF sourceVars

LEMMA PathInitial == Init => PathInv
  <1> SUFFICES ASSUME Init PROVE PathInv
    OBVIOUS
  <1> USE DEF Init, DeviceInit
  <1>1. config \in Configs
    OBVIOUS
  <1>2. config.amr => Len(m_pSampleBuffer.payload) = 1
    BY PathAssumption DEF NewBuffer
  <1>3. packet = [marker |-> FALSE, frames |-> <<>>] /\ packet.frames = <<>>
    BY DEF NoPacket
  <1>4. AllSequences
    BY <1>3, EmptyIsSequence DEF AllSequences
  <1>5. Fits(samples, delivered, m_qMediaSamples, pending)
    BY DEF Fits
  <1>6. HeaderIsNewest
    BY DEF HeaderIsNewest, Retrieved
  <1>7. TocExists
    BY <1>3 DEF TocExists
  <1>8. PacketIsNewest /\ PacketContinues
    BY <1>3, SourceAssumption DEF PacketIsNewest, PacketContinues
  <1>9. PacketsAreComplete
    BY DEF PacketsAreComplete
  <1> QED
    BY <1>1, <1>2, <1>4, <1>5, <1>6, <1>7, <1>8, <1>9 DEF PathInv, PathParts

\* PathInv holds of every state: one step per action.
THEOREM PathInvariant == Spec => []PathInv
  <1>1. PathInv /\ [Next]_vars => PathInv'
    <2> SUFFICES ASSUME PathInv, [Next]_vars PROVE PathInv'
      OBVIOUS
    <2>1. CASE Capture
      BY <2>1, GiveStep DEF Capture
    <2>2. CASE Start
      BY <2>2, GiveStep DEF Start, Generated
    <2>3. CASE TimeoutHandler
      BY <2>3, GiveStep DEF TimeoutHandler, Generated
    <2>4. CASE Expiry \/ Stop \/ UNCHANGED vars
      <3>1. UNCHANGED <<deviceVars, samples, pending>>
        BY <2>4 DEF Expiry, Stop, vars
      <3> QED
        BY <3>1 DEF PathInv, PathParts, deviceVars, sourceVars, sinkVars, AllSequences,
                    HeaderIsNewest, Retrieved, TocExists, PacketIsNewest, PacketContinues,
                    PacketsAreComplete
    <2>5. CASE Poll
      BY <2>5, PollStep
    <2>6. CASE Ask
      BY <2>6, AskStep
    <2>7. CASE Play \/ Pause \/ SendNext
      BY <2>7, SinkStep
    <2> QED
      BY <2>1, <2>2, <2>3, <2>4, <2>5, <2>6, <2>7 DEF Next
  <1> QED
    BY PathInitial, <1>1, PTL DEF Spec

-----------------------------------------------------------------------------
(***************************************************************************)
(* The theorems.                                                           *)
(***************************************************************************)

\* LiveAMRAudioRTPSink::doSpecialFrameHandling: the entry of a frame in the table of
\* contents is the header of the newest frame in the queue when the frame is packed,
\* hence its own if it was alone there, for any headers, pauses and packet sizes.
THEOREM TocFollowsQueue == Spec => []TocOwnUnlessBehind
  <1>1. PathInv => TocOwnUnlessBehind
    <2> SUFFICES ASSUME PathInv, config.amr, NEW f \in PackedFrames
                 PROVE  f.toc = HeaderOf(f.frame + delivered[f.frame].behind)
      BY DEF TocOwnUnlessBehind
    <2>1. \/ \E n \in DOMAIN sent : \E j \in DOMAIN sent[n].frames : f = sent[n].frames[j]
          \/ \E j \in DOMAIN packet.frames : f = packet.frames[j]
      <3> DEFINE Of(n) == {sent[n].frames[j] : j \in DOMAIN sent[n].frames}
                 sets == {Of(n) : n \in DOMAIN sent}
                 own == {packet.frames[j] : j \in DOMAIN packet.frames}
      <3>1. f \in UNION sets \/ f \in own
        <4>1. PackedFrames = (UNION sets) \cup own
          BY DEF PackedFrames
        <4> HIDE DEF sets, own
        <4> QED
          BY <4>1
      <3>2. f \in UNION sets => \E n \in DOMAIN sent : f \in Of(n)
        <4>1. f \in UNION sets => \E S \in sets : f \in S
          OBVIOUS
        <4>2. \A S \in sets : \E n \in DOMAIN sent : S = Of(n)
          OBVIOUS
        <4> QED
          BY <4>1, <4>2
      <3> QED
        BY <3>1, <3>2
    <2>2. TocOfNewest(f, delivered, samples)
      BY <2>1 DEF PathInv, PathParts, TocExists
    <2> QED
      BY <2>2 DEF TocOfNewest, HeaderOf
  <1> QED
    BY PathInvariant, <1>1, PTL

\* frameCanAppearAfterPacketStart and the F bits: every AMR packet is full, counts
\* down its frames and continues the one before it, unless it begins a talk spurt.
THEOREM PacketsComplete == Spec => []PacketsAreComplete
  <1>1. PathInv => PacketsAreComplete
    BY DEF PathInv, PathParts
  <1> QED
    BY PathInvariant, <1>1, PTL

-----------------------------------------------------------------------------
(***************************************************************************)
(* Presentation times.                                                     *)
(***************************************************************************)
\* A frame is stamped with the first clock, advanced by what is kept of its distance to
\* the first frame; only the first may be stamped later.
Stamped(i) ==
  LET d == delivered[i] IN
  /\ d.start \in Int
  /\ \E skew \in {0, 1} :
       /\ Instant(d.pres) = Instant(m_tOffsetTime) + Elapsed(d.start) + skew
       /\ skew = 0 \/ (i = 1 /\ d.start = m_dOffsetTime)

TimeInv ==
  /\ m_bOffsetSet \in BOOLEAN
  /\ m_dLastTimestamp \in Nat
  /\ \A i \in 1 .. Len(samples) : samples[i].start \in Int
  /\ ~m_bOffsetSet => Len(delivered) = 0
  /\ m_bOffsetSet =>
       /\ Len(delivered) > 0
       /\ m_dOffsetTime \in Int
       /\ m_tOffsetTime \in TimeVal
       /\ \A i \in 1 .. Len(delivered) : Stamped(i)

LEMMA InstantIsInt == ASSUME NEW t \in TimeVal PROVE Instant(t) \in Int
  BY SourceAssumption DEF Instant, TimeVal

\* A reading of the clock, taken apart and put together again.
LEMMA ClockInstant ==
  ASSUME NEW t \in Nat
  PROVE  ClockTime(t) \in TimeVal /\ Instant(ClockTime(t)) = t
  <1> DEFINE q == t \div TicksPerSecond
             r == t % TicksPerSecond
  <1>1. q \in Int /\ r \in Int /\ t = TicksPerSecond * q + r
    BY SourceAssumption
  <1>2. ClockTime(t) = [sec |-> q, usec |-> r]
    BY DEF ClockTime
  <1> HIDE DEF q, r
  <1> QED
    BY <1>1, <1>2, SourceAssumption DEF TimeVal, Instant

\* A distance loses at most a tick, towards 0, and none if it is 0.
LEMMA ElapsedOf ==
  ASSUME NEW start \in Int, m_dOffsetTime \in Int
  PROVE  /\ Elapsed(start) \in Int
         /\ \/ Elapsed(start) = start - m_dOffsetTime
            \/ start - m_dOffsetTime > 0 /\ Elapsed(start) = (start - m_dOffsetTime) - 1
            \/ start - m_dOffsetTime < 0 /\ Elapsed(start) = (start - m_dOffsetTime) + 1
  <1> DEFINE d == start - m_dOffsetTime
  <1>1. d \in Int
    OBVIOUS
  <1>2. \/ Elapsed(start) = d
        \/ d # 0 /\ d > 0 /\ Elapsed(start) = d - 1
        \/ d # 0 /\ ~(d > 0) /\ Elapsed(start) = d + 1
    <2>1. Elapsed(start) =
            IF <<start, m_dOffsetTime>> \notin FallsShort \/ d = 0 THEN d
            ELSE IF d > 0 THEN d - 1 ELSE d + 1
      BY DEF Elapsed
    <2> HIDE DEF d
    <2> QED
      BY <2>1, Zenon
  <1> QED
    BY <1>1, <1>2

\* The later of two frames has not come out as the earlier one.
LEMMA ElapsedInOrder ==
  ASSUME NEW a \in Int, NEW b \in Int, m_dOffsetTime \in Int, a <= b
  PROVE  Elapsed(a) <= Elapsed(b)
  <1>1. CASE a = b
    BY <1>1, ElapsedOf
  <1>2. CASE a # b
    <2>1. (a - m_dOffsetTime) + 1 <= b - m_dOffsetTime
      BY <1>2
    <2> HIDE DEF Elapsed
    <2> QED
      BY <2>1, ElapsedOf
  <1> QED
    BY <1>1, <1>2

\* The whole seconds taken off in one field come back in the other.
LEMMA AdvancedInstant ==
  ASSUME NEW start \in Int, m_dOffsetTime \in Int, m_tOffsetTime \in TimeVal
  PROVE  Instant(PresentationTime(start)) = Instant(m_tOffsetTime) + Elapsed(start)
  <1> DEFINE d == Elapsed(start)
             w == WholeSeconds(d)
  <1>1. TicksPerSecond \in Int /\ d \in Int /\ w \in Int
    BY SourceAssumption, ElapsedOf DEF WholeSeconds
  <1>2. PICK s \in Int, u \in Int : m_tOffsetTime = [sec |-> s, usec |-> u]
    BY DEF TimeVal
  <1>3. PresentationTime(start) = [sec |-> s + w, usec |-> u + (d - w * TicksPerSecond)]
    BY <1>2 DEF PresentationTime
  <1>4. Instant(m_tOffsetTime) = s * TicksPerSecond + u
    BY <1>2 DEF Instant
  <1> HIDE DEF w, d
  <1>5. Instant(PresentationTime(start)) = (s + w) * TicksPerSecond + (u + (d - w * TicksPerSecond))
    BY <1>3 DEF Instant
  <1>6. (s + w) * TicksPerSecond = s * TicksPerSecond + w * TicksPerSecond
    BY <1>1
  <1>7. Instant(PresentationTime(start)) = Instant(m_tOffsetTime) + d
    BY <1>1, <1>4, <1>5, <1>6
  <1> QED
    BY <1>7 DEF d

\* The first delivery sets the time base; later ones are stamped from it.
LEMMA DeliveryStamps ==
  ASSUME NEW q, NEW size, NEW header, DeliverFrame(q, size, header), TimeInv,
         IsSequence(delivered), Head(q).start \in Int,
         UNCHANGED <<samples, m_dLastTimestamp>>
  PROVE  TimeInv'
  <1>1. PICK pres : /\ HandOver(q, pres, size)
                    /\ \/ /\ ~m_bOffsetSet
                          /\ m_bOffsetSet'
                          /\ m_dOffsetTime' = Head(q).start
                          /\ \E t \in ClockTimes, skew \in 0 .. 1 :
                               m_tOffsetTime' = ClockTime(t) /\ pres = ClockTime(t + skew)
                       \/ /\ m_bOffsetSet
                          /\ pres = PresentationTime(Head(q).start)
                          /\ UNCHANGED timeBase
    BY DEF DeliverFrame
  <1> DEFINE d == Delivery(Head(q), pres, Len(q) - 1, size)
  <1>2. delivered' = Append(delivered, d)
    BY <1>1 DEF HandOver
  <1>3. d.start = Head(q).start /\ d.pres = pres
    BY DEF Delivery
  <1> HIDE DEF d
  <1>4. /\ Len(delivered) \in Nat /\ Len(delivered') = Len(delivered) + 1
        /\ \A i \in 1 .. Len(delivered) : delivered'[i] = delivered[i]
        /\ delivered'[Len(delivered) + 1] = d
    BY <1>2, Appended, Extent
  <1>5. CASE ~m_bOffsetSet
    <2>1. PICK t \in Nat, skew \in {0, 1} : m_tOffsetTime' = ClockTime(t) /\ pres = ClockTime(t + skew)
      BY <1>1, <1>5, SourceAssumption
    <2>2. /\ m_tOffsetTime' \in TimeVal /\ Instant(m_tOffsetTime') = t
          /\ Instant(pres) = t + skew
      <3>1. t + skew \in Nat
        OBVIOUS
      <3> QED
        BY <2>1, <3>1, ClockInstant
    <2>3. m_bOffsetSet' /\ m_dOffsetTime' = d.start
      BY <1>1, <1>3, <1>5
    <2>4. Len(delivered') = 1 /\ delivered'[1] = d
      BY <1>4, <1>5 DEF TimeInv
    <2>5. Stamped(1)'
      <3>1. Elapsed(d.start)' = 0
        BY <1>3, <2>3 DEF Elapsed
      <3>2. Instant(d.pres) = Instant(m_tOffsetTime)' + 0 + skew
        BY <1>3, <2>2
      <3> QED
        BY <1>3, <2>3, <2>4, <3>1, <3>2 DEF Stamped, Instant
    <2> QED
      BY <1>3, <2>2, <2>3, <2>4, <2>5 DEF TimeInv
  <1>6. CASE m_bOffsetSet
    <2>1. pres = PresentationTime(d.start) /\ UNCHANGED <<m_bOffsetSet, m_dOffsetTime, m_tOffsetTime>>
      BY <1>1, <1>3, <1>6 DEF timeBase
    <2>2. Instant(d.pres) = Instant(m_tOffsetTime) + Elapsed(d.start)
      BY <1>3, <1>6, <2>1, AdvancedInstant DEF TimeInv
    <2>3. Instant(m_tOffsetTime) \in Int /\ Elapsed(d.start) \in Int
      BY <1>3, <1>6, InstantIsInt, ElapsedOf DEF TimeInv
    <2>a. \A start : Elapsed(start)' = Elapsed(start)
      BY <2>1 DEF Elapsed
    <2>4. ASSUME NEW i \in 1 .. Len(delivered')
          PROVE  Stamped(i)'
      <3>1. CASE i \in 1 .. Len(delivered)
        <4>1. Stamped(i) /\ delivered'[i] = delivered[i]
          BY <1>4, <1>6, <3>1 DEF TimeInv
        <4> QED
          BY <2>1, <2>a, <4>1 DEF Stamped, Instant
      <3>2. CASE i = Len(delivered) + 1
        <4>1. Instant(d.pres) = Instant(m_tOffsetTime) + Elapsed(d.start) + 0
          BY <2>2, <2>3
        <4> QED
          BY <1>3, <1>4, <2>1, <2>a, <3>2, <4>1 DEF Stamped, Instant
      <3> QED
        BY <1>4, <3>1, <3>2
    <2> QED
      BY <1>4, <1>6, <2>1, <2>4 DEF TimeInv
  <1> QED
    BY <1>5, <1>6

TimeVars == <<samples, delivered, timeBase, m_dLastTimestamp>>

LEMMA TimeKept == TimeInv /\ UNCHANGED TimeVars => TimeInv'
  BY DEF TimeInv, TimeVars, timeBase, Stamped, Instant, Elapsed

\* A new sample leaves the stamps alone.
LEMMA TimeGiven ==
  ASSUME NEW s, PathInv, TimeInv, s.start \in Int, Give(s), UNCHANGED deviceVars,
         m_dLastTimestamp' \in Nat
  PROVE  TimeInv'
  <1>1. /\ Len(samples) \in Nat /\ Len(samples') = Len(samples) + 1
        /\ \A i \in 1 .. Len(samples) : samples'[i] = samples[i]
        /\ samples'[Len(samples) + 1] = s
    BY Appended, Extent DEF Give, PathInv, PathParts, AllSequences
  <1>2. ASSUME NEW i \in 1 .. Len(samples')
        PROVE  samples'[i].start \in Int
    <2>1. CASE i \in 1 .. Len(samples)
      BY <1>1, <2>1 DEF TimeInv
    <2>2. CASE i = Len(samples) + 1
      BY <1>1, <2>2
    <2> QED
      BY <1>1, <2>1, <2>2
  <1>3. UNCHANGED <<delivered, m_bOffsetSet, m_dOffsetTime, m_tOffsetTime>>
    BY DEF deviceVars, sourceVars, sinkVars, timeBase
  <1> QED
    BY <1>2, <1>3 DEF TimeInv, Stamped, Instant, Elapsed

\* The start time a capture goes on from.
LEMMA LastStartIsInt == PathInv /\ TimeInv => LastStart \in Int
  <1> SUFFICES ASSUME PathInv, TimeInv, samples # <<>> PROVE samples[Len(samples)].start \in Int
    BY DEF LastStart
  <1>1. Len(samples) \in 1 .. Len(samples)
    BY Extent DEF PathInv, PathParts, AllSequences
  <1> QED
    BY <1>1 DEF TimeInv

\* A sample has the start time it is made with.
LEMMA SampleStart ==
  ASSUME NEW start, NEW s \in Samples(start)
  PROVE  s.start = start
  <1>1. CASE s \in MuxedSamples(start)
    <2>1. PICK f \in {0, 7}, n \in Lengths : s = MuxedSample(start, f, n)
      BY <1>1 DEF MuxedSamples
    <2> QED
      BY <2>1 DEF MuxedSample
  <1>2. CASE s \in RejectedSamples(start)
    BY <1>2 DEF RejectedSamples
  <1>3. CASE s \in AmrSamples(start)
    BY <1>3 DEF AmrSamples, SingleSample
  <1>4. CASE s \in PlainSamples(start)
    BY <1>4 DEF PlainSamples, SingleSample
  <1> QED
    BY <1>1, <1>2, <1>3, <1>4 DEF Samples

\* The start of a frame at the head of a queue that fits is that of a sample.
LEMMA HeadStart ==
  ASSUME NEW q, IsSequence(q), q # <<>>, NEW pend, IsSequence(pend),
         AllSequences, TimeInv, Fits(samples, delivered, q, pend)
  PROVE  Head(q).start \in Int
  <1>1. Len(q) \in Nat /\ Len(q) > 0 /\ Head(q) = q[1]
        /\ Len(delivered) \in Nat /\ Len(pend) \in Nat /\ Len(samples) \in Nat
    BY Extent, Shortened DEF AllSequences
  <1>2. q[1].start = samples[Len(delivered) + 1].start /\ Len(delivered) + 1 \in 1 .. Len(samples)
    BY <1>1 DEF Fits
  <1> QED
    BY <1>1, <1>2 DEF TimeInv

\* The event loop takes a sample.
LEMMA TimePoll ==
  ASSUME PathInv, TimeInv, Poll
  PROVE  TimeInv'
  <1> DEFINE s == Head(pending)
             buf == AddToBuffer(m_pSampleBuffer, s)
             r == Retrieve(buf)
             q == Append(m_qMediaSamples, r.frame)
  <1>1. /\ UNCHANGED <<samples, m_dLastTimestamp>> /\ pending # <<>>
        /\ DeliverFrame(q, r.size, r.header) \/ UNCHANGED <<timeBase, delivered>>
    BY DEF Poll, AddMediaSample, sinkVars, virtualVars
  <1>2. r.frame.start = s.start
    BY RetrievedSample DEF PathInv
  <1> HIDE DEF r, buf
  <1>3. IsSequence(q) /\ q # <<>> /\ IsSequence(Tail(pending))
    BY <1>1, Appended, Shortened DEF PathInv, PathParts, AllSequences
  <1>4. Fits(samples, delivered, q, Tail(pending))
    BY <1>1, <1>2, RetrievedFits DEF PathInv, PathParts, AllSequences
  <1> HIDE DEF q
  <1>5. Head(q).start \in Int
    BY <1>3, <1>4, HeadStart DEF PathInv, PathParts
  <1>6. CASE DeliverFrame(q, r.size, r.header)
    BY <1>1, <1>5, <1>6, DeliveryStamps DEF PathInv, PathParts, AllSequences
  <1>7. CASE UNCHANGED <<timeBase, delivered>>
    BY <1>1, <1>7, TimeKept DEF TimeVars
  <1> QED
    BY <1>1, <1>6, <1>7

\* The sink asks.
LEMMA TimeAsk ==
  ASSUME PathInv, TimeInv, Ask
  PROVE  TimeInv'
  <1>1. UNCHANGED <<samples, m_dLastTimestamp>>
    BY DEF Ask, virtualVars
  <1>2. CASE m_qMediaSamples = <<>>
    BY <1>1, <1>2, TimeKept DEF Ask, GetNextFrame, Await, TimeVars
  <1>3. CASE m_qMediaSamples # <<>>
    <2>1. DeliverFrame(m_qMediaSamples, fFrameSize, fLastFrameHeader)
      BY <1>3 DEF Ask, GetNextFrame
    <2>2. Head(m_qMediaSamples).start \in Int
      BY <1>3, HeadStart DEF PathInv, PathParts, AllSequences
    <2> QED
      BY <1>1, <2>1, <2>2, DeliveryStamps DEF PathInv, PathParts, AllSequences
  <1> QED
    BY <1>2, <1>3

\* TimeInv holds of every state.
THEOREM TimeInvariant == Spec => []TimeInv
  <1>1. Init => TimeInv
    <2> SUFFICES ASSUME Init PROVE TimeInv
      OBVIOUS
    <2>1. /\ m_bOffsetSet \in BOOLEAN /\ ~m_bOffsetSet
          /\ Len(delivered) = 0 /\ Len(samples) = 0 /\ m_dLastTimestamp = 0
      <3>1. m_bOffsetSet = FALSE /\ delivered = <<>> /\ samples = <<>> /\ m_dLastTimestamp = 0
        BY DEF Init, DeviceInit, VirtualInit
      <3> QED
        BY <3>1, EmptyIsSequence
    <2>2. 1 .. Len(samples) = {}
      BY <2>1
    <2> QED
      BY <2>1, <2>2 DEF TimeInv
  <1>2. PathInv /\ TimeInv /\ [Next]_vars => TimeInv'
    <2> SUFFICES ASSUME PathInv, TimeInv, [Next]_vars PROVE TimeInv'
      OBVIOUS
    <2>1. CASE Capture
      <3>1. PICK inc \in config.increments : \E s \in Samples(LastStart + inc) : Give(s)
        BY <2>1 DEF Capture
      <3>2. LastStart + inc \in Int
        BY <3>1, LastStartIsInt, PathAssumption DEF PathInv, PathParts
      <3>a. PICK s \in Samples(LastStart + inc) : Give(s)
        BY <3>1
      <3>3. s.start \in Int
        BY <3>a, <3>2, SampleStart
      <3>4. UNCHANGED deviceVars /\ m_dLastTimestamp' \in Nat
        BY <2>1 DEF Capture, virtualVars, TimeInv
      <3> QED
        BY <3>a, <3>3, <3>4, TimeGiven
    <2>2. CASE Start \/ TimeoutHandler
      <3>1. Generated /\ GenerateMediaSample /\ UNCHANGED deviceVars
        BY <2>2 DEF Start, TimeoutHandler, StartSource, Timeout
      <3>2. m_dLastTimestamp \in Nat /\ m_dLastTimestamp' \in Nat
        BY <3>1, VirtualAssumption DEF GenerateMediaSample, TimeInv
      <3>3. SingleSample(m_dLastTimestamp, 2, 0).start = m_dLastTimestamp
        BY DEF SingleSample
      <3> QED
        BY <3>1, <3>2, <3>3, TimeGiven DEF Generated
    <2>3. CASE Expiry \/ Stop \/ UNCHANGED vars
      <3>1. UNCHANGED TimeVars
        BY <2>3 DEF Expiry, Stop, Expire, StopSource, vars, deviceVars, sourceVars, sinkVars,
                    virtualVars, TimeVars
      <3> QED
        BY <3>1, TimeKept
    <2>4. CASE Poll
      BY <2>4, TimePoll
    <2>5. CASE Ask
      BY <2>5, TimeAsk
    <2>6. CASE Play \/ Pause \/ SendNext
      <3>1. UNCHANGED TimeVars
        BY <2>6 DEF Play, Pause, SendNext, StartPlaying, StopPlaying, BuildNextPacket,
                    sourceVars, virtualVars, TimeVars
      <3> QED
        BY <3>1, TimeKept
    <2> QED
      BY <2>1, <2>2, <2>3, <2>4, <2>5, <2>6 DEF Next
  <1> QED
    BY <1>1, <1>2, PathInvariant, PTL DEF Spec

\* LiveDeviceSource::deliverFrame: the presentation times of any two frames lie as far
\* apart as their start times, but for a tick each and the second reading of the clock
\* for the first frame, whichever differences fall short, whatever the clock says, and
\* for all start times, forwards and backwards.
THEOREM DistancesKept == Spec => []PresentationKeepsDistance
  <1>1. PathInv /\ TimeInv => PresentationKeepsDistance
    <2> SUFFICES ASSUME PathInv, TimeInv, NEW i \in DOMAIN delivered, NEW j \in DOMAIN delivered, i < j
                 PROVE  Lag(i, j) \in -2 .. 2
      BY DEF PresentationKeepsDistance
    <2>1. Len(delivered) \in Nat /\ DOMAIN delivered = 1 .. Len(delivered)
      BY Extent DEF PathInv, PathParts, AllSequences
    <2>2. m_bOffsetSet /\ Len(delivered) > 0
      BY <2>1 DEF TimeInv
    <2>3. /\ Stamped(i) /\ Stamped(j) /\ m_dOffsetTime \in Int
          /\ Instant(m_tOffsetTime) \in Int
      BY <2>1, <2>2, InstantIsInt DEF TimeInv
    <2>4. j # 1
      BY <2>1
    <2> DEFINE a == delivered[i].start
               b == delivered[j].start
    <2> HIDE DEF Instant
    <2>5. PICK skew \in {0, 1} :
            /\ Instant(delivered[i].pres) = Instant(m_tOffsetTime) + Elapsed(a) + skew
            /\ skew = 0 \/ a = m_dOffsetTime
      BY <2>3 DEF Stamped
    <2>6. Instant(delivered[j].pres) = Instant(m_tOffsetTime) + Elapsed(b)
      <3>1. b \in Int /\ Elapsed(b) \in Int
        BY <2>3, ElapsedOf DEF Stamped
      <3> QED
        BY <2>3, <2>4, <3>1 DEF Stamped
    <2>7. a \in Int /\ b \in Int
      BY <2>3 DEF Stamped
    <2>8. Lag(i, j) = (b - a) - (Instant(delivered[j].pres) - Instant(delivered[i].pres))
      BY DEF Lag
    <2> HIDE DEF a, b, Elapsed
    <2>9. Lag(i, j) = (b - a) - (Elapsed(b) - (Elapsed(a) + skew))
      BY <2>3, <2>5, <2>6, <2>7, <2>8, ElapsedOf
    <2> QED
      BY <2>3, <2>5, <2>7, <2>9, ElapsedOf
  <1> QED
    BY <1>1, PathInvariant, TimeInvariant, PTL

\* LiveDeviceSource::deliverFrame: of two frames after the first, the one captured later
\* is not presented earlier, and two captured together are presented together, though
\* each distance to the first frame is cut to whole ticks on its own.
THEOREM OrderKept == Spec => []PresentationKeepsOrder
  <1>1. PathInv /\ TimeInv => PresentationKeepsOrder
    <2> SUFFICES ASSUME PathInv, TimeInv,
                        NEW i \in DOMAIN delivered \ {1}, NEW j \in DOMAIN delivered \ {1},
                        delivered[i].start <= delivered[j].start
                 PROVE  Instant(delivered[i].pres) <= Instant(delivered[j].pres)
      BY DEF PresentationKeepsOrder
    <2>1. Len(delivered) \in Nat /\ DOMAIN delivered = 1 .. Len(delivered)
      BY Extent DEF PathInv, PathParts, AllSequences
    <2>2. m_bOffsetSet /\ Len(delivered) > 0
      BY <2>1 DEF TimeInv
    <2>3. /\ Stamped(i) /\ Stamped(j) /\ m_dOffsetTime \in Int
          /\ Instant(m_tOffsetTime) \in Int
      BY <2>1, <2>2, InstantIsInt DEF TimeInv
    <2> HIDE DEF Instant
    <2>4. ASSUME NEW k \in {i, j}
          PROVE  /\ delivered[k].start \in Int /\ Elapsed(delivered[k].start) \in Int
                 /\ Instant(delivered[k].pres) = Instant(m_tOffsetTime) + Elapsed(delivered[k].start)
      <3>1. k # 1 /\ Stamped(k)
        BY <2>3
      <3>2. delivered[k].start \in Int /\ Elapsed(delivered[k].start) \in Int
        BY <2>3, <3>1, ElapsedOf DEF Stamped
      <3> QED
        BY <2>3, <3>1, <3>2 DEF Stamped
    <2>5. Elapsed(delivered[i].start) <= Elapsed(delivered[j].start)
      BY <2>3, <2>4, ElapsedInOrder
    <2> HIDE DEF Elapsed
    <2> QED
      BY <2>3, <2>4, <2>5
  <1> QED
    BY <1>1, PathInvariant, TimeInvariant, PTL

-----------------------------------------------------------------------------
(***************************************************************************)
(* The size a buffer grows to.  Doubled is defined by a recursion that     *)
(* comes to an end only for sizes above 0, so that its equation is solved  *)
(* here, and what its solutions have in common follows from the wrong size *)
(* that is closest to the length.                                          *)
(***************************************************************************)
\* What doubling reaches from n.
Closed(C, n) == n \in C /\ C \subseteq Nat /\ \A m \in C : 2 * m \in C
Doublings(n) == {m \in Nat : \A C \in SUBSET Nat : Closed(C, n) => m \in C}

LEMMA DoublingsOf ==
  ASSUME NEW n \in Nat
  PROVE  /\ n \in Doublings(n)
         /\ \A m \in Doublings(n) : n <= m
         /\ Doublings(n) = {n} \cup Doublings(2 * n)
  <1>1. n \in Doublings(n)
    BY DEF Doublings, Closed
  <1>2. \A m \in Doublings(n) : n <= m
    <2>1. Closed({m \in Nat : n <= m}, n)
      BY DEF Closed
    <2> QED
      BY <2>1 DEF Doublings
  <1>3. 2 * n \in Nat
    OBVIOUS
  <1>4. ASSUME NEW m \in Doublings(2 * n) PROVE m \in Doublings(n)
    <2>1. \A C : Closed(C, n) => Closed(C, 2 * n)
      BY DEF Closed
    <2> QED
      BY <2>1 DEF Doublings
  <1>5. ASSUME NEW m \in Doublings(n), m # n PROVE m \in Doublings(2 * n)
    <2> SUFFICES ASSUME NEW C \in SUBSET Nat, Closed(C, 2 * n) PROVE m \in C
      BY DEF Doublings
    <2>1. Closed(C \cup {n}, n)
      BY DEF Closed
    <2> QED
      BY <1>5, <2>1 DEF Doublings
  <1> QED
    BY <1>1, <1>2, <1>4, <1>5

\* The equation that the doubling of a size solves, for sizes up to a length.
Grows(length, g) == [n \in Nat |-> IF length <= n THEN n ELSE g[2 * n]]

LEMMA GrowthExists ==
  ASSUME NEW length \in Nat
  PROVE  \E g : g = Grows(length, g)
  <1> DEFINE enough(n) == {m \in Doublings(n) : length <= m}
             least(S) == CHOOSE m \in S : \A k \in S : m <= k
             g == [n \in Nat |-> least(enough(n))]
  <1>1. ASSUME NEW n \in Nat, length <= n PROVE least(enough(n)) = n
    <2> DEFINE E == enough(n)
    <2>1. E \subseteq Nat /\ n \in E /\ \A k \in E : n <= k
      BY <1>1, DoublingsOf DEF Doublings
    <2> HIDE DEF E
    <2>2. least(E) \in E /\ \A k \in E : least(E) <= k
      <3>1. \E m \in E : \A k \in E : m <= k
        BY <2>1
      <3> QED
        BY <3>1, Zenon
    <2> DEFINE l == least(E)
    <2>3. l = least(E)
      OBVIOUS
    <2> HIDE DEF l
    <2>4. l \in Nat /\ l <= n /\ n <= l
      BY <2>1, <2>2, <2>3
    <2>5. l = n
      BY <2>4
    <2> QED
      BY <2>3, <2>5 DEF E
  <1>2. ASSUME NEW n \in Nat, ~(length <= n) PROVE enough(n) = enough(2 * n)
    BY <1>2, DoublingsOf
  <1>3. ASSUME NEW n \in Nat PROVE g[n] = IF length <= n THEN n ELSE g[2 * n]
    <2>1. 2 * n \in Nat
      OBVIOUS
    <2>2. CASE length <= n
      BY <1>1, <2>2
    <2>3. CASE ~(length <= n)
      <3>1. enough(n) = enough(2 * n)
        BY <1>2, <2>3
      <3> HIDE DEF enough
      <3>2. g[n] = least(enough(n)) /\ g[2 * n] = least(enough(2 * n))
        BY <2>1
      <3> HIDE DEF g
      <3>3. g[n] = g[2 * n]
        BY <3>1, <3>2
      <3> QED
        BY <2>3, <3>3
    <2> QED
      BY <2>2, <2>3
  <1> HIDE DEF enough, least
  <1>4. g = [n \in Nat |-> g[n]]
    OBVIOUS
  <1> HIDE DEF g
  <1>5. g = Grows(length, g)
    BY <1>3, <1>4 DEF Grows
  <1> QED
    BY <1>5

\* SampleBuffer.h: a size that is not 0 is doubled until the payload fits.
LEMMA DoubledFits ==
  ASSUME NEW size \in Nat \ {0}, NEW length \in Nat
  PROVE  Doubled(size, length) \in Nat \ {0} /\ length <= Doubled(size, length)
  <1> DEFINE grow == CHOOSE g : g = Grows(length, g)
             Good(n) == grow[n] \in Nat \ {0} /\ length <= grow[n]
             wrong == {n \in Nat \ {0} : ~Good(n)}
             left == {length - n : n \in wrong}
             lt == OpToRel(<, Nat)
  <1>1. grow = Grows(length, grow)
    BY GrowthExists, Zenon
  <1>2. Doubled(size, length) = grow[size]
    BY DEF Doubled, Grows
  <1> HIDE DEF grow
  <1>3. \A n \in Nat : grow[n] = IF length <= n THEN n ELSE grow[2 * n]
    BY <1>1 DEF Grows
  <1>4. ASSUME wrong # {} PROVE FALSE
    <2>1. left \subseteq Nat /\ left # {}
      BY <1>3, <1>4
    <2> HIDE DEF left
    <2>a. IsWellFoundedOn(lt, Nat)
      BY NatLessThanWellFounded
    <2> HIDE DEF lt
    <2>2. PICK l \in left : \A k \in left : ~(k < l)
      <3>1. PICK l \in left : \A k \in left : <<k, l>> \notin lt
        BY <2>1, <2>a, WFMin
      <3> QED
        BY <2>1, <3>1 DEF lt, OpToRel
    <2>3. PICK n \in wrong : l = length - n
      BY DEF left
    <2>4. n \in Nat \ {0} /\ ~(length <= n) /\ grow[n] = grow[2 * n]
      BY <1>3, <2>3
    <2>5. 2 * n \in wrong
      BY <2>3, <2>4
    <2>6. length - 2 * n \in left
      BY <2>5 DEF left
    <2> QED
      BY <2>2, <2>3, <2>4, <2>6
  <1>5. Good(size)
    BY <1>4
  <1> QED
    BY <1>2, <1>5

-----------------------------------------------------------------------------
(***************************************************************************)
(* What a multiplexed sample carries comes out of the sample buffer.       *)
(***************************************************************************)
\* What two sequences are when joined.
LEMMA Joined ==
  ASSUME NEW S, NEW s \in Seq(S), NEW t \in Seq(S)
  PROVE  /\ s \o t \in Seq(S) /\ Len(s \o t) = Len(s) + Len(t)
         /\ \A i \in 1 .. Len(s) : (s \o t)[i] = s[i]
         /\ \A i \in 1 .. Len(t) : (s \o t)[Len(s) + i] = t[i]
  BY ConcatProperties

Three(s, t, u) == s \o t \o u

\* A sequence that begins with one and goes on with another, found by its place.
BeginsWith(d, s, t) ==
  /\ d \in Seq(Cells) /\ Len(d) >= Len(s) + Len(t)
  /\ \A i \in 1 .. Len(s) : d[i] = s[i]
  /\ SubSeq(d, Len(s) + 1, Len(s) + Len(t)) = t

\* The middle one of three sequences, found again behind the first.
LEMMA Middle ==
  ASSUME NEW s \in Seq(Cells), NEW t \in Seq(Cells), NEW u \in Seq(Cells)
  PROVE  BeginsWith(Three(s, t, u), s, t)
  <1> DEFINE st == s \o t
             d == Three(s, t, u)
             stu == st \o u
  <1>1. /\ st \in Seq(Cells) /\ Len(st) = Len(s) + Len(t)
        /\ \A i \in 1 .. Len(s) : st[i] = s[i]
        /\ \A i \in 1 .. Len(t) : st[Len(s) + i] = t[i]
    BY Joined
  <1> HIDE DEF st
  <1>2. /\ stu \in Seq(Cells) /\ Len(stu) = Len(st) + Len(u)
        /\ \A i \in 1 .. Len(st) : stu[i] = st[i]
    <2>1. st \in Seq(Cells)
      BY <1>1
    <2> QED
      BY <2>1, Joined
  <1>3. d = stu
    BY DEF st, Three
  <1> HIDE DEF stu, d
  <1>4. PICK a \in Nat, b \in Nat, c \in Nat : a = Len(s) /\ b = Len(t) /\ c = Len(u)
    OBVIOUS
  <1>5. /\ d \in Seq(Cells) /\ Len(d) = a + b + c
        /\ \A i \in 1 .. a : d[i] = s[i]
        /\ \A i \in 1 .. b : d[a + i] = t[i]
    BY <1>1, <1>2, <1>3, <1>4
  <1>6. SubSeq(d, a + 1, a + b) = t
    <2> DEFINE R == SubSeq(d, a + 1, a + b)
    <2>1. \A i \in a + 1 .. a + b : d[i] \in Cells
      BY <1>5
    <2>2. /\ R \in Seq(Cells) /\ Len(R) = IF a + 1 <= a + b THEN (a + b) - (a + 1) + 1 ELSE 0
          /\ \A i \in 1 .. (a + b) - (a + 1) + 1 : R[i] = d[(a + 1) + i - 1]
      <3> DEFINE m == a + 1
                 k == a + b
      <3>1. m \in Int /\ k \in Int
        OBVIOUS
      <3> HIDE DEF m, k
      <3>2. \A i \in m .. k : d[i] \in Cells
        BY <2>1 DEF m, k
      <3>3. /\ SubSeq(d, m, k) \in Seq(Cells) /\ Len(SubSeq(d, m, k)) = IF m <= k THEN k - m + 1 ELSE 0
            /\ \A i \in 1 .. k - m + 1 : SubSeq(d, m, k)[i] = d[m + i - 1]
        BY <3>1, <3>2
      <3> QED
        BY <3>3 DEF m, k
    <2> HIDE DEF R
    <2>3. Len(R) = b /\ \A i \in 1 .. b : R[i] = d[a + i]
      <3>1. (a + b) - (a + 1) + 1 = b /\ (a + 1 <= a + b <=> b > 0)
        OBVIOUS
      <3>2. \A i \in 1 .. b : (a + 1) + i - 1 = a + i
        OBVIOUS
      <3>3. Len(R) = b
        <4>1. CASE b > 0
          BY <2>2, <3>1, <4>1
        <4>2. CASE b = 0
          BY <2>2, <3>1, <4>2
        <4> QED
          BY <4>1, <4>2
      <3>4. \A i \in 1 .. b : R[i] = d[(a + 1) + i - 1]
        BY <2>2, <3>1
      <3> QED
        BY <3>2, <3>3, <3>4
    <2>4. Len(R) = Len(t) /\ \A i \in 1 .. Len(t) : R[i] = t[i]
      BY <1>4, <1>5, <2>3
    <2>5. R = t
      <3>1. R \in Seq(Cells)
        BY <2>2
      <3> QED
        BY <2>4, <3>1
    <2> QED
      BY <2>5 DEF R
  <1>7. BeginsWith(d, s, t)
    BY <1>4, <1>5, <1>6 DEF BeginsWith
  <1> QED
    BY <1>7 DEF d

\* A part of a sequence of cells has the length asked for, if there is that much.
LEMMA PartLength ==
  ASSUME NEW d \in Seq(Cells), NEW a \in Nat, NEW b \in Nat, a + b <= Len(d)
  PROVE  Len(SubSeq(d, a + 1, a + b)) = b
  <1> DEFINE m == a + 1
             k == a + b
  <1>1. m \in Int /\ k \in Int
    OBVIOUS
  <1>2. \A i \in m .. k : d[i] \in Cells
    <2>1. \A i \in m .. k : i \in 1 .. Len(d)
      OBVIOUS
    <2> QED
      BY <2>1
  <1>3. (m <= k => k - m + 1 = b) /\ (~(m <= k) => b = 0)
    OBVIOUS
  <1> HIDE DEF m, k
  <1>4. Len(SubSeq(d, m, k)) = IF m <= k THEN k - m + 1 ELSE 0
    BY <1>1, <1>2
  <1> QED
    BY <1>3, <1>4 DEF m, k

\* The length of three sequences joined.
LEMMA ThreeLength ==
  ASSUME NEW s \in Seq(Cells), NEW t \in Seq(Cells), NEW u \in Seq(Cells)
  PROVE  Three(s, t, u) \in Seq(Cells) /\ Len(Three(s, t, u)) = Len(s) + Len(t) + Len(u)
  <1> DEFINE st == s \o t
             stu == st \o u
  <1>1. st \in Seq(Cells) /\ Len(st) = Len(s) + Len(t)
    BY Joined
  <1> HIDE DEF st
  <1>2. stu \in Seq(Cells) /\ Len(stu) = Len(st) + Len(u)
    BY <1>1, Joined
  <1> QED
    BY <1>1, <1>2 DEF Three, st, stu

\* Words and flag bytes are cells.
LEMMA CellIsCell ==
  /\ \A v \in Nat : Word(v) \in Cells /\ Word(v)[4] = v
  /\ \A a, b, c, d \in Nat : <<a, b, c, d>> \in Cells
  BY DEF Word, Cells

\* The flag byte, the FourCC if there is one, and the lengths.
LEMMA HeaderWords ==
  ASSUME NEW f \in Nat, NEW lengths \in Seq(Nat)
  PROVE  LET W == WriteHeader([fourCC |-> f, lengths |-> lengths])
             flag == IF f # 0 THEN 1 ELSE 0
         IN /\ W \in Seq(Cells) /\ Len(W) = 1 + flag + Len(lengths)
            /\ W[1] = <<0, 0, Len(lengths), flag>>
            /\ f # 0 => W[2] = Word(f)
            /\ \A i \in 1 .. Len(lengths) : W[1 + flag + i] = Word(lengths[i])
  <1> DEFINE flag == IF f # 0 THEN 1 ELSE 0
             h == [fourCC |-> f, lengths |-> lengths]
             A == << <<0, 0, Len(lengths), flag>> >>
             B == IF f # 0 THEN <<Word(f)>> ELSE <<>>
             C == [i \in DOMAIN lengths |-> Word(lengths[i])]
  <1>1. WriteHeader(h) = A \o B \o C
    BY DEF WriteHeader
  <1>2. /\ flag \in Nat /\ (f # 0 => flag = 1)
        /\ Len(lengths) \in Nat /\ DOMAIN lengths = 1 .. Len(lengths)
    OBVIOUS
  <1>3. A \in Seq(Cells) /\ Len(A) = 1 /\ A[1] = <<0, 0, Len(lengths), flag>>
    <2>1. <<0, 0, Len(lengths), flag>> \in Cells
      BY <1>2, CellIsCell
    <2> HIDE DEF flag
    <2> QED
      BY <2>1
  <1>4. B \in Seq(Cells) /\ Len(B) = flag /\ (f # 0 => B[1] = Word(f))
    BY CellIsCell
  <1>5. C \in Seq(Cells) /\ Len(C) = Len(lengths) /\ \A i \in 1 .. Len(lengths) : C[i] = Word(lengths[i])
    BY <1>2, CellIsCell
  <1> HIDE DEF A, B, C, flag
  <1> DEFINE AB == A \o B
             ABC == AB \o C
  <1>6. /\ AB \in Seq(Cells) /\ Len(AB) = Len(A) + Len(B)
        /\ \A i \in 1 .. Len(A) : AB[i] = A[i]
        /\ \A i \in 1 .. Len(B) : AB[Len(A) + i] = B[i]
    <2>1. A \in Seq(Cells) /\ B \in Seq(Cells)
      BY <1>3, <1>4
    <2> QED
      BY <2>1, Joined
  <1> HIDE DEF AB
  <1>7. /\ ABC \in Seq(Cells) /\ Len(ABC) = Len(AB) + Len(C)
        /\ \A i \in 1 .. Len(AB) : ABC[i] = AB[i]
        /\ \A i \in 1 .. Len(C) : ABC[Len(AB) + i] = C[i]
    <2>1. AB \in Seq(Cells) /\ C \in Seq(Cells)
      BY <1>5, <1>6
    <2> QED
      BY <2>1, Joined
  <1> HIDE DEF ABC
  <1>8. /\ ABC[1] = A[1]
        /\ f # 0 => ABC[2] = B[1]
    <2>1. AB[1] = A[1] /\ ABC[1] = AB[1]
      <3>1. 1 \in 1 .. Len(A) /\ 1 \in 1 .. Len(AB)
        BY <1>2, <1>3, <1>4, <1>6
      <3> QED
        BY <1>6, <1>7, <3>1
    <2>2. f # 0 => AB[2] = B[1] /\ ABC[2] = AB[2]
      <3>1. f # 0 => 1 \in 1 .. Len(B) /\ Len(A) + 1 = 2 /\ 2 \in 1 .. Len(AB)
        BY <1>2, <1>3, <1>4, <1>6
      <3> QED
        BY <1>6, <1>7, <3>1
    <2> QED
      BY <2>1, <2>2
  <1>9. ABC \in Seq(Cells) /\ Len(ABC) = 1 + flag + Len(lengths)
    BY <1>2, <1>3, <1>4, <1>5, <1>6, <1>7
  <1>10. \A i \in 1 .. Len(lengths) : ABC[1 + flag + i] = Word(lengths[i])
    BY <1>2, <1>3, <1>4, <1>5, <1>6, <1>7
  <1>11. WriteHeader(h) = ABC
    BY <1>1 DEF AB, ABC
  <1> QED
    BY <1>3, <1>4, <1>8, <1>9, <1>10, <1>11 DEF flag

\* What a sample of two streams says in its header.
LEMMA ReadBack ==
  ASSUME NEW f \in Nat, NEW n \in Nat, NEW D, NEW flag \in {0, 1}, flag = 1 <=> f # 0,
         Len(D) \in Nat, Len(D) >= 3 + flag,
         D[1] = <<0, 0, 2, flag>>, f # 0 => D[2] = Word(f),
         D[2 + flag] = Word(n), D[3 + flag] = Word(1)
  PROVE  ReadHeader(D) = [fourCC |-> f, lengths |-> <<n, 1>>] /\ Readable(D)
  <1>1. /\ D[1] = <<0, 0, 2, flag>>
        /\ f # 0 => D[2][4] = f
        /\ D[2 + flag][4] = n /\ D[3 + flag][4] = 1
    <2>1. Word(f)[4] = f /\ Word(n)[4] = n /\ Word(1)[4] = 1
      BY CellIsCell
    <2> QED
      BY <2>1
  <1>2. D[1][2] = 0 /\ D[1][3] = 2 /\ D[1][4] = flag
    BY <1>1
  <1>3. [i \in 1 .. D[1][3] |-> D[1 + D[1][4] + i][4]] = <<n, 1>>
    <2>1. 1 + flag + 1 = 2 + flag /\ 1 + flag + 2 = 3 + flag
      OBVIOUS
    <2>2. [i \in 1 .. 2 |-> D[1 + flag + i][4]] = <<n, 1>>
      BY <1>1, <2>1
    <2> QED
      BY <1>2, <2>2
  <1>4. (IF D[1][4] = 1 THEN D[2][4] ELSE 0) = f
    BY <1>1, <1>2
  <1>5. ReadHeader(D) = [fourCC |-> f, lengths |-> <<n, 1>>]
    BY <1>3, <1>4 DEF ReadHeader
  <1>6. Readable(D)
    <2>1. D # <<>>
      BY EmptyIsSequence
    <2> QED
      BY <1>2, <2>1 DEF Readable
  <1> QED
    BY <1>5, <1>6

\* The first payload begins right behind the header.
LEMMA FirstOffset ==
  ASSUME NEW h
  PROVE  Offset(h, 1) = HeaderLength(h)
  <1> DEFINE Ends(g) == [k \in 0 .. 1 - 1 |->
                          IF k = 0 THEN HeaderLength(h) ELSE g[k - 1] + h.lengths[k]]
             end == CHOOSE g : g = Ends(g)
  <1>1. \A g : Ends(g) = [k \in {0} |-> HeaderLength(h)]
    OBVIOUS
  <1>2. \E g : g = Ends(g)
    BY <1>1
  <1> HIDE DEF Ends
  <1>3. end = Ends(end)
    BY <1>2
  <1>4. end[1 - 1] = HeaderLength(h)
    <2> HIDE DEF end
    <2>1. end = [k \in {0} |-> HeaderLength(h)]
      BY <1>1, <1>3, Zenon
    <2>2. 1 - 1 = 0
      OBVIOUS
    <2> QED
      BY <2>1, <2>2
  <1>5. Offset(h, 1) = end[1 - 1]
    BY DEF Offset, Ends
  <1> QED
    BY <1>4, <1>5

\* The second payload begins behind the first.
LEMMA SecondOffset ==
  ASSUME NEW h
  PROVE  Offset(h, 2) = HeaderLength(h) + h.lengths[1]
  <1> DEFINE Ends(g) == [k \in 0 .. 2 - 1 |->
                          IF k = 0 THEN HeaderLength(h) ELSE g[k - 1] + h.lengths[k]]
             end == CHOOSE g : g = Ends(g)
             both == [k \in 0 .. 1 |-> IF k = 0 THEN HeaderLength(h) ELSE HeaderLength(h) + h.lengths[1]]
  <1>1. both = Ends(both)
    <2>1. 0 .. 2 - 1 = 0 .. 1 /\ \A k \in 0 .. 1 : k = 0 \/ (k = 1 /\ k - 1 = 0)
      OBVIOUS
    <2>2. \A k \in 0 .. 1 : both[k] = IF k = 0 THEN HeaderLength(h) ELSE both[k - 1] + h.lengths[k]
      <3>1. both[0] = HeaderLength(h) /\ both[1] = HeaderLength(h) + h.lengths[1]
        OBVIOUS
      <3> HIDE DEF both
      <3>2. 1 - 1 = 0
        OBVIOUS
      <3>3. both[1] = both[1 - 1] + h.lengths[1]
        BY <3>1, <3>2
      <3> QED
        BY <2>1, <3>1, <3>3
    <2>3. both = [k \in 0 .. 1 |-> both[k]]
      OBVIOUS
    <2> HIDE DEF both
    <2> QED
      BY <2>1, <2>2, <2>3
  <1>2. end = Ends(end)
    BY <1>1, Zenon
  <1> HIDE DEF end
  <1>3. end[0] = HeaderLength(h)
    BY <1>2
  <1>4. end[1] = end[0] + h.lengths[1]
    BY <1>2
  <1>5. Offset(h, 2) = end[2 - 1] /\ 2 - 1 = 1
    BY DEF Offset, end
  <1> QED
    BY <1>3, <1>4, <1>5

\* D is a sample of the payloads S1, of n cells, and S2, with the header h, in W.
MuxedOf(D, W, h, f, n, S1, S2) ==
  /\ f \in Nat /\ n \in Nat /\ S1 \in Seq(Cells) /\ S2 \in Seq(Cells) /\ Len(S1) = n
  /\ h = [fourCC |-> f, lengths |-> <<n, 1>>]
  /\ W = WriteHeader(h)
  /\ D = Three(W, S1, S2)

\* What a buffer of two channels reads of a sample of two streams, and where the
\* payloads lie.
LEMMA MuxedIsRead ==
  ASSUME NEW D, NEW W, NEW h, NEW f, NEW n, NEW S1, NEW S2, MuxedOf(D, W, h, f, n, S1, S2)
  PROVE  /\ ReadHeader(D) = h /\ Readable(D)
         /\ W \in Seq(Cells) /\ Len(W) \in Nat /\ HeaderLength(h) = Len(W)
         /\ BeginsWith(D, W, S1)
  <1>a. f \in Nat /\ n \in Nat /\ S1 \in Seq(Cells) /\ S2 \in Seq(Cells) /\ Len(S1) = n
    BY DEF MuxedOf
  <1>b. h = [fourCC |-> f, lengths |-> <<n, 1>>] /\ W = WriteHeader(h)
    BY DEF MuxedOf
  <1>c. D = Three(W, S1, S2)
    BY DEF MuxedOf
  <1> DEFINE lengths == <<n, 1>>
             flag == IF f # 0 THEN 1 ELSE 0
  <1>1. flag \in {0, 1} /\ (flag = 1 <=> f # 0)
    OBVIOUS
  <1>2. lengths \in Seq(Nat) /\ Len(lengths) = 2 /\ lengths[1] = n /\ lengths[2] = 1
    BY <1>a
  <1>3. W = WriteHeader(h) /\ h = [fourCC |-> f, lengths |-> lengths]
    BY <1>b
  <1> HIDE DEF lengths
  <1>4. /\ W \in Seq(Cells) /\ Len(W) = 1 + flag + Len(lengths)
        /\ W[1] = <<0, 0, Len(lengths), flag>>
        /\ f # 0 => W[2] = Word(f)
        /\ \A i \in 1 .. Len(lengths) : W[1 + flag + i] = Word(lengths[i])
    <2> DEFINE V == WriteHeader([fourCC |-> f, lengths |-> lengths])
    <2>1. /\ V \in Seq(Cells) /\ Len(V) = 1 + flag + Len(lengths)
          /\ V[1] = <<0, 0, Len(lengths), flag>>
          /\ f # 0 => V[2] = Word(f)
          /\ \A i \in 1 .. Len(lengths) : V[1 + flag + i] = Word(lengths[i])
      BY <1>2, <1>a, HeaderWords, Zenon
    <2> HIDE DEF V, flag
    <2> QED
      BY <1>3, <2>1 DEF V
  <1> HIDE DEF flag
  <1>5. /\ W \in Seq(Cells) /\ Len(W) = 3 + flag /\ W[1] = <<0, 0, 2, flag>>
        /\ W[2 + flag] = Word(n) /\ W[3 + flag] = Word(1)
    <2>1. 1 + flag + 1 = 2 + flag /\ 1 + flag + 2 = 3 + flag
      BY <1>1
    <2>2. W[1 + flag + 1] = Word(n) /\ W[1 + flag + 2] = Word(1)
      BY <1>2, <1>4
    <2> QED
      BY <1>2, <1>4, <2>1, <2>2
  <1>6. BeginsWith(D, W, S1)
    <2>1. W \in Seq(Cells)
      BY <1>5
    <2> QED
      BY <1>a, <1>c, <2>1, Middle
  <1>7. ReadHeader(D) = [fourCC |-> f, lengths |-> <<n, 1>>] /\ Readable(D)
    <2>1. \A i \in 1 .. 3 + flag : D[i] = W[i]
      BY <1>1, <1>5, <1>6 DEF BeginsWith
    <2>2. Len(D) \in Nat /\ Len(D) >= 3 + flag
      BY <1>1, <1>5, <1>6 DEF BeginsWith
    <2>3. /\ W[1] = <<0, 0, 2, flag>> /\ (f # 0 => W[2] = Word(f))
          /\ W[2 + flag] = Word(n) /\ W[3 + flag] = Word(1)
      BY <1>4, <1>5
    <2>4. /\ 1 \in 1 .. 3 + flag /\ 2 \in 1 .. 3 + flag
          /\ 2 + flag \in 1 .. 3 + flag /\ 3 + flag \in 1 .. 3 + flag
      BY <1>1
    <2>5. /\ D[1] = <<0, 0, 2, flag>> /\ (f # 0 => D[2] = Word(f))
          /\ D[2 + flag] = Word(n) /\ D[3 + flag] = Word(1)
      BY <2>1, <2>3, <2>4
    <2> QED
      BY <1>1, <1>a, <2>2, <2>5, ReadBack
  <1>8. HeaderLength(h) = 3 + flag
    <2>1. h.fourCC = f /\ Len(h.lengths) = 2
      BY <1>2, <1>3
    <2> QED
      BY <1>1, <2>1 DEF HeaderLength
  <1> QED
    BY <1>1, <1>5, <1>6, <1>7, <1>8, <1>b

\* MultiMediaSampleBuffer of two channels: the payload of the first comes out of a
\* sample of two streams as it went in.
LEMMA MuxedComesOut ==
  ASSUME NEW D, NEW W, NEW h, NEW f, NEW n, NEW S1, NEW S2, MuxedOf(D, W, h, f, n, S1, S2),
         NEW s, s.data = D, NEW buf, Len(buf.payload) = 2, DOMAIN buf.payload = 1 .. 2
  PROVE  LET new == AddToMulti(buf, s) IN
         /\ new.payload[1] = S1
         /\ Len(new.payload) = 2 /\ DOMAIN new.payload = 1 .. 2
         /\ new = [start |-> new.start, payload |-> new.payload, size |-> new.size]
  <1>1. /\ ReadHeader(D) = h /\ Readable(D)
        /\ HeaderLength(h) = Len(W) /\ BeginsWith(D, W, S1)
    BY MuxedIsRead
  <1>2. h.lengths[1] = n /\ Len(h.lengths) = 2 /\ Len(S1) = n
    BY DEF MuxedOf
  <1>3. Accepted(buf, D)
    BY <1>1, <1>2 DEF Accepted
  <1> DEFINE Part(i) == SubSeq(D, Offset(h, i) + 1, Offset(h, i) + h.lengths[i])
             new == AddToMulti(buf, s)
  <1>10. /\ new.payload = [i \in 1 .. 2 |-> Part(i)]
         /\ new = [start |-> new.start, payload |-> new.payload, size |-> new.size]
    <2> DEFINE payload == [i \in DOMAIN buf.payload |->
                            SubSeq(s.data, Offset(h, i) + 1, Offset(h, i) + h.lengths[i])]
               size == [i \in DOMAIN buf.size |-> Doubled(buf.size[i], h.lengths[i])]
    <2>1. new = [start |-> s.start, payload |-> payload, size |-> size]
      BY <1>1, <1>3 DEF AddToMulti
    <2> HIDE DEF size, new
    <2>2. /\ new.payload = payload
          /\ new = [start |-> new.start, payload |-> new.payload, size |-> new.size]
      <3> HIDE DEF payload
      <3> QED
        BY <2>1
    <2> QED
      BY <2>2
  <1>11. Offset(h, 1) = Len(W) /\ h.lengths[1] = Len(S1)
    BY <1>1, <1>2, FirstOffset
  <1> HIDE DEF new
  <1>12. Len(new.payload) = 2 /\ DOMAIN new.payload = 1 .. 2
    BY <1>10
  <1> HIDE DEF Part
  <1>13. new.payload[1] = Part(1)
    BY <1>10
  <1>14. Part(1) = S1
    BY <1>1, <1>11 DEF BeginsWith, Part
  <1> QED
    BY <1>10, <1>12, <1>13, <1>14 DEF new

-----------------------------------------------------------------------------
(***************************************************************************)
(* What a sample does to the buffer, whatever the buffer held before.      *)
(***************************************************************************)
\* What was copied into a buffer fits what was allocated for it.
HasRoom(buf, n) ==
  /\ DOMAIN buf.size = 1 .. n
  /\ \A i \in 1 .. n : buf.size[i] \in Nat \ {0} /\ Len(buf.payload[i]) <= buf.size[i]

\* A buffer, whatever its payloads are.
IsBuffer(buf, n) ==
  /\ buf = [start |-> buf.start, payload |-> buf.payload, size |-> buf.size]
  /\ Len(buf.payload) = n /\ DOMAIN buf.payload = 1 .. n
  /\ HasRoom(buf, n)

PayloadAfter(buf, s) == IF s.carries # <<>> THEN s.carries ELSE buf.payload[1]

\* A sample puts in its payload or leaves the last, with room for it; an AMR one
\* begins with a byte.
Faithful(s) ==
  /\ IsSequence(s.carries)
  /\ config.amr => s.carries # <<>> /\ s.data[1][4] \in 0 .. 255
  /\ \A buf : IsBuffer(buf, config.channels) =>
       /\ IsBuffer(AddToBuffer(buf, s), config.channels)
       /\ AddToBuffer(buf, s).payload[1] = PayloadAfter(buf, s)

\* A payload is a sequence of cells of its length.
LEMMA PayloadIsSequence ==
  ASSUME NEW i \in Nat, NEW n \in Nat, NEW byte \in Nat, Len(samples) \in Nat
  PROVE  /\ Payload(i, n, byte) \in Seq(Cells) /\ Len(Payload(i, n, byte)) = n
         /\ n > 0 => Payload(i, n, byte) # <<>>
  <1> DEFINE cell(p) == <<Len(samples) + 1, i, p, IF p = 1 THEN byte ELSE 0>>
  <1>1. \A p \in 1 .. n : cell(p) \in Cells
    BY CellIsCell
  <1>2. Payload(i, n, byte) = [p \in 1 .. n |-> cell(p)]
    BY DEF Payload
  <1> HIDE DEF cell
  <1>3. Payload(i, n, byte) \in Seq(Cells) /\ Len(Payload(i, n, byte)) = n
    BY <1>1, <1>2
  <1> QED
    BY <1>3, EmptyIsSequence

\* SingleMediaSampleBuffer: any data is the payload.
LEMMA SingleFaithful ==
  ASSUME config.channels = 1, NEW start, NEW n \in Nat \ {0}, NEW byte \in 0 .. 255,
         Len(samples) \in Nat
  PROVE  Faithful(SingleSample(start, n, byte))
  <1> DEFINE s == SingleSample(start, n, byte)
             P == Payload(1, n, byte)
  <1>a. P \in Seq(Cells) /\ Len(P) = n /\ P # <<>>
    <2>1. 1 \in Nat /\ n \in Nat /\ byte \in Nat /\ n > 0
      OBVIOUS
    <2> HIDE DEF P
    <2> QED
      BY <2>1, PayloadIsSequence DEF P
  <1>b. P[1][4] = byte
    BY DEF Payload
  <1>1. s.data = P /\ s.carries = P
    BY DEF SingleSample
  <1> HIDE DEF s, P
  <1>c. IsSequence(s.carries) /\ s.carries # <<>> /\ s.data[1][4] \in 0 .. 255
    BY <1>a, <1>b, <1>1, SequenceOfAny
  <1>2. ASSUME NEW buf, IsBuffer(buf, 1)
        PROVE  IsBuffer(AddToBuffer(buf, s), 1) /\ AddToBuffer(buf, s).payload[1] = PayloadAfter(buf, s)
    <2>1. AddToBuffer(buf, s) = AddToSingle(buf, s)
      BY <1>2 DEF IsBuffer, AddToBuffer
    <2> DEFINE room == IF Len(s.data) > buf.size[1] THEN Len(s.data) ELSE buf.size[1]
               new == AddToBuffer(buf, s)
    <2>2. AddToSingle(buf, s) = [start |-> s.start, payload |-> <<s.data>>, size |-> <<room>>]
      BY DEF AddToSingle
    <2>3. room \in Nat \ {0} /\ Len(s.data) <= room
      BY <1>2, <1>a, <1>1 DEF IsBuffer, HasRoom
    <2> HIDE DEF room
    <2>4. new = [start |-> s.start, payload |-> <<s.data>>, size |-> <<room>>]
      BY <2>1, <2>2
    <2> HIDE DEF new
    <2>5. HasRoom(new, 1)
      BY <2>3, <2>4 DEF HasRoom
    <2>6. /\ new = [start |-> new.start, payload |-> new.payload, size |-> new.size]
          /\ Len(new.payload) = 1 /\ DOMAIN new.payload = 1 .. 1
          /\ new.payload[1] = s.carries
      BY <1>1, <2>4
    <2>7. IsBuffer(new, 1) /\ new.payload[1] = PayloadAfter(buf, s)
      BY <1>c, <2>5, <2>6 DEF IsBuffer, PayloadAfter
    <2> QED
      BY <2>7 DEF new
  <1>3. Faithful(s)
    BY <1>c, <1>2 DEF Faithful
  <1> QED
    BY <1>3 DEF s

\* MultiMediaSampleBuffer: there is room for both payloads of a sample of two streams.
LEMMA MuxedHasRoom ==
  ASSUME NEW D, NEW W, NEW h, NEW f, NEW n, NEW S1, NEW S2, MuxedOf(D, W, h, f, n, S1, S2),
         Len(S2) = 1, NEW s, s.data = D, NEW buf, IsBuffer(buf, 2)
  PROVE  HasRoom(AddToMulti(buf, s), 2)
  <1> DEFINE new == AddToMulti(buf, s)
             Part(i) == SubSeq(D, Offset(h, i) + 1, Offset(h, i) + h.lengths[i])
             payload == [i \in DOMAIN buf.payload |-> Part(i)]
             size == [i \in DOMAIN buf.size |-> Doubled(buf.size[i], h.lengths[i])]
  <1>1. /\ ReadHeader(D) = h /\ Readable(D) /\ W \in Seq(Cells) /\ Len(W) \in Nat
        /\ HeaderLength(h) = Len(W)
    BY MuxedIsRead
  <1>2. h.lengths[1] = n /\ h.lengths[2] = 1 /\ Len(h.lengths) = 2 /\ n \in Nat
    BY DEF MuxedOf
  <1>3. D \in Seq(Cells) /\ Len(D) = Len(W) + n + 1
    <2>1. /\ S1 \in Seq(Cells) /\ S2 \in Seq(Cells) /\ D = Three(W, S1, S2)
          /\ Len(S1) = n
      BY DEF MuxedOf
    <2>2. /\ Three(W, S1, S2) \in Seq(Cells)
          /\ Len(Three(W, S1, S2)) = Len(W) + Len(S1) + Len(S2)
      <3>1. W \in Seq(Cells) /\ S1 \in Seq(Cells) /\ S2 \in Seq(Cells)
        BY <1>1, <2>1
      <3> QED
        BY <3>1, ThreeLength
    <2> QED
      BY <2>1, <2>2
  <1>4. Accepted(buf, D)
    BY <1>1, <1>2 DEF Accepted, IsBuffer
  <1>5. new = [start |-> s.start, payload |-> payload, size |-> size]
    BY <1>1, <1>4 DEF AddToMulti
  <1>6. new.payload = payload /\ new.size = size
    <2> HIDE DEF payload, size, new
    <2> QED
      BY <1>5
  <1> HIDE DEF new
  <1>7. /\ DOMAIN buf.payload = 1 .. 2 /\ DOMAIN buf.size = 1 .. 2
        /\ buf.size[1] \in Nat \ {0} /\ buf.size[2] \in Nat \ {0}
    BY DEF IsBuffer, HasRoom
  <1>8. Offset(h, 1) = Len(W) /\ Offset(h, 2) = Len(W) + n
    BY <1>1, <1>2, FirstOffset, SecondOffset
  <1>9. Len(Part(1)) = n
    <2>1. Len(W) + n <= Len(D)
      BY <1>1, <1>2, <1>3
    <2>2. Len(SubSeq(D, Len(W) + 1, Len(W) + n)) = n
      BY <1>1, <1>2, <1>3, <2>1, PartLength
    <2> QED
      BY <1>2, <1>8, <2>2
  <1>10. Len(Part(2)) = 1
    <2> DEFINE a == Len(W) + n
    <2>1. a \in Nat /\ a + 1 <= Len(D)
      BY <1>1, <1>2, <1>3
    <2> HIDE DEF a
    <2>2. Len(SubSeq(D, a + 1, a + 1)) = 1
      BY <1>3, <2>1, PartLength
    <2> QED
      BY <1>2, <1>8, <2>2 DEF a
  <1> HIDE DEF Part
  <1>11. new.payload[1] = Part(1) /\ new.payload[2] = Part(2)
    BY <1>6, <1>7
  <1>12. /\ Doubled(buf.size[1], n) \in Nat \ {0} /\ n <= Doubled(buf.size[1], n)
         /\ Doubled(buf.size[2], 1) \in Nat \ {0} /\ 1 <= Doubled(buf.size[2], 1)
    BY <1>2, <1>7, DoubledFits
  <1>13. /\ DOMAIN new.size = 1 .. 2
         /\ new.size[1] = Doubled(buf.size[1], n) /\ new.size[2] = Doubled(buf.size[2], 1)
    BY <1>2, <1>6, <1>7
  <1>14. HasRoom(new, 2)
    <2>1. \A i \in 1 .. 2 : i = 1 \/ i = 2
      OBVIOUS
    <2>2. new.size[1] \in Nat \ {0} /\ Len(new.payload[1]) <= new.size[1]
      BY <1>9, <1>11, <1>12, <1>13
    <2>3. new.size[2] \in Nat \ {0} /\ Len(new.payload[2]) <= new.size[2]
      BY <1>10, <1>11, <1>12, <1>13
    <2> QED
      BY <1>13, <2>1, <2>2, <2>3 DEF HasRoom
  <1> QED
    BY <1>14 DEF new

\* MultiMediaSampleBuffer: the payload of the first channel, found behind the header.
LEMMA MuxedFaithful ==
  ASSUME config.channels = 2, ~config.amr, NEW start, NEW f \in {0, 7}, NEW n \in Nat \ {0},
         Len(samples) \in Nat
  PROVE  Faithful(MuxedSample(start, f, n))
  <1>p. \A i, k \in Nat : /\ Payload(i, k, 0) \in Seq(Cells) /\ Len(Payload(i, k, 0)) = k
                          /\ k > 0 => Payload(i, k, 0) # <<>>
    <2>1. 0 \in Nat
      OBVIOUS
    <2> QED
      BY <2>1, PayloadIsSequence
  <1> DEFINE s == MuxedSample(start, f, n)
             h == [fourCC |-> f, lengths |-> <<n, 1>>]
             W == WriteHeader(h)
             P == Payload(1, n, 0)
             Q == Payload(2, 1, 0)
             D == s.data
  <1>1. D = W \o P \o Q /\ s.carries = P
    BY DEF MuxedSample
  <1>2. D = Three(W, P, Q)
    BY <1>1 DEF Three
  <1>3. /\ P \in Seq(Cells) /\ Len(P) = n /\ P # <<>>
        /\ Q \in Seq(Cells) /\ Len(Q) = 1
    <2>1. 1 \in Nat /\ 2 \in Nat /\ n \in Nat /\ n > 0
      OBVIOUS
    <2> QED
      BY <1>p, <2>1
  <1> HIDE DEF P, Q, s
  <1>m. MuxedOf(D, W, h, f, n, P, Q)
    <2>1. D = Three(W, P, Q)
      BY <1>2
    <2> HIDE DEF D
    <2> QED
      BY <1>3, <2>1 DEF MuxedOf
  <1>4. ASSUME NEW buf, IsBuffer(buf, 2)
        PROVE  IsBuffer(AddToBuffer(buf, s), 2) /\ AddToBuffer(buf, s).payload[1] = PayloadAfter(buf, s)
    <2>1. AddToBuffer(buf, s) = AddToMulti(buf, s)
      BY <1>4 DEF IsBuffer, AddToBuffer
    <2>2. /\ AddToMulti(buf, s).payload[1] = P /\ Len(AddToMulti(buf, s).payload) = 2
          /\ DOMAIN AddToMulti(buf, s).payload = 1 .. 2
          /\ AddToMulti(buf, s) = [start   |-> AddToMulti(buf, s).start,
                                   payload |-> AddToMulti(buf, s).payload,
                                   size    |-> AddToMulti(buf, s).size]
      <3>1. Len(buf.payload) = 2 /\ DOMAIN buf.payload = 1 .. 2
        BY <1>4 DEF IsBuffer
      <3> HIDE DEF W, D, h
      <3> QED
        BY <1>m, <3>1, MuxedComesOut DEF D
    <2>3. HasRoom(AddToMulti(buf, s), 2)
      <3> HIDE DEF W, D, h
      <3> QED
        BY <1>3, <1>4, <1>m, MuxedHasRoom DEF D
    <2> QED
      BY <1>1, <1>3, <2>1, <2>2, <2>3 DEF IsBuffer, PayloadAfter
  <1>5. Faithful(s)
    BY <1>1, <1>3, <1>4, SequenceOfAny DEF Faithful
  <1> QED
    BY <1>5 DEF s

\* A header without a FourCC begins with the number of streams.
LEMMA PlainHeader ==
  ASSUME NEW lengths \in Seq(Nat), NEW V, V = WriteHeader([fourCC |-> 0, lengths |-> lengths])
  PROVE  V \in Seq(Cells) /\ Len(V) = 1 + Len(lengths) /\ V[1] = <<0, 0, Len(lengths), 0>>
  <1>1. ASSUME NEW f \in Nat, NEW W, W = WriteHeader([fourCC |-> f, lengths |-> lengths]), f = 0
        PROVE  W \in Seq(Cells) /\ Len(W) = 1 + Len(lengths) /\ W[1] = <<0, 0, Len(lengths), 0>>
    <2> DEFINE flag == IF f # 0 THEN 1 ELSE 0
    <2>1. W \in Seq(Cells) /\ Len(W) = 1 + flag + Len(lengths) /\ W[1] = <<0, 0, Len(lengths), flag>>
      BY <1>1, HeaderWords
    <2>2. flag = 0 /\ Len(lengths) \in Nat
      BY <1>1
    <2> HIDE DEF flag
    <2> QED
      BY <2>1, <2>2
  <1>2. 0 \in Nat
    OBVIOUS
  <1> QED
    BY <1>1, <1>2, Zenon

\* MultiMediaSampleBuffer: a header that is cut short or counts another number of
\* streams leaves the payloads.
LEMMA RejectedFaithful ==
  ASSUME config.channels = 2, ~config.amr, NEW start, NEW s \in RejectedSamples(start),
         Len(samples) \in Nat
  PROVE  Faithful(s)
  <1> DEFINE One == WriteHeader([fourCC |-> 0, lengths |-> <<1>>])
             Two == WriteHeader([fourCC |-> 0, lengths |-> <<1, 1>>])
  <1>1. /\ s.carries = <<>>
        /\ s.data = One \o Payload(1, 1, 0) \/ s.data = SubSeq(Two, 1, 2)
    BY DEF RejectedSamples
  <1>2. /\ One \in Seq(Cells) /\ Len(One) = 2 /\ One[1] = <<0, 0, 1, 0>>
    <2> DEFINE lengths == <<1>>
    <2>1. lengths \in Seq(Nat) /\ Len(lengths) = 1
      OBVIOUS
    <2> HIDE DEF lengths
    <2>2. One = WriteHeader([fourCC |-> 0, lengths |-> lengths])
      BY DEF lengths
    <2> HIDE DEF One
    <2>3. One \in Seq(Cells) /\ Len(One) = 1 + Len(lengths) /\ One[1] = <<0, 0, Len(lengths), 0>>
      BY <2>1, <2>2, PlainHeader
    <2> QED
      BY <2>1, <2>3
  <1>3. /\ Two \in Seq(Cells) /\ Len(Two) = 3 /\ Two[1] = <<0, 0, 2, 0>>
    <2> DEFINE lengths == <<1, 1>>
    <2>1. lengths \in Seq(Nat) /\ Len(lengths) = 2
      OBVIOUS
    <2> HIDE DEF lengths
    <2>2. Two = WriteHeader([fourCC |-> 0, lengths |-> lengths])
      BY DEF lengths
    <2> HIDE DEF Two
    <2>3. Two \in Seq(Cells) /\ Len(Two) = 1 + Len(lengths) /\ Two[1] = <<0, 0, Len(lengths), 0>>
      BY <2>1, <2>2, PlainHeader
    <2> QED
      BY <2>1, <2>3
  <1> HIDE DEF One, Two
  <1>4. \/ s.data[1] = <<0, 0, 1, 0>>
        \/ s.data[1] = <<0, 0, 2, 0>> /\ Len(s.data) = 2
    <2>1. CASE s.data = One \o Payload(1, 1, 0)
      <3> DEFINE P == Payload(1, 1, 0)
                 J == One \o P
      <3>1. P \in Seq(Cells)
        BY PayloadIsSequence
      <3> HIDE DEF P
      <3>2. \A i \in 1 .. Len(One) : J[i] = One[i]
        BY <1>2, <3>1, Joined
      <3>3. s.data = J
        BY <2>1 DEF P
      <3> HIDE DEF J
      <3> QED
        BY <1>2, <3>2, <3>3
    <2>2. CASE s.data = SubSeq(Two, 1, 2)
      BY <1>3, <2>2
    <2> QED
      BY <1>1, <2>1, <2>2
  <1>5. ASSUME NEW buf, IsBuffer(buf, 2)
        PROVE  IsBuffer(AddToBuffer(buf, s), 2) /\ AddToBuffer(buf, s).payload[1] = PayloadAfter(buf, s)
    <2>1. AddToBuffer(buf, s) = AddToMulti(buf, s)
      BY <1>5 DEF IsBuffer, AddToBuffer
    <2>2. ~Accepted(buf, s.data)
      <3>1. CASE s.data[1] = <<0, 0, 1, 0>>
        <4>1. Len([i \in 1 .. s.data[1][3] |-> s.data[1 + s.data[1][4] + i][4]]) = 1
          BY <3>1
        <4>2. Len(ReadHeader(s.data).lengths) = 1
          BY <4>1 DEF ReadHeader
        <4> QED
          BY <1>5, <4>2 DEF Accepted, IsBuffer
      <3>2. CASE s.data[1] = <<0, 0, 2, 0>> /\ Len(s.data) = 2
        BY <3>2 DEF Accepted, Readable
      <3> QED
        BY <1>4, <3>1, <3>2
    <2>3. AddToMulti(buf, s) = [buf EXCEPT !.start = s.start]
      BY <2>2 DEF AddToMulti
    <2>4. [buf EXCEPT !.start = s.start] = [start |-> s.start, payload |-> buf.payload, size |-> buf.size]
      BY <1>5 DEF IsBuffer
    <2> DEFINE new == AddToBuffer(buf, s)
    <2>5. new = [start |-> s.start, payload |-> buf.payload, size |-> buf.size]
      BY <2>1, <2>3, <2>4
    <2> HIDE DEF new
    <2>6. new.payload = buf.payload /\ new.size = buf.size
      BY <2>5
    <2>7. IsBuffer(new, 2) /\ new.payload[1] = PayloadAfter(buf, s)
      BY <1>1, <1>5, <2>5, <2>6 DEF IsBuffer, HasRoom, PayloadAfter
    <2> QED
      BY <2>7 DEF new
  <1> QED
    BY <1>1, <1>5, EmptyIsSequence DEF Faithful

\* Every sample an application captures puts in its payload or leaves the last.
LEMMA SampleFaithful ==
  ASSUME PathInv, NEW start, NEW s \in Samples(start)
  PROVE  Faithful(s)
  <1>1. config.channels \in {1, 2} /\ (config.amr => config.channels = 1) /\ Len(samples) \in Nat
    <2>1. config \in Configs
      BY DEF PathInv
    <2>2. Len(samples) \in Nat
      BY Extent DEF PathInv, PathParts, AllSequences
    <2> QED
      BY <2>1, <2>2, PathAssumption
  <1>2. CASE config.channels = 2
    <2>1. CASE s \in MuxedSamples(start)
      <3>1. PICK f \in {0, 7}, n \in Lengths : s = MuxedSample(start, f, n)
        BY <2>1 DEF MuxedSamples
      <3>2. n \in Nat \ {0} /\ ~config.amr
        BY <1>1, <1>2, PathAssumption
      <3> QED
        BY <1>1, <1>2, <3>1, <3>2, MuxedFaithful
    <2>2. CASE s \in RejectedSamples(start)
      BY <1>1, <1>2, <2>2, RejectedFaithful
    <2> QED
      BY <1>2, <2>1, <2>2 DEF Samples
  <1>3. CASE config.channels = 1
    <2>1. CASE s \in AmrSamples(start)
      <3>1. PICK byte \in Headers : s = SingleSample(start, 2, byte)
        BY <2>1 DEF AmrSamples
      <3>2. byte \in 0 .. 255
        BY PathAssumption
      <3> QED
        BY <1>1, <1>3, <3>1, <3>2, SingleFaithful
    <2>2. CASE s \in PlainSamples(start)
      <3>1. PICK n \in Lengths : s = SingleSample(start, n, 0)
        BY <2>2 DEF PlainSamples
      <3>2. n \in Nat \ {0}
        BY PathAssumption
      <3> QED
        BY <1>1, <1>3, <3>1, <3>2, SingleFaithful
    <2> QED
      BY <1>3, <2>1, <2>2 DEF Samples
  <1> QED
    BY <1>1, <1>2, <1>3

-----------------------------------------------------------------------------
(***************************************************************************)
(* Which payload a frame has.                                              *)
(***************************************************************************)

\* raw is the payload of the last good sample among the first k.
From(given, k, raw) ==
  \/ raw = <<>> /\ \A i \in 1 .. k : given[i].carries = <<>>
  \/ /\ raw # <<>>
     /\ \E j \in 1 .. k : /\ raw = given[j].carries
                          /\ \A i \in 1 .. k : i > j => given[i].carries = <<>>

\* data is what is sent of it.
Sends(given, k, data) ==
  \E raw : From(given, k, raw) /\ (config.amr => raw # <<>>) /\ data = Body(raw)

\* A sample that is given later changes nothing about earlier ones.
LEMMA FromKept ==
  ASSUME NEW given, NEW s, IsSequence(given), NEW k \in Nat, k <= Len(given), NEW raw,
         From(given, k, raw)
  PROVE  From(Append(given, s), k, raw)
  <1> DEFINE G == Append(given, s)
  <1>1. \A i \in 1 .. k : G[i] = given[i]
    BY Appended, Extent
  <1> HIDE DEF G
  <1>2. From(G, k, raw)
    BY <1>1 DEF From
  <1> QED
    BY <1>2 DEF G

\* One sample further: its payload if it is good, and otherwise the one before.
LEMMA FromNext ==
  ASSUME NEW given, NEW k \in Nat, NEW raw, From(given, k, raw)
  PROVE  From(given, k + 1, IF given[k + 1].carries # <<>> THEN given[k + 1].carries ELSE raw)
  <1>1. \A i \in 1 .. k + 1 : i \in 1 .. k \/ i = k + 1
    OBVIOUS
  <1>2. CASE given[k + 1].carries # <<>>
    <2>1. k + 1 \in 1 .. k + 1 /\ \A i \in 1 .. k + 1 : ~(i > k + 1)
      OBVIOUS
    <2> QED
      BY <1>2, <2>1 DEF From
  <1>3. CASE given[k + 1].carries = <<>>
    <2>1. CASE raw = <<>>
      BY <1>1, <1>3, <2>1 DEF From
    <2>2. CASE raw # <<>>
      <3>1. PICK j \in 1 .. k : raw = given[j].carries /\ \A i \in 1 .. k : i > j => given[i].carries = <<>>
        BY <2>2 DEF From
      <3>2. j \in 1 .. k + 1 /\ \A i \in 1 .. k + 1 : i > j => given[i].carries = <<>>
        BY <1>1, <1>3, <3>1
      <3> QED
        BY <1>3, <2>2, <3>1, <3>2 DEF From
    <2> QED
      BY <2>1, <2>2
  <1> QED
    BY <1>2, <1>3

\* The greatest element of a set is the one that is chosen.
LEMMA Greatest ==
  ASSUME NEW S, S \subseteq Nat, NEW j \in S, \A i \in S : i <= j
  PROVE  (CHOOSE m \in S : \A i \in S : i <= m) = j
  <1> DEFINE top == CHOOSE m \in S : \A i \in S : i <= m
  <1>1. top \in S /\ \A i \in S : i <= top
    <2>1. \E m \in S : \A i \in S : i <= m
      OBVIOUS
    <2> QED
      BY <2>1, Zenon
  <1> HIDE DEF top
  <1>2. top <= j /\ j <= top /\ top \in Nat /\ j \in Nat
    BY <1>1
  <1>3. top = j
    BY <1>2
  <1> QED
    BY <1>3 DEF top

\* The relation and the operator of FramesAreCaptured agree.
LEMMA CarriedIs ==
  ASSUME NEW k \in Nat, NEW data, config.amr \in BOOLEAN, Sends(samples, k, data)
  PROVE  data = Carried(k)
  <1> DEFINE good == {j \in 1 .. k : samples[j].carries # <<>>}
             last == CHOOSE j \in good : \A i \in good : i <= j
  <1>1. PICK raw : From(samples, k, raw) /\ (config.amr => raw # <<>>) /\ data = Body(raw)
    BY DEF Sends
  <1>2. Carried(k) = IF good = {} THEN <<>> ELSE Body(samples[last].carries)
    BY DEF Carried
  <1>3. CASE raw = <<>>
    <2>1. good = {}
      BY <1>1, <1>3 DEF From
    <2>2. Body(raw) = <<>>
      BY <1>1, <1>3 DEF Body
    <2> QED
      BY <1>1, <1>2, <2>1, <2>2
  <1>4. CASE raw # <<>>
    <2>1. PICK j \in 1 .. k : raw = samples[j].carries /\ \A i \in 1 .. k : i > j => samples[i].carries = <<>>
      BY <1>1, <1>4 DEF From
    <2>2. j \in good /\ (\A i \in good : i <= j) /\ good \subseteq Nat
      BY <1>4, <2>1
    <2> HIDE DEF good
    <2>4. last = j
      BY <2>2, Greatest
    <2> HIDE DEF last
    <2>5. good # {}
      BY <2>2
    <2> QED
      BY <1>1, <1>2, <2>1, <2>4, <2>5
  <1> QED
    BY <1>3, <1>4

-----------------------------------------------------------------------------
(***************************************************************************)
(* The invariant: what the buffer holds, and every frame, comes from the   *)
(* last good sample.                                                       *)
(***************************************************************************)
\* What the sink is given of data, behind a frame of the size before.
Cut(d, data, before) ==
  /\ Len(data) > fMaxSize => /\ d.data = Garbage /\ d.size = fMaxSize
                             /\ ~config.amr => d.truncated = Len(data) - before
  /\ ~(Len(data) > fMaxSize) => d.data = data /\ d.size = Len(data) /\ d.truncated = 0

SentOrCut(del, i) == \E data : Sends(samples, i, data) /\ Cut(del[i], data, SizeBefore(del, i))

DataParts(buf, del, q, size) ==
  /\ IsBuffer(buf, config.channels)
  /\ From(samples, Len(del) + Len(q), buf.payload[1])
  /\ \A i \in 1 .. Len(q) : Sends(samples, Len(del) + i, q[i].data)
  /\ \A i \in 1 .. Len(del) : SentOrCut(del, i)
  /\ ~config.amr => size = SizeBefore(del, Len(del) + 1)

DataInv ==
  /\ \A k \in 1 .. Len(samples) : Faithful(samples[k])
  /\ DataParts(m_pSampleBuffer, delivered, m_qMediaSamples, fFrameSize)

\* A frame is delivered as it is, or, if it is too large, without content.
LEMMA DeliveredData ==
  ASSUME NEW buf, NEW del, NEW q, IsSequence(del), IsSequence(q), q # <<>>,
         NEW pres, NEW behind, NEW size, DataParts(buf, del, q, size)
  PROVE  LET d == Delivery(Head(q), pres, behind, size)
         IN  DataParts(buf, Append(del, d), Tail(q), d.size)
  <1> DEFINE d == Delivery(Head(q), pres, behind, size)
             D == Append(del, d)
             T == Tail(q)
  <1>1. /\ Len(del) \in Nat /\ Len(q) \in Nat /\ Len(q) > 0
        /\ Len(D) = Len(del) + 1
        /\ \A i \in 1 .. Len(del) : D[i] = del[i]
        /\ D[Len(del) + 1] = d
        /\ Len(T) = Len(q) - 1
        /\ \A i \in 1 .. Len(q) - 1 : T[i] = q[i + 1]
        /\ Head(q) = q[1]
    BY Extent, Appended, Shortened
  <1>2. Cut(d, Head(q).data, SizeBefore(del, Len(del) + 1))
    <2>1. ~config.amr => size = SizeBefore(del, Len(del) + 1)
      BY DEF DataParts
    <2> QED
      BY <2>1 DEF Delivery, Cut
  <1> HIDE DEF d, D, T
  <1>3. \A i \in 1 .. Len(del) + 1 : SizeBefore(D, i) = SizeBefore(del, i)
    <2> SUFFICES ASSUME NEW i \in 1 .. Len(del) + 1 PROVE SizeBefore(D, i) = SizeBefore(del, i)
      OBVIOUS
    <2>1. CASE i = 1
      BY <2>1 DEF SizeBefore
    <2>2. CASE i # 1
      <3>1. i - 1 \in 1 .. Len(del)
        BY <1>1, <2>2
      <3>2. D[i - 1] = del[i - 1]
        BY <1>1, <3>1
      <3> QED
        BY <2>2, <3>2 DEF SizeBefore
    <2> QED
      BY <2>1, <2>2
  <1>4. \A i \in 1 .. Len(D) : SentOrCut(D, i)
    <2> SUFFICES ASSUME NEW i \in 1 .. Len(D) PROVE SentOrCut(D, i)
      OBVIOUS
    <2>1. CASE i \in 1 .. Len(del)
      <3>1. SentOrCut(del, i)
        BY <2>1 DEF DataParts
      <3>2. D[i] = del[i] /\ SizeBefore(D, i) = SizeBefore(del, i)
        BY <1>1, <1>3, <2>1
      <3> QED
        BY <3>1, <3>2 DEF SentOrCut
    <2>2. CASE i = Len(del) + 1
      <3>1. Sends(samples, Len(del) + 1, Head(q).data)
        BY <1>1 DEF DataParts
      <3>2. D[i] = d /\ SizeBefore(D, i) = SizeBefore(del, Len(del) + 1)
        BY <1>1, <1>3, <2>2
      <3> QED
        BY <1>2, <2>2, <3>1, <3>2 DEF SentOrCut
    <2> QED
      BY <1>1, <2>1, <2>2
  <1>8. d.size = SizeBefore(D, Len(D) + 1)
    <2>1. Len(D) + 1 # 1 /\ D[(Len(D) + 1) - 1] = d
      BY <1>1
    <2> QED
      BY <2>1 DEF SizeBefore
  <1>5. \A i \in 1 .. Len(T) : Sends(samples, Len(D) + i, T[i].data)
    <2> SUFFICES ASSUME NEW i \in 1 .. Len(T) PROVE Sends(samples, Len(D) + i, T[i].data)
      OBVIOUS
    <2>1. i + 1 \in 1 .. Len(q) /\ T[i] = q[i + 1] /\ Len(D) + i = Len(del) + (i + 1)
      BY <1>1
    <2> QED
      BY <2>1 DEF DataParts
  <1>6. Len(D) + Len(T) = Len(del) + Len(q)
    BY <1>1
  <1>7. DataParts(buf, D, T, d.size)
    BY <1>4, <1>5, <1>6, <1>8 DEF DataParts
  <1> QED
    BY <1>7 DEF d, D, T

LEMMA DataPrimed ==
  ASSUME UNCHANGED <<config, samples>>, DataParts(m_pSampleBuffer', delivered', m_qMediaSamples', fFrameSize')
  PROVE  DataParts(m_pSampleBuffer, delivered, m_qMediaSamples, fFrameSize)'
  <1>1. /\ IsBuffer(m_pSampleBuffer, config.channels)'
        /\ From(samples, Len(delivered) + Len(m_qMediaSamples), m_pSampleBuffer.payload[1])'
        /\ (\A i \in 1 .. Len(m_qMediaSamples) : Sends(samples, Len(delivered) + i, m_qMediaSamples[i].data))'
    BY DEF DataParts, Sends, From, Body
  <1>2. (\A i \in 1 .. Len(delivered) : SentOrCut(delivered, i))'
    <2> SUFFICES ASSUME NEW i \in 1 .. Len(delivered') PROVE SentOrCut(delivered, i)'
      OBVIOUS
    <2>1. SentOrCut(delivered', i)
      BY DEF DataParts
    <2>2. PICK data : Sends(samples, i, data) /\ Cut(delivered'[i], data, SizeBefore(delivered', i))
      BY <2>1 DEF SentOrCut
    <2>3. Sends(samples, i, data)'
      BY <2>2 DEF Sends, From, Body
    <2>4. Cut(delivered[i], data, SizeBefore(delivered, i))'
      BY <2>2 DEF Cut, SizeBefore
    <2> QED
      BY <2>3, <2>4 DEF SentOrCut
  <1>3. (~config.amr => fFrameSize = SizeBefore(delivered, Len(delivered) + 1))'
    BY DEF DataParts, SizeBefore
  <1> QED
    BY <1>1, <1>2, <1>3 DEF DataParts

LEMMA DataKept ==
  DataInv /\ UNCHANGED <<config, samples, m_pSampleBuffer, delivered, m_qMediaSamples, fFrameSize>> => DataInv'
  <1> SUFFICES ASSUME DataInv, UNCHANGED <<config, samples, m_pSampleBuffer, delivered, m_qMediaSamples, fFrameSize>>
               PROVE  DataInv'
    OBVIOUS
  <1>1. DataParts(m_pSampleBuffer', delivered', m_qMediaSamples', fFrameSize')
    BY DEF DataInv
  <1>2. DataParts(m_pSampleBuffer, delivered, m_qMediaSamples, fFrameSize)'
    BY <1>1, DataPrimed
  <1> QED
    BY <1>2 DEF DataInv, Faithful

\* Delivery from a queue that has the right payloads, and a buffer that has.
LEMMA DeliveryHasData ==
  ASSUME NEW q, NEW size, NEW header, DeliverFrame(q, size, header), q # <<>>, IsSequence(q),
         IsSequence(delivered), UNCHANGED <<config, samples>>,
         \A k \in 1 .. Len(samples) : Faithful(samples[k]),
         DataParts(m_pSampleBuffer', delivered, q, size)
  PROVE  DataInv'
  <1>1. PICK pres : HandOver(q, pres, size)
    BY DEF DeliverFrame
  <1>2. /\ m_qMediaSamples' = Tail(q)
        /\ delivered' = Append(delivered, Delivery(Head(q), pres, Len(q) - 1, size))
        /\ fFrameSize' = Delivery(Head(q), pres, Len(q) - 1, size).size
    BY <1>1 DEF HandOver
  <1>3. DataParts(m_pSampleBuffer', delivered', m_qMediaSamples', fFrameSize')
    BY <1>2, DeliveredData
  <1>4. DataParts(m_pSampleBuffer, delivered, m_qMediaSamples, fFrameSize)'
    BY <1>3, DataPrimed
  <1>5. UNCHANGED <<config, samples>>
    OBVIOUS
  <1> QED
    BY <1>4, <1>5 DEF DataInv, Faithful

\* What is retrieved from the buffer after a sample.
LEMMA RetrievedData ==
  ASSUME PathInv, DataInv, pending # <<>>
  PROVE  LET buf == AddToBuffer(m_pSampleBuffer, Head(pending))
             q == Append(m_qMediaSamples, Retrieve(buf).frame)
         IN DataParts(buf, delivered, q, Retrieve(buf).size)
  <1> DEFINE s == Head(pending)
             buf == AddToBuffer(m_pSampleBuffer, s)
             frame == Retrieve(buf).frame
             size == Retrieve(buf).size
             q == Append(m_qMediaSamples, frame)
             k == Len(delivered) + Len(m_qMediaSamples)
             raw == PayloadAfter(m_pSampleBuffer, s)
  <1>1. /\ Len(delivered) \in Nat /\ Len(m_qMediaSamples) \in Nat /\ Len(pending) \in Nat
        /\ Len(pending) > 0 /\ Head(pending) = pending[1]
        /\ Len(q) = Len(m_qMediaSamples) + 1
        /\ \A i \in 1 .. Len(m_qMediaSamples) : q[i] = m_qMediaSamples[i]
        /\ q[Len(m_qMediaSamples) + 1] = frame
    BY Extent, Appended, Shortened DEF PathInv, PathParts, AllSequences
  <1>2. s = samples[k + 1] /\ k \in Nat /\ k + 1 \in 1 .. Len(samples)
    BY <1>1 DEF PathInv, PathParts, Fits
  <1>3. IsBuffer(m_pSampleBuffer, config.channels) /\ Faithful(s)
    BY <1>2 DEF DataInv, DataParts
  <1>4. IsBuffer(buf, config.channels) /\ buf.payload[1] = raw /\ (config.amr => raw # <<>>)
    BY <1>3 DEF Faithful, PayloadAfter
  <1>5. From(samples, k + 1, raw)
    <2>1. From(samples, k, m_pSampleBuffer.payload[1])
      BY DEF DataInv, DataParts
    <2> HIDE DEF k, s
    <2>2. From(samples, k + 1, IF samples[k + 1].carries # <<>> THEN samples[k + 1].carries
                                                               ELSE m_pSampleBuffer.payload[1])
      BY <1>2, <2>1, FromNext
    <2> QED
      BY <1>2, <2>2 DEF PayloadAfter
  <1> HIDE DEF raw
  <1>6. frame.data = Body(raw)
    <2> HIDE DEF buf
    <2>1. NextFrame(buf).data = raw /\ NextFrame(buf) = [start |-> buf.start, data |-> raw]
      BY <1>4 DEF NextFrame
    <2>2. CASE config.amr
      <3>1. [NextFrame(buf) EXCEPT !.data = Tail(@)].data = Tail(raw)
        BY <2>1
      <3> QED
        BY <2>2, <3>1 DEF Retrieve, RetrieveAmr, Body
    <2>3. CASE ~config.amr
      BY <2>1, <2>3 DEF Retrieve, RetrievePlain, Body
    <2> QED
      BY <2>2, <2>3
  <1>12. ~config.amr => size = SizeBefore(delivered, Len(delivered) + 1)
    <2>1. ~config.amr => size = fFrameSize
      BY DEF Retrieve, RetrievePlain
    <2> QED
      BY <2>1 DEF DataInv, DataParts
  <1> HIDE DEF buf, frame, size, q, s
  <1>7. Sends(samples, k + 1, frame.data)
    BY <1>4, <1>5, <1>6 DEF Sends
  <1>8. Len(delivered) + Len(q) = k + 1
    BY <1>1
  <1>9. \A i \in 1 .. Len(q) : Sends(samples, Len(delivered) + i, q[i].data)
    <2> SUFFICES ASSUME NEW i \in 1 .. Len(q) PROVE Sends(samples, Len(delivered) + i, q[i].data)
      OBVIOUS
    <2>1. CASE i \in 1 .. Len(m_qMediaSamples)
      BY <1>1, <2>1 DEF DataInv, DataParts
    <2>2. CASE i = Len(m_qMediaSamples) + 1
      <3>1. Len(delivered) + i = k + 1 /\ q[i] = frame
        BY <1>1, <2>2
      <3> QED
        BY <1>7, <3>1
    <2> QED
      BY <1>1, <2>1, <2>2
  <1>10. \A i \in 1 .. Len(delivered) : SentOrCut(delivered, i)
    BY DEF DataInv, DataParts
  <1>11. DataParts(buf, delivered, q, size)
    BY <1>4, <1>5, <1>8, <1>9, <1>10, <1>12 DEF DataParts
  <1> QED
    BY <1>11 DEF buf, frame, size, q, s

\* The event loop takes a sample.
LEMMA DataPoll ==
  ASSUME PathInv, DataInv, Poll
  PROVE  DataInv'
  <1> DEFINE s == Head(pending)
             buf == AddToBuffer(m_pSampleBuffer, s)
             r == Retrieve(buf)
             q == Append(m_qMediaSamples, r.frame)
  <1>1. /\ UNCHANGED <<config, samples>> /\ pending # <<>> /\ m_pSampleBuffer' = buf
        /\ \/ DeliverFrame(q, r.size, r.header)
           \/ m_qMediaSamples' = q /\ fFrameSize' = r.size /\ UNCHANGED delivered
    BY DEF Poll, AddMediaSample, sinkVars
  <1>2. DataParts(buf, delivered, q, r.size)
    BY <1>1, RetrievedData
  <1>3. IsSequence(q) /\ q # <<>> /\ IsSequence(delivered)
    BY Appended DEF PathInv, PathParts, AllSequences
  <1> HIDE DEF r, buf, q
  <1>4. DataParts(m_pSampleBuffer', delivered, q, r.size)
    BY <1>1, <1>2
  <1>5. CASE DeliverFrame(q, r.size, r.header)
    BY <1>1, <1>3, <1>4, <1>5, DeliveryHasData DEF DataInv
  <1>6. CASE m_qMediaSamples' = q /\ fFrameSize' = r.size /\ UNCHANGED delivered
    <2>1. DataParts(m_pSampleBuffer', delivered', m_qMediaSamples', fFrameSize')
      BY <1>4, <1>6
    <2>2. DataParts(m_pSampleBuffer, delivered, m_qMediaSamples, fFrameSize)'
      BY <1>1, <2>1, DataPrimed
    <2> QED
      BY <1>1, <2>2 DEF DataInv, Faithful
  <1> QED
    BY <1>1, <1>5, <1>6

\* A new sample leaves buffer and frames alone.
LEMMA DataGiven ==
  ASSUME NEW s, PathInv, DataInv, Faithful(s), Give(s), UNCHANGED deviceVars
  PROVE  DataInv'
  <1>1. UNCHANGED <<config, m_pSampleBuffer, delivered, m_qMediaSamples, fFrameSize>> /\ samples' = Append(samples, s)
    BY DEF deviceVars, sourceVars, sinkVars, Give
  <1>2. /\ Len(samples) \in Nat /\ Len(samples') = Len(samples) + 1
        /\ \A i \in 1 .. Len(samples) : samples'[i] = samples[i]
        /\ samples'[Len(samples) + 1] = s
        /\ IsSequence(samples)
    BY <1>1, Appended, Extent DEF PathInv, PathParts, AllSequences
  <1>3. \A k \in 1 .. Len(samples') : Faithful(samples'[k])
    <2> SUFFICES ASSUME NEW k \in 1 .. Len(samples') PROVE Faithful(samples'[k])
      OBVIOUS
    <2>1. CASE k \in 1 .. Len(samples)
      BY <1>2, <2>1 DEF DataInv
    <2>2. CASE k = Len(samples) + 1
      BY <1>2, <2>2
    <2> QED
      BY <1>2, <2>1, <2>2
  <1>4. /\ Len(delivered) \in Nat /\ Len(m_qMediaSamples) \in Nat
        /\ Len(delivered) + Len(m_qMediaSamples) <= Len(samples)
    BY <1>2, Extent DEF PathInv, PathParts, AllSequences, Fits
  <1>5. \A k \in Nat : \A raw : k <= Len(samples) /\ From(samples, k, raw) => From(samples', k, raw)
    BY <1>1, <1>2, FromKept
  <1>6. \A k \in Nat : \A data : k <= Len(samples) /\ Sends(samples, k, data) => Sends(samples', k, data)
    BY <1>5 DEF Sends
  <1>7. From(samples', Len(delivered) + Len(m_qMediaSamples), m_pSampleBuffer.payload[1])
    BY <1>4, <1>5 DEF DataInv, DataParts
  <1>8. ASSUME NEW i \in 1 .. Len(m_qMediaSamples)
        PROVE  Sends(samples', Len(delivered) + i, m_qMediaSamples[i].data)
    <2>1. Len(delivered) + i \in Nat /\ Len(delivered) + i <= Len(samples)
      BY <1>2, <1>4
    <2> QED
      BY <1>6, <2>1 DEF DataInv, DataParts
  <1>9. ASSUME NEW i \in 1 .. Len(delivered)
        PROVE  \E data : Sends(samples', i, data) /\ Cut(delivered[i], data, SizeBefore(delivered, i))
    <2>1. i \in Nat /\ i <= Len(samples)
      BY <1>2, <1>4
    <2>2. SentOrCut(delivered, i)
      BY DEF DataInv, DataParts
    <2> QED
      BY <1>6, <2>1, <2>2 DEF SentOrCut
  <1>10. DataParts(m_pSampleBuffer, delivered, m_qMediaSamples, fFrameSize)'
    <2>1. IsBuffer(m_pSampleBuffer, config.channels)'
      BY <1>1 DEF DataInv, DataParts, IsBuffer
    <2>2. From(samples, Len(delivered) + Len(m_qMediaSamples), m_pSampleBuffer.payload[1])'
      BY <1>1, <1>7 DEF From
    <2>3. \A i \in 1 .. Len(m_qMediaSamples)' : Sends(samples, Len(delivered) + i, m_qMediaSamples[i].data)'
      BY <1>1, <1>8 DEF Sends, From, Body
    <2>4. \A i \in 1 .. Len(delivered)' : SentOrCut(delivered, i)'
      <3> SUFFICES ASSUME NEW i \in 1 .. Len(delivered) PROVE SentOrCut(delivered, i)'
        BY <1>1
      <3>1. PICK data : Sends(samples', i, data) /\ Cut(delivered[i], data, SizeBefore(delivered, i))
        BY <1>9
      <3>2. Sends(samples, i, data)'
        BY <1>1, <3>1 DEF Sends, From, Body
      <3>3. Cut(delivered[i], data, SizeBefore(delivered, i))'
        BY <1>1, <3>1 DEF Cut, SizeBefore
      <3> QED
        BY <3>2, <3>3 DEF SentOrCut
    <2>5. (~config.amr => fFrameSize = SizeBefore(delivered, Len(delivered) + 1))'
      BY <1>1 DEF DataInv, DataParts, SizeBefore
    <2> QED
      BY <2>1, <2>2, <2>3, <2>4, <2>5 DEF DataParts
  <1> QED
    BY <1>1, <1>3, <1>10 DEF DataInv, Faithful

\* DataInv holds of every state.
THEOREM DataInvariant == Spec => []DataInv
  <1>1. Init => DataInv
    <2> SUFFICES ASSUME Init PROVE DataInv
      OBVIOUS
    <2>1. /\ config \in Configs /\ m_pSampleBuffer = NewBuffer(config.channels)
          /\ samples = <<>> /\ delivered = <<>> /\ m_qMediaSamples = <<>> /\ fFrameSize = 0
      <3>1. config \in Configs /\ samples = <<>>
        BY DEF Init
      <3>2. m_pSampleBuffer = NewBuffer(config.channels)
        BY DEF Init, DeviceInit
      <3>3. delivered = <<>> /\ m_qMediaSamples = <<>> /\ fFrameSize = 0
        BY DEF Init, DeviceInit
      <3> QED
        BY <3>1, <3>2, <3>3
    <2>2. config.channels \in {1, 2}
      BY <2>1, PathAssumption
    <2>3. IsBuffer(m_pSampleBuffer, config.channels) /\ m_pSampleBuffer.payload[1] = <<>>
      <3> DEFINE n == config.channels
                 buf == NewBuffer(n)
      <3>1. /\ buf = [start |-> buf.start, payload |-> buf.payload, size |-> buf.size]
            /\ Len(buf.payload) = n /\ DOMAIN buf.payload = 1 .. n /\ DOMAIN buf.size = 1 .. n
            /\ \A i \in 1 .. n : buf.payload[i] = <<>> /\ buf.size[i] = MaxFrameSize
        BY <2>2 DEF NewBuffer
      <3> HIDE DEF buf, n
      <3>2. HasRoom(buf, n)
        BY <3>1, EmptyIsSequence, BufferAssumption DEF HasRoom
      <3>3. 1 \in 1 .. n
        BY <2>2 DEF n
      <3> QED
        BY <2>1, <3>1, <3>2, <3>3 DEF IsBuffer, buf, n
    <2>4. Len(samples) = 0 /\ Len(delivered) = 0 /\ Len(m_qMediaSamples) = 0 /\ 1 .. 0 = {}
      BY <2>1
    <2>5. From(samples, 0, <<>>)
      BY <2>4 DEF From
    <2>6. fFrameSize = SizeBefore(delivered, Len(delivered) + 1)
      BY <2>1, <2>4 DEF SizeBefore
    <2> QED
      BY <2>3, <2>4, <2>5, <2>6 DEF DataInv, DataParts
  <1>2. PathInv /\ DataInv /\ [Next]_vars => DataInv'
    <2> SUFFICES ASSUME PathInv, DataInv, [Next]_vars PROVE DataInv'
      OBVIOUS
    <2>1. CASE Capture
      <3>1. PICK start : \E s \in Samples(start) : Give(s)
        BY <2>1 DEF Capture
      <3>2. PICK s \in Samples(start) : Give(s)
        BY <3>1
      <3>3. Faithful(s) /\ UNCHANGED deviceVars
        BY <2>1, <3>2, SampleFaithful DEF Capture
      <3> QED
        BY <3>2, <3>3, DataGiven
    <2>2. CASE Start \/ TimeoutHandler
      <3>1. config.virtual /\ Generated /\ UNCHANGED deviceVars
        BY <2>2 DEF Start, TimeoutHandler
      <3>2. config.channels = 1 /\ Len(samples) \in Nat
        BY <3>1, PathAssumption, Extent DEF PathInv, PathParts, AllSequences
      <3>3. Faithful(SingleSample(m_dLastTimestamp, 2, 0))
        BY <3>2, SingleFaithful
      <3> QED
        BY <3>1, <3>3, DataGiven DEF Generated
    <2>3. CASE Poll
      BY <2>3, DataPoll
    <2>4. CASE Ask
      <3>1. UNCHANGED <<config, samples, m_pSampleBuffer>>
        BY <2>4 DEF Ask, GetNextFrame
      <3>2. CASE m_qMediaSamples = <<>>
        BY <2>4, <3>1, <3>2, DataKept DEF Ask, GetNextFrame, Await
      <3>3. CASE m_qMediaSamples # <<>>
        <4>1. DeliverFrame(m_qMediaSamples, fFrameSize, fLastFrameHeader)
          BY <2>4, <3>3 DEF Ask, GetNextFrame
        <4>2. DataParts(m_pSampleBuffer', delivered, m_qMediaSamples, fFrameSize)
          BY <3>1 DEF DataInv
        <4> QED
          BY <3>1, <3>3, <4>1, <4>2, DeliveryHasData DEF DataInv, PathInv, PathParts, AllSequences
      <3> QED
        BY <3>2, <3>3
    <2>5. CASE Expiry \/ Stop \/ Play \/ Pause \/ SendNext \/ UNCHANGED vars
      <3>1. UNCHANGED <<config, samples, m_pSampleBuffer, delivered, m_qMediaSamples, fFrameSize>>
        BY <2>5 DEF Expiry, Stop, Play, Pause, SendNext, StartPlaying, StopPlaying, BuildNextPacket,
                    vars, deviceVars, sourceVars, sinkVars
      <3> QED
        BY <3>1, DataKept
    <2> QED
      BY <2>1, <2>2, <2>3, <2>4, <2>5 DEF Next
  <1> QED
    BY <1>1, <1>2, PathInvariant, PTL DEF Spec

\* The way from addAudioMediaSamples through the sample buffer and the device source
\* to the sink: every sample becomes one frame, in order, with its start time and the
\* payload of the last good sample, which reaches the sink whole if it fits and not at
\* all if it does not, with a count of its size less the one before, for any samples, headers, lengths and frame sizes.
THEOREM Captured == Spec => []FramesAreCaptured
  <1>1. PathInv /\ DataInv => FramesAreCaptured
    <2> SUFFICES ASSUME PathInv, DataInv PROVE FramesAreCaptured
      OBVIOUS
    <2> DEFINE frames == delivered \o m_qMediaSamples
    <2>1. /\ Len(delivered) \in Nat /\ Len(m_qMediaSamples) \in Nat
          /\ IsSequence(delivered) /\ IsSequence(m_qMediaSamples)
          /\ config.amr \in BOOLEAN
      <3>1. config.amr \in BOOLEAN
        BY PathAssumption DEF PathInv
      <3> QED
        BY <3>1, Extent DEF PathInv, PathParts, AllSequences
    <2>2. /\ DOMAIN frames = 1 .. Len(delivered) + Len(m_qMediaSamples)
          /\ Len(frames) = Len(delivered) + Len(m_qMediaSamples)
          /\ \A i \in 1 .. Len(delivered) : frames[i] = delivered[i]
          /\ \A i \in 1 .. Len(m_qMediaSamples) : frames[Len(delivered) + i] = m_qMediaSamples[i]
      <3> DEFINE S == {delivered[i] : i \in DOMAIN delivered} \cup
                        {m_qMediaSamples[i] : i \in DOMAIN m_qMediaSamples}
      <3>1. delivered \in Seq(S)
        <4>1. delivered \in [1 .. Len(delivered) -> S]
          BY <2>1 DEF IsSequence
        <4> QED
          BY <2>1, <4>1
      <3>2. m_qMediaSamples \in Seq(S)
        <4>1. m_qMediaSamples \in [1 .. Len(m_qMediaSamples) -> S]
          BY <2>1 DEF IsSequence
        <4> QED
          BY <2>1, <4>1
      <3> HIDE DEF S
      <3>3. /\ frames \in Seq(S) /\ Len(frames) = Len(delivered) + Len(m_qMediaSamples)
            /\ \A i \in 1 .. Len(delivered) : frames[i] = delivered[i]
            /\ \A i \in 1 .. Len(m_qMediaSamples) : frames[Len(delivered) + i] = m_qMediaSamples[i]
        BY <3>1, <3>2, Joined
      <3> HIDE DEF frames
      <3>4. DOMAIN frames = 1 .. Len(frames)
        BY <3>3
      <3> QED
        BY <3>3, <3>4
    <2> HIDE DEF frames
    <2>3. Len(frames) + Len(pending) = Len(samples)
      BY <2>2 DEF PathInv, PathParts, Fits
    <2>4. ASSUME NEW k \in DOMAIN frames
          PROVE  /\ frames[k].start = samples[k].start
                 /\ k > Len(delivered) => frames[k].data = Carried(k)
      <3>1. CASE k \in 1 .. Len(delivered)
        <4>1. frames[k] = delivered[k] /\ ~(k > Len(delivered))
          BY <2>1, <2>2, <3>1
        <4>2. delivered[k].start = samples[k].start
          BY <3>1 DEF PathInv, PathParts, Fits
        <4> QED
          BY <4>1, <4>2
      <3>2. CASE \E i \in 1 .. Len(m_qMediaSamples) : k = Len(delivered) + i
        <4>1. PICK i \in 1 .. Len(m_qMediaSamples) : k = Len(delivered) + i
          BY <3>2
        <4>2. frames[k] = m_qMediaSamples[i] /\ k \in Nat
          BY <2>1, <2>2, <4>1
        <4>3. Sends(samples, k, m_qMediaSamples[i].data)
          BY <4>1 DEF DataInv, DataParts
        <4>4. m_qMediaSamples[i].data = Carried(k)
          BY <2>1, <4>2, <4>3, CarriedIs
        <4>5. m_qMediaSamples[i].start = samples[k].start
          BY <4>1 DEF PathInv, PathParts, Fits
        <4> QED
          BY <4>2, <4>4, <4>5
      <3>3. k \in 1 .. Len(delivered) \/ \E i \in 1 .. Len(m_qMediaSamples) : k = Len(delivered) + i
        <4>1. CASE k > Len(delivered)
          <5>1. k - Len(delivered) \in 1 .. Len(m_qMediaSamples) /\ k = Len(delivered) + (k - Len(delivered))
            BY <2>1, <2>2, <4>1
          <5> QED
            BY <5>1
        <4> QED
          BY <2>1, <2>2, <4>1
      <3> QED
        BY <3>1, <3>2, <3>3
    <2>5. ASSUME NEW k \in DOMAIN delivered
          PROVE  Cut(delivered[k], Carried(k), SizeBefore(delivered, k))
      <3>1. k \in 1 .. Len(delivered) /\ k \in Nat
        BY <2>1, Extent
      <3>2. PICK data : Sends(samples, k, data) /\ Cut(delivered[k], data, SizeBefore(delivered, k))
        BY <3>1 DEF DataInv, DataParts, SentOrCut
      <3>3. data = Carried(k)
        BY <2>1, <3>1, <3>2, CarriedIs
      <3> QED
        BY <3>2, <3>3
    <2> QED
      BY <2>3, <2>4, <2>5 DEF FramesAreCaptured, Cut, frames
  <1> QED
    BY <1>1, PathInvariant, DataInvariant, PTL

-----------------------------------------------------------------------------
(***************************************************************************)
(* Types.  Those of the buffer, the samples, the queues and the time base  *)
(* follow from the invariants above; here are the others.                  *)
(***************************************************************************)
SourceTypes ==
  /\ \A i \in 1 .. Len(m_qMediaSamples) : DOMAIN m_qMediaSamples[i] = {"start", "data"}
  /\ m_bIsPlaying \in BOOLEAN
  /\ fFrameSize \in Nat
  /\ m_dOffsetTime \in Int /\ m_tOffsetTime \in TimeVal
  /\ fLastFrameHeader \in 0 .. 255

\* A packet of another format than AMR is full with its first frame.
SinkTypes ==
  /\ sink \in {"stopped", "asking", "waiting", "sending"}
  /\ packet.marker \in BOOLEAN
  /\ Len(packet.frames) < FramesPerPacket
  /\ ~config.amr => packet.frames = <<>>

\* What is sent of a payload has a length.
LEMMA SentIsSequence ==
  ASSUME \A i \in 1 .. Len(samples) : Faithful(samples[i]), Len(samples) \in Nat,
         NEW k \in Nat, k <= Len(samples), NEW data, Sends(samples, k, data)
  PROVE  IsSequence(data)
  <1>1. PICK raw : From(samples, k, raw) /\ (config.amr => raw # <<>>) /\ data = Body(raw)
    BY DEF Sends
  <1>2. IsSequence(raw)
    <2>1. CASE raw = <<>>
      BY <2>1, EmptyIsSequence
    <2>2. CASE raw # <<>>
      <3>1. PICK j \in 1 .. k : raw = samples[j].carries
        BY <1>1, <2>2 DEF From
      <3>2. Faithful(samples[j])
        BY <3>1
      <3> QED
        BY <3>1, <3>2 DEF Faithful
    <2> QED
      BY <2>1, <2>2
  <1>3. CASE config.amr
    BY <1>1, <1>2, <1>3, Shortened DEF Body
  <1>4. CASE ~config.amr
    BY <1>1, <1>2, <1>4 DEF Body
  <1> QED
    BY <1>3, <1>4

\* A frame joins the packet.
LEMMA PackTypes ==
  ASSUME NEW header, Pack(header), AllSequences, SinkTypes, UNCHANGED config
  PROVE  SinkTypes'
  <1> DEFINE frames == Append(packet.frames, TocEntry(header))
  <1>1. Len(frames) = Len(packet.frames) + 1 /\ Len(packet.frames) \in Nat
    BY Appended, Extent DEF AllSequences
  <1>2. \/ packet' = NoPacket /\ sink' = "sending"
        \/ /\ ~PacketFull(frames)
           /\ packet' = [marker |-> packet.marker, frames |-> frames]
           /\ sink' = "asking"
    BY PackAdds
  <1> HIDE DEF frames
  <1>3. CASE packet' = NoPacket /\ sink' = "sending"
    <2>1. packet'.marker = FALSE /\ packet'.frames = <<>> /\ Len(packet'.frames) = 0
      BY <1>3 DEF NoPacket
    <2>2. packet'.marker \in BOOLEAN
      BY <2>1, Zenon
    <2>3. 0 < FramesPerPacket
      BY SourceAssumption
    <2> QED
      BY <1>3, <2>1, <2>2, <2>3 DEF SinkTypes
  <1>4. CASE /\ ~PacketFull(frames)
             /\ packet' = [marker |-> packet.marker, frames |-> frames]
             /\ sink' = "asking"
    <2>1. packet'.marker = packet.marker /\ packet'.frames = frames
      BY <1>4
    <2>2. config.amr
      <3>1. ~config.amr => Len(frames) = 1
        BY <1>1, EmptyIsSequence DEF SinkTypes
      <3> QED
        BY <1>4, <3>1 DEF PacketFull
    <2>3. Len(frames) # FramesPerPacket
      BY <1>4, <2>2 DEF PacketFull
    <2>4. Len(frames) < FramesPerPacket
      BY <1>1, <2>3, SourceAssumption DEF SinkTypes
    <2> QED
      BY <1>4, <2>1, <2>2, <2>4 DEF SinkTypes
  <1> QED
    BY <1>2, <1>3, <1>4

\* The time base after a step: set as it should be, or left alone.
LEMMA BaseTypes ==
  ASSUME TimeInv', SourceTypes, m_bOffsetSet' \/ UNCHANGED timeBase
  PROVE  m_dOffsetTime' \in Int /\ m_tOffsetTime' \in TimeVal
  <1>1. CASE m_bOffsetSet'
    BY <1>1 DEF TimeInv, TimeVal
  <1>2. CASE UNCHANGED timeBase
    BY <1>2 DEF timeBase, SourceTypes
  <1> QED
    BY <1>1, <1>2

\* A frame is delivered, and the size of it is what it has.
LEMMA DeliveryTypes ==
  ASSUME NEW q, NEW size, NEW header, DeliverFrame(q, size, header), IsSequence(q), q # <<>>,
         \A i \in 1 .. Len(q) : DOMAIN q[i] = {"start", "data"}, IsSequence(Head(q).data)
  PROVE  /\ \A i \in 1 .. Len(m_qMediaSamples') : DOMAIN m_qMediaSamples'[i] = {"start", "data"}
         /\ fFrameSize' \in Nat
         /\ m_bOffsetSet' \/ UNCHANGED timeBase
         /\ Pack(header)
  <1>1. /\ m_bOffsetSet' \/ UNCHANGED timeBase
        /\ Pack(header)
        /\ \E pres : HandOver(q, pres, size)
    BY DEF DeliverFrame
  <1>2. PICK pres : HandOver(q, pres, size)
    BY <1>1
  <1> DEFINE d == Delivery(Head(q), pres, Len(q) - 1, size)
  <1>3. d.size \in Nat
    <2>1. Len(Head(q).data) \in Nat
      BY Extent
    <2>2. d.size = fMaxSize \/ d.size = Len(Head(q).data)
      BY DEF Delivery
    <2> QED
      BY <2>1, <2>2, SourceAssumption
  <1> HIDE DEF d
  <1>4. fFrameSize' = d.size /\ m_qMediaSamples' = Tail(q)
    BY <1>2 DEF HandOver, d
  <1>5. \A i \in 1 .. Len(m_qMediaSamples') : DOMAIN m_qMediaSamples'[i] = {"start", "data"}
    <2>1. /\ Len(q) \in Nat /\ Len(Tail(q)) = Len(q) - 1
          /\ \A i \in 1 .. Len(q) - 1 : Tail(q)[i] = q[i + 1]
      BY Shortened, Extent
    <2>2. \A i \in 1 .. Len(q) - 1 : i + 1 \in 1 .. Len(q)
      BY <2>1
    <2> QED
      BY <1>4, <2>1, <2>2
  <1> QED
    BY <1>1, <1>3, <1>4, <1>5

\* What is retrieved is a frame, with a size and a byte for a header.
LEMMA RetrievedTypes ==
  ASSUME NEW s, Faithful(s), fFrameSize \in Nat, fLastFrameHeader \in 0 .. 255,
         config.amr => Len(m_pSampleBuffer.payload) = 1
  PROVE  LET r == Retrieve(AddToBuffer(m_pSampleBuffer, s)) IN
         /\ DOMAIN r.frame = {"start", "data"}
         /\ r.size \in Nat
         /\ r.header \in 0 .. 255
  <1> DEFINE buf == AddToBuffer(m_pSampleBuffer, s)
             r == Retrieve(buf)
  <1>1. config.amr => r.header = s.data[1][4]
    BY RetrievedSample
  <1>2. config.amr => buf.payload = <<s.data>>
    BY DEF AddToBuffer, AddToSingle
  <1> SUFFICES DOMAIN r.frame = {"start", "data"} /\ r.size \in Nat /\ r.header \in 0 .. 255
    OBVIOUS
  <1> HIDE DEF buf
  <1>3. CASE config.amr
    <2> DEFINE byte == s.data[1][4]
    <2>1. byte \in 0 .. 255 /\ buf.payload[1][1][4] = byte
      BY <1>2, <1>3 DEF Faithful
    <2> HIDE DEF byte
    <2>2. frameSize[(byte \div 8) % 16] \in Nat
      <3>1. (byte \div 8) % 16 \in 0 .. 15
        BY <2>1
      <3>2. \A ft \in 0 .. 15 : frameSize[ft] \in Nat
        <4>1. \A ft \in 0 .. 8 : <<12, 13, 15, 17, 19, 20, 26, 31, 5>>[ft + 1] \in Nat
          OBVIOUS
        <4> QED
          BY <4>1 DEF frameSize, Invalid
      <3> QED
        BY <3>1, <3>2
    <2>3. DOMAIN [NextFrame(buf) EXCEPT !.data = Tail(@)] = {"start", "data"}
      BY DEF NextFrame
    <2>4. /\ r.frame = [NextFrame(buf) EXCEPT !.data = Tail(@)]
          /\ r.size = IF BadPadding(byte) THEN fFrameSize ELSE frameSize[(byte \div 8) % 16]
      BY <1>3, <2>1 DEF Retrieve, RetrieveAmr
    <2>5. r.size \in Nat
      BY <2>2, <2>4
    <2>6. DOMAIN r.frame = {"start", "data"}
      BY <2>3, <2>4
    <2>7. r.header \in 0 .. 255
      BY <1>1, <1>3, <2>1 DEF byte
    <2> QED
      BY <2>5, <2>6, <2>7
  <1>4. CASE ~config.amr
    BY <1>4 DEF Retrieve, RetrievePlain, NextFrame
  <1> QED
    BY <1>3, <1>4

\* The event loop takes a sample.
LEMMA PollTypes ==
  ASSUME PathInv, DataInv, TimeInv', SourceTypes, SinkTypes, Poll
  PROVE  SourceTypes' /\ SinkTypes'
  <1> DEFINE s == Head(pending)
             buf == AddToBuffer(m_pSampleBuffer, s)
             r == Retrieve(buf)
             q == Append(m_qMediaSamples, r.frame)
  <1>1. /\ pending # <<>> /\ UNCHANGED <<config, m_bIsPlaying>>
        /\ fLastFrameHeader' = r.header
        /\ \/ DeliverFrame(q, r.size, r.header)
           \/ m_qMediaSamples' = q /\ fFrameSize' = r.size /\ UNCHANGED <<timeBase, sinkVars>>
    BY DEF Poll, AddMediaSample
  <1>2. /\ Len(delivered) \in Nat /\ Len(m_qMediaSamples) \in Nat /\ Len(pending) \in Nat
        /\ Len(samples) \in Nat /\ Len(pending) > 0 /\ s = pending[1]
        /\ IsSequence(q) /\ q # <<>> /\ Len(q) = Len(m_qMediaSamples) + 1
        /\ \A i \in 1 .. Len(m_qMediaSamples) : q[i] = m_qMediaSamples[i]
        /\ q[Len(m_qMediaSamples) + 1] = r.frame
    BY <1>1, Extent, Appended, Shortened DEF PathInv, PathParts, AllSequences
  <1>3. /\ s = samples[Len(delivered) + Len(m_qMediaSamples) + 1]
        /\ Len(delivered) + Len(m_qMediaSamples) + 1 \in 1 .. Len(samples)
    BY <1>2 DEF PathInv, PathParts, Fits
  <1>4. Faithful(s)
    BY <1>3 DEF DataInv
  <1>5. DOMAIN r.frame = {"start", "data"} /\ r.size \in Nat /\ r.header \in 0 .. 255
    BY <1>4, RetrievedTypes DEF SourceTypes, PathInv
  <1>6. DataParts(buf, delivered, q, r.size)
    BY <1>1, RetrievedData
  <1> HIDE DEF r, buf, q, s
  <1>7. \A i \in 1 .. Len(q) : DOMAIN q[i] = {"start", "data"}
    <2>1. \A i \in 1 .. Len(q) : i \in 1 .. Len(m_qMediaSamples) \/ i = Len(m_qMediaSamples) + 1
      BY <1>2
    <2> QED
      BY <1>2, <1>5, <2>1 DEF SourceTypes
  <1>8. IsSequence(Head(q).data)
    <2>1. Head(q) = q[1] /\ 1 \in 1 .. Len(q)
      BY <1>2, Shortened
    <2>2. Sends(samples, Len(delivered) + 1, Head(q).data)
      BY <1>6, <2>1 DEF DataParts
    <2>3. Len(delivered) + 1 \in Nat /\ Len(delivered) + 1 <= Len(samples)
      BY <1>2, <1>3
    <2> QED
      BY <1>2, <2>2, <2>3, SentIsSequence DEF DataInv
  <1>9. CASE DeliverFrame(q, r.size, r.header)
    <2>1. /\ \A i \in 1 .. Len(m_qMediaSamples') : DOMAIN m_qMediaSamples'[i] = {"start", "data"}
          /\ fFrameSize' \in Nat
          /\ m_bOffsetSet' \/ UNCHANGED timeBase
          /\ Pack(r.header)
      BY <1>2, <1>7, <1>8, <1>9, DeliveryTypes
    <2>2. SinkTypes'
      BY <1>1, <2>1, PackTypes DEF PathInv, PathParts
    <2>3. m_dOffsetTime' \in Int /\ m_tOffsetTime' \in TimeVal
      BY <2>1, BaseTypes
    <2> QED
      BY <1>1, <1>5, <2>1, <2>2, <2>3 DEF SourceTypes
  <1>10. CASE m_qMediaSamples' = q /\ fFrameSize' = r.size /\ UNCHANGED <<timeBase, sinkVars>>
    BY <1>1, <1>5, <1>7, <1>10 DEF SourceTypes, SinkTypes, timeBase, sinkVars
  <1> QED
    BY <1>1, <1>9, <1>10

\* The sink asks.
LEMMA AskTypes ==
  ASSUME PathInv, DataInv, TimeInv', SourceTypes, SinkTypes, Ask
  PROVE  SourceTypes' /\ SinkTypes'
  <1>1. UNCHANGED <<config, fLastFrameHeader>>
    BY DEF Ask, GetNextFrame
  <1>2. CASE m_qMediaSamples = <<>>
    <2>1. /\ sink' = "waiting" /\ m_bIsPlaying' = FALSE
          /\ UNCHANGED <<m_qMediaSamples, fFrameSize, m_dOffsetTime, m_tOffsetTime, packet>>
      BY <1>2 DEF Ask, GetNextFrame, Await, timeBase
    <2> QED
      BY <1>1, <2>1 DEF SourceTypes, SinkTypes
  <1>3. CASE m_qMediaSamples # <<>>
    <2> DEFINE q == m_qMediaSamples
    <2>1. m_bIsPlaying' = TRUE /\ DeliverFrame(q, fFrameSize, fLastFrameHeader)
      BY <1>3 DEF Ask, GetNextFrame
    <2>2. /\ IsSequence(q) /\ 1 \in 1 .. Len(q) /\ Head(q) = q[1]
          /\ Len(delivered) \in Nat /\ Len(samples) \in Nat
          /\ Len(delivered) + 1 <= Len(samples)
      BY <1>3, Extent, Shortened DEF PathInv, PathParts, AllSequences, Fits
    <2>3. IsSequence(Head(q).data)
      <3>1. Sends(samples, Len(delivered) + 1, Head(q).data)
        BY <2>2 DEF DataInv, DataParts
      <3>2. Len(delivered) + 1 \in Nat
        BY <2>2
      <3> QED
        BY <2>2, <3>1, <3>2, SentIsSequence DEF DataInv
    <2>4. /\ \A i \in 1 .. Len(m_qMediaSamples') : DOMAIN m_qMediaSamples'[i] = {"start", "data"}
          /\ fFrameSize' \in Nat
          /\ m_bOffsetSet' \/ UNCHANGED timeBase
          /\ Pack(fLastFrameHeader)
      BY <1>3, <2>1, <2>2, <2>3, DeliveryTypes DEF SourceTypes
    <2>5. SinkTypes'
      BY <1>1, <2>4, PackTypes DEF PathInv, PathParts
    <2>6. m_dOffsetTime' \in Int /\ m_tOffsetTime' \in TimeVal
      BY <2>4, BaseTypes
    <2> QED
      BY <1>1, <2>1, <2>4, <2>5, <2>6 DEF SourceTypes
  <1> QED
    BY <1>2, <1>3

\* The timer counts; the presentation time of the next sample goes with the samples.
LEMMA VirtualTypes ==
  ASSUME VirtualTypeOK, [Next]_vars
  PROVE  VirtualTypeOK'
  <1>1. CASE Start \/ TimeoutHandler
    <2>1. /\ generated < MaxGenerated /\ generated' = generated + 1
          /\ m_dLastTimestamp' = m_dLastTimestamp + Interval /\ m_timer' = "armed"
      BY <1>1 DEF Start, StartSource, TimeoutHandler, Timeout, GenerateMediaSample
    <2>a. expired' \in Nat
      BY <1>1 DEF Start, StartSource, TimeoutHandler, Timeout, VirtualTypeOK
    <2>2. generated' \in 0 .. MaxGenerated
      BY <2>1, VirtualAssumption DEF VirtualTypeOK
    <2>3. (generated + 1) * Interval = generated * Interval + Interval
      BY VirtualAssumption DEF VirtualTypeOK
    <2> QED
      BY <2>1, <2>2, <2>3, <2>a DEF VirtualTypeOK
  <1>2. CASE Expiry
    <2>1. /\ m_timer' = "idle" /\ expired' = expired + 1
          /\ UNCHANGED <<m_dLastTimestamp, generated>>
      BY <1>2 DEF Expiry, Expire
    <2> QED
      BY <2>1 DEF VirtualTypeOK
  <1>3. CASE Stop
    <2>1. /\ m_timer' = "idle"
          /\ UNCHANGED <<expired, m_dLastTimestamp, generated>>
      BY <1>3 DEF Stop, StopSource
    <2> QED
      BY <2>1 DEF VirtualTypeOK
  <1>4. CASE UNCHANGED virtualVars
    BY <1>4 DEF virtualVars, VirtualTypeOK
  <1>5. UNCHANGED virtualVars \/ Start \/ TimeoutHandler \/ Expiry \/ Stop
    BY DEF Next, vars, Capture, Poll, Ask, SendNext, Play, Pause
  <1> QED
    BY <1>1, <1>2, <1>3, <1>4, <1>5

\* Every variable of the capture path keeps its type; no payload is larger than what
\* its buffer has allocated, for any lengths of payloads and any buffers to begin with.
THEOREM TypeCorrect == Spec => []TypeOK
  <1> DEFINE Types == VirtualTypeOK /\ SourceTypes /\ SinkTypes
  <1>1. Init => Types
    <2> SUFFICES ASSUME Init PROVE Types
      OBVIOUS
    <2>1. VirtualTypeOK
      <3>1. m_timer = "idle" /\ expired = 0 /\ m_dLastTimestamp = 0 /\ generated = 0
        BY DEF Init, VirtualInit
      <3> QED
        BY <3>1, VirtualAssumption DEF VirtualTypeOK
    <2>2. SourceTypes
      <3>1. /\ m_qMediaSamples = <<>> /\ fFrameSize = 0
            /\ m_dOffsetTime = 0 /\ m_tOffsetTime = [sec |-> 0, usec |-> 0] /\ fLastFrameHeader = 0
        BY DEF Init, DeviceInit
      <3>3. m_bIsPlaying \in BOOLEAN
        BY Zenon DEF Init, DeviceInit
      <3>2. 1 .. Len(m_qMediaSamples) = {}
        BY <3>1, EmptyIsSequence
      <3> QED
        BY <3>1, <3>2, <3>3 DEF SourceTypes, TimeVal
    <2>3. SinkTypes
      <3>1. sink = "stopped" /\ packet.marker = FALSE /\ packet.frames = <<>>
        BY DEF Init, DeviceInit, NoPacket
      <3>2. packet.marker \in BOOLEAN
        BY <3>1, Zenon
      <3>3. Len(packet.frames) < FramesPerPacket
        BY <3>1, EmptyIsSequence, SourceAssumption
      <3> QED
        BY <3>1, <3>2, <3>3 DEF SinkTypes
    <2> QED
      BY <2>1, <2>2, <2>3
  <1>2. PathInv /\ DataInv /\ TimeInv' /\ Types /\ [Next]_vars => Types'
    <2> SUFFICES ASSUME PathInv, DataInv, TimeInv', Types, [Next]_vars
                 PROVE  SourceTypes' /\ SinkTypes'
      BY VirtualTypes
    <2>1. CASE Poll
      BY <2>1, PollTypes
    <2>2. CASE Ask
      BY <2>2, AskTypes
    <2>3. CASE Play \/ Pause \/ SendNext
      <3>1. /\ UNCHANGED <<config, m_qMediaSamples, m_bIsPlaying, fFrameSize, m_dOffsetTime,
                           m_tOffsetTime, fLastFrameHeader>>
            /\ sink' \in {"stopped", "asking", "waiting", "sending"}
        BY <2>3 DEF Play, Pause, SendNext, StartPlaying, StopPlaying, BuildNextPacket,
                    sourceVars, timeBase
      <3>a. \/ packet' = packet
            \/ packet' = [marker |-> FALSE, frames |-> <<>>]
            \/ packet' = [marker |-> TRUE, frames |-> <<>>]
        BY <2>3 DEF Play, Pause, SendNext, StartPlaying, StopPlaying, BuildNextPacket, NoPacket
      <3>b. packet' = packet \/ ((packet'.marker = TRUE \/ packet'.marker = FALSE) /\ packet'.frames = <<>>)
        BY <3>a
      <3>c. packet' = packet \/ (packet'.marker \in BOOLEAN /\ packet'.frames = <<>>)
        BY <3>b, Zenon
      <3>d. Len(<<>>) < FramesPerPacket
        BY EmptyIsSequence, SourceAssumption
      <3>2. SinkTypes'
        BY <3>1, <3>c, <3>d DEF SinkTypes
      <3> QED
        BY <3>1, <3>2 DEF SourceTypes
    <2>4. CASE UNCHANGED deviceVars
      BY <2>4 DEF deviceVars, sourceVars, sinkVars, timeBase, SourceTypes, SinkTypes
    <2>5. UNCHANGED deviceVars \/ Poll \/ Ask \/ Play \/ Pause \/ SendNext
      BY DEF Next, vars, Capture, Start, TimeoutHandler, Expiry, Stop
    <2> QED
      BY <2>1, <2>2, <2>3, <2>4, <2>5
  <1>3. PathInv /\ DataInv /\ TimeInv /\ Types => TypeOK
    <2> SUFFICES ASSUME PathInv, DataInv, TimeInv, Types PROVE DeviceTypeOK /\ Len(pending) <= Len(samples)
      BY DEF TypeOK
    <2>1. config.channels \in Nat \ {0}
      BY PathAssumption DEF PathInv
    <2>2. /\ Len(m_pSampleBuffer.payload) = config.channels
          /\ \A i \in DOMAIN m_pSampleBuffer.payload :
               Len(m_pSampleBuffer.payload[i]) <= m_pSampleBuffer.size[i]
      BY DEF DataInv, DataParts, IsBuffer, HasRoom
    <2>3. \A i \in DOMAIN m_qMediaSamples : DOMAIN m_qMediaSamples[i] = {"start", "data"}
      BY Extent DEF PathInv, PathParts, AllSequences, SourceTypes
    <2>4. Len(pending) <= Len(samples)
      BY Extent DEF PathInv, PathParts, AllSequences, Fits
    <2> QED
      BY <2>1, <2>2, <2>3, <2>4 DEF DeviceTypeOK, TimeInv, SourceTypes, SinkTypes
  <1> QED
    BY <1>1, <1>2, <1>3, PathInvariant, DataInvariant, TimeInvariant, PTL DEF Spec
=============================================================================
