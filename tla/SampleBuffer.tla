---------------------------- MODULE SampleBuffer ----------------------------
(***************************************************************************)
(* The buffers a subsession parses a media sample into before its device   *)
(* sources retrieve it: lme::SingleMediaSampleBuffer for one channel,      *)
(* lme::MultiMediaSampleBuffer for several, with the in-band header        *)
(* lme::MultiplexedMediaHeader that says where each channel's payload is.  *)
(*                                                                         *)
(* Data is a sequence of cells <<sample, stream, position, byte>>.  A cell *)
(* of sample 0 belongs to a header: the flag byte is <<0, version, number  *)
(* of streams, FourCC indicator>>, and a 32 bit word is the one cell       *)
(* <<0, 0, 0, value>>, so that lengths here count cells.                   *)
(***************************************************************************)
EXTENDS Integers, Sequences

CONSTANT MaxFrameSize  \* m_uiMaxFrameSize: what a buffer holds to begin with

ASSUME BufferAssumption == MaxFrameSize \in Nat \ {0}

Cells == Nat \X Nat \X Nat \X Nat

-----------------------------------------------------------------------------
(***************************************************************************)
(* MultiplexedMediaHeader: [fourCC |-> word, lengths |-> words].           *)
(***************************************************************************)
Word(value) == <<0, 0, 0, value>>

\* Mutated form of HeaderLength: the optional word is forgotten.
HeaderLengthWithoutFourCC(h) == 1 + Len(h.lengths)

\* getHeaderLength asks for the FourCC's value, not for the indicator.
HeaderLength(h) == 1 + Len(h.lengths) + (IF h.fourCC # 0 THEN 1 ELSE 0)

\* writeHeader: the FourCC is written if it is not 0.
WriteHeader(h) ==
  << <<0, 0, Len(h.lengths), IF h.fourCC # 0 THEN 1 ELSE 0>> >>
    \o (IF h.fourCC # 0 THEN <<Word(h.fourCC)>> ELSE <<>>)
    \o [i \in DOMAIN h.lengths |-> Word(h.lengths[i])]

\* read returns a header: version 0, and long enough for the words announced.
Readable(data) ==
  /\ data # <<>>
  /\ data[1][2] = 0
  /\ Len(data) >= 1 + data[1][3] + data[1][4]

ReadHeader(data) ==
  LET bFourCC == data[1][4] IN
  [ fourCC  |-> IF bFourCC = 1 THEN data[2][4] ELSE 0,
    lengths |-> [i \in 1 .. data[1][3] |-> data[1 + bFourCC + i][4]] ]

-----------------------------------------------------------------------------
(***************************************************************************)
(* A buffer is [start, payload, size]: the start time of the last sample,  *)
(* and per channel the payload last copied and the bytes allocated.        *)
(***************************************************************************)
NewBuffer(channels) ==
  [ start   |-> IF channels = 1 THEN 0 ELSE -1,
    payload |-> [i \in 1 .. channels |-> <<>>],
    size    |-> [i \in 1 .. channels |-> MaxFrameSize] ]

\* SingleMediaSampleBuffer::addMediaSample: any data is the one payload.
AddToSingle(buf, s) ==
  [ start   |-> s.start,
    payload |-> <<s.data>>,
    size    |-> <<IF Len(s.data) > buf.size[1] THEN Len(s.data) ELSE buf.size[1]>> ]

\* Mutated form of Doubled: doubled once only.
DoubledOnce(size, length) == IF length <= size THEN size ELSE 2 * size

\* The size is doubled for as long as it is too small.
Doubled(size, length) ==
  LET grow[n \in Nat] == IF length <= n THEN n ELSE grow[2 * n] IN grow[size]

Accepted(buf, data) ==
  Readable(data) /\ Len(ReadHeader(data).lengths) = Len(buf.payload)

\* Where the payload of channel i begins: after the header and those before it.
Offset(h, i) ==
  LET end[n \in 0 .. i - 1] == IF n = 0 THEN HeaderLength(h) ELSE end[n - 1] + h.lengths[n]
  IN end[i - 1]

\* MultiMediaSampleBuffer::addMediaSample: the start time is taken over before the
\* header is read, and stays if the header is bad or counts other streams.  The code
\* copies as many bytes as the header announces without a look at the sample's size:
\* samples here are as long as their header says, as writeHeader's caller makes them.
AddToMulti(buf, s) ==
  LET h == ReadHeader(s.data) IN
  IF Accepted(buf, s.data)
    THEN [ start   |-> s.start,
           payload |-> [i \in DOMAIN buf.payload |->
                         SubSeq(s.data, Offset(h, i) + 1, Offset(h, i) + h.lengths[i])],
           size    |-> [i \in DOMAIN buf.size |-> Doubled(buf.size[i], h.lengths[i])] ]
    ELSE [buf EXCEPT !.start = s.start]

\* The subsession's choice of buffer.  It would also take the one for several channels
\* for a single one of a "switchable format", which nothing in the repository asks for.
AddToBuffer(buf, s) ==
  IF Len(buf.payload) = 1 THEN AddToSingle(buf, s) ELSE AddToMulti(buf, s)

\* SimpleFrameGrabber::getNextFrame, with the current channel left at the first
\* one, as setCurrentChannel is called nowhere: never NULL.
NextFrame(buf) == [start |-> buf.start, data |-> buf.payload[1]]
=============================================================================
