---------------------------- MODULE NalSplitter ----------------------------
(***************************************************************************)
(* splitPayloadIntoMediaSamples of LiveH264VideoDeviceSource: the loop     *)
(* that cuts an H.264 payload at its four-byte start codes, one iteration  *)
(* per step.  A sample is the slice of the payload that is copied into it, *)
(* from one position up to and without another, counted from 0 as in the   *)
(* code.                                                                   *)
(*                                                                         *)
(* LiveMediaSubsession.tla uses the result: FramesOf is what this loop     *)
(* computes for payloads of whole NAL units.                               *)
(***************************************************************************)
EXTENDS Integers, Sequences

CONSTANTS
  Bytes,     \* byte values that occur
  Payloads   \* the payloads, each a start code and at least one more byte

startCode == <<0, 0, 0, 1>>

\* memcmp(startCode, p + k, 4) == 0
StartCodeAt(p, k) == SubSeq(p, k + 1, k + 4) = startCode

StartCodes(p) == {k \in 0 .. Len(p) - 4 : StartCodeAt(p, k)}

(***************************************************************************)
(* An encoder puts a NAL unit of at least one byte behind each start code. *)
(***************************************************************************)
NoEmptyNal(p) ==
  /\ Len(p) - 4 \notin StartCodes(p)
  /\ \A k \in StartCodes(p) : k + 4 \notin StartCodes(p)

ASSUME PayloadAssumption ==
  \A p \in Payloads :
    /\ p \in Seq(Bytes)
    /\ Len(p) > 4
    /\ StartCodeAt(p, 0)
    /\ NoEmptyNal(p)

ASSUME BytesAssumption == Bytes \subseteq 0..255

VARIABLES
  pBuffer,
  i,
  uiStartingPos,
  mediaSamples,  \* slices copied so far
  returned

vars == <<pBuffer, i, uiStartingPos, mediaSamples, returned>>

uiSize == Len(pBuffer)

Slice(from, to) == [from |-> from, to |-> to]

TypeOK ==
  /\ pBuffer \in Seq(Bytes)
  /\ i \in 4 .. uiSize
  /\ uiStartingPos \in 4 .. uiSize - 1
  /\ mediaSamples \in Seq([from : 4 .. uiSize - 1, to : 5 .. uiSize])
  /\ returned \in BOOLEAN

\* The payload begins with a start code: else nothing is returned.
Init ==
  /\ pBuffer \in Payloads
  /\ i = 4
  /\ uiStartingPos = 4
  /\ mediaSamples = <<>>
  /\ returned = FALSE

\* Mutated form of Searching: the last start code may be missed.
SearchingShort == i < uiSize - 5

Searching == i < uiSize - 4

\* Mutated form of NotHere: the index stays where it is.
NotHereStays ==
  /\ ~returned
  /\ Searching
  /\ ~StartCodeAt(pBuffer, i)
  /\ UNCHANGED vars

NotHere ==
  /\ ~returned
  /\ Searching
  /\ ~StartCodeAt(pBuffer, i)
  /\ i' = i + 1
  /\ UNCHANGED <<pBuffer, uiStartingPos, mediaSamples, returned>>

\* Mutated form of NextNal: the unit keeps its start code.
NextNalWithCode ==
  /\ ~returned
  /\ Searching
  /\ StartCodeAt(pBuffer, i)
  /\ mediaSamples' = Append(mediaSamples, Slice(uiStartingPos, i))
  /\ uiStartingPos' = i
  /\ i' = i + 1
  /\ UNCHANGED <<pBuffer, returned>>

\* The NAL unit before the start code is copied; the search goes on behind the
\* first byte of the next one.
NextNal ==
  /\ ~returned
  /\ Searching
  /\ StartCodeAt(pBuffer, i)
  /\ mediaSamples' = Append(mediaSamples, Slice(uiStartingPos, i))
  /\ uiStartingPos' = i + 4
  /\ i' = i + 5
  /\ UNCHANGED <<pBuffer, returned>>

\* Mutated form of LastNal: forgotten unless another one came before it.
LastNalOfMany ==
  /\ ~returned
  /\ ~Searching
  /\ mediaSamples' = IF mediaSamples = <<>>
                       THEN <<>> ELSE Append(mediaSamples, Slice(uiStartingPos, uiSize))
  /\ returned' = TRUE
  /\ UNCHANGED <<pBuffer, i, uiStartingPos>>

LastNal ==
  /\ ~returned
  /\ ~Searching
  /\ mediaSamples' = Append(mediaSamples, Slice(uiStartingPos, uiSize))
  /\ returned' = TRUE
  /\ UNCHANGED <<pBuffer, i, uiStartingPos>>

Next == NotHere \/ NextNal \/ LastNal

Spec == Init /\ [][Next]_vars

\* A sequential loop in one thread.
FairSpec == Spec /\ WF_vars(Next)

-----------------------------------------------------------------------------
(***************************************************************************)
(* Properties.                                                             *)
(***************************************************************************)

\* A NAL unit of a payload lies between a start code and the next one, or the
\* end: nothing of it is searched for, it is only described.
IsNal(p, s) ==
  /\ s.from - 4 \in StartCodes(p)
  /\ s.to \in StartCodes(p) \cup {Len(p)}
  /\ s.from < s.to
  /\ \A k \in StartCodes(p) : k < s.from \/ k >= s.to

\* What has been copied are NAL units, in the payload's order and side by side.
SlicesAreNals ==
  \A n \in DOMAIN mediaSamples :
    /\ IsNal(pBuffer, mediaSamples[n])
    /\ n = 1 => mediaSamples[n].from = 4
    /\ n > 1 => mediaSamples[n].from = mediaSamples[n - 1].to + 4

\* At the end all NAL units have been copied: the last sample ends the payload.
AllNalsReturned ==
  returned => mediaSamples # <<>> /\ mediaSamples[Len(mediaSamples)].to = uiSize

\* The loop ends, with a jump of the index inside it.
Terminates == <>returned
=============================================================================
