------------------------- MODULE NalSplitter_proofs -------------------------
(***************************************************************************)
(* Proofs about the loop that cuts payloads into NAL units, for payloads   *)
(* of any length over any bytes.  The invariant says what the loop has     *)
(* done so far: there is a start code right before uiStartingPos and none  *)
(* between it and i.                                                       *)
(***************************************************************************)
EXTENDS NalSplitter, TLAPS

Scanned ==
  /\ pBuffer \in Payloads
  /\ uiStartingPos - 4 \in StartCodes(pBuffer)
  /\ \A k \in StartCodes(pBuffer) : k < uiStartingPos \/ k >= i
  /\ uiStartingPos <= i

\* The slice to come begins behind the last one.
Adjacent ==
  ~returned =>
    /\ mediaSamples = <<>> => uiStartingPos = 4
    /\ mediaSamples # <<>> => uiStartingPos = mediaSamples[Len(mediaSamples)].to + 4

SplitInv == TypeOK /\ Scanned /\ Adjacent /\ SlicesAreNals /\ AllNalsReturned

LEMMA PayloadFacts ==
  ASSUME NEW p \in Payloads
  PROVE  /\ Len(p) \in Nat /\ Len(p) > 4
         /\ 0 \in StartCodes(p)
         /\ \A k \in StartCodes(p) : k \in Nat /\ k < Len(p) - 4 /\ k + 4 \notin StartCodes(p)
  BY PayloadAssumption DEF StartCodes, NoEmptyNal

\* One more slice that is a NAL unit and lies behind the last one.
LEMMA AppendNal ==
  ASSUME SplitInv, ~returned, NEW to \in Int,
         IsNal(pBuffer, Slice(uiStartingPos, to)),
         mediaSamples' = Append(mediaSamples, Slice(uiStartingPos, to)),
         UNCHANGED pBuffer
  PROVE  /\ mediaSamples' \in Seq([from : 4 .. uiSize - 1, to : 5 .. uiSize])
         /\ SlicesAreNals'
         /\ mediaSamples' # <<>>
         /\ mediaSamples'[Len(mediaSamples')].to = to
<1> DEFINE new == Slice(uiStartingPos, to)
<1>1. /\ Len(pBuffer) \in Nat /\ pBuffer \in Payloads
      /\ mediaSamples \in Seq([from : 4 .. uiSize - 1, to : 5 .. uiSize])
      /\ uiStartingPos \in 4 .. uiSize - 1
  BY PayloadFacts DEF SplitInv, TypeOK, Scanned
<1>2. new.from = uiStartingPos /\ new.to = to
  BY DEF Slice
<1>3. to <= uiSize /\ uiStartingPos < to
  <2>1. to \in StartCodes(pBuffer) \cup {Len(pBuffer)} /\ uiStartingPos < to
    BY <1>2 DEF IsNal
  <2>2. \A k \in StartCodes(pBuffer) : k \in Nat /\ k < Len(pBuffer)
    <3>1. \A k \in StartCodes(pBuffer) : k \in Nat /\ k < Len(pBuffer) - 4
      BY <1>1, PayloadFacts
    <3> QED
      BY <1>1, <3>1
  <2> QED
    BY <1>1, <2>1, <2>2 DEF uiSize
<1>4. new \in [from : 4 .. uiSize - 1, to : 5 .. uiSize]
  BY <1>1, <1>3 DEF Slice, uiSize
<1>5. mediaSamples' \in Seq([from : 4 .. uiSize - 1, to : 5 .. uiSize])
  BY <1>1, <1>4
<1>6. /\ Len(mediaSamples') = Len(mediaSamples) + 1
      /\ \A n \in 1 .. Len(mediaSamples) : mediaSamples'[n] = mediaSamples[n]
      /\ mediaSamples'[Len(mediaSamples) + 1] = new
      /\ DOMAIN mediaSamples' = 1 .. Len(mediaSamples) + 1
      /\ DOMAIN mediaSamples = 1 .. Len(mediaSamples)
      /\ Len(mediaSamples) \in Nat
  BY <1>1, <1>4
<1>7. IsNal(pBuffer', new)
  BY DEF IsNal
<1>8. ASSUME NEW n \in 1 .. Len(mediaSamples) + 1
      PROVE  /\ IsNal(pBuffer', mediaSamples'[n])
             /\ n = 1 => mediaSamples'[n].from = 4
             /\ n > 1 => mediaSamples'[n].from = mediaSamples'[n - 1].to + 4
  <2>1. CASE n \in 1 .. Len(mediaSamples)
    <3>1. /\ IsNal(pBuffer, mediaSamples[n])
          /\ n = 1 => mediaSamples[n].from = 4
          /\ n > 1 => mediaSamples[n].from = mediaSamples[n - 1].to + 4
      BY <1>6, <2>1 DEF SplitInv, SlicesAreNals
    <3>2. n > 1 => n - 1 \in 1 .. Len(mediaSamples)
      BY <1>6, <2>1
    <3>3. mediaSamples'[n] = mediaSamples[n] /\ (n > 1 => mediaSamples'[n - 1] = mediaSamples[n - 1])
      BY <1>6, <2>1, <3>2
    <3>4. IsNal(pBuffer', mediaSamples'[n])
      BY <3>1, <3>3
    <3> QED
      BY <3>1, <3>3, <3>4
  <2>2. CASE n = Len(mediaSamples) + 1
    <3>1. CASE mediaSamples = <<>>
      <4>1. n = 1 /\ uiStartingPos = 4
        BY <2>2, <3>1 DEF SplitInv, Adjacent
      <4>2. mediaSamples'[n] = new
        BY <1>6, <2>2
      <4>3. mediaSamples'[n].from = 4
        BY <1>2, <4>1, <4>2
      <4> QED
        BY <1>7, <4>1, <4>2, <4>3
    <3>2. CASE mediaSamples # <<>>
      <4>1. n > 1 /\ n - 1 = Len(mediaSamples) /\ n - 1 \in 1 .. Len(mediaSamples)
        BY <1>1, <1>6, <2>2, <3>2
      <4>2. uiStartingPos = mediaSamples[n - 1].to + 4
        BY <3>2, <4>1 DEF SplitInv, Adjacent
      <4>3. mediaSamples'[n] = new /\ mediaSamples'[n - 1] = mediaSamples[n - 1]
        BY <1>6, <2>2, <4>1
      <4> QED
        BY <1>2, <1>7, <4>1, <4>2, <4>3
    <3> QED
      BY <3>1, <3>2
  <2> QED
    BY <1>6, <2>1, <2>2
<1>9. SlicesAreNals'
  BY <1>6, <1>8 DEF SlicesAreNals
<1>10. mediaSamples'[Len(mediaSamples')] = new
  BY <1>6
<1>11. mediaSamples' # <<>>
  BY <1>6
<1>12. mediaSamples'[Len(mediaSamples')].to = to
  BY <1>2, <1>10
<1> QED
  BY <1>5, <1>9, <1>11, <1>12

LEMMA InitSplit == Init => SplitInv
<1> SUFFICES ASSUME Init PROVE SplitInv
  OBVIOUS
<1>1. /\ pBuffer \in Seq(Bytes) /\ Len(pBuffer) \in Nat /\ Len(pBuffer) > 4
      /\ 0 \in StartCodes(pBuffer)
      /\ \A k \in StartCodes(pBuffer) : k \in Nat /\ k + 4 \notin StartCodes(pBuffer)
  BY PayloadFacts, PayloadAssumption DEF Init
<1>2. /\ pBuffer \in Payloads /\ i = 4 /\ uiStartingPos = 4
      /\ mediaSamples = <<>> /\ returned = FALSE
  BY DEF Init
<1>3. TypeOK
  <2>1. 4 \in 4 .. Len(pBuffer) /\ 4 \in 4 .. Len(pBuffer) - 1
    BY <1>1
  <2>2. mediaSamples \in Seq([from : 4 .. uiSize - 1, to : 5 .. uiSize])
    BY <1>2
  <2> QED
    BY <1>1, <1>2, <2>1, <2>2 DEF TypeOK, uiSize
<1>4. Scanned
  <2>1. uiStartingPos - 4 = 0 /\ uiStartingPos <= i
    BY <1>2
  <2>2. ASSUME NEW k \in StartCodes(pBuffer) PROVE k < uiStartingPos \/ k >= i
    <3>1. k \in Nat
      BY <1>1
    <3> QED
      BY <1>2, <3>1
  <2> QED
    BY <1>1, <1>2, <2>1, <2>2 DEF Scanned
<1>5. Adjacent /\ SlicesAreNals /\ AllNalsReturned
  BY <1>2 DEF Adjacent, SlicesAreNals, AllNalsReturned
<1> QED
  BY <1>3, <1>4, <1>5 DEF SplitInv

\* The type invariant needs the rest of SplitInv: that the search index stays
\* within the payload follows from where the last start code can be.
LEMMA SplitInductive == SplitInv /\ [Next]_vars => SplitInv'
<1> SUFFICES ASSUME SplitInv, [Next]_vars PROVE SplitInv'
  OBVIOUS
<1>1. /\ pBuffer \in Payloads
      /\ Len(pBuffer) \in Nat /\ Len(pBuffer) > 4
      /\ i \in Int /\ 4 <= i /\ i <= Len(pBuffer)
      /\ uiStartingPos \in Int /\ 4 <= uiStartingPos /\ uiStartingPos < Len(pBuffer)
      /\ returned \in BOOLEAN
      /\ \A k \in StartCodes(pBuffer) :
           k \in Nat /\ k < Len(pBuffer) - 4 /\ k + 4 \notin StartCodes(pBuffer)
  <2>1. pBuffer \in Payloads
    BY DEF SplitInv, Scanned
  <2>2. /\ Len(pBuffer) \in Nat /\ Len(pBuffer) > 4
        /\ \A k \in StartCodes(pBuffer) :
             k \in Nat /\ k < Len(pBuffer) - 4 /\ k + 4 \notin StartCodes(pBuffer)
    BY <2>1, PayloadFacts
  <2>3. i \in 4 .. Len(pBuffer) /\ uiStartingPos \in 4 .. Len(pBuffer) - 1 /\ returned \in BOOLEAN
    BY DEF SplitInv, TypeOK, uiSize
  <2> QED
    BY <2>1, <2>2, <2>3
<1>2. CASE NotHere
  <2>1. i \notin StartCodes(pBuffer)
    BY <1>1, <1>2 DEF NotHere, StartCodes
  <2>2. Scanned'
    <3>1. i' = i + 1 /\ UNCHANGED <<pBuffer, uiStartingPos>>
      BY <1>2 DEF NotHere
    <3>2. Scanned
      BY DEF SplitInv
    <3>3. ASSUME NEW k \in StartCodes(pBuffer) PROVE k < uiStartingPos \/ k >= i + 1
      <4>1. k # i /\ k \in Nat
        BY <1>1, <2>1
      <4>2. k < uiStartingPos \/ k >= i
        BY <3>2 DEF Scanned
      <4> QED
        BY <1>1, <4>1, <4>2
    <3>4. uiStartingPos <= i + 1
      BY <1>1, <3>2 DEF Scanned
    <3> QED
      BY <3>1, <3>2, <3>3, <3>4 DEF Scanned
  <2>3. TypeOK'
    BY <1>1, <1>2 DEF NotHere, Searching, SplitInv, TypeOK, uiSize
  <2>4. Adjacent' /\ AllNalsReturned' /\ SlicesAreNals'
    BY <1>2 DEF NotHere, SplitInv, Adjacent, AllNalsReturned, SlicesAreNals
  <2> QED
    BY <2>2, <2>3, <2>4 DEF SplitInv
<1>3. CASE NextNal
  <2>1. /\ i \in StartCodes(pBuffer) /\ i < Len(pBuffer) - 4
        /\ i + 4 \notin StartCodes(pBuffer)
    BY <1>1, <1>3 DEF NextNal, Searching, StartCodes, uiSize
  <2>2. uiStartingPos < i
    <3>1. (uiStartingPos - 4) + 4 \notin StartCodes(pBuffer)
      BY <1>1 DEF SplitInv, Scanned
    <3>2. uiStartingPos # i
      BY <1>1, <2>1, <3>1
    <3> QED
      BY <1>1, <3>2 DEF SplitInv, Scanned
  <2>3. IsNal(pBuffer, Slice(uiStartingPos, i))
    BY <1>1, <2>1, <2>2 DEF IsNal, Slice, SplitInv, Scanned
  <2>4. /\ ~returned /\ UNCHANGED <<pBuffer, returned>>
        /\ mediaSamples' = Append(mediaSamples, Slice(uiStartingPos, i))
        /\ uiStartingPos' = i + 4 /\ i' = i + 5
    BY <1>3 DEF NextNal
  <2>5. /\ mediaSamples' \in Seq([from : 4 .. uiSize - 1, to : 5 .. uiSize])
        /\ SlicesAreNals'
        /\ mediaSamples' # <<>> /\ mediaSamples'[Len(mediaSamples')].to = i
    BY <1>1, <2>3, <2>4, AppendNal
  <2>6. TypeOK'
    <3>1. uiSize' = uiSize /\ uiSize = Len(pBuffer)
      BY <2>4 DEF uiSize
    <3>2. pBuffer' \in Seq(Bytes) /\ returned' \in BOOLEAN
      BY <1>1, <2>4 DEF SplitInv, TypeOK
    <3>3. i' \in 4 .. uiSize /\ uiStartingPos' \in 4 .. uiSize - 1
      BY <1>1, <2>1, <2>4, <3>1
    <3> QED
      BY <2>5, <3>1, <3>2, <3>3 DEF TypeOK
  <2>7. Scanned'
    <3>1. \A k \in StartCodes(pBuffer) : k < i + 4 \/ k >= i + 5
      BY <1>1, <2>1
    <3>2. (i + 4) - 4 \in StartCodes(pBuffer)
      BY <1>1, <2>1
    <3> QED
      BY <1>1, <2>4, <3>1, <3>2 DEF Scanned
  <2>8. Adjacent' /\ AllNalsReturned'
    BY <2>4, <2>5 DEF Adjacent, AllNalsReturned
  <2> QED
    BY <2>5, <2>6, <2>7, <2>8 DEF SplitInv
<1>4. CASE LastNal
  <2>1. /\ ~returned /\ returned' = TRUE /\ UNCHANGED <<pBuffer, i, uiStartingPos>>
        /\ mediaSamples' = Append(mediaSamples, Slice(uiStartingPos, Len(pBuffer)))
        /\ i >= Len(pBuffer) - 4
    BY <1>1, <1>4 DEF LastNal, Searching, uiSize
  <2>2. \A k \in StartCodes(pBuffer) : k < uiStartingPos
    <3>1. ASSUME NEW k \in StartCodes(pBuffer) PROVE k < uiStartingPos
      <4>1. k < uiStartingPos \/ k >= i
        BY DEF SplitInv, Scanned
      <4>2. k \in Nat /\ k < Len(pBuffer) - 4
        BY <1>1
      <4>3. i \in Int /\ Len(pBuffer) \in Nat /\ i >= Len(pBuffer) - 4
        BY <1>1, <2>1
      <4> QED
        BY <4>1, <4>2, <4>3
    <3> QED
      BY <3>1
  <2>3. IsNal(pBuffer, Slice(uiStartingPos, Len(pBuffer)))
    BY <1>1, <2>2 DEF IsNal, Slice, SplitInv, Scanned
  <2>4. /\ mediaSamples' \in Seq([from : 4 .. uiSize - 1, to : 5 .. uiSize])
        /\ SlicesAreNals'
        /\ mediaSamples' # <<>> /\ mediaSamples'[Len(mediaSamples')].to = Len(pBuffer)
    <3>1. Len(pBuffer) \in Int /\ UNCHANGED pBuffer /\ ~returned
      BY <1>1, <2>1
    <3> QED
      BY <2>1, <2>3, <3>1, AppendNal
  <2>5. TypeOK'
    <3>1. uiSize' = uiSize
      BY <2>1 DEF uiSize
    <3>2. pBuffer' \in Seq(Bytes) /\ returned' \in BOOLEAN
      BY <2>1 DEF SplitInv, TypeOK
    <3>3. i' \in 4 .. uiSize /\ uiStartingPos' \in 4 .. uiSize - 1
      BY <2>1 DEF SplitInv, TypeOK
    <3> QED
      BY <2>4, <3>1, <3>2, <3>3 DEF TypeOK
  <2>6. Scanned' /\ Adjacent' /\ AllNalsReturned'
    BY <2>1, <2>4 DEF SplitInv, Scanned, Adjacent, AllNalsReturned, uiSize
  <2> QED
    BY <2>4, <2>5, <2>6 DEF SplitInv
<1>5. CASE UNCHANGED vars
  BY <1>5 DEF vars, SplitInv, TypeOK, Scanned, Adjacent, SlicesAreNals, AllNalsReturned, uiSize
<1> QED
  BY <1>2, <1>3, <1>4, <1>5 DEF Next

\* Type correctness: neither position leaves the payload.
THEOREM TypeCorrect == Spec => []TypeOK
<1>1. SplitInv => TypeOK
  BY DEF SplitInv
<1> QED
  BY <1>1, InitSplit, SplitInductive, PTL DEF Spec

\* Every sample is exactly one NAL unit, and they follow each other without a gap.
THEOREM ExactSlices == Spec => []SlicesAreNals
<1>1. SplitInv => SlicesAreNals
  BY DEF SplitInv
<1> QED
  BY <1>1, InitSplit, SplitInductive, PTL DEF Spec

\* No NAL unit of the payload is missing from the result.
THEOREM NothingLost == Spec => []AllNalsReturned
<1>1. SplitInv => AllNalsReturned
  BY DEF SplitInv
<1> QED
  BY <1>1, InitSplit, SplitInductive, PTL DEF Spec

\* What the loop has left to do: the bytes in front of the index, and the return.
Left == (uiSize - i) + (IF returned THEN 0 ELSE 1)

\* A step of the loop leaves less to do than it found.
MovesOn == Left' \in Nat /\ Left' < Left

\* The loop of splitPayloadIntoMediaSamples always moves on, also over a start
\* code, where the index jumps: what is left is a number that every iteration makes
\* smaller, so that it returns after at most as many iterations as the payload
\* has bytes.
THEOREM LoopMovesOn == Spec => [][MovesOn]_vars
<1>1. TypeOK /\ TypeOK' /\ [Next]_vars => [MovesOn]_vars
  <2> SUFFICES ASSUME TypeOK, TypeOK', Next PROVE MovesOn
    BY DEF vars
  <2>1. uiSize \in Nat /\ uiSize' \in Nat
    <3>1. pBuffer \in Seq(Bytes) /\ pBuffer' \in Seq(Bytes)
      BY DEF TypeOK
    <3> QED
      BY <3>1 DEF uiSize
  <2>2. i \in 4 .. uiSize /\ i' \in 4 .. uiSize'
    BY DEF TypeOK
  <2>3. uiSize' = uiSize
    BY DEF Next, NotHere, NextNal, LastNal, uiSize
  <2>4. /\ ~returned
        /\ \/ ~returned' /\ i' > i
           \/ returned' /\ i' = i
    <3> HIDE DEF uiSize
    <3> QED
      BY <2>1, <2>2 DEF Next, NotHere, NextNal, LastNal
  <2>5. Left = uiSize - i + 1
    BY <2>4 DEF Left
  <2> HIDE DEF uiSize
  <2>6. CASE returned'
    <3>1. Left' = uiSize' - i'
      BY <2>1, <2>2, <2>6 DEF Left
    <3> QED
      BY <2>1, <2>2, <2>3, <2>4, <2>5, <2>6, <3>1 DEF MovesOn
  <2>7. CASE ~returned'
    <3>1. Left' = uiSize' - i' + 1
      BY <2>7, Zenon DEF Left
    <3>2. i' > i
      BY <2>4, <2>7
    <3>3. i \in Nat /\ i' \in Nat /\ uiSize \in Nat /\ i' <= uiSize
      BY <2>1, <2>2, <2>3
    <3>4. Left' = uiSize - i' + 1
      BY <3>1, <2>3
    <3>5. uiSize - i' + 1 \in Nat /\ uiSize - i' + 1 < uiSize - i + 1
      <4>1. ASSUME NEW n \in Nat, NEW a \in Nat, NEW b \in Nat, b > a, b <= n
            PROVE  n - b + 1 \in Nat /\ n - b + 1 < n - a + 1
        BY <4>1
      <4> QED
        BY <3>2, <3>3, <4>1, Zenon
    <3> QED
      BY <2>5, <3>4, <3>5, Zenon DEF MovesOn
  <2> QED
    BY <2>6, <2>7
<1> QED
  BY <1>1, TypeCorrect, PTL DEF Spec
=============================================================================
