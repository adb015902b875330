--------------------------- MODULE MCNalSplitter ---------------------------
(***************************************************************************)
(* Payloads of one to three NAL units of one to three bytes each, out of   *)
(* the two values a start code is made of and one other: with every way in *)
(* which zeros and ones can lie before and behind a start code.            *)
(***************************************************************************)
EXTENDS NalSplitter

MCUnits == { startCode \o nal : nal \in UNION {[1..n -> Bytes] : n \in 1..2} \cup {<<0, 0, 0>>, <<0, 0, 1>>} }

MCPayloads ==
  MCUnits \cup {u \o v : u, v \in MCUnits} \cup {u \o v \o w : u, v, w \in MCUnits}
=============================================================================
