----------------------- MODULE MCLiveMediaSubsession -----------------------
(***************************************************************************)
(* H.264 payloads: parameter set and IDR frame in one sample, a lone       *)
(* slice, and, for the run that looks for it, a payload in which           *)
(* splitPayloadIntoMediaSamples finds no start code.                       *)
(***************************************************************************)
EXTENDS LiveMediaSubsession

MCPayloads == { <<"sps", "idr">>, <<"slice">> }
MCPayloadsWithoutNal == MCPayloads \cup { <<>> }
=============================================================================
