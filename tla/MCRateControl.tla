--------------------------- MODULE MCRateControl ---------------------------
(***************************************************************************)
(* Two clients and up to two device sources, together or one after the     *)
(* other; three bit rates, so that the ramp has a middle; packet numbers   *)
(* that wrap.                                                              *)
(***************************************************************************)
EXTENDS RateControl

MCTopChannel == 2
MCModulus == 3
=============================================================================
