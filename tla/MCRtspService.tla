--------------------------- MODULE MCRtspService ---------------------------
(***************************************************************************)
(* Two channels.  Channel 1 is created in two ways, video only and video   *)
(* with audio, so that two pending requests for one id can differ.         *)
(***************************************************************************)
EXTENDS RtspService

CONSTANTS lobby, stage

MCRequests ==
  { [id |-> 1, name |-> lobby, sources |-> {0}],
    [id |-> 1, name |-> lobby, sources |-> {0, 1}],
    [id |-> 2, name |-> stage, sources |-> {0}] }

ASSUME UseAssumption == NamesMatchIds
=============================================================================
