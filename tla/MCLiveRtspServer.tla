-------------------------- MODULE MCLiveRtspServer --------------------------
(***************************************************************************)
(* A channel with video and audio and one with audio only (its only source *)
(* is 0), so that a client can ask the second for a track it lacks.  Three *)
(* objects allow a removed session with an outstanding reference beside    *)
(* its successor and a session of the other channel.                       *)
(***************************************************************************)
EXTENDS LiveRtspServer, TLC

CONSTANTS lobby, stage

MCChannels ==
  { [id |-> 1, name |-> lobby, sources |-> {0, 1}],
    [id |-> 2, name |-> stage, sources |-> {0}] }

\* Clients and objects are never told apart by anything but identity.
Symmetric == Permutations(Clients) \cup Permutations(Objects)
=============================================================================
