--------------------- MODULE MCLiveSourceTaskScheduler0 ---------------------
(***************************************************************************)
(* A channel with video and audio and a second one with video only.  The   *)
(* budget exceeds the number of slots, so that a call can end in the       *)
(* middle of a round, and is below slots times rounds, so that it matters. *)
(***************************************************************************)
EXTENDS LiveSourceTaskScheduler0

MCSlots == { <<1, 0>>, <<1, 1>>, <<2, 0>> }
=============================================================================
