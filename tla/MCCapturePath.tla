---------------------------- MODULE MCCapturePath ----------------------------
(***************************************************************************)
(* The demo's path (virtual source, AMR), an AMR path fed by an            *)
(* application, a stereo one, a plain one, and one of two multiplexed      *)
(* channels.                                                               *)
(***************************************************************************)
EXTENDS CapturePath

Path(virtual, amr, channels, audioChannels, bound, increments) ==
  [ virtual |-> virtual, amr |-> amr, channels |-> channels,
    audioChannels |-> audioChannels, bound |-> bound, increments |-> increments ]

\* The plain path steps forward by a second and back by less than one, and may lose a tick
\* either way.
MCConfigs ==
  { Path(TRUE, TRUE, 1, 1, 0, {}), Path(FALSE, TRUE, 1, 1, 4, {3}),
    Path(FALSE, TRUE, 1, 2, 1, {3}), Path(FALSE, FALSE, 1, 1, 3, {4, -3}),
    Path(FALSE, FALSE, 2, 1, 3, {3}) }

MCFallsShort == {<<8, 4>>, <<1, 4>>, <<1, -3>>, <<-6, -3>>}
=============================================================================
