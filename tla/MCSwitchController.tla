------------------------- MODULE MCSwitchController -------------------------
(***************************************************************************)
(* Four channels whose rates come in and out of order, and three of which  *)
(* two share a rate; rates asked for lie on, between and beyond them.      *)
(***************************************************************************)
EXTENDS SwitchController

MCVectors == { <<2, 4, 6, 8>>, <<8, 2, 6, 4>>, <<4, 4, 6>> }
MCBitrates == 1..9
=============================================================================
