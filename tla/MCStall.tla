------------------------------- MODULE MCStall -------------------------------
(***************************************************************************)
(* Small instances of Stall: the video encoder and PC audio open their     *)
(* encoders in one lane, so two callers meet there.                        *)
(***************************************************************************)
EXTENDS Stall

CONSTANTS Encoder, Audio

BothCallers == {Encoder, Audio}
=============================================================================
