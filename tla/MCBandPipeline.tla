--------------------------- MODULE MCBandPipeline ---------------------------
(***************************************************************************)
(* A tile of a few bands: enough for the three frames to be recycled more  *)
(* than once, so that a band can meet every frame.                         *)
(***************************************************************************)
EXTENDS BandPipeline

MCBands == 6
=============================================================================
