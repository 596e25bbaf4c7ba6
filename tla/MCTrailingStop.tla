--------------------------- MODULE MCTrailingStop ---------------------------
(* Small instances of TrailingStop for TLC. *)
EXTENDS TrailingStop
=============================================================================
