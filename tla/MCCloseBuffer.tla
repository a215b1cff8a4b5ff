--------------------------- MODULE MCCloseBuffer ---------------------------
(* A small instance of CloseBuffer for TLC; the cfg gives the constants.   *)
(* Producers would be symmetric, but the run checks liveness as well.      *)
EXTENDS CloseBuffer
=============================================================================
