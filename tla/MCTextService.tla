--------------------------- MODULE MCTextService ---------------------------
(* Instances of TextService for TLC; the cfg files say which faults the     *)
(* host may inject.                                                         *)
EXTENDS TextService
=============================================================================
