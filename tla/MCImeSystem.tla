----------------------------- MODULE MCImeSystem -----------------------------
(* Instances of ImeSystem for TLC.                                          *)
EXTENDS ImeSystem
=============================================================================
