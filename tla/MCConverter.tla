----------------------------- MODULE MCConverter -----------------------------
(* Instances of Converter for TLC.                                          *)
EXTENDS Converter
=============================================================================
