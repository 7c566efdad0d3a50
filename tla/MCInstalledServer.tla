-------------------------- MODULE MCInstalledServer --------------------------
(* Instances of InstalledServer for TLC.  The two copies are alike, and so are *)
(* the categories and the objects.                                             *)
EXTENDS InstalledServer, TLC

Symmetry == Permutations(Copies) \cup Permutations(Categories) \cup Permutations(Objects)
=============================================================================
