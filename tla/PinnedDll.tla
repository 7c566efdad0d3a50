------------------------------ MODULE PinnedDll ------------------------------
(***************************************************************************)
(* What a process may expect of a DLL it has mapped: code and objects of   *)
(* the DLL are used only while it is mapped, and it is not unmapped while  *)
(* anybody uses it.                                                        *)
(***************************************************************************)
EXTENDS Naturals

VARIABLES mapped,  \* the DLL is in the address space
          users    \* how many objects, locks and threads need it there

Init == mapped = FALSE /\ users = 0

Map   == ~mapped /\ mapped' = TRUE /\ UNCHANGED users
Use   == mapped /\ users' \in Nat /\ UNCHANGED mapped
Unmap == mapped /\ users = 0 /\ mapped' = FALSE /\ UNCHANGED users

Next == Map \/ Use \/ Unmap

Spec == Init /\ [][Next]_<<mapped, users>>
=============================================================================
