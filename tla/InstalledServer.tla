--------------------------- MODULE InstalledServer ---------------------------
(***************************************************************************)
(* A host process and the installation it finds: TSF offers what is        *)
(* listed, COM maps the copy of the DLL the registry names at that moment, *)
(* and regsvr32 may change both in the middle of it.  The process maps one *)
(* copy at a time.                                                         *)
(*                                                                         *)
(* What each of the two must keep to itself is stated in its own module.   *)
(***************************************************************************)
EXTENDS ComServer, Registration

VARIABLE image  \* the copy of the DLL the process mapped last

vars == <<registry, process, image>>

\* CoGetClassObject for what the user picked, with no image mapped.
LoadListed ==
  /\ listed /\ \E copy \in Copies : Whole(copy) /\ image' = copy
  /\ Load
  /\ UNCHANGED registry

\* CoGetClassObject again, while the registry still names this image.
Connect ==
  /\ Whole(image)
  /\ DllGetClassObject
  /\ UNCHANGED <<registry, image>>

\* What the objects do needs no registry, and the process frees the DLL when it
\* may.
Use == (Serve \/ Unload) /\ UNCHANGED <<registry, image>>

Setup == RegistryNext /\ UNCHANGED <<process, image>>

Init == RegistryInit /\ HostInit /\ image = NoCopy

Next == LoadListed \/ Connect \/ Use \/ Setup

Spec == Init /\ [][Next]_vars
=============================================================================
