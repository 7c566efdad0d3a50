------------------------ MODULE MCConvertMarshaller ------------------------
(* Instances of ConvertMarshaller for TLC.                                  *)
EXTENDS ConvertMarshaller
=============================================================================
