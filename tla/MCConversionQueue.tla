------------------------- MODULE MCConversionQueue -------------------------
(* Two texts and few ids: enough for a literal between two conversions, an  *)
(* answer out of order, a second answer, and an answer after Clear.         *)
EXTENDS ConversionQueue

\* Texts are sequences in TextService; one letter each is enough here.
MCTexts == {<<"a">>, <<"b">>}
=============================================================================
