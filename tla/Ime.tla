--------------------------------- MODULE Ime ---------------------------------
(***************************************************************************)
(* What a user expects of an input method, whatever goes on inside it: the *)
(* keystrokes make up one draft, in the order they were typed; the draft   *)
(* is confirmed from its front, and only the user takes keystrokes away.   *)
(* A keystroke is known by its number, the n-th key typed.                 *)
(***************************************************************************)
EXTENDS Naturals, Sequences

VARIABLES document,  \* numbers of the keystrokes confirmed into the document
          draft,     \* numbers of the keystrokes still unconfirmed
          clock      \* keystrokes typed so far

Init == document = <<>> /\ draft = <<>> /\ clock = 0

\* Moving the first n keystrokes of a draft into the document.
Confirms(d, n) == /\ document' = document \o SubSeq(d, 1, n)
                  /\ draft' = SubSeq(d, n + 1, Len(d))

\* A key joins the draft; what was waiting only for it is confirmed with it.
Type == /\ clock' = clock + 1
        /\ LET d == Append(draft, clock + 1)
           IN  \E n \in 0..Len(d) : Confirms(d, n)

Confirm == \E n \in 1..Len(draft) : Confirms(draft, n) /\ UNCHANGED clock

EraseLast == /\ draft # <<>>
             /\ draft' = SubSeq(draft, 1, Len(draft) - 1)
             /\ UNCHANGED <<document, clock>>

CancelAll == draft' = <<>> /\ UNCHANGED <<document, clock>>

Next == Type \/ Confirm \/ EraseLast \/ CancelAll

Spec == Init /\ [][Next]_<<document, draft, clock>>
=============================================================================
