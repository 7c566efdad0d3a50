--------------------------- MODULE InOrderRelease ---------------------------
(***************************************************************************)
(* What a conversion queue promises, whatever order the answers come in:   *)
(* what was submitted leaves in the order of submission, each at most      *)
(* once, and nothing leaves that was not submitted.                        *)
(***************************************************************************)
EXTENDS Naturals, Sequences

CONSTANT Ids

VARIABLES waiting,   \* submitted and not yet released, in order of submission
          out        \* released, in order of release

Init == waiting = <<>> /\ out = <<>>

Submit(id) == waiting' = Append(waiting, id) /\ UNCHANGED out

Release == /\ waiting # <<>>
           /\ out' = Append(out, Head(waiting))
           /\ waiting' = Tail(waiting)

Drop == waiting' = <<>> /\ UNCHANGED out

Next == (\E id \in Ids : Submit(id)) \/ Release \/ Drop

Spec == Init /\ [][Next]_<<waiting, out>>
=============================================================================
