--------------------------- MODULE ResultDelivery ---------------------------
(***************************************************************************)
(* What the text service relies on when it hands conversions to workers:   *)
(* each job is answered at most once, only while the delivery that took it *)
(* is open, and closing it forgets every job for good.  Answers come in    *)
(* any order, and may get lost.                                            *)
(***************************************************************************)
EXTENDS Naturals, Sequences

VARIABLES isOpen,   \* answers can arrive
          issued,   \* every job number used so far
          out,      \* jobs handed over and still to be answered
          answered  \* jobs answered, in order

Init == isOpen = FALSE /\ issued = {} /\ out = {} /\ answered = <<>>

Open  == ~isOpen /\ isOpen' = TRUE /\ UNCHANGED <<issued, out, answered>>
Close == isOpen /\ isOpen' = FALSE /\ out' = {} /\ UNCHANGED <<issued, answered>>

\* A job gets a number never used before; there may be nobody to work on it.
HandOver ==
  /\ isOpen
  /\ \E job \in issued' \ issued :
       /\ issued' = issued \cup {job}
       /\ out' \in {out, out \cup {job}}
  /\ UNCHANGED <<isOpen, answered>>

Answer ==
  /\ isOpen
  /\ \E job \in out : out' = out \ {job} /\ answered' = Append(answered, job)
  /\ UNCHANGED <<isOpen, issued>>

Lose ==
  /\ isOpen
  /\ \E job \in out : out' = out \ {job}
  /\ UNCHANGED <<isOpen, issued, answered>>

Next == Open \/ Close \/ HandOver \/ Answer \/ Lose

Spec == Init /\ [][Next]_<<isOpen, issued, out, answered>>
=============================================================================
