-------------------------- MODULE ConversionQueue --------------------------
(***************************************************************************)
(* The class ConversionQueue as a state machine: every public operation,   *)
(* called in any order, as its unit tests call it.  The client numbers     *)
(* its requests (m_nextRequestId++ in TextService.cpp); answers arrive in  *)
(* any order, more than once, and for ids that are unknown or long gone.   *)
(* submitted, popped and answer only record what happened.                 *)
(***************************************************************************)
EXTENDS ConversionRequests

CONSTANTS Capacity,   \* capacity_
          Texts,      \* the texts a request or an answer may carry
          MaxId       \* bound: ids the client hands out

ASSUME CapacityAssumption == Capacity \in Nat \ {0}
ASSUME TextsAssumption    == <<>> \notin Texts
ASSUME MaxIdAssumption    == MaxId \in Nat

VARIABLES queue,      \* items_
          nextId,     \* the client's m_nextRequestId
          asked,      \* ids accepted by TryEnqueue and not cleared
          popped,     \* the requests PopReadyInOrder returned, in order
          answer      \* the first answer each asked id received

vars == <<queue, nextId, asked, popped, answer>>

Ids == 1..MaxId
NoAnswer == [state |-> "Pending", result |-> <<>>]

Init == /\ queue = <<>>
        /\ nextId = 1
        /\ asked = {}
        /\ popped = <<>>
        /\ answer = [id \in Ids |-> NoAnswer]

\* The client numbers a segment and offers it; a full queue refuses it.
Enqueue(source) ==
  /\ nextId \in Ids
  /\ queue' = TryEnqueue(queue, Capacity, NewRequest(nextId, source))
  /\ asked' = IF Full(queue, Capacity) THEN asked ELSE asked \cup {nextId}
  /\ nextId' = nextId + 1
  /\ UNCHANGED <<popped, answer>>

\* Enter: a literal takes its place in the order without being converted.
PushLiteral(text) ==
  /\ nextId \in Ids
  /\ queue' = PushCommitted(queue, nextId, text)
  /\ nextId' = nextId + 1
  /\ UNCHANGED <<asked, popped, answer>>

\* The first answer to a request that is still wanted is the one that counts.
Record(id, state, result) ==
  answer' = IF id \in asked /\ answer[id] = NoAnswer
              THEN [answer EXCEPT ![id] = [state |-> state, result |-> result]]
              ELSE answer

AnswerDone(id, result) ==
  /\ queue' = MarkDone(queue, id, result)
  /\ Record(id, "Done", result)
  /\ UNCHANGED <<nextId, asked, popped>>

AnswerFailed(id) ==
  /\ queue' = MarkFailed(queue, id)
  /\ Record(id, "Failed", <<>>)
  /\ UNCHANGED <<nextId, asked, popped>>

\* Mutant: pops the first settled request, past a Pending head.
PopAnySettled ==
  \E i \in DOMAIN queue :
    /\ queue[i].state # "Pending"
    /\ popped' = Append(popped, queue[i])
    /\ queue' = SubSeq(queue, 1, i - 1) \o SubSeq(queue, i + 1, Len(queue))
    /\ UNCHANGED <<nextId, asked, answer>>

PopReadyInOrder ==
  /\ CanPop(queue)
  /\ popped' = Append(popped, Head(queue))
  /\ queue' = Tail(queue)
  /\ UNCHANGED <<nextId, asked, answer>>

\* Clear(): what was asked and not yet popped is no longer wanted.
Clear ==
  /\ queue # <<>>
  /\ queue' = <<>>
  /\ asked' = {}
  /\ UNCHANGED <<nextId, popped, answer>>

Next == \/ \E t \in Texts : Enqueue(t) \/ PushLiteral(t)
        \/ \E id \in Ids, t \in Texts : AnswerDone(id, t)
        \/ \E id \in Ids : AnswerFailed(id)
        \/ PopReadyInOrder
        \/ Clear

Spec == Init /\ [][Next]_vars

----------------------------------------------------------------------------
Requests == ConversionRequest(Ids, Texts)

\* The shape of the state (items_, the client's counter, and the records).
TypeOK == /\ queue \in Seq(Requests)
          /\ nextId \in 1..(MaxId + 1)
          /\ asked \subseteq Ids
          /\ popped \in Seq(Requests)
          /\ answer \in [Ids -> [state : ConvState, result : Texts \cup {<<>>}]]

\* Back-pressure: however literals, answers and submissions interleave, never
\* more than Capacity conversions are outstanding (ConversionQueue.h:35).
PendingBounded == Cardinality(PendingAt(queue)) <= Capacity

\* Order: what was popped and what is queued, read one after the other, is in
\* order of submission, so no answer lets its request overtake an earlier one.
InSubmissionOrder ==
  /\ \A i, j \in DOMAIN queue  : i < j => queue[i].id < queue[j].id
  /\ \A i, j \in DOMAIN popped : i < j => popped[i].id < popped[j].id
  /\ \A i \in DOMAIN popped, j \in DOMAIN queue : popped[i].id < queue[j].id

Outcome(req) == [state |-> req.state, result |-> req.result]
IsLiteral(req) == req.state = "Done" /\ req.result = req.source

\* A settled request carries the first answer it was given: a duplicate, a late
\* or a misdirected answer changes nothing (ConversionQueue.h:58-59).
FirstAnswerStands ==
  /\ \A i \in DOMAIN queue :
       IF queue[i].id \in asked THEN Outcome(queue[i]) = answer[queue[i].id]
                                ELSE IsLiteral(queue[i])
  /\ \A i \in DOMAIN popped :
       \/ Outcome(popped[i]) = answer[popped[i].id]
       \/ IsLiteral(popped[i])

\* The queue implements the in-order release of ids.
IdsOf(reqs) == [i \in DOMAIN reqs |-> reqs[i].id]
Abstract == INSTANCE InOrderRelease
              WITH waiting <- IdsOf(queue), out <- IdsOf(popped)
ReleasesInOrder == Abstract!Spec
=============================================================================
