----------------------- MODULE ConversionQueueProofs -----------------------
(***************************************************************************)
(* ConversionQueue: its invariants hold, and it releases in order, for     *)
(* every capacity, every set of texts and any number of ids.               *)
(***************************************************************************)
EXTENDS ConversionQueue, ConversionRequestsLemmas

USE CapacityAssumption, MaxIdAssumption

\* The invariants speak of what was handed out; they are inductive together
\* with the fact that nothing has been said yet of ids still to come.
Numbered ==
  /\ \A i \in DOMAIN queue  : queue[i].id < nextId
  /\ \A i \in DOMAIN popped : popped[i].id < nextId /\ popped[i].state # "Pending"
  /\ \A id \in asked : id < nextId

Answers ==
  \A id \in Ids : /\ answer[id].state = "Pending" => answer[id] = NoAnswer
                  /\ id >= nextId => answer[id] = NoAnswer

IInv == /\ TypeOK
        /\ PendingBounded
        /\ InSubmissionOrder
        /\ Numbered
        /\ Answers
        /\ FirstAnswerStands

----------------------------------------------------------------------------
\* The shape of the two sequences, in the form the steps below need it.
LEMMA Shape ==
  ASSUME TypeOK
  PROVE  /\ Len(queue) \in Nat /\ DOMAIN queue = 1..Len(queue)
         /\ \A i \in DOMAIN queue : queue[i] \in Requests
         /\ Len(popped) \in Nat /\ DOMAIN popped = 1..Len(popped)
         /\ \A i \in DOMAIN popped : popped[i] \in Requests
BY LenProperties, ElementOfSeq DEF TypeOK

\* A request built by the client is a request.
LEMMA NewRequests ==
  ASSUME NEW id \in Ids, NEW t \in Texts
  PROVE  /\ NewRequest(id, t) \in Requests
         /\ [id |-> id, source |-> t, state |-> "Done", result |-> t] \in Requests
BY DEF NewRequest, Requests, ConversionRequest, ConvState

LEMMA InitInv == Init => IInv
<1> SUFFICES ASSUME Init PROVE IInv
  OBVIOUS
<1>1. queue = <<>> /\ popped = <<>> /\ nextId = 1 /\ asked = {}
  BY DEF Init
<1>2. DOMAIN queue = {} /\ DOMAIN popped = {}
  BY <1>1
<1>3. TypeOK
  BY <1>1, EmptySeq DEF Init, TypeOK, NoAnswer, ConvState, Ids
<1>4. PendingBounded
  <2>1. PendingAt(queue) = {}
    BY <1>2 DEF PendingAt
  <2> QED BY <2>1, FS_EmptySet DEF PendingBounded
<1>5. InSubmissionOrder /\ Numbered /\ FirstAnswerStands
  BY <1>1, <1>2 DEF InSubmissionOrder, Numbered, FirstAnswerStands
<1>6. Answers
  BY DEF Answers, Init, NoAnswer
<1> QED BY <1>3, <1>4, <1>5, <1>6 DEF IInv

\* Appending a request under the next id keeps the order.
LEMMA AppendStep ==
  ASSUME IInv, nextId \in Ids, NEW req \in Requests, req.id = nextId,
         queue' = Append(queue, req), nextId' = nextId + 1,
         UNCHANGED popped
  PROVE  /\ queue' \in Seq(Requests) /\ nextId' \in 1..(MaxId + 1)
         /\ InSubmissionOrder'
         /\ \A i \in DOMAIN queue' : queue'[i].id < nextId'
         /\ DOMAIN queue' = 1..(Len(queue) + 1)
         /\ \A i \in 1..Len(queue) : queue'[i] = queue[i]
         /\ queue'[Len(queue) + 1] = req
<1>1. /\ Len(queue) \in Nat /\ DOMAIN queue = 1..Len(queue)
      /\ \A i \in DOMAIN queue : queue[i] \in Requests /\ queue[i].id \in Ids
      /\ \A i \in DOMAIN popped : popped[i] \in Requests /\ popped[i].id \in Ids
  BY Shape DEF IInv, Requests, ConversionRequest
<1>2. /\ queue' \in Seq(Requests)
      /\ Len(queue') = Len(queue) + 1
      /\ \A i \in 1..Len(queue) : queue'[i] = queue[i]
      /\ queue'[Len(queue) + 1] = req
  BY AppendProperties DEF IInv, TypeOK
<1>3. DOMAIN queue' = 1..(Len(queue) + 1)
  BY <1>2, LenProperties
<1>4. /\ \A i \in 1..Len(queue) : queue[i].id < nextId
      /\ \A i \in DOMAIN popped : popped[i].id < nextId
  BY <1>1 DEF IInv, Numbered
<1>5. \A i, j \in DOMAIN queue' : i < j => queue'[i].id < queue'[j].id
  BY <1>1, <1>2, <1>3, <1>4 DEF IInv, InSubmissionOrder
<1>6. \A i \in DOMAIN popped, j \in DOMAIN queue' : popped[i].id < queue'[j].id
  BY <1>1, <1>2, <1>3, <1>4 DEF IInv, InSubmissionOrder
<1>7. InSubmissionOrder'
  BY <1>5, <1>6 DEF IInv, InSubmissionOrder
<1>8. \A i \in DOMAIN queue' : queue'[i].id < nextId'
  BY <1>1, <1>2, <1>3, <1>4 DEF Ids
<1> QED BY <1>2, <1>3, <1>7, <1>8 DEF Ids

LEMMA EnqueueStep == ASSUME IInv, NEW t \in Texts, Enqueue(t) PROVE IInv'
<1> DEFINE req == NewRequest(nextId, t)
<1>1. req \in Requests /\ req.id = nextId /\ nextId \in Ids /\ nextId' = nextId + 1
      /\ UNCHANGED <<popped, answer>>
  BY NewRequests DEF Enqueue, NewRequest
<1>2. CASE Full(queue, Capacity)
  <2>1. UNCHANGED <<queue, asked>>
    BY <1>2 DEF Enqueue, TryEnqueue
  <2>2. nextId' \in 1..(MaxId + 1) /\ nextId < nextId'
    BY <1>1 DEF Ids
  <2>3. TypeOK' /\ PendingBounded' /\ InSubmissionOrder' /\ FirstAnswerStands'
    BY <1>1, <2>1, <2>2
       DEF IInv, TypeOK, PendingBounded, InSubmissionOrder, FirstAnswerStands
  <2>4. Numbered'
    <3>1. \A i \in DOMAIN queue : queue[i].id \in Nat
      BY Shape DEF IInv, Requests, ConversionRequest, Ids
    <3>2. \A i \in DOMAIN popped : popped[i].id \in Nat
      BY Shape DEF IInv, Requests, ConversionRequest, Ids
    <3>3. \A id \in asked : id \in Nat
      BY DEF IInv, TypeOK, Ids
    <3> QED BY <1>1, <2>1, <3>1, <3>2, <3>3 DEF IInv, Numbered, Ids
  <2>5. Answers'
    BY <1>1, <2>2 DEF IInv, Answers, Ids
  <2> QED BY <2>3, <2>4, <2>5 DEF IInv
<1>3. CASE ~Full(queue, Capacity)
  <2>1. queue' = Append(queue, req) /\ asked' = asked \cup {nextId}
    BY <1>3 DEF Enqueue, TryEnqueue
  <2>2. /\ queue' \in Seq(Requests) /\ nextId' \in 1..(MaxId + 1)
        /\ InSubmissionOrder'
        /\ \A i \in DOMAIN queue' : queue'[i].id < nextId'
        /\ DOMAIN queue' = 1..(Len(queue) + 1)
        /\ \A i \in 1..Len(queue) : queue'[i] = queue[i]
        /\ queue'[Len(queue) + 1] = req
    BY <1>1, <2>1, AppendStep
  <2>3. TypeOK'
    BY <1>1, <2>1, <2>2 DEF IInv, TypeOK
  <2>4. PendingBounded'
    <3>1. Cardinality(PendingAt(queue)) < Capacity /\ Cardinality(PendingAt(queue)) \in Nat
      BY <1>3, PendingFinite DEF Full, IInv, TypeOK
    <3>2. Cardinality(PendingAt(queue')) <= Cardinality(PendingAt(queue)) + 1
      BY <1>1, <2>1, AppendPending DEF IInv, TypeOK
    <3>3. Cardinality(PendingAt(queue')) \in Nat
      BY <2>2, PendingFinite
    <3> QED BY <3>1, <3>2, <3>3 DEF PendingBounded
  <2>5. Numbered'
    <3>1. \A i \in DOMAIN popped : popped[i].id \in Nat
      BY Shape DEF IInv, Requests, ConversionRequest, Ids
    <3>2. \A id \in asked : id \in Nat
      BY DEF IInv, TypeOK, Ids
    <3> QED BY <1>1, <2>1, <2>2, <3>1, <3>2 DEF IInv, Numbered, Ids
  <2>6. Answers'
    BY <1>1 DEF IInv, Answers, Ids
  <2>7. FirstAnswerStands'
    <3>1. Outcome(req) = answer[nextId] /\ nextId \in asked'
      BY <1>1, <2>1 DEF IInv, Answers, Outcome, NewRequest, NoAnswer, Ids
    <3>2. \A i \in 1..Len(queue) : queue[i].id \in asked' <=> queue[i].id \in asked
      <4>1. \A i \in 1..Len(queue) : queue[i].id # nextId
        BY Shape, <1>1 DEF IInv, Numbered, Ids
      <4> QED BY <2>1, <4>1
    <3>3. Len(queue) \in Nat /\ DOMAIN queue = 1..Len(queue)
      BY Shape DEF IInv
    <3>4. \A i \in 1..Len(queue) :
            IF queue[i].id \in asked' THEN Outcome(queue[i]) = answer[queue[i].id]
                                      ELSE IsLiteral(queue[i])
      BY <3>2, <3>3 DEF IInv, FirstAnswerStands
    <3>5. \A i \in DOMAIN queue' :
            IF queue'[i].id \in asked' THEN Outcome(queue'[i]) = answer[queue'[i].id]
                                       ELSE IsLiteral(queue'[i])
      BY <1>1, <2>2, <3>1, <3>3, <3>4
    <3> QED BY <1>1, <3>5 DEF IInv, FirstAnswerStands
  <2> QED BY <2>2, <2>3, <2>4, <2>5, <2>6, <2>7 DEF IInv
<1> QED BY <1>2, <1>3

LEMMA PushLiteralStep == ASSUME IInv, NEW t \in Texts, PushLiteral(t) PROVE IInv'
<1> DEFINE req == [id |-> nextId, source |-> t, state |-> "Done", result |-> t]
<1>1. /\ req \in Requests /\ req.id = nextId /\ nextId \in Ids /\ nextId' = nextId + 1
      /\ queue' = Append(queue, req)
      /\ UNCHANGED <<asked, popped, answer>>
  BY NewRequests DEF PushLiteral, PushCommitted
<1>2. /\ queue' \in Seq(Requests) /\ nextId' \in 1..(MaxId + 1)
      /\ InSubmissionOrder'
      /\ \A i \in DOMAIN queue' : queue'[i].id < nextId'
      /\ DOMAIN queue' = 1..(Len(queue) + 1)
      /\ \A i \in 1..Len(queue) : queue'[i] = queue[i]
      /\ queue'[Len(queue) + 1] = req
  BY <1>1, AppendStep
<1>3. TypeOK'
  BY <1>1, <1>2 DEF IInv, TypeOK
<1>4. PendingBounded'
  <2>1. Cardinality(PendingAt(queue')) <= Cardinality(PendingAt(queue))
    BY <1>1, AppendPending DEF IInv, TypeOK
  <2>2. /\ Cardinality(PendingAt(queue')) \in Nat
        /\ Cardinality(PendingAt(queue)) \in Nat
    BY <1>2, PendingFinite DEF IInv, TypeOK
  <2> QED BY <2>1, <2>2 DEF IInv, PendingBounded
<1>5. Numbered'
  <2>1. \A i \in DOMAIN popped : popped[i].id \in Nat
    BY Shape DEF IInv, Requests, ConversionRequest, Ids
  <2>2. \A id \in asked : id \in Nat
    BY DEF IInv, TypeOK, Ids
  <2> QED BY <1>1, <1>2, <2>1, <2>2 DEF IInv, Numbered, Ids
<1>6. Answers'
  BY <1>1 DEF IInv, Answers, Ids
<1>7. FirstAnswerStands'
  <2>1. nextId \notin asked
    BY <1>1 DEF IInv, Numbered, Ids
  <2>2. IsLiteral(req)
    BY DEF IsLiteral
  <2>3. Len(queue) \in Nat /\ DOMAIN queue = 1..Len(queue)
    BY Shape DEF IInv
  <2>4. \A i \in DOMAIN queue' :
          IF queue'[i].id \in asked' THEN Outcome(queue'[i]) = answer[queue'[i].id]
                                     ELSE IsLiteral(queue'[i])
    BY <1>1, <1>2, <2>1, <2>2, <2>3 DEF IInv, FirstAnswerStands
  <2> QED BY <1>1, <2>4 DEF IInv, FirstAnswerStands
<1> QED BY <1>2, <1>3, <1>4, <1>5, <1>6, <1>7 DEF IInv

\* An answer, of either kind: r is the queue it leaves, state and result what
\* it says.
LEMMA AnswerStep ==
  ASSUME IInv, NEW id \in Ids, NEW state, NEW result,
         \/ /\ state = "Done" /\ result \in Texts
            /\ queue' = MarkDone(queue, id, result)
         \/ /\ state = "Failed" /\ result = <<>>
            /\ queue' = MarkFailed(queue, id),
         Record(id, state, result),
         UNCHANGED <<nextId, asked, popped>>
  PROVE  IInv'
<1>0. /\ Len(queue) \in Nat /\ DOMAIN queue = 1..Len(queue)
      /\ \A i \in DOMAIN queue : queue[i] \in Requests /\ queue[i].id \in Ids
      /\ \A i \in DOMAIN popped : popped[i] \in Requests /\ popped[i].id \in Ids
  BY Shape DEF IInv, Requests, ConversionRequest
<1>1. /\ queue' \in Seq(Requests)
      /\ DOMAIN queue' = DOMAIN queue
      /\ \A i \in DOMAIN queue : /\ queue'[i].id = queue[i].id
                                 /\ queue'[i] # queue[i] =>
                                      queue[i].id = id /\ queue[i].state = "Pending"
      /\ Cardinality(PendingAt(queue')) <= Cardinality(PendingAt(queue))
  <2>1. queue \in Seq(ConversionRequest(Ids, Texts))
    BY DEF IInv, TypeOK, Requests
  <2>2. \/ \E t \in Texts : queue' = MarkDone(queue, id, t)
        \/ queue' = MarkFailed(queue, id)
    OBVIOUS
  <2>3. /\ queue' \in Seq(ConversionRequest(Ids, Texts))
        /\ DOMAIN queue' = DOMAIN queue
        /\ \A i \in DOMAIN queue : /\ queue'[i].id = queue[i].id
                                   /\ queue'[i].source = queue[i].source
                                   /\ queue'[i] # queue[i] =>
                                        queue[i].id = id /\ queue[i].state = "Pending"
        /\ Cardinality(PendingAt(queue')) <= Cardinality(PendingAt(queue))
    BY <2>1, <2>2, MarkProperties
  <2> QED BY <2>3 DEF Requests
<1>2. \A i \in DOMAIN queue :
        \/ queue'[i] = queue[i] /\ ~(queue[i].id = id /\ queue[i].state = "Pending")
        \/ /\ queue[i].id = id /\ queue[i].state = "Pending"
           /\ queue'[i].state = state
           /\ state = "Done" => queue'[i].result = result
           /\ state = "Failed" => queue'[i].result = queue[i].result
  <2>1. \A i, j \in DOMAIN queue : queue[i].id = queue[j].id => i = j
    BY <1>0 DEF IInv, InSubmissionOrder, Ids
  <2>2. \A i \in DOMAIN queue :
          queue[i].id = id /\ queue[i].state = "Pending" <=> Marks(queue, id, i)
    BY <1>0, <2>1 DEF Marks
  <2>3. \A i \in DOMAIN queue : DOMAIN queue[i] = {"id", "source", "state", "result"}
    BY <1>0 DEF Requests, ConversionRequest
  <2> QED BY <2>2, <2>3 DEF MarkDone, MarkFailed
<1>3. TypeOK'
  BY <1>1 DEF IInv, TypeOK, Record, ConvState
<1>4. PendingBounded'
  <2>1. /\ Cardinality(PendingAt(queue')) \in Nat
        /\ Cardinality(PendingAt(queue)) \in Nat
    BY <1>1, PendingFinite DEF IInv, TypeOK
  <2> QED BY <1>1, <2>1 DEF IInv, PendingBounded
<1>5. InSubmissionOrder' /\ Numbered'
  BY <1>1 DEF IInv, InSubmissionOrder, Numbered
<1>6. Answers'
  <2>1. answer \in [Ids -> [state : ConvState, result : Texts \cup {<<>>}]]
    BY DEF IInv, TypeOK
  <2>2. CASE id \in asked /\ answer[id] = NoAnswer
    <3>1. /\ answer' = [answer EXCEPT ![id] = [state |-> state, result |-> result]]
          /\ state # "Pending"
      BY <2>2 DEF Record
    <3>2. id < nextId /\ nextId \in Nat
      BY <2>2 DEF IInv, Numbered, TypeOK
    <3> QED BY <2>1, <3>1, <3>2 DEF IInv, Answers, Ids
  <2>3. CASE ~(id \in asked /\ answer[id] = NoAnswer)
    BY <2>3 DEF IInv, Answers, Record
  <2> QED BY <2>2, <2>3
<1>7. FirstAnswerStands'
  <2>1. answer \in [Ids -> [state : ConvState, result : Texts \cup {<<>>}]]
    BY DEF IInv, TypeOK
  <2>2. ASSUME NEW i \in DOMAIN popped
        PROVE  Outcome(popped[i]) = answer'[popped[i].id] \/ IsLiteral(popped[i])
    BY <1>0, <2>1, <2>2
       DEF IInv, Numbered, FirstAnswerStands, Record, Outcome, NoAnswer
  <2>3. ASSUME NEW i \in DOMAIN queue
        PROVE  IF queue'[i].id \in asked THEN Outcome(queue'[i]) = answer'[queue'[i].id]
                                         ELSE IsLiteral(queue'[i])
    <3>1. CASE queue'[i] = queue[i] /\ ~(queue[i].id = id /\ queue[i].state = "Pending")
      BY <1>0, <2>1, <2>3, <3>1
         DEF IInv, FirstAnswerStands, Record, Outcome, NoAnswer
    <3>2. CASE /\ queue[i].id = id /\ queue[i].state = "Pending"
               /\ queue'[i].state = state
               /\ state = "Done" => queue'[i].result = result
               /\ state = "Failed" => queue'[i].result = queue[i].result
      <4>1. id \in asked /\ Outcome(queue[i]) = answer[id]
        BY <2>3, <3>2 DEF IInv, FirstAnswerStands, IsLiteral
      <4>2. answer[id] = NoAnswer /\ queue[i].result = <<>>
        BY <3>2, <4>1 DEF IInv, Answers, Outcome, NoAnswer
      <4>3. answer'[id] = [state |-> state, result |-> result]
        BY <2>1, <4>1, <4>2 DEF Record
      <4> QED BY <1>1, <2>3, <3>2, <4>1, <4>2, <4>3 DEF Outcome
    <3> QED BY <1>2, <2>3, <3>1, <3>2
  <2> QED BY <1>1, <2>2, <2>3 DEF FirstAnswerStands
<1> QED BY <1>3, <1>4, <1>5, <1>6, <1>7 DEF IInv

LEMMA PopStep == ASSUME IInv, PopReadyInOrder PROVE IInv'
<1>0. /\ Len(queue) \in Nat /\ DOMAIN queue = 1..Len(queue)
      /\ Len(popped) \in Nat /\ DOMAIN popped = 1..Len(popped)
      /\ \A i \in DOMAIN queue : queue[i] \in Requests /\ queue[i].id \in Ids
      /\ \A i \in DOMAIN popped : popped[i] \in Requests /\ popped[i].id \in Ids
      /\ queue \in Seq(Requests) /\ popped \in Seq(Requests)
  BY Shape DEF IInv, TypeOK, Requests, ConversionRequest
<1>1. /\ queue # <<>> /\ Head(queue) = queue[1] /\ 1 \in DOMAIN queue
      /\ queue[1].state # "Pending"
      /\ queue' = Tail(queue) /\ popped' = Append(popped, queue[1])
      /\ UNCHANGED <<nextId, asked, answer>>
  BY <1>0, EmptySeq DEF PopReadyInOrder, CanPop
<1>2. /\ queue' \in Seq(Requests)
      /\ DOMAIN queue' = 1..(Len(queue) - 1)
      /\ \A i \in DOMAIN queue' : i + 1 \in DOMAIN queue /\ queue'[i] = queue[i + 1]
  <2>1. /\ Tail(queue) \in Seq(Requests)
        /\ Len(Tail(queue)) = Len(queue) - 1
        /\ \A i \in 1..Len(Tail(queue)) : Tail(queue)[i] = queue[i + 1]
    BY <1>0, <1>1, HeadTailProperties
  <2>2. DOMAIN Tail(queue) = 1..(Len(queue) - 1)
    BY <2>1, LenProperties
  <2> QED BY <1>0, <1>1, <2>1, <2>2
<1>3. /\ popped' \in Seq(Requests)
      /\ DOMAIN popped' = 1..(Len(popped) + 1)
      /\ \A i \in 1..Len(popped) : popped'[i] = popped[i]
      /\ popped'[Len(popped) + 1] = queue[1]
  <2>1. queue[1] \in Requests
    BY <1>0, <1>1
  <2>2. popped' \in Seq(Requests) /\ Len(popped') = Len(popped) + 1
    BY <1>0, <1>1, <2>1, AppendProperties
  <2>3. DOMAIN popped' = 1..(Len(popped) + 1)
    BY <2>2, LenProperties
  <2> QED BY <1>0, <1>1, <2>1, <2>2, <2>3, AppendProperties
<1>4. TypeOK'
  BY <1>1, <1>2, <1>3 DEF IInv, TypeOK
<1>5. PendingBounded'
  <2>1. 1 \in Nat /\ 1 <= Len(queue) /\ Tail(queue) = SubSeq(queue, 1 + 1, Len(queue))
    BY <1>0, <1>1, TailIsSubSeq
  <2>2. Cardinality(PendingAt(Tail(queue))) <= Cardinality(PendingAt(queue))
    BY <1>0, <2>1, SuffixPending
  <2>3. /\ Cardinality(PendingAt(queue')) \in Nat
        /\ Cardinality(PendingAt(queue)) \in Nat
    BY <1>0, <1>2, PendingFinite
  <2> QED BY <1>1, <2>2, <2>3 DEF IInv, PendingBounded
<1>6. InSubmissionOrder'
  <2>1. \A i, j \in DOMAIN queue' : i < j => queue'[i].id < queue'[j].id
    BY <1>0, <1>2 DEF IInv, InSubmissionOrder
  <2>2. \A i, j \in DOMAIN popped' : i < j => popped'[i].id < popped'[j].id
    BY <1>0, <1>1, <1>3 DEF IInv, InSubmissionOrder
  <2>3. ASSUME NEW i \in DOMAIN popped', NEW j \in DOMAIN queue'
        PROVE  popped'[i].id < queue'[j].id
    <3>1. j + 1 \in DOMAIN queue /\ queue'[j] = queue[j + 1] /\ 1 < j + 1
      BY <1>2, <2>3
    <3>2. CASE i \in DOMAIN popped
      BY <1>0, <1>3, <3>1, <3>2 DEF IInv, InSubmissionOrder
    <3>3. CASE i = Len(popped) + 1
      BY <1>0, <1>1, <1>3, <3>1, <3>3 DEF IInv, InSubmissionOrder
    <3> QED BY <1>0, <1>3, <2>3, <3>2, <3>3
  <2> QED BY <2>1, <2>2, <2>3 DEF InSubmissionOrder
<1>7. Numbered' /\ Answers'
  <2>1. Numbered'
    BY <1>0, <1>1, <1>2, <1>3 DEF IInv, Numbered
  <2>2. Answers'
    BY <1>1 DEF IInv, Answers
  <2> QED BY <2>1, <2>2
<1>8. FirstAnswerStands'
  <2>1. \A i \in DOMAIN queue' :
          IF queue'[i].id \in asked' THEN Outcome(queue'[i]) = answer'[queue'[i].id]
                                     ELSE IsLiteral(queue'[i])
    BY <1>1, <1>2 DEF IInv, FirstAnswerStands
  <2>2. \A i \in DOMAIN popped' :
          Outcome(popped'[i]) = answer'[popped'[i].id] \/ IsLiteral(popped'[i])
    BY <1>0, <1>1, <1>3 DEF IInv, FirstAnswerStands
  <2> QED BY <2>1, <2>2 DEF FirstAnswerStands
<1> QED BY <1>4, <1>5, <1>6, <1>7, <1>8 DEF IInv

LEMMA ClearStep == ASSUME IInv, Clear PROVE IInv'
<1>1. /\ queue' = <<>> /\ DOMAIN queue' = {} /\ asked' = {}
      /\ UNCHANGED <<nextId, popped, answer>>
  BY DEF Clear
<1>2. TypeOK'
  BY <1>1, EmptySeq DEF IInv, TypeOK
<1>3. PendingBounded'
  <2>1. PendingAt(queue') = {}
    BY <1>1 DEF PendingAt
  <2> QED BY <2>1, FS_EmptySet DEF PendingBounded
<1>4. InSubmissionOrder' /\ Numbered' /\ Answers' /\ FirstAnswerStands'
  BY <1>1 DEF IInv, InSubmissionOrder, Numbered, Answers, FirstAnswerStands
<1> QED BY <1>2, <1>3, <1>4 DEF IInv

LEMMA StepInv == ASSUME IInv, [Next]_vars PROVE IInv'
<1>1. ASSUME NEW t \in Texts, Enqueue(t) PROVE IInv'
  BY <1>1, EnqueueStep
<1>2. ASSUME NEW t \in Texts, PushLiteral(t) PROVE IInv'
  BY <1>2, PushLiteralStep
<1>3. ASSUME NEW id \in Ids, NEW t \in Texts, AnswerDone(id, t) PROVE IInv'
  BY <1>3, AnswerStep DEF AnswerDone
<1>4. ASSUME NEW id \in Ids, AnswerFailed(id) PROVE IInv'
  BY <1>4, AnswerStep DEF AnswerFailed
<1>5. CASE PopReadyInOrder
  BY <1>5, PopStep
<1>6. CASE Clear
  BY <1>6, ClearStep
<1>7. CASE UNCHANGED vars
  BY <1>7 DEF vars, IInv, TypeOK, PendingBounded, InSubmissionOrder, Numbered,
              Answers, FirstAnswerStands
<1> QED BY <1>1, <1>2, <1>3, <1>4, <1>5, <1>6, <1>7 DEF Next

----------------------------------------------------------------------------
\* The inductive invariant holds in every reachable state.
THEOREM Invariance == Spec => []IInv
BY InitInv, StepInv, PTL DEF Spec

\* The queue keeps its shape through every order of calls.
THEOREM TypeCorrect == Spec => []TypeOK
<1>1. IInv => TypeOK
  BY DEF IInv
<1> QED BY <1>1, Invariance, PTL

\* Back-pressure: at most Capacity conversions are ever outstanding, whatever
\* the capacity (ConversionQueue.h:35).
THEOREM BackPressure == Spec => []PendingBounded
<1>1. IInv => PendingBounded
  BY DEF IInv
<1> QED BY <1>1, Invariance, PTL

\* Requests leave in the order they came, however the answers are ordered
\* (ConversionQueue.h:63).
THEOREM NoOvertaking == Spec => []InSubmissionOrder
<1>1. IInv => InSubmissionOrder
  BY DEF IInv
<1> QED BY <1>1, Invariance, PTL

\* The first answer of a request is the only one that counts
\* (ConversionQueue.h:58).
THEOREM AnswersAreFinal == Spec => []FirstAnswerStands
<1>1. IInv => FirstAnswerStands
  BY DEF IInv
<1> QED BY <1>1, Invariance, PTL

----------------------------------------------------------------------------
\* The ids of a sequence of requests, read in order.
LEMMA IdsOfProperties ==
  ASSUME NEW q \in Seq(Requests)
  PROVE  /\ IdsOf(q) \in Seq(Ids)
         /\ Len(IdsOf(q)) = Len(q) /\ DOMAIN IdsOf(q) = 1..Len(q)
         /\ \A i \in 1..Len(q) : IdsOf(q)[i] = q[i].id
<1>1. Len(q) \in Nat /\ DOMAIN q = 1..Len(q) /\ \A i \in 1..Len(q) : q[i].id \in Ids
  <2>1. /\ Len(q) \in Nat /\ DOMAIN q = 1..Len(q)
        /\ \A i \in 1..Len(q) : q[i] \in Requests
    BY LenProperties, ElementOfSeq
  <2> QED BY <2>1 DEF Requests, ConversionRequest
<1>2. IdsOf(q) = [i \in 1..Len(q) |-> q[i].id]
  BY <1>1 DEF IdsOf
<1>3. [i \in 1..Len(q) |-> q[i].id] \in Seq(Ids)
  BY <1>1, IsASeq
<1>4. DOMAIN IdsOf(q) = 1..Len(IdsOf(q)) /\ Len(IdsOf(q)) \in Nat
  BY <1>2, <1>3, LenProperties
<1> QED BY <1>1, <1>2, <1>3, <1>4

LEMMA IdsOfAppend ==
  ASSUME NEW q \in Seq(Requests), NEW req \in Requests
  PROVE  IdsOf(Append(q, req)) = Append(IdsOf(q), req.id)
<1> DEFINE s == IdsOf(Append(q, req))
           t == Append(IdsOf(q), req.id)
<1>1. /\ Append(q, req) \in Seq(Requests) /\ Len(Append(q, req)) = Len(q) + 1
      /\ \A i \in 1..Len(q) : Append(q, req)[i] = q[i]
      /\ Append(q, req)[Len(q) + 1] = req
      /\ Len(q) \in Nat
  BY AppendProperties, LenProperties
<1>2. /\ s \in Seq(Ids) /\ Len(s) = Len(q) + 1
      /\ \A i \in 1..(Len(q) + 1) : s[i] = Append(q, req)[i].id
  BY <1>1, IdsOfProperties
<1>3. /\ IdsOf(q) \in Seq(Ids) /\ Len(IdsOf(q)) = Len(q)
      /\ \A i \in 1..Len(q) : IdsOf(q)[i] = q[i].id
      /\ req.id \in Ids
  BY IdsOfProperties DEF Requests, ConversionRequest
<1>4. /\ t \in Seq(Ids) /\ Len(t) = Len(q) + 1
      /\ \A i \in 1..Len(q) : t[i] = q[i].id
      /\ t[Len(q) + 1] = req.id
  BY <1>3, AppendProperties
<1> HIDE DEF s, t
<1>5. \A i \in 1..Len(s) : s[i] = t[i]
  BY <1>1, <1>2, <1>4
<1>6. s = t
  BY <1>2, <1>4, <1>5, SeqEqual
<1> QED BY <1>6 DEF s, t

LEMMA IdsOfTail ==
  ASSUME NEW q \in Seq(Requests), q # <<>>
  PROVE  /\ IdsOf(q) # <<>> /\ Head(IdsOf(q)) = Head(q).id
         /\ IdsOf(Tail(q)) = Tail(IdsOf(q))
<1> DEFINE s == IdsOf(Tail(q))
           t == Tail(IdsOf(q))
<1>1. /\ Tail(q) \in Seq(Requests) /\ Len(Tail(q)) = Len(q) - 1
      /\ \A i \in 1..Len(Tail(q)) : Tail(q)[i] = q[i + 1]
      /\ Len(q) \in Nat \ {0}
  BY HeadTailProperties, EmptySeq
<1>2. /\ s \in Seq(Ids) /\ Len(s) = Len(q) - 1
      /\ \A i \in 1..(Len(q) - 1) : s[i] = q[i + 1].id
  <2>1. /\ s \in Seq(Ids) /\ Len(s) = Len(Tail(q))
        /\ \A i \in 1..Len(Tail(q)) : s[i] = Tail(q)[i].id
    BY <1>1, IdsOfProperties
  <2> HIDE DEF s
  <2> QED BY <1>1, <2>1
<1>3. /\ IdsOf(q) \in Seq(Ids) /\ Len(IdsOf(q)) = Len(q)
      /\ \A i \in 1..Len(q) : IdsOf(q)[i] = q[i].id
  BY IdsOfProperties
<1>4. IdsOf(q) # <<>>
  BY <1>1, <1>3, EmptySeq
<1>5. /\ t \in Seq(Ids) /\ Len(t) = Len(q) - 1
      /\ \A i \in 1..(Len(q) - 1) : t[i] = IdsOf(q)[i + 1]
  BY <1>3, <1>4, HeadTailProperties
<1> HIDE DEF s, t
<1>6. \A i \in 1..Len(s) : s[i] = t[i]
  <2> SUFFICES ASSUME NEW i \in 1..(Len(q) - 1) PROVE s[i] = t[i]
    BY <1>2
  <2>1. i + 1 \in 1..Len(q)
    BY <1>1
  <2> QED BY <1>2, <1>3, <1>5, <2>1
<1>7. s = t
  BY <1>2, <1>5, <1>6, SeqEqual
<1>8. Head(IdsOf(q)) = Head(q).id
  <2>1. 1 \in 1..Len(q)
    BY <1>1
  <2> QED BY <1>3, <2>1
<1> QED BY <1>4, <1>7, <1>8 DEF s, t

\* Every step of the queue is a submission, a release or a clearing of the
\* abstract queue, or none of its business: answers change no order.
LEMMA RefinementStep ==
  ASSUME IInv, IInv', [Next]_vars
  PROVE  [Abstract!Next]_<<IdsOf(queue), IdsOf(popped)>>
<1>0. queue \in Seq(Requests) /\ popped \in Seq(Requests) /\ queue' \in Seq(Requests)
  BY DEF IInv, TypeOK
<1>1. ASSUME NEW t \in Texts, Enqueue(t)
      PROVE  Abstract!Submit(nextId) \/ UNCHANGED <<queue, popped>>
  <2>1. NewRequest(nextId, t) \in Requests /\ NewRequest(nextId, t).id = nextId
    BY <1>1, NewRequests DEF Enqueue, NewRequest
  <2>2. CASE Full(queue, Capacity)
    BY <1>1, <2>2 DEF Enqueue, TryEnqueue
  <2>3. CASE ~Full(queue, Capacity)
    <3>1. queue' = Append(queue, NewRequest(nextId, t)) /\ popped' = popped
      BY <1>1, <2>3 DEF Enqueue, TryEnqueue
    <3>2. IdsOf(queue') = Append(IdsOf(queue), nextId)
      BY <1>0, <2>1, <3>1, IdsOfAppend
    <3> QED BY <3>1, <3>2 DEF Abstract!Submit
  <2> QED BY <2>2, <2>3
<1>2. ASSUME NEW t \in Texts, PushLiteral(t) PROVE Abstract!Submit(nextId)
  <2> DEFINE req == [id |-> nextId, source |-> t, state |-> "Done", result |-> t]
  <2>1. req \in Requests /\ req.id = nextId
    BY <1>2, NewRequests DEF PushLiteral
  <2>2. queue' = Append(queue, req) /\ popped' = popped
    BY <1>2 DEF PushLiteral, PushCommitted
  <2>3. IdsOf(queue') = Append(IdsOf(queue), nextId)
    BY <1>0, <2>1, <2>2, IdsOfAppend
  <2> QED BY <2>2, <2>3 DEF Abstract!Submit
<1>3. ASSUME NEW id \in Ids, NEW result, UNCHANGED popped,
             \/ queue' = MarkDone(queue, id, result) /\ result \in Texts
             \/ queue' = MarkFailed(queue, id)
      PROVE  UNCHANGED <<IdsOf(queue), IdsOf(popped)>>
  <2>1. queue \in Seq(ConversionRequest(Ids, Texts))
    BY <1>0 DEF Requests
  <2>2. (\E t \in Texts : queue' = MarkDone(queue, id, t)) \/ queue' = MarkFailed(queue, id)
    BY <1>3
  <2>3. /\ DOMAIN queue' = DOMAIN queue
        /\ \A i \in DOMAIN queue : queue'[i].id = queue[i].id
    BY <2>1, <2>2, MarkProperties
  <2> QED BY <1>3, <2>3 DEF IdsOf
<1>4. ASSUME PopReadyInOrder PROVE Abstract!Release
  <2>1. /\ queue # <<>> /\ Head(queue) \in Requests
        /\ queue' = Tail(queue) /\ popped' = Append(popped, Head(queue))
    BY <1>0, <1>4, HeadTailProperties DEF PopReadyInOrder, CanPop
  <2>2. IdsOf(popped') = Append(IdsOf(popped), Head(queue).id)
    BY <1>0, <2>1, IdsOfAppend
  <2> QED BY <1>0, <2>1, <2>2, IdsOfTail DEF Abstract!Release
<1>5. ASSUME Clear PROVE Abstract!Drop
  BY <1>5 DEF Clear, Abstract!Drop, IdsOf
<1>6. CASE UNCHANGED vars
  BY <1>6 DEF vars
<1>7. \A t \in Texts : Enqueue(t) \/ PushLiteral(t) => nextId \in Ids
  BY DEF Enqueue, PushLiteral
<1>8. ASSUME NEW id \in Ids, NEW t \in Texts, AnswerDone(id, t)
      PROVE  UNCHANGED <<IdsOf(queue), IdsOf(popped)>>
  BY <1>3, <1>8 DEF AnswerDone
<1>9. ASSUME NEW id \in Ids, AnswerFailed(id)
      PROVE  UNCHANGED <<IdsOf(queue), IdsOf(popped)>>
  BY <1>3, <1>9 DEF AnswerFailed
<1> QED
  BY <1>1, <1>2, <1>4, <1>5, <1>6, <1>7, <1>8, <1>9 DEF Next, Abstract!Next

\* The queue implements the in-order release of what was submitted: nothing
\* overtakes, nothing leaves twice, nothing leaves that was not submitted.
THEOREM Refinement == Spec => ReleasesInOrder
<1>1. Init => Abstract!Init
  <2> SUFFICES ASSUME Init PROVE IdsOf(queue) = <<>> /\ IdsOf(popped) = <<>>
    BY DEF Abstract!Init
  <2> QED BY DEF Init, IdsOf
<1>2. IInv /\ IInv' /\ [Next]_vars => [Abstract!Next]_<<IdsOf(queue), IdsOf(popped)>>
  BY RefinementStep
<1> QED BY <1>1, <1>2, Invariance, PTL DEF Spec, ReleasesInOrder, Abstract!Spec
=============================================================================
