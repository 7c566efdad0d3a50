------------------------- MODULE ConversionRequests -------------------------
(***************************************************************************)
(* The data operations of the conversion queue, as pure operators on a     *)
(* sequence of requests: core/application/ConversionQueue.h and .cpp.  The *)
(* deque items_ is the sequence q; a text is any value.  Nothing here is   *)
(* recursive, so modules with proofs may use it.                           *)
(***************************************************************************)
EXTENDS Naturals, Sequences, FiniteSets

\* enum class ConvState
ConvState == {"Pending", "Done", "Failed"}

\* struct ConversionRequest
ConversionRequest(Ids, Texts) ==
  [id : Ids, source : Texts, state : ConvState, result : Texts \cup {<<>>}]

\* Mutant: numbering that starts one too low.
RequestOffByOne(id, source) ==
  [id |-> id - 1, source |-> source, state |-> "Pending", result |-> <<>>]

\* A request as the Tab key builds it: Pending, no result yet.
NewRequest(id, source) ==
  [id |-> id, source |-> source, state |-> "Pending", result |-> <<>>]

\* The positions that count against the capacity.
PendingAt(q) == {i \in DOMAIN q : q[i].state = "Pending"}

\* Mutant: an off-by-one in the comparison.
FullTooLate(q, capacity) == Cardinality(PendingAt(q)) > capacity

\* Full(): only requests still converting count; literals do not.
Full(q, capacity) == Cardinality(PendingAt(q)) >= capacity

\* TryEnqueue(req): refused, with the queue unchanged, when Full.
TryEnqueue(q, capacity, req) == IF Full(q, capacity) THEN q ELSE Append(q, req)

\* Mutant: a literal that jumps the queue.
PushFront(q, id, text) ==
  <<[id |-> id, source |-> text, state |-> "Done", result |-> text]>> \o q

\* PushCommitted(id, text): a literal is born Done and ignores Full.
PushCommitted(q, id, text) ==
  Append(q, [id |-> id, source |-> text, state |-> "Done", result |-> text])

\* Mutant: the scan forgets to look at the state.
MarksAnyState(q, id, i) ==
  q[i].id = id /\ \A j \in 1..(i - 1) : q[j].id # id

\* Mutant: the answer goes to the oldest pending request, whatever its id.
MarksFirstPending(q, id, i) ==
  /\ q[i].state = "Pending"
  /\ \A j \in 1..(i - 1) : q[j].state # "Pending"

\* i is the request the scan of MarkDone and MarkFailed stops at: the first
\* one that has this id and is still Pending.
Marks(q, id, i) ==
  /\ q[i].id = id /\ q[i].state = "Pending"
  /\ \A j \in 1..(i - 1) : ~(q[j].id = id /\ q[j].state = "Pending")

\* The value MarkDone and MarkFailed return.
CanMark(q, id) == \E i \in PendingAt(q) : q[i].id = id

MarkDone(q, id, result) ==
  [i \in DOMAIN q |-> IF Marks(q, id, i)
                        THEN [q[i] EXCEPT !.state = "Done", !.result = result]
                        ELSE q[i]]

MarkFailed(q, id) ==
  [i \in DOMAIN q |-> IF Marks(q, id, i)
                        THEN [q[i] EXCEPT !.state = "Failed"] ELSE q[i]]

\* PopReadyInOrder() hands out the head, and only when it is settled.
CanPop(q) == q # <<>> /\ Head(q).state # "Pending"

\* Mutant: `if` for `while`, so that one answer releases one request at most.
ReadyOne(q) == IF CanPop(q) THEN 1 ELSE 0

\* What `while (auto req = PopReadyInOrder())` takes from the queue, and what
\* it leaves: the longest prefix with no Pending request in it.
ReadyCount(q) ==
  Cardinality({i \in DOMAIN q : \A j \in 1..i : q[j].state # "Pending"})
Ready(q)   == SubSeq(q, 1, ReadyCount(q))
Unready(q) == SubSeq(q, ReadyCount(q) + 1, Len(q))

\* The text a request stands for, in the preedit and when it is committed:
\* the answer once there is one, the romaji as typed otherwise.
TextOf(req) == IF req.state = "Done" THEN req.result ELSE req.source
=============================================================================
