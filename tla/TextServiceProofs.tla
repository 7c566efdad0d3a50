-------------------------- MODULE TextServiceProofs --------------------------
(***************************************************************************)
(* TextService, for every capacity, every number of keys and every length  *)
(* of the history.  Invariants, one on the other:                          *)
(*                                                                         *)
(*  - IInv, under every fault of the host: the queue keeps its bound and   *)
(*    its order, ids name one request each, a result never lands on        *)
(*    another request, and the mode agrees with the compartment;           *)
(*  - TInv, under every fault: every text is made of typed tokens;         *)
(*  - DInv, under the faults of KindFaults: the document and the draft     *)
(*    behind it are the keys typed and not taken back, in order, and the   *)
(*    composition shows the draft;                                         *)
(*  - HeadInv, without refused results and threads: the queue begins with  *)
(*    a request under conversion;                                          *)
(*  - ContextInv, with DInv: what a conversion is told was confirmed.      *)
(*                                                                         *)
(* IInv does not look inside the texts; the others do, through the lemmas  *)
(* about concatenation in ConversionRequestsLemmas.                        *)
(***************************************************************************)
EXTENDS TextService, ConversionRequestsLemmas

USE CapacityAssumption, MaxKeysAssumption

Req == ConversionRequest(Ids, Text)

\* What holds of a queue q whose next id is n while the jobs js are out.
QueueOK(q, n, js) ==
  /\ q \in Seq(Req)
  /\ Cardinality(PendingAt(q)) <= Capacity
  /\ \A i, j \in DOMAIN q : i < j => q[i].id < q[j].id
  /\ \A i \in DOMAIN q : q[i].id < n
  /\ \A i \in DOMAIN q, j \in js : q[i].id = j.id => q[i].source = j.source
  /\ \A i \in DOMAIN q :
       q[i].state = "Done" => Stamps(q[i].result) = Stamps(q[i].source)

\* What holds of the jobs.
JobsOK(js, n) ==
  /\ \A j \in js : j.id \in Ids /\ j.id < n /\ j.source \in Text
  /\ \A j, k \in js : j.id = k.id => j = k

\* Every id costs the user a key, so that ids never run out before keys do.
KeysPayForIds == nextId + Len(session) <= clock + 1

\* While SetValue and GetValue do not fail, the mode follows the compartment.
ModesInv ==
  "noSetValue" \notin Faults /\ "noGetValue" \notin Faults => ModeIsCompartment

Scalars ==
  /\ active \in BOOLEAN /\ open \in BOOLEAN
  /\ openClose \in BOOLEAN /\ listening \in BOOLEAN /\ (listening => openClose)
  /\ mode \in {"Conversion", "Direct"}
  /\ composition \in BOOLEAN /\ context \in BOOLEAN
  /\ nextId \in 1..(MaxKeys + 1) /\ clock \in 0..MaxKeys
  /\ session \in Text

IInv == /\ Scalars
        /\ QueueOK(queue, nextId, jobs)
        /\ JobsOK(jobs, nextId)
        /\ KeysPayForIds
        /\ ModesInv

----------------------------------------------------------------------------
\* The queue operations keep QueueOK.

LEMMA QueueShape ==
  ASSUME NEW q, NEW n, NEW js, QueueOK(q, n, js)
  PROVE  /\ Len(q) \in Nat /\ DOMAIN q = 1..Len(q)
         /\ \A i \in DOMAIN q : /\ q[i] \in Req /\ q[i].id \in Ids
                                /\ q[i].source \in Text
         /\ Cardinality(PendingAt(q)) \in Nat
<1>1. /\ Len(q) \in Nat /\ DOMAIN q = 1..Len(q)
      /\ \A i \in DOMAIN q : q[i] \in Req
  BY LenProperties, ElementOfSeq DEF QueueOK
<1>2. Cardinality(PendingAt(q)) \in Nat
  BY PendingFinite DEF QueueOK
<1> QED BY <1>1, <1>2 DEF Req, ConversionRequest

LEMMA EmptyQueueOK == ASSUME NEW n, NEW js PROVE QueueOK(<<>>, n, js)
<1>1. PendingAt(<<>>) = {} /\ DOMAIN <<>> = {}
  BY DEF PendingAt
<1>2. Cardinality(PendingAt(<<>>)) = 0
  BY <1>1, FS_EmptySet
<1> QED BY <1>1, <1>2, EmptySeq DEF QueueOK

\* Fewer jobs, or later ids, ask no more of the queue.
LEMMA WeakerQueueOK ==
  ASSUME NEW q, NEW n \in Int, NEW m \in Int, NEW js, NEW ks,
         QueueOK(q, n, js), n <= m, ks \subseteq js
  PROVE  QueueOK(q, m, ks)
<1>1. \A i \in DOMAIN q : q[i].id \in Int
  BY QueueShape DEF Ids
<1> QED BY <1>1 DEF QueueOK

LEMMA UnreadyQueueOK ==
  ASSUME NEW q, NEW n, NEW js, QueueOK(q, n, js)
  PROVE  QueueOK(Unready(q), n, js)
<1> DEFINE r == Unready(q)
           k == ReadyCount(q)
<1>1. q \in Seq(Req) /\ Len(q) \in Nat /\ DOMAIN q = 1..Len(q)
      /\ Cardinality(PendingAt(q)) \in Nat
  BY QueueShape DEF QueueOK
<1>2. k \in Nat /\ k <= Len(q)
  BY <1>1, ReadyCountBounds
<1>3. /\ r \in Seq(Req)
      /\ DOMAIN r = 1..(Len(q) - k)
      /\ \A i \in DOMAIN r : i + k \in DOMAIN q /\ r[i] = q[i + k]
      /\ Cardinality(PendingAt(r)) <= Cardinality(PendingAt(q))
  <2> HIDE DEF k
  <2>1. r = SubSeq(q, k + 1, Len(q))
    BY DEF Unready, k
  <2> QED BY <1>1, <1>2, <2>1, SuffixPending
<1> HIDE DEF r, k
<1>4. Cardinality(PendingAt(r)) \in Nat
  BY <1>3, PendingFinite
<1>5. \A i, j \in DOMAIN r : i < j => r[i].id < r[j].id
  <2> SUFFICES ASSUME NEW i \in DOMAIN r, NEW j \in DOMAIN r, i < j
               PROVE  r[i].id < r[j].id
    OBVIOUS
  <2>1. /\ i + k \in DOMAIN q /\ r[i] = q[i + k]
        /\ j + k \in DOMAIN q /\ r[j] = q[j + k]
        /\ i + k < j + k
    BY <1>2, <1>3
  <2> QED BY <2>1 DEF QueueOK
<1>6. Cardinality(PendingAt(r)) <= Capacity
  BY <1>1, <1>3, <1>4 DEF QueueOK
<1>7. \A i \in DOMAIN r :
        /\ r[i].id < n
        /\ \A j \in js : r[i].id = j.id => r[i].source = j.source
        /\ r[i].state = "Done" => Stamps(r[i].result) = Stamps(r[i].source)
  BY <1>3 DEF QueueOK
<1> QED BY <1>3, <1>5, <1>6, <1>7 DEF QueueOK, r

\* Appending a request under the next id.
LEMMA AppendQueueOK ==
  ASSUME NEW q, NEW n \in Ids, NEW js, QueueOK(q, n, js), JobsOK(js, n),
         NEW req \in Req, req.id = n, NEW ks,
         req.state = "Done" => Stamps(req.result) = Stamps(req.source),
         req.state = "Pending" => ~Full(q, Capacity),
         \A j \in ks : j \in js \/ (j.id = n /\ j.source = req.source)
  PROVE  QueueOK(Append(q, req), n + 1, ks)
<1> DEFINE r == Append(q, req)
<1>1. /\ q \in Seq(Req) /\ Len(q) \in Nat /\ DOMAIN q = 1..Len(q)
      /\ \A i \in DOMAIN q : q[i].id \in Ids
      /\ Cardinality(PendingAt(q)) \in Nat
  BY QueueShape DEF QueueOK
<1>2. /\ r \in Seq(Req) /\ Len(r) = Len(q) + 1
      /\ \A i \in 1..Len(q) : r[i] = q[i]
      /\ r[Len(q) + 1] = req
  BY <1>1, AppendProperties
<1>3. DOMAIN r = 1..(Len(q) + 1)
  BY <1>2, LenProperties
<1>4. Cardinality(PendingAt(r)) <= Capacity
  <2>1. /\ Cardinality(PendingAt(r)) <= Cardinality(PendingAt(q)) + 1
        /\ req.state # "Pending" =>
             Cardinality(PendingAt(r)) <= Cardinality(PendingAt(q))
    BY <1>1, AppendPending
  <2>2. Cardinality(PendingAt(r)) \in Nat
    BY <1>2, PendingFinite
  <2>3. Cardinality(PendingAt(q)) <= Capacity
    BY DEF QueueOK
  <2> QED BY <1>1, <2>1, <2>2, <2>3 DEF Full
<1> HIDE DEF r
<1>5. \A i \in DOMAIN q : q[i].id < n
  BY DEF QueueOK
<1>6. \A i, j \in DOMAIN r : i < j => r[i].id < r[j].id
  <2> SUFFICES ASSUME NEW i \in DOMAIN r, NEW j \in DOMAIN r, i < j
               PROVE  r[i].id < r[j].id
    OBVIOUS
  <2>1. i \in DOMAIN q /\ r[i] = q[i]
    BY <1>1, <1>2, <1>3
  <2>2. CASE j \in DOMAIN q
    BY <1>1, <1>2, <2>1, <2>2 DEF QueueOK
  <2>3. CASE j = Len(q) + 1
    BY <1>2, <1>5, <2>1, <2>3
  <2> QED BY <1>1, <1>3, <2>2, <2>3
<1>7. \A i \in DOMAIN r : r[i].id < n + 1
  BY <1>1, <1>2, <1>3, <1>5 DEF Ids
<1>8. \A i \in DOMAIN r, j \in ks : r[i].id = j.id => r[i].source = j.source
  <2> SUFFICES ASSUME NEW i \in DOMAIN r, NEW j \in ks, r[i].id = j.id
               PROVE  r[i].source = j.source
    OBVIOUS
  <2>1. CASE i \in DOMAIN q
    <3>1. r[i] = q[i] /\ q[i].id < n /\ q[i].id \in Ids
      BY <1>1, <1>2, <1>5, <2>1
    <3>2. j \in js
      BY <3>1 DEF Ids
    <3> QED BY <2>1, <3>1, <3>2 DEF QueueOK
  <2>2. CASE i = Len(q) + 1
    <3>1. r[i] = req
      BY <1>2, <2>2
    <3>2. j \notin js
      BY <3>1 DEF JobsOK, Ids
    <3> QED BY <3>1, <3>2
  <2> QED BY <1>1, <1>3, <2>1, <2>2
<1>9. \A i \in DOMAIN r :
        r[i].state = "Done" => Stamps(r[i].result) = Stamps(r[i].source)
  BY <1>1, <1>2, <1>3 DEF QueueOK
<1> QED BY <1>2, <1>4, <1>6, <1>7, <1>8, <1>9 DEF QueueOK, r

\* A conversion keeps the keystrokes a text stands for.
LEMMA ConvertedText ==
  ASSUME NEW t \in Text
  PROVE  Converted(t) \in Text /\ Stamps(Converted(t)) = Stamps(t)
<1>1. /\ Len(t) \in Nat /\ DOMAIN t = 1..Len(t)
      /\ \A i \in 1..Len(t) : t[i] \in Token
  BY LenProperties, ElementOfSeq DEF Text
<1>2. \A i \in 1..Len(t) : /\ [t[i] EXCEPT !.form = "conv"] \in Token
                           /\ [t[i] EXCEPT !.form = "conv"].at = t[i].at
  BY <1>1 DEF Token
<1>3. Converted(t) = [i \in 1..Len(t) |-> [t[i] EXCEPT !.form = "conv"]]
  BY <1>1 DEF Converted
<1>4. [i \in 1..Len(t) |-> [t[i] EXCEPT !.form = "conv"]] \in Seq(Token)
  BY <1>1, <1>2, IsASeq
<1>5. Stamps(Converted(t)) = Stamps(t)
  BY <1>1, <1>2, <1>3 DEF Stamps
<1> QED BY <1>3, <1>4, <1>5 DEF Text

\* An answer to one of the jobs, of either kind.
LEMMA MarkQueueOK ==
  ASSUME NEW q, NEW n, NEW js, QueueOK(q, n, js), JobsOK(js, n),
         NEW job \in js, NEW r,
         \/ r = MarkDone(q, job.id, Converted(job.source))
         \/ r = MarkFailed(q, job.id)
  PROVE  QueueOK(r, n, js)
<1> DEFINE result == Converted(job.source)
<1>1. result \in Text /\ Stamps(result) = Stamps(job.source)
  BY ConvertedText DEF JobsOK
<1>2. q \in Seq(ConversionRequest(Ids, Text))
  BY DEF QueueOK, Req
<1> HIDE DEF result
<1>3. r = MarkDone(q, job.id, result) \/ r = MarkFailed(q, job.id)
  BY DEF result
<1>4. /\ r \in Seq(ConversionRequest(Ids, Text))
      /\ DOMAIN r = DOMAIN q
      /\ \A i \in DOMAIN q :
           /\ r[i].id = q[i].id /\ r[i].source = q[i].source
           /\ r[i] # q[i] => q[i].id = job.id /\ q[i].state = "Pending"
      /\ Cardinality(PendingAt(r)) <= Cardinality(PendingAt(q))
  <2>1. (\E t \in Text : r = MarkDone(q, job.id, t)) \/ r = MarkFailed(q, job.id)
    BY <1>1, <1>3
  <2> QED BY <1>2, <2>1, MarkProperties
<1>5. Cardinality(PendingAt(r)) <= Capacity
  <2>1. /\ Cardinality(PendingAt(q)) \in Nat
        /\ Cardinality(PendingAt(r)) \in Nat
    BY <1>2, <1>4, PendingFinite
  <2>2. Cardinality(PendingAt(q)) <= Capacity
    BY DEF QueueOK
  <2> QED BY <1>4, <2>1, <2>2
<1>6. \A i \in DOMAIN r :
        r[i].state = "Done" => Stamps(r[i].result) = Stamps(r[i].source)
  <2> SUFFICES ASSUME NEW i \in DOMAIN q, r[i].state = "Done"
               PROVE  Stamps(r[i].result) = Stamps(r[i].source)
    BY <1>4
  <2>1. CASE r[i] = q[i]
    BY <2>1 DEF QueueOK
  <2>2. CASE r[i] # q[i]
    <3>0. r[i].result = result
      BY <1>2, <1>3, <2>2, MarkOutcome
    <3>1. r[i].result = result /\ r[i].source = q[i].source /\ q[i].id = job.id
      BY <1>4, <2>2, <3>0
    <3>2. q[i].source = job.source
      BY <3>1 DEF QueueOK
    <3> QED BY <1>1, <3>1, <3>2
  <2> QED BY <2>1, <2>2
<1> QED BY <1>4, <1>5, <1>6 DEF QueueOK, Req

\* Whatever happens in its session, CommitReadyInOrder leaves the queue as it
\* was given, or without its settled front, or empty.
LEMMA CommitEffect ==
  ASSUME NEW q, NEW s, CommitReadyInOrder(q, s)
  PROVE  /\ queue' = q \/ queue' = <<>> \/ queue' = Unready(q)
         /\ session' = s \/ session' = <<>>
         /\ composition' \in BOOLEAN
BY DEF CommitReadyInOrder, CommitText, Shrink

\* The three ways the rest of the queue may be left keep QueueOK.
LEMMA CommitQueueOK ==
  ASSUME NEW q, NEW s, NEW n, NEW js, QueueOK(q, n, js),
         CommitReadyInOrder(q, s)
  PROVE  QueueOK(queue', n, js)
BY CommitEffect, EmptyQueueOK, UnreadyQueueOK
----------------------------------------------------------------------------
\* The segment being typed, and the flags.

LEMMA SessionShape ==
  ASSUME session \in Text
  PROVE  /\ Len(session) \in Nat
         /\ session # <<>> => Len(session) >= 1
         /\ session # <<>> => Front(session) \in Text /\ Len(Front(session)) = Len(session) - 1
<1>1. /\ Len(session) \in Nat
      /\ session # <<>> => Len(session) >= 1
      /\ \A i \in 1..Len(session) : session[i] \in Token
  BY LenProperties, EmptySeq, ElementOfSeq DEF Text
<1>2. ASSUME session # <<>>
      PROVE  Front(session) \in Text /\ Len(Front(session)) = Len(session) - 1
  <2>1. \A i \in 1..(Len(session) - 1) : session[i] \in Token
    BY <1>1
  <2>2. /\ SubSeq(session, 1, Len(session) - 1) \in Seq(Token)
        /\ Len(SubSeq(session, 1, Len(session) - 1)) =
             IF 1 <= Len(session) - 1 THEN (Len(session) - 1) - 1 + 1 ELSE 0
    BY <1>1, <2>1, SubSeqProperties
  <2>3. SubSeq(session, 1, Len(session) - 1) = Front(session)
    BY DEF Front
  <2>4. (IF 1 <= Len(session) - 1 THEN (Len(session) - 1) - 1 + 1 ELSE 0) = Len(session) - 1
    BY <1>1, <1>2
  <2> QED BY <2>2, <2>3, <2>4 DEF Text
<1> QED BY <1>1, <1>2

LEMMA EmptyText == <<>> \in Text /\ Len(<<>>) = 0
BY EmptySeq DEF Text

LEMMA TypedText ==
  ASSUME TypeKey, clock \in 0..MaxKeys
  PROVE  /\ clock' \in 0..MaxKeys /\ clock' = clock + 1
         /\ Typed \in Token /\ <<Typed>> \in Text
<1>1. clock' \in 0..MaxKeys /\ clock' = clock + 1 /\ Typed \in Token
  BY DEF TypeKey, Typed, Token
<1>2. <<Typed>> \in Seq(Token)
  BY <1>1
<1> QED BY <1>1, <1>2 DEF Text

\* What a request may be refused, and what a start may leave, are flags.
LEMMA Flags ==
  /\ \A fault : \A granted \in Granted(fault) : granted \in BOOLEAN
  /\ \A started \in Started : started \in BOOLEAN
BY DEF Granted, Started

----------------------------------------------------------------------------
\* The initial states, and one lemma for every action.

LEMMA InitInv == Init => IInv
<1> SUFFICES ASSUME Init PROVE IInv
  OBVIOUS
<1>1. QueueOK(queue, nextId, jobs)
  BY EmptyQueueOK DEF Init
<1>2. JobsOK(jobs, nextId)
  BY DEF Init, JobsOK
<1>3. Scalars
  <2>1. nextId \in 1..(MaxKeys + 1) /\ clock \in 0..MaxKeys
    BY DEF Init
  <2> QED BY <2>1, EmptyText DEF Init, Scalars
<1>5. KeysPayForIds
  <2>1. nextId = 1 /\ clock = 0 /\ Len(session) = 0
    BY EmptyText DEF Init
  <2> QED BY <2>1 DEF KeysPayForIds
<1>4. ModesInv
  BY DEF Init, ModesInv, ModeIsCompartment
<1> QED BY <1>1, <1>2, <1>3, <1>4, <1>5 DEF IInv

LEMMA AppendKeyStep == IInv /\ AppendKey => IInv'
<1> SUFFICES ASSUME IInv, AppendKey PROVE IInv'
  OBVIOUS
<1>1. TypeKey /\ session \in Text /\ clock \in 0..MaxKeys
  BY DEF AppendKey, IInv, Scalars
<1>2. session' \in Text /\ Len(session') = Len(session) + 1 /\ Len(session) \in Nat
  BY <1>1, TypedText, SessionShape, AppendProperties DEF AppendKey, Text
<1>3. composition' \in BOOLEAN
  BY Flags DEF AppendKey, host, IInv, Scalars
<1>4. UNCHANGED <<active, openClose, listening, mode, open, queue, nextId, jobs>> /\ context' = TRUE
  BY DEF AppendKey, activity, modes, work
<1>5. Scalars'
  BY <1>1, <1>2, <1>3, <1>4, TypedText DEF IInv, Scalars
<1>6. KeysPayForIds'
  BY <1>1, <1>2, <1>4, TypedText DEF IInv, Scalars, KeysPayForIds
<1>7. QueueOK(queue, nextId, jobs)' /\ JobsOK(jobs, nextId)' /\ ModesInv'
  BY <1>4 DEF IInv, ModesInv, ModeIsCompartment
<1> QED BY <1>5, <1>6, <1>7 DEF IInv

LEMMA BackspaceKeyStep == IInv /\ BackspaceKey => IInv'
<1> SUFFICES ASSUME IInv, BackspaceKey PROVE IInv'
  OBVIOUS
<1>1. /\ session' \in Text /\ Len(session') = Len(session) - 1
      /\ Len(session) \in Nat
  BY SessionShape DEF BackspaceKey, IInv, Scalars
<1>2. composition' \in BOOLEAN
  BY Flags DEF BackspaceKey, ClearText, host, IInv, Scalars
<1>3. context' \in BOOLEAN
  BY DEF BackspaceKey
<1>4. UNCHANGED <<active, openClose, listening, mode, open, queue, nextId, jobs, clock>>
  BY DEF BackspaceKey, activity, modes, work
<1>5. Scalars'
  BY <1>1, <1>2, <1>3, <1>4 DEF IInv, Scalars
<1>6. KeysPayForIds'
  BY <1>1, <1>4 DEF IInv, Scalars, KeysPayForIds
<1>7. QueueOK(queue, nextId, jobs)' /\ JobsOK(jobs, nextId)' /\ ModesInv'
  BY <1>4 DEF IInv, ModesInv, ModeIsCompartment
<1> QED BY <1>5, <1>6, <1>7 DEF IInv

LEMMA TriggerKeyStep == IInv /\ TriggerKey => IInv'
<1> SUFFICES ASSUME IInv, TriggerKey PROVE IInv'
  OBVIOUS
<1> DEFINE req == NewRequest(nextId, session)
           job == [id |-> nextId, source |-> session, context |-> HistoryTail(history)]
<1>1. /\ session \in Text /\ Len(session) \in Nat /\ Len(session) >= 1
      /\ clock \in 0..MaxKeys /\ nextId \in 1..(MaxKeys + 1)
      /\ nextId + Len(session) <= clock + 1
  BY SessionShape DEF TriggerKey, IInv, Scalars, KeysPayForIds
<1>2. nextId \in Ids /\ nextId + 1 <= clock + 1
  BY <1>1 DEF Ids
<1>3. /\ queue' = Append(queue, req) /\ ~Full(queue, Capacity)
      /\ nextId' = nextId + 1 /\ session' = <<>> /\ context' = TRUE
      /\ UNCHANGED <<active, openClose, listening, mode, open, composition, clock>>
  BY DEF TriggerKey, TryEnqueue, activity, modes, user
<1>4. jobs' = jobs \cup {job} \/ jobs' = jobs
  BY DEF TriggerKey, Dispatch
<1>5. /\ req \in Req /\ req.id = nextId /\ req.state = "Pending"
      /\ req.source = session
  BY <1>1, <1>2 DEF NewRequest, Req, ConversionRequest, ConvState
<1>6. job.id = nextId /\ job.source = session
  OBVIOUS
<1>7. QueueOK(queue', nextId', jobs')
  <2> HIDE DEF req, job
  <2>1. \A j \in jobs' : j \in jobs \/ (j.id = nextId /\ j.source = req.source)
    BY <1>4, <1>5, <1>6
  <2>2. QueueOK(queue, nextId, jobs) /\ JobsOK(jobs, nextId)
    BY DEF IInv
  <2> QED BY <1>2, <1>3, <1>5, <2>1, <2>2, AppendQueueOK
<1>8. JobsOK(jobs', nextId')
  <2> HIDE DEF job
  <2>1. \A j \in jobs : j.id \in Ids /\ j.id < nextId /\ j.source \in Text
    BY DEF IInv, JobsOK
  <2>2. \A j \in jobs' : j.id \in Ids /\ j.id < nextId' /\ j.source \in Text
    BY <1>1, <1>2, <1>3, <1>4, <1>6, <2>1 DEF Ids
  <2>3. \A j, k \in jobs' : j.id = k.id => j = k
    <3>1. \A j, k \in jobs : j.id = k.id => j = k
      BY DEF IInv, JobsOK
    <3>2. \A j \in jobs : j.id # job.id
      BY <1>2, <1>6, <2>1 DEF Ids
    <3> QED BY <1>4, <3>1, <3>2
  <2> QED BY <2>2, <2>3 DEF JobsOK
<1>9. Scalars' /\ KeysPayForIds' /\ ModesInv'
  BY <1>1, <1>2, <1>3, EmptyText DEF IInv, Scalars, KeysPayForIds, ModesInv, ModeIsCompartment
<1> QED BY <1>7, <1>8, <1>9 DEF IInv

\* A literal under the next id.
LEMMA LiteralQueueOK ==
  ASSUME NEW q, NEW n \in Ids, NEW js, QueueOK(q, n, js), JobsOK(js, n),
         NEW text \in Text
  PROVE  QueueOK(PushCommitted(q, n, text), n + 1, js)
<1> DEFINE req == [id |-> n, source |-> text, state |-> "Done", result |-> text]
<1>1. /\ req \in Req /\ req.id = n /\ req.state = "Done"
      /\ Stamps(req.result) = Stamps(req.source)
  BY DEF Req, ConversionRequest, ConvState
<1>2. PushCommitted(q, n, text) = Append(q, req)
  BY DEF PushCommitted
<1> HIDE DEF req
<1>3. \A j \in js : j \in js \/ (j.id = n /\ j.source = req.source)
  OBVIOUS
<1> QED BY <1>1, <1>2, <1>3, AppendQueueOK

\* Later ids ask no more of the jobs, and fewer jobs are as good.
LEMMA WeakerJobsOK ==
  ASSUME NEW n \in Int, NEW m \in Int, NEW js, NEW ks, JobsOK(js, n), n <= m, ks \subseteq js
  PROVE  JobsOK(ks, m)
BY DEF JobsOK, Ids

\* The queue as Enter has it before anything is confirmed: the segment as
\* typed and the newline are literals behind what was there.
TypedQueue == IF session = <<>> THEN queue ELSE PushCommitted(queue, nextId, session)
NewlineId  == IF session = <<>> THEN nextId ELSE nextId + 1
EnterQueue == PushCommitted(TypedQueue, NewlineId, <<Typed>>)

LEMMA EnterShape ==
  ASSUME IInv, EnterKey
  PROVE  /\ TypeKey /\ session \in Text
         /\ nextId \in Ids /\ NewlineId \in Ids /\ NewlineId <= clock + 1
         /\ nextId <= NewlineId /\ nextId' = NewlineId + 1
         /\ QueueOK(queue, nextId, jobs)
         /\ QueueOK(TypedQueue, NewlineId, jobs) /\ JobsOK(jobs, NewlineId)
         /\ QueueOK(EnterQueue, NewlineId + 1, jobs)
         /\ \/ CommitReadyInOrder(EnterQueue, <<>>)
            \/ queue' = EnterQueue /\ session' = <<>> /\ UNCHANGED <<history, host>>
<1>1. /\ TypeKey /\ session \in Text /\ Len(session) \in Nat
      /\ session # <<>> => Len(session) >= 1
      /\ clock \in 0..MaxKeys /\ nextId \in 1..(MaxKeys + 1)
      /\ nextId + Len(session) <= clock + 1
  BY SessionShape DEF EnterKey, IInv, Scalars, KeysPayForIds
<1>2. /\ clock' \in 0..MaxKeys /\ clock' = clock + 1 /\ <<Typed>> \in Text
  BY <1>1, TypedText
<1>3. /\ nextId \in Ids /\ NewlineId \in Ids /\ NewlineId <= clock + 1
      /\ nextId <= NewlineId
  BY <1>1, <1>2 DEF Ids, NewlineId
<1>4. QueueOK(queue, nextId, jobs) /\ JobsOK(jobs, nextId)
  BY DEF IInv
<1>5. QueueOK(TypedQueue, NewlineId, jobs) /\ JobsOK(jobs, NewlineId)
  <2>1. CASE session = <<>>
    BY <1>4, <2>1 DEF TypedQueue, NewlineId
  <2>2. CASE session # <<>>
    <3>1. QueueOK(PushCommitted(queue, nextId, session), nextId + 1, jobs)
      BY <1>1, <1>3, <1>4, <2>2, LiteralQueueOK
    <3>2. JobsOK(jobs, nextId + 1)
      BY <1>1, <1>4, WeakerJobsOK
    <3> QED BY <2>2, <3>1, <3>2 DEF TypedQueue, NewlineId
  <2> QED BY <2>1, <2>2
<1>6. QueueOK(EnterQueue, NewlineId + 1, jobs)
  BY <1>2, <1>3, <1>5, LiteralQueueOK DEF EnterQueue
<1>7. /\ nextId' = NewlineId + 1
      /\ \/ CommitReadyInOrder(EnterQueue, <<>>)
         \/ queue' = EnterQueue /\ session' = <<>> /\ UNCHANGED <<history, host>>
  BY DEF EnterKey, EnterQueue, TypedQueue, NewlineId
<1> QED BY <1>1, <1>3, <1>4, <1>5, <1>6, <1>7

LEMMA EnterKeyStep == IInv /\ EnterKey => IInv'
<1> SUFFICES ASSUME IInv, EnterKey PROVE IInv'
  OBVIOUS
<1>1. /\ nextId \in Ids /\ NewlineId \in Ids /\ NewlineId <= clock + 1
      /\ nextId' = NewlineId + 1 /\ TypeKey /\ clock \in 0..MaxKeys
      /\ QueueOK(EnterQueue, NewlineId + 1, jobs) /\ JobsOK(jobs, NewlineId)
  BY EnterShape DEF IInv, Scalars
<1>2. UNCHANGED <<active, openClose, listening, mode, open, jobs>>
  BY DEF EnterKey, activity, modes
<1>3. \/ CommitReadyInOrder(EnterQueue, <<>>)
      \/ queue' = EnterQueue /\ session' = <<>> /\ UNCHANGED composition
  BY EnterShape DEF host
<1>4. clock' \in 0..MaxKeys /\ clock' = clock + 1
  BY <1>1, TypedText
<1>5. QueueOK(queue', nextId', jobs')
  BY <1>1, <1>2, <1>3, CommitQueueOK
<1>6. session' = <<>> /\ composition' \in BOOLEAN
  BY <1>3, CommitEffect DEF IInv, Scalars
<1>7. context' \in BOOLEAN
  BY <1>6 DEF EnterKey
<1>8. JobsOK(jobs', nextId')
  BY <1>1, <1>2, WeakerJobsOK DEF Ids
<1>9. Scalars'
  BY <1>1, <1>2, <1>4, <1>6, <1>7, EmptyText DEF IInv, Scalars, Ids
<1>10. KeysPayForIds' /\ ModesInv'
  BY <1>1, <1>2, <1>4, <1>6, EmptyText DEF IInv, KeysPayForIds, ModesInv, ModeIsCompartment, Ids
<1> QED BY <1>5, <1>8, <1>9, <1>10 DEF IInv

\* Steps that leave the ids alone, and the queue as it is or empty, with no
\* segment but the one before.
LEMMA QuietStep ==
  ASSUME IInv, UNCHANGED nextId,
         queue' = queue \/ queue' = <<>>, jobs' = jobs \/ jobs' \subseteq jobs,
         session' = session \/ session' = <<>>,
         clock' \in 0..MaxKeys, clock <= clock',
         active' \in BOOLEAN, openClose' \in BOOLEAN, listening' \in BOOLEAN,
         listening' => openClose', open' \in BOOLEAN,
         mode' \in {"Conversion", "Direct"},
         composition' \in BOOLEAN, context' \in BOOLEAN, ModesInv'
  PROVE  IInv'
<1>1. QueueOK(queue', nextId', jobs')
  BY EmptyQueueOK, WeakerQueueOK DEF IInv, Scalars
<1>2. JobsOK(jobs', nextId')
  BY WeakerJobsOK DEF IInv, Scalars
<1>3. Scalars'
  BY EmptyText DEF IInv, Scalars
<1>4. KeysPayForIds'
  BY EmptyText, SessionShape DEF IInv, Scalars, KeysPayForIds
<1> QED BY <1>1, <1>2, <1>3, <1>4 DEF IInv

LEMMA EscapeKeyStep == IInv /\ EscapeKey => IInv'
<1> SUFFICES ASSUME IInv, EscapeKey PROVE IInv'
  OBVIOUS
<1>1. /\ queue' = <<>> /\ session' = <<>> /\ context' = FALSE
      /\ UNCHANGED <<active, openClose, listening, mode, open, nextId, jobs, clock>>
  BY DEF EscapeKey, activity, modes, work
<1>2. composition' \in BOOLEAN
  BY DEF EscapeKey, ClearText, host, IInv, Scalars
<1>3. ModesInv'
  BY <1>1 DEF IInv, ModesInv, ModeIsCompartment
<1>4. /\ active' \in BOOLEAN /\ openClose' \in BOOLEAN /\ listening' \in BOOLEAN
      /\ (listening' => openClose') /\ open' \in BOOLEAN /\ context' \in BOOLEAN
  BY <1>1 DEF IInv, Scalars
<1>6. /\ mode' \in {"Conversion", "Direct"}
      /\ clock' \in 0..MaxKeys /\ clock <= clock'
  BY <1>1 DEF IInv, Scalars
<1> QED BY <1>1, <1>2, <1>3, <1>4, <1>6, QuietStep

LEMMA AppInsertsStep == IInv /\ AppInserts => IInv'
<1> SUFFICES ASSUME IInv, AppInserts PROVE IInv'
  OBVIOUS
<1>1. /\ TypeKey
      /\ UNCHANGED <<queue, session, context, composition, active, openClose, listening,
                     mode, open, nextId, jobs>>
  BY DEF AppInserts, activity, modes, work, model
<1>2. clock' \in 0..MaxKeys /\ clock <= clock'
  BY <1>1, TypedText DEF IInv, Scalars
<1>3. ModesInv'
  BY <1>1 DEF IInv, ModesInv, ModeIsCompartment
<1> QED BY <1>1, <1>2, <1>3, QuietStep DEF IInv, Scalars

LEMMA PassThroughKeyStep == IInv /\ PassThroughKey => IInv'
BY AppInsertsStep DEF PassThroughKey

\* What FlushAsRaw leaves of a composition is none, or the one there was.
LEMMA FlushEffect ==
  ASSUME NEW text, FlushAsRaw(text), composition \in BOOLEAN
  PROVE  /\ queue' = <<>> /\ session' = <<>> /\ context' = FALSE
         /\ composition' \in BOOLEAN
BY DEF FlushAsRaw, FlushSession, CommitText, host

\* However the compartment takes it, the mode is the one asked for: a call-back
\* finds the value that was set for it.
LEMMA SetOpenCloseEffect ==
  ASSUME NEW m \in {"Conversion", "Direct"}, SetOpenClose(m),
         open \in BOOLEAN, openClose \in BOOLEAN
  PROVE  /\ mode' = m /\ open' \in BOOLEAN
         /\ "noSetValue" \notin Faults /\ openClose => (open' <=> mode' = "Conversion")
<1>1. PICK set \in Granted("noSetValue"), called \in BOOLEAN, read \in Granted("noGetValue") :
        /\ open' = IF openClose /\ set THEN m = "Conversion" ELSE open
        /\ mode' = IF openClose /\ set /\ listening /\ called /\ read
                     THEN ModeOf(open') ELSE m
  BY DEF SetOpenClose
<1>2. "noSetValue" \notin Faults => set
  BY DEF Granted
<1>3. CASE openClose /\ set
  BY <1>1, <1>3 DEF ModeOf
<1>4. CASE ~(openClose /\ set)
  BY <1>1, <1>2, <1>4
<1> QED BY <1>3, <1>4

LEMMA ModeKeyStep == IInv /\ ModeKey => IInv'
<1> SUFFICES ASSUME IInv, ModeKey PROVE IInv'
  OBVIOUS
<1>1. UNCHANGED <<active, openClose, listening, nextId, jobs, clock>>
  BY DEF ModeKey, activity, work, user
<1>2. /\ queue' = queue \/ queue' = <<>>
      /\ session' = session \/ session' = <<>>
      /\ composition' \in BOOLEAN /\ context' \in BOOLEAN
  <2>1. CASE AllEmpty
    BY <2>1 DEF ModeKey, model, host, IInv, Scalars
  <2>2. CASE ~AllEmpty
    BY <2>2, FlushEffect DEF ModeKey, IInv, Scalars
  <2> QED BY <2>1, <2>2
<1>3. PICK m \in {"Conversion", "Direct"} : SetOpenClose(m)
  BY DEF ModeKey, ModeAfter
<1>4. /\ mode' \in {"Conversion", "Direct"} /\ open' \in BOOLEAN
      /\ "noSetValue" \notin Faults /\ openClose => (open' <=> mode' = "Conversion")
  BY <1>3, SetOpenCloseEffect DEF IInv, Scalars
<1>5. ModesInv'
  BY <1>1, <1>4 DEF IInv, Scalars, ModesInv, ModeIsCompartment
<1>6. /\ active' \in BOOLEAN /\ openClose' \in BOOLEAN /\ listening' \in BOOLEAN
      /\ (listening' => openClose')
      /\ clock' \in 0..MaxKeys /\ clock <= clock'
  BY <1>1 DEF IInv, Scalars
<1> QED BY <1>1, <1>2, <1>4, <1>5, <1>6, QuietStep

LEMMA AppSetsOpenStep ==
  ASSUME IInv, NEW o \in BOOLEAN, AppSetsOpen(o) PROVE IInv'
<1>1. UNCHANGED <<active, openClose, listening, nextId, jobs, clock, composition>> /\ open' = o
  BY DEF AppSetsOpen, activity, work, user, host
<1>2. /\ queue' = queue \/ queue' = <<>>
      /\ session' = session \/ session' = <<>>
      /\ context' = context \/ context' = FALSE
  BY DEF AppSetsOpen, model
<1>3. /\ mode' = mode \/ mode' = ModeOf(o)
      /\ active /\ listening /\ "noGetValue" \notin Faults => mode' = ModeOf(o)
  BY DEF AppSetsOpen
<1>4. /\ active' \in BOOLEAN /\ openClose' \in BOOLEAN /\ listening' \in BOOLEAN
      /\ (listening' => openClose') /\ open' \in BOOLEAN
      /\ composition' \in BOOLEAN /\ context' \in BOOLEAN
  BY <1>1, <1>2 DEF IInv, Scalars
<1>6. /\ mode' \in {"Conversion", "Direct"}
      /\ clock' \in 0..MaxKeys /\ clock <= clock'
  BY <1>1, <1>3 DEF IInv, Scalars, ModeOf
<1>5. ModesInv'
  BY <1>1, <1>3 DEF ModesInv, ModeIsCompartment, ModeOf
<1> QED BY <1>1, <1>2, <1>4, <1>5, <1>6, QuietStep

LEMMA RunFlushStep == IInv /\ RunFlush => IInv'
<1> SUFFICES ASSUME IInv, RunFlush PROVE IInv'
  OBVIOUS
<1>1. UNCHANGED <<active, openClose, listening, mode, open, queue, session, context, nextId, jobs,
                  clock>>
  BY DEF RunFlush, activity, modes, model, work, user
<1>2. composition' \in BOOLEAN
  BY DEF RunFlush, FlushSession, CommitText, host, IInv, Scalars
<1>3. ModesInv'
  BY <1>1 DEF IInv, ModesInv, ModeIsCompartment
<1>4. /\ active' \in BOOLEAN /\ openClose' \in BOOLEAN /\ listening' \in BOOLEAN
      /\ (listening' => openClose') /\ open' \in BOOLEAN /\ context' \in BOOLEAN
  BY <1>1 DEF IInv, Scalars
<1>6. /\ mode' \in {"Conversion", "Direct"}
      /\ clock' \in 0..MaxKeys /\ clock <= clock'
  BY <1>1 DEF IInv, Scalars
<1> QED BY <1>1, <1>2, <1>3, <1>4, <1>6, QuietStep

LEMMA AnswerStep ==
  ASSUME IInv, NEW job \in jobs, NEW ok \in BOOLEAN, Answer(job, ok) PROVE IInv'
<1> DEFINE q == IF ok THEN MarkDone(queue, job.id, Converted(job.source))
                      ELSE MarkFailed(queue, job.id)
<1>1. /\ jobs' \subseteq jobs
      /\ UNCHANGED <<active, openClose, listening, mode, open, nextId, clock>>
  BY DEF Answer, activity, modes, user
<1>2. /\ nextId \in Int /\ QueueOK(queue, nextId, jobs) /\ JobsOK(jobs, nextId)
  BY DEF IInv, Scalars
<1>3. QueueOK(q, nextId, jobs)
  <2>1. \/ q = MarkDone(queue, job.id, Converted(job.source))
        \/ q = MarkFailed(queue, job.id)
    OBVIOUS
  <2> HIDE DEF q
  <2> QED BY <1>2, <2>1, MarkQueueOK
<1>4. \/ CommitReadyInOrder(q, session) /\ context' = composition'
      \/ /\ queue' = queue \/ queue' = q
         /\ UNCHANGED <<session, composition>>
         /\ context' = context \/ context' = composition'
  BY DEF Answer, model, host
<1> HIDE DEF q
<1>5. QueueOK(queue', nextId, jobs)
  BY <1>2, <1>3, <1>4, CommitQueueOK
<1>6. QueueOK(queue', nextId', jobs') /\ JobsOK(jobs', nextId')
  BY <1>1, <1>2, <1>5, WeakerQueueOK, WeakerJobsOK
<1>7. /\ session' = session \/ session' = <<>>
      /\ composition' \in BOOLEAN /\ context' \in BOOLEAN
  <2>1. CASE CommitReadyInOrder(q, session) /\ context' = composition'
    BY <2>1, CommitEffect
  <2>2. CASE ~(CommitReadyInOrder(q, session) /\ context' = composition')
    BY <1>4, <2>2 DEF IInv, Scalars
  <2> QED BY <2>1, <2>2
<1>8. Scalars'
  BY <1>1, <1>7, EmptyText DEF IInv, Scalars
<1>9. KeysPayForIds' /\ ModesInv'
  BY <1>1, <1>7, EmptyText, SessionShape DEF IInv, Scalars, KeysPayForIds, ModesInv, ModeIsCompartment
<1> QED BY <1>6, <1>8, <1>9 DEF IInv

LEMMA LoseAnswerStep ==
  ASSUME IInv, NEW job \in jobs, LoseAnswer(job) PROVE IInv'
<1>1. /\ jobs' \subseteq jobs
      /\ UNCHANGED <<active, openClose, listening, mode, open, queue, session, context, composition,
                     nextId, clock>>
  BY DEF LoseAnswer, activity, modes, model, host, user
<1>3. ModesInv'
  BY <1>1 DEF IInv, ModesInv, ModeIsCompartment
<1>4. /\ active' \in BOOLEAN /\ openClose' \in BOOLEAN /\ listening' \in BOOLEAN
      /\ (listening' => openClose') /\ open' \in BOOLEAN /\ context' \in BOOLEAN
  BY <1>1 DEF IInv, Scalars
<1>6. /\ mode' \in {"Conversion", "Direct"}
      /\ clock' \in 0..MaxKeys /\ clock <= clock'
  BY <1>1 DEF IInv, Scalars
<1>5. composition' \in BOOLEAN
  BY <1>1 DEF IInv, Scalars
<1> QED BY <1>1, <1>3, <1>4, <1>5, <1>6, QuietStep

LEMMA CompositionTerminatedStep == IInv /\ CompositionTerminated => IInv'
<1> SUFFICES ASSUME IInv, CompositionTerminated PROVE IInv'
  OBVIOUS
<1>1. /\ queue' = <<>> /\ session' = <<>> /\ context' = FALSE /\ composition' = FALSE
      /\ UNCHANGED <<active, openClose, listening, mode, open, nextId, jobs, clock>>
  BY DEF CompositionTerminated, Abandon, activity, modes, work, user
<1>3. ModesInv'
  BY <1>1 DEF IInv, ModesInv, ModeIsCompartment
<1>4. /\ active' \in BOOLEAN /\ openClose' \in BOOLEAN /\ listening' \in BOOLEAN
      /\ (listening' => openClose') /\ open' \in BOOLEAN /\ context' \in BOOLEAN
  BY <1>1 DEF IInv, Scalars
<1>6. /\ mode' \in {"Conversion", "Direct"}
      /\ clock' \in 0..MaxKeys /\ clock <= clock'
  BY <1>1 DEF IInv, Scalars
<1> QED BY <1>1, <1>3, <1>4, <1>6, QuietStep

LEMMA DeactivateStep == IInv /\ Deactivate => IInv'
<1> SUFFICES ASSUME IInv, Deactivate PROVE IInv'
  OBVIOUS
<1>1. /\ queue' = <<>> /\ session' = <<>> /\ context' = FALSE /\ composition' = FALSE
      /\ active' = FALSE /\ openClose' = FALSE /\ listening' = FALSE /\ jobs' \subseteq jobs
      /\ UNCHANGED <<mode, open, nextId, clock>>
  BY DEF Deactivate, Abandon, modes, user
<1>3. ModesInv'
  BY <1>1 DEF ModesInv, ModeIsCompartment
<1>4. /\ active' \in BOOLEAN /\ openClose' \in BOOLEAN /\ listening' \in BOOLEAN
      /\ (listening' => openClose') /\ open' \in BOOLEAN /\ context' \in BOOLEAN
  BY <1>1 DEF IInv, Scalars
<1>6. /\ mode' \in {"Conversion", "Direct"}
      /\ clock' \in 0..MaxKeys /\ clock <= clock'
  BY <1>1 DEF IInv, Scalars
<1> QED BY <1>1, <1>3, <1>4, <1>6, QuietStep

LEMMA ActivateExStep == IInv /\ ActivateEx => IInv'
<1> SUFFICES ASSUME IInv, ActivateEx PROVE IInv'
  OBVIOUS
<1>0. UNCHANGED <<queue, session, context, composition, nextId, jobs, clock>>
  BY DEF ActivateEx, model, host, work, user
<1>1. PICK compartment \in Granted("noCompartment"), set \in Granted("noSetValue"),
           advised \in Granted("noAdvise"), sink \in Granted("noSink") :
        /\ active' = sink
        /\ openClose' = (sink /\ compartment)
        /\ listening' = (sink /\ compartment /\ advised)
        /\ mode' = IF compartment THEN "Conversion" ELSE mode
        /\ open' = IF compartment /\ set THEN TRUE ELSE open
  BY DEF ActivateEx
<1>7. "noSetValue" \notin Faults => set
  BY DEF Granted
<1>8. listening' => compartment
  BY <1>1
<1>2. listening' /\ "noSetValue" \notin Faults => mode' = "Conversion" /\ open'
  BY <1>1, <1>7, <1>8
<1>3. ModesInv'
  BY <1>2 DEF ModesInv, ModeIsCompartment
<1>4. /\ active' \in BOOLEAN /\ openClose' \in BOOLEAN /\ listening' \in BOOLEAN
      /\ (listening' => openClose')
  <2>1. compartment \in BOOLEAN /\ advised \in BOOLEAN /\ sink \in BOOLEAN
    BY Flags
  <2> QED BY <1>1, <2>1
<1>6. open' \in BOOLEAN /\ mode' \in {"Conversion", "Direct"}
  BY <1>1 DEF IInv, Scalars
<1>5. /\ composition' \in BOOLEAN /\ context' \in BOOLEAN
      /\ clock' \in 0..MaxKeys /\ clock <= clock'
  BY <1>0 DEF IInv, Scalars
<1> QED BY <1>0, <1>3, <1>4, <1>5, <1>6, QuietStep

LEMMA StutterStep == IInv /\ UNCHANGED vars => IInv'
BY DEF vars, activity, modes, model, host, work, user, IInv, Scalars, KeysPayForIds,
       ModesInv, ModeIsCompartment

LEMMA StepInv == IInv /\ [Next]_vars => IInv'
<1> SUFFICES ASSUME IInv, [Next]_vars PROVE IInv'
  OBVIOUS
<1>1. CASE Keys
  BY <1>1, AppendKeyStep, BackspaceKeyStep, TriggerKeyStep, EnterKeyStep, EscapeKeyStep,
     PassThroughKeyStep, ModeKeyStep DEF Keys
<1>2. CASE \E o \in BOOLEAN : AppSetsOpen(o)
  BY <1>2, AppSetsOpenStep
<1>3. CASE RunFlush
  BY <1>3, RunFlushStep
<1>4. CASE ConvertResult
  BY <1>4, AnswerStep DEF ConvertResult
<1>5. CASE \E job \in jobs : LoseAnswer(job)
  BY <1>5, LoseAnswerStep
<1>6. CASE CompositionTerminated \/ Deactivate \/ ActivateEx
  BY <1>6, CompositionTerminatedStep, DeactivateStep, ActivateExStep
<1>7. CASE UNCHANGED vars
  BY <1>7, StutterStep
<1> QED BY <1>1, <1>2, <1>3, <1>4, <1>5, <1>6, <1>7 DEF Next

----------------------------------------------------------------------------
\* The inductive invariant holds throughout.
THEOREM Invariance == Spec => []IInv
BY InitInv, StepInv, PTL DEF Spec

\* What decides (modes, queue, segment, ids and jobs) keeps its shape, and the
\* counter of ids stays within the keys typed, whatever the host refuses.
THEOREM ControlTypeCorrect == Spec => []ControlTypeOK
<1>1. IInv => ControlTypeOK
  BY DEF IInv, Scalars, QueueOK, JobsOK, ControlTypeOK, Req
<1> QED BY <1>1, Invariance, PTL

\* At most Capacity conversions are outstanding (TextService.cpp:764): Enter's
\* literals, cancelled requests and restarts never let a Tab past the bound.
THEOREM BackPressure == Spec => []PendingBounded
<1>1. IInv => PendingBounded
  BY DEF IInv, QueueOK, PendingBounded
<1> QED BY <1>1, Invariance, PTL

\* An id names one request for the life of the service, and the queue is in
\* order of submission (TextService.cpp:765, 787 and 790).
THEOREM IdsNameRequests == Spec => []IdsInOrder
<1>1. IInv => IdsInOrder
  BY DEF IInv, QueueOK, JobsOK, IdsInOrder
<1> QED BY <1>1, Invariance, PTL

\* A result lands on the request it was computed for or on none, however late
\* it comes: after Esc, after a termination, after other requests
\* (TextService.cpp:564).
THEOREM ResultsLandWhereTheyBelong == Spec => []ResultMeetsRequest
<1>1. IInv => ResultMeetsRequest
  BY DEF IInv, QueueOK, ResultMeetsRequest
<1> QED BY <1>1, Invariance, PTL

\* The service and the language bar agree on the mode while the service
\* listens, whoever changed which: the call-back SetValue makes into OnChange
\* turns nothing back (TextService.cpp:712).  A SetValue or GetValue that fails
\* is excluded: the code ignores it and goes on with the mode it has.
THEOREM ModesAgree ==
  ASSUME "noSetValue" \notin Faults, "noGetValue" \notin Faults
  PROVE  Spec => []ModeIsCompartment
<1>1. IInv => ModeIsCompartment
  BY DEF IInv, ModesInv
<1> QED BY <1>1, Invariance, PTL

----------------------------------------------------------------------------
\* Texts.  From here on the proofs look inside them: which keystrokes a text
\* stands for, and in which order.

\* The keystrokes of a text, one number for every token.
LEMMA StampsShape ==
  ASSUME NEW t \in Text
  PROVE  /\ Stamps(t) \in Seq(0..MaxKeys) /\ Stamps(t) \in Seq(Nat)
         /\ Len(Stamps(t)) = Len(t) /\ Len(t) \in Nat
         /\ \A i \in 1..Len(t) : Stamps(t)[i] = t[i].at
         /\ Stamps(t) = <<>> <=> t = <<>>
<1>1. /\ Len(t) \in Nat /\ DOMAIN t = 1..Len(t)
      /\ \A i \in 1..Len(t) : t[i] \in Token
  BY LenProperties, ElementOfSeq DEF Text
<1>2. \A i \in 1..Len(t) : t[i].at \in 0..MaxKeys
  BY <1>1 DEF Token
<1>3. Stamps(t) = [i \in 1..Len(t) |-> t[i].at]
  BY <1>1 DEF Stamps
<1>4. Stamps(t) \in Seq(0..MaxKeys)
  BY <1>1, <1>2, <1>3, IsASeq
<1>5. Stamps(t) \in Seq(Nat)
  BY <1>4, SeqMonotonic
<1>6. Len(Stamps(t)) = Len(t)
  <2>1. 1..Len(Stamps(t)) = 1..Len(t) /\ Len(Stamps(t)) \in Nat
    BY <1>3, <1>4, LenProperties
  <2> QED BY <1>1, <2>1
<1>7. Stamps(t) = <<>> <=> t = <<>>
  BY <1>1, <1>4, <1>6, EmptySeq DEF Text
<1> QED BY <1>1, <1>3, <1>4, <1>5, <1>6, <1>7

LEMMA TextConcat ==
  ASSUME NEW a \in Text, NEW b \in Text
  PROVE  a \o b \in Text /\ (a \o b = <<>> <=> a = <<>> /\ b = <<>>)
BY ConcatProperties, ConcatEqualIffEmpty DEF Text

\* The keystrokes of two texts are those of the one and then of the other.
LEMMA StampsConcat ==
  ASSUME NEW a \in Text, NEW b \in Text
  PROVE  Stamps(a \o b) = Stamps(a) \o Stamps(b)
<1> DEFINE x == Stamps(a \o b)
           y == Stamps(a) \o Stamps(b)
<1>1. /\ a \o b \in Text
      /\ Len(a \o b) = Len(a) + Len(b)
      /\ \A i \in 1..(Len(a) + Len(b)) :
           (a \o b)[i] = IF i <= Len(a) THEN a[i] ELSE b[i - Len(a)]
  BY ConcatProperties DEF Text
<1>2. /\ Stamps(a) \in Seq(Nat) /\ Len(Stamps(a)) = Len(a) /\ Len(a) \in Nat
      /\ \A i \in 1..Len(a) : Stamps(a)[i] = a[i].at
  BY StampsShape
<1>3. /\ Stamps(b) \in Seq(Nat) /\ Len(Stamps(b)) = Len(b) /\ Len(b) \in Nat
      /\ \A i \in 1..Len(b) : Stamps(b)[i] = b[i].at
  BY StampsShape
<1>4. /\ x \in Seq(Nat) /\ Len(x) = Len(a) + Len(b)
      /\ \A i \in 1..(Len(a) + Len(b)) : x[i] = (a \o b)[i].at
  <2>1. /\ x \in Seq(Nat) /\ Len(x) = Len(a \o b)
        /\ \A i \in 1..Len(a \o b) : x[i] = (a \o b)[i].at
    BY <1>1, StampsShape
  <2> HIDE DEF x
  <2> QED BY <1>1, <2>1
<1>5. /\ y \in Seq(Nat) /\ Len(y) = Len(a) + Len(b)
      /\ \A i \in 1..(Len(a) + Len(b)) :
           y[i] = IF i <= Len(a) THEN Stamps(a)[i] ELSE Stamps(b)[i - Len(a)]
  <2>1. /\ y \in Seq(Nat) /\ Len(y) = Len(Stamps(a)) + Len(Stamps(b))
        /\ \A i \in 1..(Len(Stamps(a)) + Len(Stamps(b))) :
             y[i] = IF i <= Len(Stamps(a)) THEN Stamps(a)[i]
                    ELSE Stamps(b)[i - Len(Stamps(a))]
    BY <1>2, <1>3, ConcatProperties
  <2> HIDE DEF y
  <2> QED BY <1>2, <1>3, <2>1
<1>6. ASSUME NEW i \in 1..(Len(a) + Len(b)) PROVE x[i] = y[i]
  <2>1. x[i] = (a \o b)[i].at
    BY <1>4
  <2>2. CASE i <= Len(a)
    <3>1. (a \o b)[i] = a[i] /\ y[i] = Stamps(a)[i] /\ i \in 1..Len(a)
      BY <1>1, <1>2, <1>3, <1>5, <2>2
    <3> HIDE DEF x, y
    <3> QED BY <1>2, <2>1, <3>1
  <2>3. CASE ~(i <= Len(a))
    <3>1. (a \o b)[i] = b[i - Len(a)] /\ y[i] = Stamps(b)[i - Len(a)]
      BY <1>1, <1>5, <2>3
    <3>2. i - Len(a) \in 1..Len(b)
      BY <1>2, <1>3, <2>3
    <3>3. Stamps(b)[i - Len(a)] = b[i - Len(a)].at
      BY <1>3, <3>2
    <3> HIDE DEF x, y
    <3> QED BY <2>1, <3>1, <3>3
  <2> QED BY <2>2, <2>3
<1> HIDE DEF x, y
<1>7. x = y
  BY <1>4, <1>5, <1>6, SeqEqual
<1> QED BY <1>7 DEF x, y

LEMMA StampsOne == ASSUME NEW x \in Token PROVE <<x>> \in Text /\ Stamps(<<x>>) = <<x.at>>
<1>1. <<x>> \in Text
  BY DEF Text
<1>2. DOMAIN <<x>> = 1..1
  OBVIOUS
<1>3. Stamps(<<x>>) = [i \in 1..1 |-> x.at]
  BY <1>2 DEF Stamps
<1> QED BY <1>1, <1>3

\* ... and the keystrokes of texts flattened are their keystrokes flattened.
StampLists(ss) == [i \in DOMAIN ss |-> Stamps(ss[i])]

LEMMA StampListsShape ==
  ASSUME NEW ss \in Seq(Text)
  PROVE  StampLists(ss) \in Seq(Seq(Nat)) /\ Len(StampLists(ss)) = Len(ss)
<1>1. /\ Len(ss) \in Nat /\ DOMAIN ss = 1..Len(ss)
      /\ \A i \in 1..Len(ss) : ss[i] \in Text
  BY LenProperties, ElementOfSeq
<1>2. StampLists(ss) = [i \in 1..Len(ss) |-> Stamps(ss[i])]
  BY <1>1 DEF StampLists
<1>3. \A i \in 1..Len(ss) : Stamps(ss[i]) \in Seq(Nat)
  BY <1>1, StampsShape
<1>4. StampLists(ss) \in Seq(Seq(Nat))
  BY <1>1, <1>2, <1>3, IsASeq
<1>5. 1..Len(StampLists(ss)) = 1..Len(ss) /\ Len(StampLists(ss)) \in Nat
  BY <1>2, <1>4, LenProperties
<1> QED BY <1>1, <1>4, <1>5

LEMMA StampListsAppend ==
  ASSUME NEW ss \in Seq(Text), NEW s \in Text
  PROVE  StampLists(Append(ss, s)) = Append(StampLists(ss), Stamps(s))
<1> DEFINE tt == Append(ss, s)
           x == StampLists(tt)
           y == Append(StampLists(ss), Stamps(s))
           n == Len(ss)
<1>1. /\ tt \in Seq(Text) /\ Len(tt) = n + 1 /\ n \in Nat
      /\ \A i \in 1..n : tt[i] = ss[i]
      /\ tt[n + 1] = s
      /\ DOMAIN tt = 1..(n + 1) /\ DOMAIN ss = 1..n
  BY AppendProperties, LenProperties
<1>2. StampLists(ss) \in Seq(Seq(Nat)) /\ Len(StampLists(ss)) = n
  BY StampListsShape
<1>3. Stamps(s) \in Seq(Nat)
  BY StampsShape
<1>4. /\ y \in Seq(Seq(Nat)) /\ Len(y) = n + 1
      /\ \A i \in 1..n : y[i] = StampLists(ss)[i]
      /\ y[n + 1] = Stamps(s)
  BY <1>2, <1>3, AppendProperties
<1>5. /\ x \in Seq(Seq(Nat)) /\ Len(x) = n + 1
  <2> HIDE DEF tt
  <2> QED BY <1>1, StampListsShape
<1>6. \A i \in 1..(n + 1) : x[i] = Stamps(tt[i])
  <2> HIDE DEF tt, n
  <2> QED BY <1>1 DEF StampLists
<1>7. \A i \in 1..n : StampLists(ss)[i] = Stamps(ss[i])
  <2> HIDE DEF n
  <2> QED BY <1>1 DEF StampLists
<1> HIDE DEF tt, x, y, n
<1>8. \A i \in 1..(n + 1) : x[i] = y[i]
  <2> SUFFICES ASSUME NEW i \in 1..(n + 1) PROVE x[i] = y[i]
    OBVIOUS
  <2>1. CASE i \in 1..n
    BY <1>1, <1>4, <1>6, <1>7, <2>1
  <2>2. CASE i = n + 1
    BY <1>1, <1>4, <1>6, <2>2
  <2> QED BY <1>1, <2>1, <2>2
<1>9. x = y
  BY <1>4, <1>5, <1>8, SeqEqual
<1> QED BY <1>9 DEF x, y, tt

LEMMA StampsFlatten ==
  \A ss \in Seq(Text) : Stamps(FlattenSeq(ss)) = FlattenSeq(StampLists(ss))
<1> DEFINE T == {n \in Nat : \A ss \in Seq(Text) :
                   Len(ss) = n => Stamps(FlattenSeq(ss)) = FlattenSeq(StampLists(ss))}
<1>1. 0 \in T
  <2> SUFFICES ASSUME NEW ss \in Seq(Text), Len(ss) = 0
               PROVE  Stamps(FlattenSeq(ss)) = FlattenSeq(StampLists(ss))
    OBVIOUS
  <2>1. ss = <<>>
    BY EmptySeq
  <2>2. StampLists(ss) = <<>>
    BY StampListsShape, EmptySeq
  <2> QED BY <2>1, <2>2, FlattenEmpty, EmptyText, StampsShape
<1>2. ASSUME NEW n \in Nat, n \in T PROVE n + 1 \in T
  <2> SUFFICES ASSUME NEW ss \in Seq(Text), Len(ss) = n + 1
               PROVE  Stamps(FlattenSeq(ss)) = FlattenSeq(StampLists(ss))
    OBVIOUS
  <2>1. PICK v \in Seq(Text), s \in Text : ss = Append(v, s)
    <3>1. ss # <<>>
      BY EmptySeq
    <3> QED BY <3>1, SequenceEmptyOrAppend
  <2>2. Len(v) = n
    BY <2>1, AppendProperties, LenProperties
  <2>3. Stamps(FlattenSeq(v)) = FlattenSeq(StampLists(v))
    BY <1>2, <2>2
  <2>4. FlattenSeq(ss) = FlattenSeq(v) \o s /\ FlattenSeq(v) \in Text
    BY <2>1, FlattenAppend, FlattenType DEF Text
  <2>5. Stamps(FlattenSeq(ss)) = Stamps(FlattenSeq(v)) \o Stamps(s)
    BY <2>4, StampsConcat
  <2>6. StampLists(ss) = Append(StampLists(v), Stamps(s))
    BY <2>1, StampListsAppend
  <2>7. StampLists(v) \in Seq(Seq(Nat)) /\ Stamps(s) \in Seq(Nat)
    BY StampListsShape, StampsShape
  <2>8. FlattenSeq(StampLists(ss)) = FlattenSeq(StampLists(v)) \o Stamps(s)
    BY <2>6, <2>7, FlattenAppend
  <2> QED BY <2>3, <2>5, <2>8
<1> HIDE DEF T
<1>3. \A n \in Nat : n \in T
  BY <1>1, <1>2, Induction
<1> QED BY <1>3, LenProperties DEF T

----------------------------------------------------------------------------
\* The text of a queue.

TextsOf(q) == [i \in DOMAIN q |-> TextOf(q[i])]

LEMMA RequestText == ASSUME NEW req \in Req PROVE TextOf(req) \in Text
BY EmptyText DEF TextOf, Req, ConversionRequest

LEMMA TextsOfShape ==
  ASSUME NEW q \in Seq(Req)
  PROVE  TextsOf(q) \in Seq(Text) /\ Len(TextsOf(q)) = Len(q)
<1>1. /\ Len(q) \in Nat /\ DOMAIN q = 1..Len(q)
      /\ \A i \in 1..Len(q) : q[i] \in Req
  BY LenProperties, ElementOfSeq
<1>2. TextsOf(q) = [i \in 1..Len(q) |-> TextOf(q[i])]
  BY <1>1 DEF TextsOf
<1>3. \A i \in 1..Len(q) : TextOf(q[i]) \in Text
  BY <1>1, RequestText
<1>4. TextsOf(q) \in Seq(Text)
  BY <1>1, <1>2, <1>3, IsASeq
<1>5. 1..Len(TextsOf(q)) = 1..Len(q) /\ Len(TextsOf(q)) \in Nat
  BY <1>2, <1>4, LenProperties
<1> QED BY <1>1, <1>4, <1>5

LEMMA ConcatType ==
  ASSUME NEW q \in Seq(Req) PROVE Concat(q) \in Text /\ Concat(q) = FlattenSeq(TextsOf(q))
BY TextsOfShape, FlattenType DEF Concat, TextsOf, Text

LEMMA ConcatEmpty == Concat(<<>>) = <<>>
<1>1. <<>> \in Seq(Req) /\ Len(<<>>) = 0
  BY EmptySeq
<1>2. TextsOf(<<>>) = <<>>
  BY <1>1, TextsOfShape, EmptySeq
<1> QED BY <1>1, <1>2, ConcatType, FlattenEmpty

\* Two queues one after the other read like their texts one after the other.
LEMMA ConcatConcat ==
  ASSUME NEW p \in Seq(Req), NEW q \in Seq(Req)
  PROVE  Concat(p \o q) = Concat(p) \o Concat(q)
<1> DEFINE x == TextsOf(p \o q)
           y == TextsOf(p) \o TextsOf(q)
           m == Len(p)
           n == Len(q)
<1>1. /\ p \o q \in Seq(Req) /\ Len(p \o q) = m + n /\ m \in Nat /\ n \in Nat
      /\ \A i \in 1..(m + n) : (p \o q)[i] = IF i <= m THEN p[i] ELSE q[i - m]
      /\ DOMAIN p = 1..m /\ DOMAIN q = 1..n /\ DOMAIN (p \o q) = 1..(m + n)
  BY ConcatProperties, LenProperties
<1>2. /\ TextsOf(p) \in Seq(Text) /\ Len(TextsOf(p)) = m
      /\ TextsOf(q) \in Seq(Text) /\ Len(TextsOf(q)) = n
  BY TextsOfShape
<1>3. /\ x \in Seq(Text) /\ Len(x) = m + n
  BY <1>1, TextsOfShape
<1>4. /\ y \in Seq(Text) /\ Len(y) = m + n
      /\ \A i \in 1..(m + n) : y[i] = IF i <= m THEN TextsOf(p)[i] ELSE TextsOf(q)[i - m]
  <2> HIDE DEF m, n
  <2> QED BY <1>2, ConcatProperties
<1>5. /\ \A i \in 1..m : TextsOf(p)[i] = TextOf(p[i])
      /\ \A i \in 1..n : TextsOf(q)[i] = TextOf(q[i])
      /\ \A i \in 1..(m + n) : x[i] = TextOf((p \o q)[i])
  <2> HIDE DEF m, n
  <2> QED BY <1>1 DEF TextsOf
<1> HIDE DEF x, y, m, n
<1>6. \A i \in 1..(m + n) : x[i] = y[i]
  <2> SUFFICES ASSUME NEW i \in 1..(m + n) PROVE x[i] = y[i]
    OBVIOUS
  <2>1. CASE i <= m
    <3>1. i \in 1..m
      BY <1>1, <2>1
    <3> QED BY <1>1, <1>4, <1>5, <2>1, <3>1
  <2>2. CASE ~(i <= m)
    <3>1. i - m \in 1..n
      BY <1>1, <2>2
    <3> QED BY <1>1, <1>4, <1>5, <2>2, <3>1
  <2> QED BY <2>1, <2>2
<1>7. x = y
  BY <1>3, <1>4, <1>6, SeqEqual
<1>8. FlattenSeq(TextsOf(p) \o TextsOf(q))
        = FlattenSeq(TextsOf(p)) \o FlattenSeq(TextsOf(q))
  BY <1>2, FlattenConcat DEF Text
<1> QED BY <1>1, <1>7, <1>8, ConcatType DEF x, y

LEMMA ConcatOne ==
  ASSUME NEW req \in Req PROVE Concat(<<req>>) = TextOf(req)
<1>1. <<req>> \in Seq(Req) /\ Len(<<req>>) = 1 /\ DOMAIN <<req>> = 1..1 /\ <<req>>[1] = req
  OBVIOUS
<1>2. TextsOf(<<req>>) = [i \in 1..1 |-> TextOf(<<req>>[i])]
  BY <1>1 DEF TextsOf
<1>3. TextsOf(<<req>>) = <<TextOf(req)>>
  BY <1>1, <1>2
<1>4. FlattenSeq(<<TextOf(req)>>) = TextOf(req)
  BY RequestText, FlattenOne DEF Text
<1> QED BY <1>1, <1>3, <1>4, ConcatType

LEMMA ConcatAppend ==
  ASSUME NEW q \in Seq(Req), NEW req \in Req
  PROVE  Concat(Append(q, req)) = Concat(q) \o TextOf(req)
<1>1. <<req>> \in Seq(Req) /\ Append(q, req) = q \o <<req>>
  BY AppendIsConcat
<1> QED BY <1>1, ConcatConcat, ConcatOne

\* A queue stands for the keystrokes of its sources, answered or not.
Sources(q) == [i \in DOMAIN q |-> q[i].source]

LEMMA ConcatStamps ==
  ASSUME NEW q, NEW n, NEW js, QueueOK(q, n, js)
  PROVE  Stamps(Concat(q)) = FlattenSeq(StampLists(Sources(q)))
<1>1. q \in Seq(Req) /\ DOMAIN q = 1..Len(q) /\ Len(q) \in Nat
  BY QueueShape DEF QueueOK
<1>2. \A i \in DOMAIN q : Stamps(TextOf(q[i])) = Stamps(q[i].source)
  BY DEF QueueOK, TextOf
<1>3. StampLists(TextsOf(q)) = StampLists(Sources(q))
  BY <1>2 DEF StampLists, TextsOf, Sources
<1>4. Stamps(FlattenSeq(TextsOf(q))) = FlattenSeq(StampLists(TextsOf(q)))
  BY <1>1, TextsOfShape, StampsFlatten
<1> QED BY <1>1, <1>3, <1>4, ConcatType

\* An answer, of either kind, changes none of them.
LEMMA MarkStamps ==
  ASSUME NEW q, NEW n, NEW js, QueueOK(q, n, js), JobsOK(js, n),
         NEW job \in js, NEW r,
         \/ r = MarkDone(q, job.id, Converted(job.source))
         \/ r = MarkFailed(q, job.id)
  PROVE  /\ Stamps(Concat(r)) = Stamps(Concat(q))
         /\ Sources(r) = Sources(q)
         /\ r = <<>> <=> q = <<>>
<1>1. QueueOK(r, n, js)
  BY MarkQueueOK
<1>2. q \in Seq(ConversionRequest(Ids, Text)) /\ Converted(job.source) \in Text
  BY ConvertedText DEF QueueOK, Req, JobsOK
<1>3. /\ DOMAIN r = DOMAIN q
      /\ \A i \in DOMAIN q : r[i].source = q[i].source
  <2>1. (\E t \in Text : r = MarkDone(q, job.id, t)) \/ r = MarkFailed(q, job.id)
    BY <1>2
  <2> QED BY <1>2, <2>1, MarkProperties
<1>4. Sources(r) = Sources(q)
  BY <1>3 DEF Sources
<1>5. r = <<>> <=> q = <<>>
  <2>1. 1..Len(r) = 1..Len(q) /\ Len(r) \in Nat /\ Len(q) \in Nat
    BY <1>1, <1>3, QueueShape
  <2>2. Len(r) = Len(q)
    BY <2>1
  <2> QED BY <1>1, <1>2, <2>2, EmptySeq DEF QueueOK
<1> QED BY <1>1, <1>4, <1>5, ConcatStamps

----------------------------------------------------------------------------
\* The stream of keystrokes: the document, and the draft behind it.

Increasing(s) == \A i, j \in DOMAIN s : i < j => s[i] < s[j]

LEMMA ToSetConcat ==
  ASSUME NEW S, NEW a \in Seq(S), NEW b \in Seq(S)
  PROVE  ToSet(a \o b) = ToSet(a) \cup ToSet(b)
<1>1. \A s : ToSet(s) = Range(s)
  BY DEF ToSet, Range
<1> QED BY <1>1, RangeConcatenation

LEMMA ToSetShape ==
  ASSUME NEW S, NEW a \in Seq(S)
  PROVE  ToSet(a) \subseteq S /\ ToSet(a) = {a[i] : i \in 1..Len(a)}
BY LenProperties, ElementOfSeq DEF ToSet

LEMMA Assoc == \A a, b, c \in Seq(Nat) : (a \o b) \o c = a \o (b \o c)
<1> DEFINE S == Nat
<1> HIDE DEF S
<1>1. \A a, b, c \in Seq(S) : (a \o b) \o c = a \o (b \o c)
  <2> TAKE a, b, c \in Seq(S)
  <2> QED BY ConcatAssociative
<1> QED BY <1>1 DEF S

LEMMA TokenAssoc == \A a, b, c \in Seq(Token) : (a \o b) \o c = a \o (b \o c)
<1> DEFINE S == Token
<1> HIDE DEF S
<1>1. \A a, b, c \in Seq(S) : (a \o b) \o c = a \o (b \o c)
  <2> TAKE a, b, c \in Seq(S)
  <2> QED BY ConcatAssociative
<1> QED BY <1>1 DEF S

LEMMA IncreasingAppend ==
  ASSUME NEW a \in Seq(Nat), NEW n \in Nat, Increasing(a), \A x \in ToSet(a) : x < n
  PROVE  Increasing(Append(a, n)) /\ ToSet(Append(a, n)) = ToSet(a) \cup {n}
<1> DEFINE b == Append(a, n)
           m == Len(a)
<1>1. /\ DOMAIN b = 1..(m + 1) /\ DOMAIN a = 1..m /\ m \in Nat
      /\ \A i \in 1..m : b[i] = a[i]
      /\ b[m + 1] = n
      /\ \A i \in 1..m : a[i] \in Nat
  BY AppendProperties, LenProperties, ElementOfSeq
<1> HIDE DEF b, m
<1>2. Increasing(b)
  <2> SUFFICES ASSUME NEW i \in 1..(m + 1), NEW j \in 1..(m + 1), i < j PROVE b[i] < b[j]
    BY <1>1 DEF Increasing
  <2>1. i \in 1..m
    BY <1>1
  <2>2. CASE j \in 1..m
    BY <1>1, <2>1, <2>2 DEF Increasing
  <2>3. CASE j = m + 1
    BY <1>1, <2>1, <2>3 DEF ToSet
  <2> QED BY <1>1, <2>2, <2>3
<1>3. ToSet(b) = ToSet(a) \cup {n}
  <2>1. ASSUME NEW i \in 1..(m + 1) PROVE i \in 1..m \/ i = m + 1
    BY <1>1
  <2>2. 1..m \subseteq 1..(m + 1) /\ m + 1 \in 1..(m + 1)
    BY <1>1
  <2> QED BY <1>1, <2>1, <2>2 DEF ToSet
<1> QED BY <1>2, <1>3 DEF b

LEMMA IncreasingParts ==
  ASSUME NEW a \in Seq(Nat), NEW b \in Seq(Nat), Increasing(a \o b)
  PROVE  Increasing(a) /\ ToSet(a) \cap ToSet(b) = {}
<1> DEFINE c == a \o b
           m == Len(a)
           n == Len(b)
<1>1. /\ DOMAIN c = 1..(m + n) /\ DOMAIN a = 1..m /\ DOMAIN b = 1..n
      /\ m \in Nat /\ n \in Nat
      /\ \A i \in 1..(m + n) : c[i] = IF i <= m THEN a[i] ELSE b[i - m]
      /\ \A i \in 1..m : a[i] \in Nat
      /\ \A i \in 1..n : b[i] \in Nat
  BY ConcatProperties, LenProperties, ElementOfSeq
<1>2. Increasing(c)
  OBVIOUS
<1> HIDE DEF c, m, n
<1>3. \A i \in 1..m : i \in 1..(m + n) /\ c[i] = a[i]
  BY <1>1
<1>4. \A i \in 1..n : i + m \in 1..(m + n) /\ c[i + m] = b[i]
  <2> SUFFICES ASSUME NEW i \in 1..n PROVE i + m \in 1..(m + n) /\ c[i + m] = b[i]
    OBVIOUS
  <2>1. i + m \in 1..(m + n) /\ ~(i + m <= m) /\ (i + m) - m = i
    BY <1>1
  <2>2. c[i + m] = b[(i + m) - m]
    BY <1>1, <2>1
  <2> QED BY <2>1, <2>2
<1>5. Increasing(a)
  BY <1>1, <1>2, <1>3 DEF Increasing
<1>6. \A i \in 1..m, j \in 1..n : a[i] # b[j]
  <2> SUFFICES ASSUME NEW i \in 1..m, NEW j \in 1..n, a[i] = b[j] PROVE FALSE
    OBVIOUS
  <2>1. i < j + m
    BY <1>1
  <2>2. c[i] < c[j + m]
    BY <1>1, <1>2, <1>3, <1>4, <2>1 DEF Increasing
  <2> QED BY <1>1, <1>3, <1>4, <2>2
<1> QED BY <1>1, <1>5, <1>6 DEF ToSet

document == Stamps(left)
draft    == Stamps(Draft)

Stream == /\ Increasing(document \o draft)
          /\ ToSet(document \o draft) = (1..clock) \ erased
          /\ erased \subseteq 1..clock

\* The three things a call may do to the stream: confirm some of its front
\* after a key has joined it or as it is, or take back some of its end.
Confirms(d) == \E a \in Seq(Nat) : document' = document \o a /\ d = a \o draft'
Types  == /\ clock' = clock + 1 /\ erased' = erased
          /\ Confirms(Append(draft, clock + 1))
Keeps  == clock' = clock /\ erased' = erased /\ Confirms(draft)
Erases == /\ clock' = clock /\ document' = document
          /\ \E t \in Seq(Nat) : /\ draft = draft' \o t
                                 /\ erased' = erased \cup ToSet(t)
                                 /\ Len(t) = 1 \/ draft' = <<>>

StreamTypes == document \in Seq(Nat) /\ draft \in Seq(Nat) /\ clock \in Nat

\* Whichever it is, the stream stays in order, and complete.
LEMMA StreamStep ==
  ASSUME Stream, StreamTypes, StreamTypes', Types \/ Keeps \/ Erases
  PROVE  Stream'
<1>0. /\ document \in Seq(Nat) /\ draft \in Seq(Nat)
      /\ document' \in Seq(Nat) /\ draft' \in Seq(Nat)
  BY DEF StreamTypes
<1>1. ASSUME NEW d \in Seq(Nat), Confirms(d)
      PROVE  document' \o draft' = document \o d
  <2>1. PICK a \in Seq(Nat) : document' = document \o a /\ d = a \o draft'
    BY <1>1 DEF Confirms
  <2>2. (document \o a) \o draft' = document \o (a \o draft')
    BY <1>0, Assoc
  <2> QED BY <2>1, <2>2
<1>2. document \o draft \in Seq(Nat) /\ clock \in Nat
  BY ConcatProperties DEF StreamTypes
<1>3. CASE Types
  <2>1. Append(draft, clock + 1) \in Seq(Nat)
    BY AppendProperties DEF StreamTypes
  <2>2. document' \o draft' = document \o Append(draft, clock + 1)
    BY <1>1, <1>3, <2>1 DEF Types
  <2>3. document \o Append(draft, clock + 1) = Append(document \o draft, clock + 1)
    <3>1. clock + 1 \in Nat /\ <<clock + 1>> \in Seq(Nat)
      BY <1>2
    <3>2. /\ Append(draft, clock + 1) = draft \o <<clock + 1>>
          /\ Append(document \o draft, clock + 1) = (document \o draft) \o <<clock + 1>>
      BY <1>2, <3>1, AppendIsConcat DEF StreamTypes
    <3>3. (document \o draft) \o <<clock + 1>> = document \o (draft \o <<clock + 1>>)
      <4> DEFINE w == <<clock + 1>>
      <4>1. w \in Seq(Nat)
        BY <3>1
      <4> HIDE DEF w
      <4>2. (document \o draft) \o w = document \o (draft \o w)
        BY <1>0, <4>1, Assoc
      <4> QED BY <4>2 DEF w
    <3> QED BY <3>2, <3>3
  <2>4. \A x \in ToSet(document \o draft) : x < clock + 1
    BY <1>2 DEF Stream
  <2>5. /\ Increasing(Append(document \o draft, clock + 1))
        /\ ToSet(Append(document \o draft, clock + 1)) = ToSet(document \o draft) \cup {clock + 1}
    <3> DEFINE w == document \o draft
               n == clock + 1
    <3>1. w \in Seq(Nat) /\ n \in Nat /\ Increasing(w) /\ \A x \in ToSet(w) : x < n
      BY <1>2, <2>4 DEF Stream
    <3> HIDE DEF w, n
    <3>2. Increasing(Append(w, n)) /\ ToSet(Append(w, n)) = ToSet(w) \cup {n}
      BY <3>1, IncreasingAppend
    <3> QED BY <3>2 DEF w, n
  <2>6. clock' = clock + 1 /\ erased' = erased /\ erased \subseteq 1..clock
    BY <1>3 DEF Types, Stream
  <2>7. ((1..clock) \ erased) \cup {clock + 1} = (1..(clock + 1)) \ erased
    BY <1>2, <2>6
  <2>8. erased \subseteq 1..(clock + 1)
    BY <1>2, <2>6
  <2> QED BY <2>2, <2>3, <2>5, <2>6, <2>7, <2>8 DEF Stream
<1>4. CASE Keeps
  <2>1. document' \o draft' = document \o draft
    BY <1>1, <1>4 DEF Keeps, StreamTypes
  <2> QED BY <1>4, <2>1 DEF Keeps, Stream
<1>5. CASE Erases
  <2>1. PICK t \in Seq(Nat) : draft = draft' \o t /\ erased' = erased \cup ToSet(t)
    BY <1>5 DEF Erases
  <2>2. document' = document /\ clock' = clock
    BY <1>5 DEF Erases
  <2>3. document \o draft = (document' \o draft') \o t
    BY <1>0, <2>1, <2>2, Assoc
  <2>4. document' \o draft' \in Seq(Nat)
    BY ConcatProperties DEF StreamTypes
  <2>5. /\ Increasing(document' \o draft')
        /\ ToSet(document' \o draft') \cap ToSet(t) = {}
    BY <2>1, <2>3, <2>4, IncreasingParts DEF Stream
  <2>6. ToSet(document \o draft) = ToSet(document' \o draft') \cup ToSet(t)
    <3> DEFINE w == document' \o draft'
    <3>1. w \in Seq(Nat)
      BY <2>4
    <3> HIDE DEF w
    <3>2. ToSet(w \o t) = ToSet(w) \cup ToSet(t)
      BY <2>1, <3>1, ToSetConcat
    <3> QED BY <2>3, <3>2 DEF w
  <2>7. ToSet(document' \o draft') = (1..clock) \ erased'
    BY <2>1, <2>5, <2>6 DEF Stream
  <2>8. erased' \subseteq 1..clock
    BY <2>1, <2>6 DEF Stream
  <2> QED BY <2>2, <2>5, <2>7, <2>8 DEF Stream
<1> QED BY <1>3, <1>4, <1>5

LEMMA PartsOfConcat ==
  ASSUME NEW a \in Seq(Nat), NEW b \in Seq(Nat)
  PROVE  /\ SubSeq(a \o b, 1, Len(a)) = a
         /\ SubSeq(a \o b, Len(a) + 1, Len(a \o b)) = b
         /\ Len(a) \in 0..Len(a \o b)
<1> DEFINE c == a \o b
           m == Len(a)
           n == Len(b)
           x == SubSeq(c, 1, m)
           y == SubSeq(c, m + 1, m + n)
<1>1. /\ c \in Seq(Nat) /\ Len(c) = m + n /\ m \in Nat /\ n \in Nat
      /\ \A i \in 1..(m + n) : c[i] = IF i <= m THEN a[i] ELSE b[i - m]
      /\ \A i \in 1..(m + n) : c[i] \in Nat
  BY ConcatProperties, LenProperties, ElementOfSeq
<1>2. a \in Seq(Nat) /\ Len(a) = m /\ b \in Seq(Nat) /\ Len(b) = n
  OBVIOUS
<1> HIDE DEF c, m, n
<1>3. /\ x \in Seq(Nat)
      /\ Len(x) = IF 1 <= m THEN m - 1 + 1 ELSE 0
      /\ \A i \in 1..(m - 1 + 1) : x[i] = c[1 + i - 1]
  <2>1. \A i \in 1..m : c[i] \in Nat
    BY <1>1
  <2>2. 1 \in Int /\ m \in Int
    BY <1>1
  <2> QED BY <2>1, <2>2, SubSeqProperties
<1>4. /\ y \in Seq(Nat)
      /\ Len(y) = IF m + 1 <= m + n THEN (m + n) - (m + 1) + 1 ELSE 0
      /\ \A i \in 1..((m + n) - (m + 1) + 1) : y[i] = c[(m + 1) + i - 1]
  <2>1. \A i \in (m + 1)..(m + n) : c[i] \in Nat
    BY <1>1
  <2>2. m + 1 \in Int /\ m + n \in Int
    BY <1>1
  <2> QED BY <2>1, <2>2, SubSeqProperties
<1> HIDE DEF x, y
<1>5. x = a
  <2>1. Len(x) = m
    BY <1>1, <1>3
  <2>2. \A i \in 1..m : x[i] = a[i]
    <3> SUFFICES ASSUME NEW i \in 1..m PROVE x[i] = a[i]
      OBVIOUS
    <3>1. i \in 1..(m - 1 + 1) /\ 1 + i - 1 = i /\ i \in 1..(m + n) /\ i <= m
      BY <1>1
    <3> QED BY <1>1, <1>3, <3>1
  <2> QED BY <1>2, <1>3, <2>1, <2>2, SeqEqual
<1>6. y = b
  <2>1. Len(y) = n
    BY <1>1, <1>4
  <2>2. \A i \in 1..n : y[i] = b[i]
    <3> SUFFICES ASSUME NEW i \in 1..n PROVE y[i] = b[i]
      OBVIOUS
    <3>1. /\ i \in 1..((m + n) - (m + 1) + 1) /\ (m + 1) + i - 1 = m + i
          /\ m + i \in 1..(m + n) /\ ~(m + i <= m) /\ (m + i) - m = i
      BY <1>1
    <3>2. y[i] = c[m + i] /\ c[m + i] = b[(m + i) - m]
      BY <1>1, <1>4, <3>1
    <3> QED BY <3>1, <3>2
  <2> QED BY <1>2, <1>4, <2>1, <2>2, SeqEqual
<1>7. Len(a) \in 0..Len(c)
  BY <1>1, <1>2
<1> QED BY <1>1, <1>5, <1>6, <1>7 DEF x, y, c, m

\* ... and to the user it is a step of an input method, or none.
LEMMA ImeStep ==
  ASSUME StreamTypes, StreamTypes', Types \/ Keeps \/ Erases
  PROVE  [User!Next]_<<document, draft, clock>>
<1>1. ASSUME NEW d \in Seq(Nat), Confirms(d)
      PROVE  \E n \in 0..Len(d) : User!Confirms(d, n)
  <2>1. PICK a \in Seq(Nat) : document' = document \o a /\ d = a \o draft'
    BY <1>1 DEF Confirms
  <2>2. draft' \in Seq(Nat)
    BY DEF StreamTypes
  <2>3. SubSeq(d, 1, Len(a)) = a /\ SubSeq(d, Len(a) + 1, Len(d)) = draft'
        /\ Len(a) \in 0..Len(d)
    BY <2>1, <2>2, PartsOfConcat
  <2> QED BY <2>1, <2>3 DEF User!Confirms, document, draft
<1>2. CASE Types
  <2>1. Append(draft, clock + 1) \in Seq(Nat)
    BY AppendProperties DEF StreamTypes
  <2>2. \E n \in 0..Len(Append(draft, clock + 1)) :
          User!Confirms(Append(draft, clock + 1), n)
    BY <1>1, <1>2, <2>1 DEF Types
  <2>3. clock' = clock + 1
    BY <1>2 DEF Types
  <2> QED BY <2>2, <2>3 DEF User!Next, User!Type, draft
<1>3. CASE Keeps
  <2>1. PICK n \in 0..Len(draft) : User!Confirms(draft, n)
    BY <1>1, <1>3 DEF Keeps, StreamTypes
  <2>2. clock' = clock
    BY <1>3 DEF Keeps
  <2>3. CASE n # 0
    <3>1. n \in 1..Len(draft)
      BY <2>3, LenProperties DEF StreamTypes
    <3> QED BY <2>1, <2>2, <3>1 DEF User!Next, User!Confirm, draft
  <2>4. CASE n = 0
    <3>1. document' = document \o SubSeq(draft, 1, 0) /\ draft' = SubSeq(draft, 1, Len(draft))
      BY <2>1, <2>4 DEF User!Confirms, document, draft
    <3>2. SubSeq(draft, 1, 0) = <<>> /\ SubSeq(draft, 1, Len(draft)) = draft
      BY SubSeqEmpty, SubSeqFull DEF StreamTypes
    <3>3. document' = document /\ draft' = draft
      BY <3>1, <3>2, ConcatEmptySeq DEF StreamTypes
    <3> QED BY <2>2, <3>3
  <2> QED BY <2>3, <2>4
<1>4. CASE Erases
  <2>1. PICK t \in Seq(Nat) : draft = draft' \o t /\ (Len(t) = 1 \/ draft' = <<>>)
    BY <1>4 DEF Erases
  <2>2. document' = document /\ clock' = clock
    BY <1>4 DEF Erases
  <2>3. CASE draft' = <<>>
    BY <2>2, <2>3 DEF User!Next, User!CancelAll, document, draft
  <2>4. CASE Len(t) = 1
    <3>1. /\ SubSeq(draft' \o t, 1, Len(draft')) = draft'
          /\ Len(draft' \o t) = Len(draft') + Len(t) /\ Len(draft') \in Nat
      BY <2>1, PartsOfConcat, ConcatProperties, LenProperties DEF StreamTypes
    <3>2. Len(draft) - 1 = Len(draft') /\ Len(draft) # 0
      BY <2>1, <2>4, <3>1
    <3>3. draft # <<>> /\ draft' = SubSeq(draft, 1, Len(draft) - 1)
      BY <2>1, <3>1, <3>2
    <3> QED BY <2>2, <3>3 DEF User!Next, User!EraseLast, document, draft
  <2> QED BY <2>1, <2>3, <2>4
<1> QED BY <1>2, <1>3, <1>4

----------------------------------------------------------------------------
\* The shape of the texts, whatever the host refuses.

\* Every token of a text was made by a key.
Keyed(t) == ToSet(Stamps(t)) \subseteq 1..MaxKeys

SourcesOK(q) == \A i \in DOMAIN q : q[i].source # <<>> /\ Keyed(q[i].source)

TInv == TextTypeOK /\ Keyed(session) /\ SourcesOK(queue)

LEMMA KeyedConcat ==
  ASSUME NEW a \in Text, NEW b \in Text
  PROVE  Keyed(a \o b) <=> Keyed(a) /\ Keyed(b)
<1>1. Stamps(a \o b) = Stamps(a) \o Stamps(b)
  BY StampsConcat
<1>2. Stamps(a) \in Seq(Nat) /\ Stamps(b) \in Seq(Nat)
  BY StampsShape
<1>3. ToSet(Stamps(a \o b)) = ToSet(Stamps(a)) \cup ToSet(Stamps(b))
  BY <1>1, <1>2, ToSetConcat
<1> QED BY <1>3 DEF Keyed

LEMMA KeyedEmpty == Keyed(<<>>)
<1>1. Stamps(<<>>) = <<>>
  BY EmptyText, StampsShape
<1>2. ToSet(<<>>) = {}
  BY DEF ToSet
<1> QED BY <1>1, <1>2 DEF Keyed

LEMMA KeyedTyped ==
  ASSUME TypeKey, clock \in 0..MaxKeys
  PROVE  Keyed(<<Typed>>) /\ Stamps(<<Typed>>) = <<clock + 1>>
<1>1. Typed \in Token /\ Typed.at = clock + 1 /\ clock + 1 \in 1..MaxKeys
  BY DEF TypeKey, Typed, Token
<1>2. Stamps(<<Typed>>) = <<clock + 1>>
  BY <1>1, StampsOne
<1>3. ToSet(<<clock + 1>>) = {clock + 1}
  BY DEF ToSet
<1> QED BY <1>1, <1>2, <1>3 DEF Keyed

\* The text of a queue was typed, too: answers stand for what they answer.
LEMMA KeyedQueue ==
  ASSUME NEW q, NEW n, NEW js, QueueOK(q, n, js), SourcesOK(q)
  PROVE  Concat(q) \in Text /\ Keyed(Concat(q)) /\ (Concat(q) = <<>> <=> q = <<>>)
<1> DEFINE K == 1..MaxKeys
           ss == StampLists(Sources(q))
<1>1. /\ q \in Seq(Req) /\ DOMAIN q = 1..Len(q) /\ Len(q) \in Nat
      /\ \A i \in 1..Len(q) : q[i].source \in Text
  BY QueueShape DEF QueueOK
<1>2. ss = [i \in 1..Len(q) |-> Stamps(q[i].source)]
  BY <1>1 DEF StampLists, Sources
<1>3. \A i \in 1..Len(q) : Stamps(q[i].source) \in Seq(K)
  <2> SUFFICES ASSUME NEW i \in 1..Len(q) PROVE Stamps(q[i].source) \in Seq(K)
    OBVIOUS
  <2> DEFINE s == Stamps(q[i].source)
  <2>1. s \in Seq(Nat) /\ ToSet(s) \subseteq K
    BY <1>1, StampsShape DEF SourcesOK, Keyed
  <2> HIDE DEF s, K
  <2>2. s \in Seq(Range(s)) /\ Range(s) = ToSet(s)
    BY <2>1, SeqOfRange DEF Range, ToSet
  <2>3. s \in Seq(K)
    BY <2>1, <2>2, SeqMonotonic
  <2> QED BY <2>3 DEF s
<1>4. \A i \in 1..Len(q) : Stamps(q[i].source) # <<>>
  BY <1>1, StampsShape DEF SourcesOK
<1> HIDE DEF K
<1>5. [i \in 1..Len(q) |-> Stamps(q[i].source)] \in Seq(Seq(K))
  BY <1>1, <1>3, IsASeq
<1> HIDE DEF ss
<1>6. ss \in Seq(Seq(K)) /\ \A i \in DOMAIN ss : ss[i] # <<>>
  BY <1>2, <1>4, <1>5
<1>7. FlattenSeq(ss) \in Seq(K)
  BY <1>6, FlattenType
<1>8. FlattenSeq(ss) = <<>> <=> ss = <<>>
  BY <1>6, FlattenNonempty
<1>9. ss = <<>> <=> q = <<>>
  <2>1. 1..Len(ss) = 1..Len(q) /\ Len(ss) \in Nat
    BY <1>2, <1>6, LenProperties
  <2>2. Len(ss) = Len(q)
    BY <1>1, <2>1
  <2>3. (Len(ss) = 0 <=> ss = <<>>) /\ (Len(q) = 0 <=> q = <<>>)
    BY <1>1, <1>6, EmptySeq
  <2> QED BY <2>2, <2>3
<1>10. Stamps(Concat(q)) = FlattenSeq(ss)
  BY ConcatStamps DEF ss
<1>11. Concat(q) \in Text
  BY <1>1, ConcatType
<1>12. Keyed(Concat(q))
  BY <1>7, <1>10, ToSetShape DEF Keyed, K
<1>13. Concat(q) = <<>> <=> FlattenSeq(ss) = <<>>
  BY <1>10, <1>11, StampsShape
<1> QED BY <1>8, <1>9, <1>11, <1>12, <1>13

\* The preedit shows what is queued and then what is being typed, and is empty
\* only with both.
LEMMA ViewShape ==
  ASSUME NEW q, NEW n, NEW js, QueueOK(q, n, js), SourcesOK(q),
         NEW s \in Text
  PROVE  /\ View(q, s) \in Text
         /\ View(q, s) = <<>> <=> q = <<>> /\ s = <<>>
         /\ Stamps(View(q, s)) = Stamps(Concat(q)) \o Stamps(s)
         /\ Keyed(s) => Keyed(View(q, s))
<1>1. Concat(q) \in Text /\ Keyed(Concat(q)) /\ (Concat(q) = <<>> <=> q = <<>>)
  BY KeyedQueue
<1> QED BY <1>1, TextConcat, StampsConcat, KeyedConcat DEF View

LEMMA EmptySourcesOK == SourcesOK(<<>>)
BY DEF SourcesOK

LEMMA AppendSourcesOK ==
  ASSUME NEW q \in Seq(Req), SourcesOK(q), NEW req \in Req,
         req.source # <<>>, Keyed(req.source)
  PROVE  SourcesOK(Append(q, req))
<1>1. /\ DOMAIN Append(q, req) = 1..(Len(q) + 1) /\ DOMAIN q = 1..Len(q) /\ Len(q) \in Nat
      /\ \A i \in 1..Len(q) : Append(q, req)[i] = q[i]
      /\ Append(q, req)[Len(q) + 1] = req
  BY AppendProperties, LenProperties
<1>2. \A i \in 1..(Len(q) + 1) : i \in 1..Len(q) \/ i = Len(q) + 1
  BY <1>1
<1> QED BY <1>1, <1>2 DEF SourcesOK

\* What the queue is cut into keeps its sources.
LEMMA CutSourcesOK ==
  ASSUME NEW q, NEW n, NEW js, QueueOK(q, n, js), SourcesOK(q)
  PROVE  SourcesOK(Unready(q)) /\ Ready(q) \in Seq(Req) /\ Unready(q) \in Seq(Req)
<1> DEFINE a == Ready(q)
           b == Unready(q)
<1>1. q \in Seq(Req) /\ DOMAIN q = 1..Len(q)
  BY QueueShape DEF QueueOK
<1>2. a \in Seq(Req) /\ b \in Seq(Req) /\ a \o b = q
  BY <1>1, ReadySplit
<1> HIDE DEF a, b
<1>3. /\ Len(q) = Len(a) + Len(b) /\ Len(a) \in Nat /\ Len(b) \in Nat
      /\ \A i \in 1..Len(q) : q[i] = IF i <= Len(a) THEN a[i] ELSE b[i - Len(a)]
      /\ DOMAIN b = 1..Len(b)
  BY <1>2, ConcatProperties, LenProperties
<1>4. \A i \in DOMAIN b : i + Len(a) \in DOMAIN q /\ b[i] = q[i + Len(a)]
  <2> SUFFICES ASSUME NEW i \in 1..Len(b)
               PROVE  i + Len(a) \in 1..Len(q) /\ b[i] = q[i + Len(a)]
    BY <1>1, <1>3
  <2>1. /\ i + Len(a) \in 1..Len(q) /\ ~(i + Len(a) <= Len(a))
        /\ (i + Len(a)) - Len(a) = i
    BY <1>3
  <2> QED BY <1>3, <2>1
<1>5. SourcesOK(b)
  BY <1>4 DEF SourcesOK
<1> QED BY <1>2, <1>5 DEF a, b

LEMMA MarkSourcesOK ==
  ASSUME NEW q, NEW n, NEW js, QueueOK(q, n, js), JobsOK(js, n), SourcesOK(q),
         NEW job \in js, NEW r,
         \/ r = MarkDone(q, job.id, Converted(job.source))
         \/ r = MarkFailed(q, job.id)
  PROVE  SourcesOK(r)
<1>1. Sources(r) = Sources(q)
  BY MarkStamps
<1>2. DOMAIN r = DOMAIN q /\ \A i \in DOMAIN q : r[i].source = q[i].source
  <2>1. DOMAIN r = DOMAIN q
    BY DEF MarkDone, MarkFailed
  <2> QED BY <1>1, <2>1 DEF Sources
<1> QED BY <1>2 DEF SourcesOK

\* The last of a sequence, and what the history keeps.
LEMMA LastOfShape ==
  ASSUME NEW S, NEW s \in Seq(S), NEW n \in Nat
  PROVE  LastOf(s, n) \in Seq(S) /\ Len(LastOf(s, n)) <= n
<1>1. Len(s) \in Nat /\ \A i \in 1..Len(s) : s[i] \in S
  BY LenProperties, ElementOfSeq
<1>2. CASE Len(s) > n
  <2> DEFINE m == Len(s) - n + 1
             t == SubSeq(s, m, Len(s))
  <2>1. m \in Int /\ Len(s) \in Int /\ \A i \in m..Len(s) : s[i] \in S
    BY <1>1, <1>2
  <2>2. t \in Seq(S) /\ Len(t) = IF m <= Len(s) THEN Len(s) - m + 1 ELSE 0
    <3> HIDE DEF m
    <3> QED BY <2>1, SubSeqProperties
  <2>3. (IF m <= Len(s) THEN Len(s) - m + 1 ELSE 0) <= n
    BY <1>1, <1>2
  <2>4. LastOf(s, n) = t
    BY <1>2 DEF LastOf
  <2> QED BY <2>2, <2>3, <2>4
<1>3. CASE ~(Len(s) > n)
  BY <1>1, <1>3 DEF LastOf
<1> QED BY <1>2, <1>3

LEMMA PushShape ==
  ASSUME NEW h \in Seq(Text), Len(h) <= HistoryEntries, NEW t \in Text
  PROVE  Push(h, t) \in Seq(Text) /\ Len(Push(h, t)) <= HistoryEntries
<1>1. Append(h, t) \in Seq(Text) /\ HistoryEntries \in Nat
  BY AppendProperties, HistoryAssumption
<1>2. /\ LastOf(Append(h, t), HistoryEntries) \in Seq(Text)
      /\ Len(LastOf(Append(h, t), HistoryEntries)) <= HistoryEntries
  BY <1>1, LastOfShape
<1> QED BY <1>2 DEF Push

LEMMA HistoryTailShape ==
  ASSUME NEW h \in Seq(Text) PROVE HistoryTail(h) \in Text
<1> DEFINE ss == [i \in DOMAIN h |-> IF i = 1 THEN h[i] ELSE <<Space>> \o h[i]]
<1>1. Len(h) \in Nat /\ DOMAIN h = 1..Len(h) /\ \A i \in 1..Len(h) : h[i] \in Text
  BY LenProperties, ElementOfSeq
<1>2. <<Space>> \in Text
  <2>1. Space \in Token
    BY DEF Space, Token
  <2> QED BY <2>1 DEF Text
<1>3. \A i \in 1..Len(h) : (IF i = 1 THEN h[i] ELSE <<Space>> \o h[i]) \in Text
  BY <1>1, <1>2, TextConcat
<1>4. ss = [i \in 1..Len(h) |-> IF i = 1 THEN h[i] ELSE <<Space>> \o h[i]]
  BY <1>1
<1>5. [i \in 1..Len(h) |-> IF i = 1 THEN h[i] ELSE <<Space>> \o h[i]] \in Seq(Text)
  BY <1>1, <1>3, IsASeq
<1> HIDE DEF ss
<1>6. FlattenSeq(ss) \in Text
  BY <1>4, <1>5, FlattenType DEF Text
<1>7. LastOf(FlattenSeq(ss), HistoryChars) \in Text
  BY <1>6, LastOfShape, HistoryAssumption DEF Text
<1> QED BY <1>7 DEF HistoryTail, ss

LEMMA FrontLast ==
  ASSUME NEW t \in Text, t # <<>>
  PROVE  /\ Front(t) \in Text /\ Last(t) \in Token /\ t = Front(t) \o <<Last(t)>>
         /\ <<Last(t)>> \in Text /\ Stamps(<<Last(t)>>) = <<Last(t).at>>
<1>1. Len(t) \in Nat \ {0} /\ \A i \in 1..Len(t) : t[i] \in Token
  BY EmptySeq, ElementOfSeq DEF Text
<1>2. PICK f \in Text, x \in Token : t = Append(f, x)
  BY SequenceEmptyOrAppend DEF Text
<1>3. /\ Len(t) = Len(f) + 1 /\ t[Len(f) + 1] = x /\ t = f \o <<x>> /\ Len(f) \in Nat
      /\ <<x>> \in Text
  BY <1>2, AppendProperties, AppendIsConcat, LenProperties DEF Text
<1>4. Last(t) = x
  BY <1>3 DEF Last
<1>5. Front(t) = f
  <2>1. Len(t) - 1 = Len(f)
    BY <1>3
  <2>2. Front(t) = SubSeq(t, 1, Len(f))
    BY <2>1 DEF Front
  <2>3. SubSeq(f \o <<x>>, 1, Len(f)) = f
    <3>1. CASE f = <<>>
      <4>1. Len(f) < 1 /\ 1 \in Int /\ Len(f) \in Int
        BY <3>1
      <4> QED BY <3>1, <4>1, SubSeqEmpty
    <3>2. CASE f # <<>>
      <4> DEFINE w == <<x>>
      <4>1. /\ f \in Seq(Token) /\ w \in Seq(Token)
            /\ 1 \in 1..Len(f) /\ Len(f) \in 1..Len(f)
        BY <1>3, <3>2, EmptySeq DEF Text
      <4> HIDE DEF w
      <4>2. SubSeq(f \o w, 1, Len(f)) = SubSeq(f, 1, Len(f))
        BY <4>1, SubSeqOfConcat1
      <4>3. SubSeq(f, 1, Len(f)) = f
        BY <4>1, SubSeqFull
      <4> QED BY <4>2, <4>3 DEF w
    <3> QED BY <3>1, <3>2
  <2> QED BY <1>3, <2>2, <2>3
<1> QED BY <1>2, <1>3, <1>4, <1>5, StampsOne

----------------------------------------------------------------------------
\* The shape of the texts, call by call.

\* Whatever a session writes, or fails to write, is text.
LEMMA CutShape ==
  ASSUME NEW t \in Text, NEW n \in 0..Len(t)
  PROVE  SubSeq(t, 1, n) \in Text /\ SubSeq(t, n + 1, Len(t)) \in Text
<1>1. Len(t) \in Nat /\ n \in Nat /\ n <= Len(t) /\ \A i \in 1..Len(t) : t[i] \in Token
  BY LenProperties, ElementOfSeq DEF Text
<1>2. SubSeq(t, 1, n) \in Seq(Token) /\ Len(SubSeq(t, 1, n)) = n
      /\ \A i \in 1..n : SubSeq(t, 1, n)[i] = t[i]
  BY <1>1, SubSeqProperties
<1>3. SubSeq(t, n + 1, Len(t)) \in Seq(Token) /\ Len(SubSeq(t, n + 1, Len(t))) = Len(t) - n
      /\ \A i \in 1..(Len(t) - n) : SubSeq(t, n + 1, Len(t))[i] = t[n + i]
  BY <1>1, SubSeqProperties
<1> QED BY <1>2, <1>3 DEF Text

LEMMA CommitTextTexts ==
  ASSUME left \in Text, shown \in Text, NEW text \in Text, CommitText(text)
  PROVE  left' \in Text /\ shown' \in Text
<1>1. left \o text \in Text /\ left \o shown \in Text
  BY TextConcat
<1> QED BY <1>1, EmptyText DEF CommitText

LEMMA ClearTextTexts ==
  ASSUME left \in Text, shown \in Text, ClearText
  PROVE  left' \in Text /\ shown' \in Text
<1>1. left \o shown \in Text
  BY TextConcat
<1> QED BY <1>1, EmptyText DEF ClearText

LEMMA ShrinkTexts ==
  ASSUME left \in Text, shown \in Text, NEW committed \in Text, NEW remaining \in Text,
         Shrink(committed, remaining)
  PROVE  left' \in Text /\ shown' \in Text
<1>1. CASE left' = left \o committed /\ shown' = remaining
  BY <1>1, TextConcat
<1>2. CASE \E n \in 0..Len(shown) : /\ left' = left \o SubSeq(shown, 1, n)
                                   /\ shown' = SubSeq(shown, n + 1, Len(shown))
  <2>1. PICK n \in 0..Len(shown) : /\ left' = left \o SubSeq(shown, 1, n)
                                   /\ shown' = SubSeq(shown, n + 1, Len(shown))
    BY <1>2
  <2>2. SubSeq(shown, 1, n) \in Text /\ SubSeq(shown, n + 1, Len(shown)) \in Text
    BY CutShape
  <2> QED BY <2>1, <2>2, TextConcat
<1> QED BY <1>1, <1>2 DEF Shrink

\* CommitReadyInOrder moves texts about and makes none.
LEMMA CommitTexts ==
  ASSUME NEW q, NEW n, NEW js, QueueOK(q, n, js), SourcesOK(q),
         NEW s \in Text, Keyed(s), TextTypeOK, CommitReadyInOrder(q, s)
  PROVE  /\ SourcesOK(queue') /\ Keyed(session')
         /\ history' \in Seq(Text) /\ Len(history') <= HistoryEntries
         /\ left' \in Text /\ shown' \in Text
<1> DEFINE committed == Concat(Ready(q))
           remaining == View(Unready(q), s)
<1>1. /\ SourcesOK(Unready(q)) /\ Ready(q) \in Seq(Req)
      /\ QueueOK(Unready(q), n, js)
  BY CutSourcesOK, UnreadyQueueOK
<1>2. committed \in Text
  BY <1>1, ConcatType
<1>3. remaining \in Text /\ View(q, s) \in Text
  BY <1>1, ViewShape
<1>4. /\ history \in Seq(Text) /\ Len(history) <= HistoryEntries
      /\ left \in Text /\ shown \in Text
  BY DEF TextTypeOK
<1>5. \/ history' = history
      \/ history' = Push(history, committed)
      \/ history' = Push(history, committed \o remaining)
  BY DEF CommitReadyInOrder
<1>6. \/ UpdateText(q, s) \/ UNCHANGED <<left, shown>>
      \/ CommitText(committed) \/ CommitText(committed \o remaining)
      \/ Shrink(committed, remaining)
  BY DEF CommitReadyInOrder
<1>8. queue' = q \/ queue' = <<>> \/ queue' = Unready(q)
  BY CommitEffect
<1>9. session' = s \/ session' = <<>>
  BY CommitEffect
<1> HIDE DEF committed, remaining
<1>10. committed \o remaining \in Text
  BY <1>2, <1>3, TextConcat
<1>11. SourcesOK(queue')
  BY <1>1, <1>8, EmptySourcesOK
<1>12. Keyed(session')
  BY <1>9, KeyedEmpty
<1>13. history' \in Seq(Text) /\ Len(history') <= HistoryEntries
  BY <1>2, <1>4, <1>5, <1>10, PushShape
<1>14. left' \in Text /\ shown' \in Text
  <2>1. UpdateText(q, s) => left' = left /\ (shown' = View(q, s) \/ shown' = shown)
    BY DEF UpdateText
  <2> QED BY <1>2, <1>3, <1>4, <1>6, <1>10, <2>1, CommitTextTexts, ShrinkTexts
<1> QED BY <1>11, <1>12, <1>13, <1>14

LEMMA InitTexts == Init => TInv
<1> SUFFICES ASSUME Init PROVE TInv
  OBVIOUS
<1>1. TextTypeOK
  <2>1. <<>> \in Seq(Text) /\ Len(<<>>) = 0 /\ 0 <= HistoryEntries
    BY EmptySeq, HistoryAssumption
  <2> QED BY <2>1, EmptyText DEF Init, TextTypeOK
<1> QED BY <1>1, KeyedEmpty, EmptySourcesOK DEF Init, TInv

LEMMA AppendKeyTexts == IInv /\ TInv /\ AppendKey => TInv'
<1> SUFFICES ASSUME IInv, TInv, AppendKey PROVE TInv'
  OBVIOUS
<1>1. /\ session \in Text /\ Keyed(session) /\ clock \in 0..MaxKeys /\ TypeKey
      /\ QueueOK(queue, nextId, jobs) /\ SourcesOK(queue) /\ TextTypeOK
  BY DEF IInv, Scalars, TInv, AppendKey
<1>2. /\ Typed \in Token /\ <<Typed>> \in Text /\ Keyed(<<Typed>>)
  BY <1>1, TypedText, KeyedTyped
<1>3. session' = session \o <<Typed>>
  BY <1>1, <1>2, AppendIsConcat DEF AppendKey, Text
<1>4. session' \in Text /\ Keyed(session')
  BY <1>1, <1>2, <1>3, TextConcat, KeyedConcat
<1>5. View(queue, session') \in Text
  BY <1>1, <1>4, ViewShape
<1>6. /\ UNCHANGED <<queue, history, jobs, flushes, erased, left>>
      /\ shown' = shown \/ shown' = View(queue, session')
  BY DEF AppendKey, UpdateText, work, host
<1>7. TextTypeOK'
  BY <1>1, <1>5, <1>6 DEF TextTypeOK
<1> QED BY <1>1, <1>4, <1>6, <1>7 DEF TInv

\* Taking back the last token of the segment.
LEMMA BackspaceShape ==
  ASSUME IInv, TInv, BackspaceKey
  PROVE  /\ session' \in Text /\ Keyed(session')
         /\ Last(session).at \in 1..MaxKeys
         /\ Stamps(session) = Stamps(session') \o <<Last(session).at>>
         /\ erased' = erased \cup ToSet(<<Last(session).at>>)
<1>1. /\ session \in Text /\ Keyed(session) /\ session # <<>> /\ session' = Front(session)
      /\ erased' = erased \cup {Last(session).at}
  BY DEF IInv, Scalars, TInv, BackspaceKey
<1>2. /\ session' \in Text /\ session = session' \o <<Last(session)>>
      /\ <<Last(session)>> \in Text /\ Stamps(<<Last(session)>>) = <<Last(session).at>>
  BY <1>1, FrontLast
<1>3. Keyed(session') /\ Keyed(<<Last(session)>>)
  BY <1>1, <1>2, KeyedConcat
<1>4. ToSet(<<Last(session).at>>) = {Last(session).at}
  BY DEF ToSet
<1>5. Last(session).at \in 1..MaxKeys
  BY <1>2, <1>3, <1>4 DEF Keyed
<1>6. Stamps(session) = Stamps(session') \o <<Last(session).at>>
  BY <1>2, StampsConcat
<1> QED BY <1>1, <1>2, <1>3, <1>4, <1>5, <1>6

LEMMA BackspaceKeyTexts == IInv /\ TInv /\ BackspaceKey => TInv'
<1> SUFFICES ASSUME IInv, TInv, BackspaceKey PROVE TInv'
  OBVIOUS
<1>1. /\ session' \in Text /\ Keyed(session') /\ Last(session).at \in 1..MaxKeys
  BY BackspaceShape
<1>2. erased' = erased \cup {Last(session).at}
  BY DEF BackspaceKey
<1>3. QueueOK(queue, nextId, jobs) /\ SourcesOK(queue) /\ TextTypeOK
  BY DEF IInv, TInv
<1>4. View(queue, session') \in Text
  BY <1>1, <1>3, ViewShape
<1>5. UNCHANGED <<queue, history, jobs, flushes>>
  BY DEF BackspaceKey, work
<1>7. left' \in Text /\ shown' \in Text
  <2>1. \/ ClearText
        \/ left' = left /\ (shown' = shown \/ shown' = View(queue, session'))
    BY DEF BackspaceKey, UpdateText, host
  <2> QED BY <1>3, <1>4, <2>1, ClearTextTexts DEF TextTypeOK
<1>6. TextTypeOK'
  BY <1>1, <1>2, <1>3, <1>5, <1>7 DEF TextTypeOK
<1> QED BY <1>1, <1>3, <1>5, <1>6 DEF TInv

LEMMA TriggerShape ==
  ASSUME IInv, TInv, TriggerKey
  PROVE  /\ session \in Text /\ session # <<>> /\ Keyed(session)
         /\ NewRequest(nextId, session) \in Req
         /\ queue' = Append(queue, NewRequest(nextId, session)) /\ session' = <<>>
         /\ queue \in Seq(Req)
         /\ SourcesOK(queue') /\ nextId \in Ids
<1>1. /\ session \in Text /\ session # <<>> /\ Keyed(session) /\ SourcesOK(queue)
      /\ queue \in Seq(Req) /\ session' = <<>>
      /\ queue' = Append(queue, NewRequest(nextId, session))
  BY DEF TriggerKey, TryEnqueue, IInv, Scalars, TInv, QueueOK
<1>2. nextId \in Ids
  <2>1. /\ Len(session) \in Nat /\ Len(session) >= 1 /\ clock \in 0..MaxKeys
        /\ nextId \in 1..(MaxKeys + 1) /\ nextId + Len(session) <= clock + 1
    BY <1>1, SessionShape DEF IInv, Scalars, KeysPayForIds
  <2> QED BY <2>1 DEF Ids
<1>3. /\ NewRequest(nextId, session) \in Req
      /\ NewRequest(nextId, session).source = session
  BY <1>1, <1>2 DEF NewRequest, Req, ConversionRequest, ConvState
<1>4. SourcesOK(queue')
  BY <1>1, <1>3, AppendSourcesOK
<1> QED BY <1>1, <1>2, <1>3, <1>4

LEMMA TriggerKeyTexts == IInv /\ IInv' /\ TInv /\ TriggerKey => TInv'
<1> SUFFICES ASSUME IInv, IInv', TInv, TriggerKey PROVE TInv'
  OBVIOUS
<1> DEFINE job == [id |-> nextId, source |-> session, context |-> HistoryTail(history)]
<1>1. session \in Text /\ SourcesOK(queue') /\ nextId \in Ids /\ session' = <<>>
  BY TriggerShape
<1>2. TextTypeOK /\ QueueOK(queue', nextId', jobs')
  BY DEF TInv, IInv
<1>3. HistoryTail(history) \in Text
  BY <1>2, HistoryTailShape DEF TextTypeOK
<1>4. job \in Job
  BY <1>1, <1>3 DEF Job
<1>5. jobs' = jobs \/ jobs' = jobs \cup {job}
  BY DEF TriggerKey, Dispatch
<1>6. View(queue', session') \in Text
  BY <1>1, <1>2, EmptyText, ViewShape
<1>7. /\ UNCHANGED <<history, flushes, left, erased>>
      /\ shown' = shown \/ shown' = View(queue', session')
  BY DEF TriggerKey, UpdateText, user
<1> HIDE DEF job
<1>8. TextTypeOK'
  BY <1>2, <1>4, <1>5, <1>6, <1>7 DEF TextTypeOK
<1> QED BY <1>1, <1>8, KeyedEmpty DEF TInv

\* A literal joins the queue with text that was typed.
LEMMA LiteralShape ==
  ASSUME NEW q \in Seq(Req), SourcesOK(q), NEW n \in Ids, NEW t \in Text, t # <<>>, Keyed(t)
  PROVE  /\ SourcesOK(PushCommitted(q, n, t))
         /\ Concat(PushCommitted(q, n, t)) = Concat(q) \o t
         /\ PushCommitted(q, n, t) # <<>>
<1> DEFINE req == [id |-> n, source |-> t, state |-> "Done", result |-> t]
<1>1. req \in Req /\ req.source = t /\ TextOf(req) = t
  BY DEF Req, ConversionRequest, ConvState, TextOf
<1>2. PushCommitted(q, n, t) = Append(q, req)
  BY DEF PushCommitted
<1> HIDE DEF req
<1>3. SourcesOK(Append(q, req))
  BY <1>1, AppendSourcesOK
<1>4. Concat(Append(q, req)) = Concat(q) \o t
  BY <1>1, ConcatAppend
<1>5. Append(q, req) # <<>>
  BY <1>1, AppendProperties
<1> QED BY <1>2, <1>3, <1>4, <1>5

LEMMA EnterTexts ==
  ASSUME IInv, TInv, EnterKey
  PROVE  /\ SourcesOK(EnterQueue) /\ EnterQueue # <<>>
         /\ Concat(EnterQueue) = View(queue, session) \o <<Typed>>
<1>1. /\ TypeKey /\ clock \in 0..MaxKeys /\ session \in Text /\ Keyed(session)
      /\ nextId \in Ids /\ NewlineId \in Ids /\ SourcesOK(queue)
      /\ queue \in Seq(Req) /\ TypedQueue \in Seq(Req)
  BY EnterShape DEF IInv, Scalars, TInv, QueueOK
<1>2. <<Typed>> \in Text /\ <<Typed>> # <<>> /\ Keyed(<<Typed>>)
  BY <1>1, TypedText, KeyedTyped
<1>3. SourcesOK(TypedQueue) /\ Concat(TypedQueue) = View(queue, session)
  <2>1. CASE session = <<>>
    <3>1. Concat(queue) \o <<>> = Concat(queue)
      BY <1>1, ConcatType, ConcatEmptySeq DEF Text
    <3> QED BY <1>1, <2>1, <3>1 DEF TypedQueue, View
  <2>2. CASE session # <<>>
    BY <1>1, <2>2, LiteralShape DEF TypedQueue, View
  <2> QED BY <2>1, <2>2
<1> QED BY <1>1, <1>2, <1>3, LiteralShape DEF EnterQueue

LEMMA EnterKeyTexts == IInv /\ TInv /\ EnterKey => TInv'
<1> SUFFICES ASSUME IInv, TInv, EnterKey PROVE TInv'
  OBVIOUS
<1>1. /\ QueueOK(EnterQueue, NewlineId + 1, jobs) /\ SourcesOK(EnterQueue)
      /\ TextTypeOK
  BY EnterShape, EnterTexts DEF TInv
<1>2. UNCHANGED <<jobs, flushes, erased>>
  BY DEF EnterKey
<1>3. CASE CommitReadyInOrder(EnterQueue, <<>>)
  <2>1. /\ SourcesOK(queue') /\ Keyed(session')
        /\ history' \in Seq(Text) /\ Len(history') <= HistoryEntries
        /\ left' \in Text /\ shown' \in Text
    BY <1>1, <1>3, EmptyText, KeyedEmpty, CommitTexts
  <2>2. TextTypeOK'
    BY <1>1, <1>2, <2>1 DEF TextTypeOK
  <2> QED BY <2>1, <2>2 DEF TInv
<1>4. CASE queue' = EnterQueue /\ session' = <<>> /\ UNCHANGED <<history, host>>
  <2>1. TextTypeOK'
    BY <1>1, <1>2, <1>4 DEF TextTypeOK, host
  <2> QED BY <1>1, <1>4, <2>1, KeyedEmpty DEF TInv
<1> QED BY <1>3, <1>4, EnterShape

\* The draft in a state with no flush under way.
LEMMA ViewNow ==
  ASSUME IInv, TInv
  PROVE  /\ View(queue, session) \in Text /\ Keyed(View(queue, session))
         /\ View(queue, session) = <<>> <=> AllEmpty
         /\ Stamps(View(queue, session)) = Stamps(Concat(queue)) \o Stamps(session)
         /\ Concat(queue) \in Text /\ session \in Text /\ Keyed(session)
         /\ QueueOK(queue, nextId, jobs) /\ SourcesOK(queue) /\ queue \in Seq(Req)
         /\ left \in Text /\ shown \in Text
BY ViewShape, KeyedQueue DEF IInv, Scalars, TInv, AllEmpty, QueueOK, TextTypeOK

LEMMA EscapeKeyTexts == IInv /\ TInv /\ EscapeKey => TInv'
<1> SUFFICES ASSUME IInv, TInv, EscapeKey PROVE TInv'
  OBVIOUS
<1>1. /\ queue' = <<>> /\ session' = <<>>
      /\ erased' = erased \cup ToSet(Stamps(View(queue, session)))
      /\ UNCHANGED <<history, jobs, flushes>>
      /\ ClearText \/ UNCHANGED <<left, shown>>
  BY DEF EscapeKey, work, host
<1>2. ToSet(Stamps(View(queue, session))) \subseteq 1..MaxKeys
  BY ViewNow DEF Keyed
<1>4. left' \in Text /\ shown' \in Text
  BY <1>1, ClearTextTexts DEF TInv, TextTypeOK
<1>3. TextTypeOK'
  BY <1>1, <1>2, <1>4 DEF TInv, TextTypeOK
<1> QED BY <1>1, <1>3, KeyedEmpty, EmptySourcesOK DEF TInv

LEMMA AppInsertsTexts == IInv /\ TInv /\ AppInserts => TInv'
<1> SUFFICES ASSUME IInv, TInv, AppInserts PROVE TInv'
  OBVIOUS
<1>1. /\ TypeKey /\ left' = Append(left, Typed)
      /\ UNCHANGED <<queue, session, history, jobs, flushes, erased, shown>>
  BY DEF AppInserts, model, work
<1>2. Typed \in Token
  BY <1>1, TypedText DEF IInv, Scalars
<1>3. left' \in Text
  BY <1>1, <1>2, AppendProperties DEF TInv, TextTypeOK, Text
<1>4. TextTypeOK'
  BY <1>1, <1>3 DEF TInv, TextTypeOK
<1> QED BY <1>1, <1>4 DEF TInv

LEMMA PassThroughKeyTexts == IInv /\ TInv /\ PassThroughKey => TInv'
BY AppInsertsTexts DEF PassThroughKey

\* A flush's session commits its text or, without a composition, does not.
LEMMA FlushTexts ==
  ASSUME TextTypeOK, NEW text \in Text, FlushSession(text)
  PROVE  /\ history' \in Seq(Text) /\ Len(history') <= HistoryEntries
         /\ left' \in Text /\ shown' \in Text
<1>1. /\ history' = Push(history, text)
      /\ CommitText(text) \/ UNCHANGED <<left, shown>>
  BY DEF FlushSession, host
<1>2. /\ history \in Seq(Text) /\ Len(history) <= HistoryEntries
      /\ left \in Text /\ shown \in Text
  BY DEF TextTypeOK
<1>3. left' \in Text /\ shown' \in Text
  BY <1>1, <1>2, CommitTextTexts
<1> QED BY <1>1, <1>2, <1>3, PushShape

LEMMA ModeKeyTexts == IInv /\ TInv /\ ModeKey => TInv'
<1> SUFFICES ASSUME IInv, TInv, ModeKey PROVE TInv'
  OBVIOUS
<1> DEFINE text == View(queue, session)
<1>1. UNCHANGED <<jobs, flushes, erased>> /\ TextTypeOK /\ text \in Text
  BY ViewNow DEF ModeKey, work, user, TInv
<1>2. CASE AllEmpty
  <2>1. UNCHANGED <<queue, session, history, left, shown>>
    BY <1>2 DEF ModeKey, model, host
  <2>2. TextTypeOK'
    BY <1>1, <2>1 DEF TextTypeOK
  <2> QED BY <2>1, <2>2 DEF TInv
<1>3. CASE ~AllEmpty
  <2>1. /\ queue' = <<>> /\ session' = <<>>
        /\ FlushSession(text) \/ UNCHANGED <<history, left, shown>>
    BY <1>3 DEF ModeKey, FlushAsRaw, host
  <2> HIDE DEF text
  <2>2. /\ history' \in Seq(Text) /\ Len(history') <= HistoryEntries
        /\ left' \in Text /\ shown' \in Text
    BY <1>1, <2>1, FlushTexts DEF TextTypeOK
  <2>3. TextTypeOK'
    BY <1>1, <2>2 DEF TextTypeOK
  <2> QED BY <2>1, <2>3, KeyedEmpty, EmptySourcesOK DEF TInv
<1> QED BY <1>2, <1>3

LEMMA AppSetsOpenTexts ==
  ASSUME IInv, TInv, NEW o \in BOOLEAN, AppSetsOpen(o) PROVE TInv'
<1> DEFINE text == View(queue, session)
<1>1. /\ UNCHANGED <<history, left, shown, jobs, erased>>
      /\ TextTypeOK /\ text \in Text /\ SourcesOK(queue) /\ Keyed(session)
  BY ViewNow DEF AppSetsOpen, host, work, user, TInv
<1>2. /\ flushes' = flushes \/ flushes' = Append(flushes, text)
      /\ queue' = queue \/ queue' = <<>>
      /\ session' = session \/ session' = <<>>
  BY DEF AppSetsOpen, model
<1> HIDE DEF text
<1>3. flushes' \in Seq(Text)
  BY <1>1, <1>2, AppendProperties DEF TextTypeOK
<1>4. TextTypeOK'
  BY <1>1, <1>3 DEF TextTypeOK
<1> QED BY <1>1, <1>2, <1>4, KeyedEmpty, EmptySourcesOK DEF TInv

LEMMA RunFlushTexts == IInv /\ TInv /\ RunFlush => TInv'
<1> SUFFICES ASSUME IInv, TInv, RunFlush PROVE TInv'
  OBVIOUS
<1>1. /\ flushes # <<>> /\ FlushSession(Head(flushes)) /\ flushes' = Tail(flushes)
      /\ UNCHANGED <<queue, session, jobs, erased>> /\ TextTypeOK
  BY DEF RunFlush, model, work, user, TInv
<1>2. Head(flushes) \in Text /\ Tail(flushes) \in Seq(Text)
  BY <1>1, HeadTailProperties DEF TextTypeOK
<1>3. /\ history' \in Seq(Text) /\ Len(history') <= HistoryEntries
      /\ left' \in Text /\ shown' \in Text
  BY <1>1, <1>2, FlushTexts
<1>4. TextTypeOK'
  BY <1>1, <1>2, <1>3 DEF TextTypeOK
<1> QED BY <1>1, <1>4 DEF TInv

\* The queue with an answer in it.
AnswerQueue(job, ok) == IF ok THEN MarkDone(queue, job.id, Converted(job.source))
                              ELSE MarkFailed(queue, job.id)

LEMMA AnswerShape ==
  ASSUME IInv, TInv, NEW job \in jobs, NEW ok \in BOOLEAN
  PROVE  /\ QueueOK(AnswerQueue(job, ok), nextId, jobs)
         /\ SourcesOK(AnswerQueue(job, ok))
         /\ Stamps(Concat(AnswerQueue(job, ok))) = Stamps(Concat(queue))
         /\ AnswerQueue(job, ok) = <<>> <=> queue = <<>>
<1>1. QueueOK(queue, nextId, jobs) /\ JobsOK(jobs, nextId) /\ SourcesOK(queue)
  BY DEF IInv, TInv
<1>2. \/ AnswerQueue(job, ok) = MarkDone(queue, job.id, Converted(job.source))
      \/ AnswerQueue(job, ok) = MarkFailed(queue, job.id)
  BY DEF AnswerQueue
<1> QED BY <1>1, <1>2, MarkQueueOK, MarkSourcesOK, MarkStamps

LEMMA AnswerTexts ==
  ASSUME IInv, TInv, NEW job \in jobs, NEW ok \in BOOLEAN, Answer(job, ok) PROVE TInv'
<1> DEFINE q == AnswerQueue(job, ok)
<1>1. /\ QueueOK(q, nextId, jobs) /\ SourcesOK(q) /\ SourcesOK(queue)
      /\ session \in Text /\ Keyed(session) /\ TextTypeOK
  BY AnswerShape, ViewNow DEF TInv
<1>2. jobs' \subseteq jobs /\ UNCHANGED <<flushes, erased>>
  BY DEF Answer, user
<1>3. \/ CommitReadyInOrder(q, session)
      \/ (queue' = queue \/ queue' = q) /\ UNCHANGED <<session, history, left, shown>>
  BY DEF Answer, AnswerQueue, model, host
<1> HIDE DEF q
<1>4. CASE CommitReadyInOrder(q, session)
  <2>1. /\ SourcesOK(queue') /\ Keyed(session')
        /\ history' \in Seq(Text) /\ Len(history') <= HistoryEntries
        /\ left' \in Text /\ shown' \in Text
    BY <1>1, <1>4, CommitTexts
  <2>2. TextTypeOK'
    BY <1>1, <1>2, <2>1 DEF TextTypeOK
  <2> QED BY <2>1, <2>2 DEF TInv
<1>5. CASE (queue' = queue \/ queue' = q) /\ UNCHANGED <<session, history, left, shown>>
  <2>1. TextTypeOK'
    BY <1>1, <1>2, <1>5 DEF TextTypeOK
  <2> QED BY <1>1, <1>5, <2>1 DEF TInv
<1> QED BY <1>3, <1>4, <1>5

\* An abandoned composition leaves its text to the document.
LEMMA AbandonTexts ==
  ASSUME TInv, Abandon, jobs' \subseteq jobs, UNCHANGED <<history, erased>>,
         flushes' = flushes \/ flushes' = <<>>
  PROVE  TInv'
<1>1. left' = left \o shown /\ shown' = <<>> /\ queue' = <<>> /\ session' = <<>>
  BY DEF Abandon
<1>2. left' \in Text
  BY <1>1, TextConcat DEF TInv, TextTypeOK
<1>4. flushes' \in Seq(Text)
  BY EmptySeq DEF TInv, TextTypeOK
<1>3. TextTypeOK'
  BY <1>1, <1>2, <1>4, EmptyText DEF TInv, TextTypeOK
<1> QED BY <1>1, <1>3, KeyedEmpty, EmptySourcesOK DEF TInv

\* Calls that touch no text.
LEMMA OtherTexts ==
  ASSUME TInv, UNCHANGED <<queue, session, history, left, shown, flushes, erased>>,
         jobs' \subseteq jobs
  PROVE  TInv'
BY DEF TInv, TextTypeOK

LEMMA StepTexts == IInv /\ IInv' /\ TInv /\ [Next]_vars => TInv'
<1> SUFFICES ASSUME IInv, IInv', TInv, [Next]_vars PROVE TInv'
  OBVIOUS
<1>1. CASE Keys
  BY <1>1, AppendKeyTexts, BackspaceKeyTexts, TriggerKeyTexts, EnterKeyTexts,
     EscapeKeyTexts, PassThroughKeyTexts, ModeKeyTexts DEF Keys
<1>2. CASE \E o \in BOOLEAN : AppSetsOpen(o)
  BY <1>2, AppSetsOpenTexts
<1>3. CASE RunFlush
  BY <1>3, RunFlushTexts
<1>4. CASE ConvertResult
  BY <1>4, AnswerTexts DEF ConvertResult
<1>5. CASE \E job \in jobs : LoseAnswer(job)
  BY <1>5, OtherTexts DEF LoseAnswer, model, host, user
<1>6. CASE CompositionTerminated \/ Deactivate
  BY <1>6, AbandonTexts DEF CompositionTerminated, Deactivate, work, user
<1>7. CASE ActivateEx
  BY <1>7, OtherTexts DEF ActivateEx, model, host, work, user
<1>8. CASE UNCHANGED vars
  BY <1>8, OtherTexts DEF vars, model, host, work, user
<1> QED BY <1>1, <1>2, <1>3, <1>4, <1>5, <1>6, <1>7, <1>8 DEF Next

\* The whole state keeps its shape, whatever the host does: what is confirmed,
\* shown, kept as context and sent to the converters is made of typed tokens.
THEOREM TypeCorrect == Spec => []TypeOK
<1>1. Init => IInv /\ TInv
  BY InitInv, InitTexts
<1>2. IInv /\ TInv /\ [Next]_vars => (IInv /\ TInv)'
  BY StepInv, StepTexts
<1>3. IInv /\ TInv => TypeOK
  BY DEF IInv, TInv, Scalars, QueueOK, JobsOK, Req, ControlTypeOK, TypeOK
<1> QED BY <1>1, <1>2, <1>3, PTL DEF Spec

----------------------------------------------------------------------------
\* The draft, and what it means to keep it: from here on the host grants what
\* the draft depends on.  It may still refuse a session for a result, shrink
\* no composition, lose answers, and refuse the key sink or any of the calls
\* about the compartment.
KindFaults == {"denyResult", "noShrink", "lost", "noCompartment", "noSetValue", "noAdvise",
               "noGetValue", "noSink"}

DraftInv ==
  /\ flushes = <<>> \/ (AllEmpty /\ active /\ Len(flushes) = 1 /\ flushes[1] # <<>>)
  /\ composition <=> Draft # <<>>
  /\ context <=> ~AllEmpty
  /\ Stamps(shown) = draft
  /\ "denyResult" \notin Faults => shown = Draft
  /\ ~active => AllEmpty
  /\ DirectModeIsClean

\* The same with no flush under way, when the draft is what the preedit shows.
Calm ==
  /\ flushes = <<>>
  /\ composition <=> ~AllEmpty
  /\ context <=> ~AllEmpty
  /\ Stamps(shown) = Stamps(View(queue, session))
  /\ "denyResult" \notin Faults => shown = View(queue, session)
  /\ ~active => AllEmpty
  /\ DirectModeIsClean

LEMMA KindHost ==
  ASSUME Faults \subseteq KindFaults
  PROVE  /\ Granted("denyKey") = {TRUE} /\ Granted("denyFlush") = {TRUE}
         /\ Started = {TRUE} /\ ~Unwritten
         /\ Quiet <=> flushes = <<>>
BY DEF KindFaults, Granted, Started, Quiet, Unwritten

LEMMA DraftShape == IInv /\ TInv => /\ Draft \in Text /\ StreamTypes
                                    /\ flushes = <<>> => Draft = View(queue, session)
<1> SUFFICES ASSUME IInv, TInv
             PROVE  /\ Draft \in Text /\ StreamTypes
                    /\ flushes = <<>> => Draft = View(queue, session)
  OBVIOUS
<1>1. View(queue, session) \in Text /\ left \in Text
  BY ViewNow
<1>2. FlattenSeq(flushes) \in Text
  BY FlattenType DEF TInv, TextTypeOK, Text
<1>3. Draft \in Text
  BY <1>1, <1>2, TextConcat DEF Draft
<1>4. StreamTypes
  BY <1>1, <1>3, StampsShape DEF StreamTypes, document, draft, IInv, Scalars
<1>5. ASSUME flushes = <<>> PROVE Draft = View(queue, session)
  BY <1>1, <1>5, FlattenEmpty, ConcatEmptySeq DEF Draft, Text
<1> QED BY <1>3, <1>4, <1>5

LEMMA CalmDraft == IInv /\ TInv /\ Calm => DraftInv /\ draft = Stamps(View(queue, session))
<1> SUFFICES ASSUME IInv, TInv, Calm
             PROVE  DraftInv /\ draft = Stamps(View(queue, session))
  OBVIOUS
<1>1. Draft = View(queue, session)
  BY DraftShape DEF Calm
<1>2. View(queue, session) = <<>> <=> AllEmpty
  BY ViewNow
<1> QED BY <1>1, <1>2 DEF Calm, DraftInv, draft

LEMMA DraftCalm ==
  IInv /\ TInv /\ DraftInv /\ flushes = <<>> => Calm /\ draft = Stamps(View(queue, session))
<1> SUFFICES ASSUME IInv, TInv, DraftInv, flushes = <<>>
             PROVE  Calm /\ draft = Stamps(View(queue, session))
  OBVIOUS
<1>1. Draft = View(queue, session)
  BY DraftShape
<1>2. View(queue, session) = <<>> <=> AllEmpty
  BY ViewNow
<1> QED BY <1>1, <1>2 DEF Calm, DraftInv, draft

\* All of it holds of the next state as of this one.
LEMMA NextShape == (IInv /\ TInv)' => StreamTypes'
BY DraftShape, PTL

LEMMA NextCalm == (IInv /\ TInv)' /\ Calm' => DraftInv' /\ (draft = Stamps(View(queue, session)))'
BY CalmDraft, PTL

Kept == IInv /\ TInv /\ (IInv /\ TInv)' /\ DraftInv
Moves == Types \/ Keeps \/ Erases

\* Nothing is confirmed, or everything is.
LEMMA ConfirmsNothing ==
  ASSUME NEW d \in Seq(Nat), document \in Seq(Nat), document' = document, draft' = d
  PROVE  Confirms(d)
<1>1. <<>> \in Seq(Nat) /\ document' = document \o <<>> /\ d = <<>> \o draft'
  BY EmptySeq, ConcatEmptySeq
<1> QED BY <1>1 DEF Confirms

LEMMA ConfirmsAll ==
  ASSUME NEW d \in Seq(Nat), document' = document \o d, draft' = <<>>
  PROVE  Confirms(d)
<1>1. d = d \o draft'
  BY ConcatEmptySeq
<1> QED BY <1>1 DEF Confirms

\* What CommitReadyInOrder does to the draft: some of its front is confirmed,
\* the rest stays and is what the composition shows.
LEMMA CommitDraft ==
  ASSUME NEW q, NEW n, NEW js, QueueOK(q, n, js), SourcesOK(q), NEW s \in Text,
         q # <<>>, left \in Text, ~Unwritten, CommitReadyInOrder(q, s)
  PROVE  /\ \E a \in Text : left' = left \o a /\ View(q, s) = a \o View(queue', session')
         /\ shown' = View(queue', session')
         /\ composition' <=> ~(queue' = <<>> /\ session' = <<>>)
<1> DEFINE committed == Concat(Ready(q))
           remaining == View(Unready(q), s)
<1>1. /\ q \in Seq(Req) /\ Ready(q) \in Seq(Req) /\ Unready(q) \in Seq(Req)
      /\ Ready(q) \o Unready(q) = q
  <2>1. q \in Seq(Req)
    BY DEF QueueOK
  <2> QED BY <2>1, ReadySplit
<1>2. QueueOK(Unready(q), n, js) /\ SourcesOK(Unready(q))
  BY CutSourcesOK, UnreadyQueueOK
<1>3. committed \in Text /\ Concat(Unready(q)) \in Text
  BY <1>1, ConcatType
<1>4. View(q, s) = committed \o remaining
  <2>1. Concat(q) = committed \o Concat(Unready(q))
    BY <1>1, ConcatConcat
  <2>2. (committed \o Concat(Unready(q))) \o s = committed \o (Concat(Unready(q)) \o s)
    BY <1>3, TokenAssoc DEF Text
  <2> QED BY <2>1, <2>2 DEF View
<1>5. remaining \in Text /\ (remaining = <<>> <=> Unready(q) = <<>> /\ s = <<>>)
  BY <1>2, ViewShape
<1>6. View(<<>>, <<>>) = <<>>
  BY ConcatEmpty, EmptyText, ConcatEmptySeq DEF View, Text
<1>7. /\ left \o <<>> = left /\ <<>> \o View(q, s) = View(q, s)
      /\ committed \o <<>> = committed
      /\ (committed \o remaining) \o <<>> = committed \o remaining
  <2>1. View(q, s) \in Text /\ committed \o remaining \in Text
    BY ViewShape, <1>3, <1>5, TextConcat
  <2> HIDE DEF committed, remaining
  <2> QED BY <1>3, <2>1, ConcatEmptySeq DEF Text
<1>8. CASE /\ committed = <<>> /\ queue' = q /\ session' = s /\ composition' = TRUE
           /\ left' = left /\ shown' = View(q, s)
  BY <1>7, <1>8, EmptyText
<1>9. CASE /\ Unready(q) = <<>> /\ s = <<>> /\ queue' = <<>> /\ session' = s
           /\ left' = left \o committed /\ shown' = <<>> /\ composition' = FALSE
  <2>1. remaining = <<>>
    BY <1>5, <1>9
  <2>2. View(q, s) = committed \o <<>>
    BY <1>4, <2>1
  <2> HIDE DEF committed, remaining
  <2> QED BY <1>3, <1>6, <1>9, <2>2
<1>10. CASE /\ ~(Unready(q) = <<>> /\ s = <<>>) /\ queue' = Unready(q) /\ session' = s
            /\ left' = left \o committed /\ shown' = remaining /\ composition' = TRUE
  <2>1. View(queue', session') = remaining
    BY <1>10
  <2> HIDE DEF committed, remaining
  <2> QED BY <1>3, <1>4, <1>10, <2>1
<1>11. CASE /\ queue' = <<>> /\ session' = <<>>
            /\ left' = left \o (committed \o remaining) /\ shown' = <<>>
            /\ composition' = FALSE
  <2>1. committed \o remaining \in Text
    BY <1>3, <1>5, TextConcat
  <2> HIDE DEF committed, remaining
  <2> QED BY <1>4, <1>6, <1>7, <1>11, <2>1
<1>12. \/ /\ committed = <<>> /\ queue' = q /\ session' = s /\ composition' = TRUE
          /\ left' = left /\ shown' = View(q, s)
       \/ /\ Unready(q) = <<>> /\ s = <<>> /\ queue' = <<>> /\ session' = s
          /\ left' = left \o committed /\ shown' = <<>> /\ composition' = FALSE
       \/ /\ ~(Unready(q) = <<>> /\ s = <<>>) /\ queue' = Unready(q) /\ session' = s
          /\ left' = left \o committed /\ shown' = remaining /\ composition' = TRUE
       \/ /\ queue' = <<>> /\ session' = <<>>
          /\ left' = left \o (committed \o remaining) /\ shown' = <<>>
          /\ composition' = FALSE
  <2>1. "noRange" \notin Faults /\ "noText" \notin Faults
    BY DEF Unwritten
  <2> HIDE DEF committed, remaining
  <2>2. /\ UpdateText(q, s) /\ composition' = TRUE => left' = left /\ shown' = View(q, s)
        /\ CommitText(committed) =>
             left' = left \o committed /\ shown' = <<>> /\ composition' = FALSE
        /\ CommitText(committed \o remaining) =>
             left' = left \o (committed \o remaining) /\ shown' = <<>> /\ composition' = FALSE
        /\ Shrink(committed, remaining) =>
             left' = left \o committed /\ shown' = remaining /\ composition' = TRUE
    BY <2>1 DEF UpdateText, CommitText, Shrink, Unwritten
  <2>3. \/ /\ committed = <<>> /\ queue' = q /\ session' = s
           /\ composition' = TRUE /\ UpdateText(q, s)
        \/ Unready(q) = <<>> /\ s = <<>> /\ queue' = <<>> /\ session' = s /\ CommitText(committed)
        \/ /\ ~(Unready(q) = <<>> /\ s = <<>>) /\ queue' = Unready(q) /\ session' = s
           /\ Shrink(committed, remaining)
        \/ queue' = <<>> /\ session' = <<>> /\ CommitText(committed \o remaining)
    BY <2>1 DEF CommitReadyInOrder, committed, remaining
  <2> QED BY <2>2, <2>3
<1> QED BY <1>8, <1>9, <1>10, <1>11, <1>12

\* ... and to the stream.
LEMMA CommitStream ==
  ASSUME NEW q, NEW n, NEW js, QueueOK(q, n, js), SourcesOK(q), NEW s \in Text,
         q # <<>>, left \in Text, ~Unwritten, CommitReadyInOrder(q, s),
         (IInv /\ TInv)', draft' = Stamps(View(queue', session'))
  PROVE  Confirms(Stamps(View(q, s)))
<1>1. PICK a \in Text : left' = left \o a /\ View(q, s) = a \o View(queue', session')
  BY CommitDraft
<1>2. View(queue', session') \in Text
  <2>1. /\ QueueOK(queue', nextId', jobs') /\ SourcesOK(queue') /\ session' \in Text
    BY DEF IInv, TInv, Scalars
  <2> QED BY <2>1, ViewShape
<1>3. /\ Stamps(a) \in Seq(Nat)
      /\ document' = document \o Stamps(a)
      /\ Stamps(View(q, s)) = Stamps(a) \o draft'
  BY <1>1, <1>2, StampsShape, StampsConcat DEF document
<1> QED BY <1>3 DEF Confirms

----------------------------------------------------------------------------
\* The draft, call by call: the invariant survives, and the stream moves in one
\* of the three ways.

\* What every call may use: the shapes of this state and the next, and what
\* Calm says of this one.
LEMMA CalmNow ==
  ASSUME Faults \subseteq KindFaults, Kept, flushes = <<>>
  PROVE  /\ composition <=> ~AllEmpty
         /\ context <=> ~AllEmpty
         /\ Stamps(shown) = draft
         /\ "denyResult" \notin Faults => shown = View(queue, session)
         /\ ~active => AllEmpty
         /\ DirectModeIsClean
         /\ draft = Stamps(View(queue, session))
         /\ draft = Stamps(Concat(queue)) \o Stamps(session)
         /\ Stamps(Concat(queue)) \in Seq(Nat) /\ Stamps(session) \in Seq(Nat)
         /\ document \in Seq(Nat) /\ draft \in Seq(Nat) /\ clock \in 0..MaxKeys
<1>1. Calm /\ draft = Stamps(View(queue, session))
  BY DraftCalm DEF Kept
<1>2. Concat(queue) \in Text /\ session \in Text /\ left \in Text
      /\ View(queue, session) \in Text
      /\ Stamps(View(queue, session)) = Stamps(Concat(queue)) \o Stamps(session)
  BY ViewNow DEF Kept
<1>3. /\ Stamps(Concat(queue)) \in Seq(Nat) /\ Stamps(session) \in Seq(Nat)
      /\ document \in Seq(Nat) /\ draft \in Seq(Nat)
  BY <1>1, <1>2, StampsShape DEF document
<1> QED BY <1>1, <1>2, <1>3 DEF Calm, Kept, IInv, Scalars

LEMMA KeyDownNow ==
  ASSUME Faults \subseteq KindFaults, NEW action, KeyDown(action)
  PROVE  active /\ flushes = <<>> /\ mode = "Conversion"
BY KindHost DEF KeyDown

LEMMA AppendKeyDraft ==
  ASSUME Faults \subseteq KindFaults, Kept, AppendKey PROVE DraftInv' /\ Moves
<1>1. flushes = <<>> /\ flushes' = <<>> /\ active /\ mode = "Conversion"
      /\ UNCHANGED <<active, mode, queue, left, erased>>
      /\ TypeKey /\ clock' = clock + 1 /\ context' = TRUE
      /\ session' = Append(session, Typed)
      /\ composition' = TRUE /\ shown' = View(queue, session')
  <2>1. active /\ flushes = <<>> /\ mode = "Conversion"
    BY KeyDownNow DEF AppendKey
  <2>2. /\ UNCHANGED <<activity, modes, queue, flushes, erased>>
        /\ TypeKey /\ context' = TRUE /\ session' = Append(session, Typed)
    BY DEF AppendKey
  <2>3. \E granted \in {TRUE}, started \in {TRUE} :
          IF granted THEN composition' = started /\ UpdateText(queue, session')
                     ELSE UNCHANGED host
    BY KindHost DEF AppendKey
  <2>4. composition' = TRUE /\ UpdateText(queue, session')
    BY <2>3
  <2>5. shown' = View(queue, session') /\ left' = left
    BY <2>4, KindHost DEF UpdateText
  <2> QED BY <2>1, <2>2, <2>4, <2>5 DEF activity, modes, TypeKey
<1>2. /\ session \in Text /\ Concat(queue) \in Text /\ QueueOK(queue, nextId, jobs)
      /\ SourcesOK(queue) /\ clock \in 0..MaxKeys
  BY ViewNow, CalmNow, <1>1 DEF Kept
<1>3. <<Typed>> \in Text /\ Typed \in Token /\ Stamps(<<Typed>>) = <<clock + 1>>
  BY <1>1, <1>2, TypedText, KeyedTyped
<1>4. session' = session \o <<Typed>> /\ session' \in Text /\ session' # <<>>
  BY <1>1, <1>2, <1>3, AppendIsConcat, AppendProperties DEF Text
<1>5. Stamps(session') = Stamps(session) \o <<clock + 1>>
  BY <1>2, <1>3, <1>4, StampsConcat
<1>6. Stamps(View(queue, session')) = Stamps(Concat(queue)) \o Stamps(session')
  BY <1>2, <1>4, ViewShape
<1>7. Calm'
  BY <1>1, <1>4 DEF Calm, AllEmpty, DirectModeIsClean
<1>8. DraftInv' /\ draft' = Stamps(View(queue, session'))
  BY <1>1, <1>7, NextCalm DEF Kept
<1>9. draft' = Append(draft, clock + 1) /\ Append(draft, clock + 1) \in Seq(Nat)
      /\ document \in Seq(Nat)
  <2> DEFINE w == <<clock + 1>>
             qs == Stamps(Concat(queue))
             ss == Stamps(session)
  <2>1. w \in Seq(Nat) /\ qs \in Seq(Nat) /\ ss \in Seq(Nat) /\ draft = qs \o ss
        /\ draft \in Seq(Nat) /\ clock + 1 \in Nat /\ document \in Seq(Nat)
    BY <1>1, <1>2, CalmNow
  <2>2. draft' = qs \o (ss \o w)
    BY <1>5, <1>6, <1>8
  <2>3. Append(draft, clock + 1) = draft \o w /\ Append(draft, clock + 1) \in Seq(Nat)
    BY <2>1, AppendIsConcat, AppendProperties
  <2> HIDE DEF w, qs, ss
  <2>4. qs \o (ss \o w) = (qs \o ss) \o w
    BY <2>1, Assoc
  <2> QED BY <2>1, <2>2, <2>3, <2>4
<1>10. Confirms(Append(draft, clock + 1))
  BY <1>1, <1>9, ConfirmsNothing DEF document
<1> QED BY <1>1, <1>8, <1>10 DEF Moves, Types

LEMMA BackspaceKeyDraft ==
  ASSUME Faults \subseteq KindFaults, Kept, BackspaceKey PROVE DraftInv' /\ Moves
<1>1. /\ flushes = <<>> /\ flushes' = <<>> /\ active /\ mode = "Conversion"
      /\ session # <<>>
      /\ UNCHANGED <<active, mode, queue, left, clock>>
      /\ context' = (context /\ ~(queue = <<>> /\ session' = <<>>))
      /\ IF queue = <<>> /\ session' = <<>>
           THEN composition' = FALSE /\ shown' = <<>>
           ELSE composition' = composition
                /\ shown' = IF composition' THEN View(queue, session') ELSE shown
  <2>1. active /\ flushes = <<>> /\ mode = "Conversion"
    BY KeyDownNow DEF BackspaceKey
  <2>2. /\ UNCHANGED <<activity, modes, queue, flushes, clock>> /\ session # <<>>
        /\ context' = (context /\ ~(queue = <<>> /\ session' = <<>>))
    BY DEF BackspaceKey
  <2>3. PICK granted \in Granted("denyKey") :
          IF ~granted THEN UNCHANGED host
          ELSE IF queue = <<>> /\ session' = <<>>
               THEN ClearText
               ELSE UNCHANGED composition /\ UpdateText(queue, session')
    BY DEF BackspaceKey
  <2>4. IF queue = <<>> /\ session' = <<>>
          THEN ClearText
          ELSE UNCHANGED composition /\ UpdateText(queue, session')
    <3>1. granted = TRUE
      BY KindHost
    <3> QED BY <2>3, <3>1
  <2>5. IF queue = <<>> /\ session' = <<>>
          THEN composition' = FALSE /\ shown' = <<>> /\ left' = left
          ELSE /\ composition' = composition /\ left' = left
               /\ shown' = IF composition' THEN View(queue, session') ELSE shown
    BY <2>4, KindHost DEF UpdateText, ClearText
  <2> QED BY <2>1, <2>2, <2>5 DEF activity, modes
<1>2. /\ Concat(queue) \in Text /\ QueueOK(queue, nextId, jobs) /\ SourcesOK(queue)
      /\ session \in Text
  BY ViewNow DEF Kept
<1>3. /\ session' \in Text
      /\ Stamps(session) = Stamps(session') \o <<Last(session).at>>
      /\ erased' = erased \cup ToSet(<<Last(session).at>>)
      /\ Last(session).at \in 1..MaxKeys
  BY BackspaceShape DEF Kept
<1>4. /\ Stamps(View(queue, session')) = Stamps(Concat(queue)) \o Stamps(session')
      /\ View(queue, session') = <<>> <=> queue = <<>> /\ session' = <<>>
  BY <1>2, <1>3, ViewShape
<1>5. composition = TRUE /\ context = TRUE
  BY <1>1, CalmNow DEF AllEmpty, Kept, IInv, Scalars
<1>6. Calm'
  BY <1>1, <1>4, <1>5 DEF Calm, AllEmpty, DirectModeIsClean
<1>7. DraftInv' /\ draft' = Stamps(View(queue, session'))
  BY <1>1, <1>6, NextCalm DEF Kept
<1>8. Erases
  <2> DEFINE w == <<Last(session).at>>
             qs == Stamps(Concat(queue))
             ss == Stamps(session')
  <2>1. w \in Seq(Nat) /\ qs \in Seq(Nat) /\ ss \in Seq(Nat) /\ Len(w) = 1
    <3>1. Last(session).at \in Nat
      BY <1>3
    <3> QED BY <1>2, <1>3, <3>1, StampsShape
  <2>2. draft = qs \o (ss \o w) /\ draft' = qs \o ss
    BY <1>1, <1>3, <1>4, <1>7, CalmNow
  <2>3. document' = document /\ clock' = clock /\ erased' = erased \cup ToSet(w)
    BY <1>1, <1>3 DEF document
  <2> HIDE DEF w, qs, ss
  <2>4. qs \o (ss \o w) = (qs \o ss) \o w
    BY <2>1, Assoc
  <2> QED BY <2>1, <2>2, <2>3, <2>4 DEF Erases
<1> QED BY <1>7, <1>8 DEF Moves

LEMMA TriggerKeyDraft ==
  ASSUME Faults \subseteq KindFaults, Kept, TriggerKey PROVE DraftInv' /\ Moves
<1> DEFINE req == NewRequest(nextId, session)
<1>1. /\ flushes = <<>> /\ flushes' = <<>> /\ active /\ mode = "Conversion"
      /\ UNCHANGED <<active, mode, left, clock, erased, composition>>
      /\ context' = TRUE /\ shown' = IF composition' THEN View(queue', session') ELSE shown
  <2>1. active /\ flushes = <<>> /\ mode = "Conversion"
    BY KeyDownNow DEF TriggerKey
  <2>2. UNCHANGED <<activity, modes, flushes, user>> /\ context' = TRUE
    BY DEF TriggerKey
  <2>3. \E granted \in {TRUE} :
          /\ UNCHANGED composition
          /\ IF granted THEN UpdateText(queue', session') ELSE UNCHANGED <<left, shown>>
    BY KindHost DEF TriggerKey
  <2>4. /\ composition' = composition /\ left' = left
        /\ shown' = IF composition' THEN View(queue', session') ELSE shown
    BY <2>3, KindHost DEF UpdateText
  <2> QED BY <2>1, <2>2, <2>4 DEF activity, modes, user
<1>2. /\ session \in Text /\ session # <<>> /\ session' = <<>>
      /\ req \in Req /\ queue \in Seq(Req) /\ queue' = Append(queue, req)
  BY TriggerShape DEF Kept
<1>3. composition = TRUE
  BY <1>1, <1>2, CalmNow DEF AllEmpty, Kept, IInv, Scalars
<1>4. View(queue', session') = View(queue, session) /\ queue' # <<>>
  <2>1. TextOf(req) = session
    BY DEF NewRequest, TextOf
  <2> HIDE DEF req
  <2>2. Concat(queue') = Concat(queue) \o session
    BY <1>2, <2>1, ConcatAppend
  <2>5. queue' # <<>>
    BY <1>2, AppendProperties
  <2>3. Concat(queue) \o session \in Text
    BY <1>2, ConcatType, TextConcat
  <2>4. (Concat(queue) \o session) \o <<>> = Concat(queue) \o session
    BY <2>3, ConcatEmptySeq DEF Text
  <2> QED BY <1>2, <2>2, <2>4, <2>5 DEF View
<1>5. Calm'
  BY <1>1, <1>3, <1>4 DEF Calm, AllEmpty, DirectModeIsClean
<1>6. DraftInv' /\ draft' = draft /\ draft \in Seq(Nat) /\ document \in Seq(Nat)
  BY <1>1, <1>4, <1>5, NextCalm, CalmNow DEF Kept
<1>7. Keeps
  BY <1>1, <1>6, ConfirmsNothing DEF Keeps, document
<1> QED BY <1>6, <1>7 DEF Moves

LEMMA EnterKeyDraft ==
  ASSUME Faults \subseteq KindFaults, Kept, EnterKey PROVE DraftInv' /\ Moves
<1>1. /\ flushes = <<>> /\ flushes' = <<>> /\ active /\ mode = "Conversion"
      /\ UNCHANGED <<active, mode, erased>> /\ TypeKey /\ clock' = clock + 1
      /\ context' = composition'
      /\ CommitReadyInOrder(EnterQueue, <<>>)
  <2>1. active /\ flushes = <<>> /\ mode = "Conversion"
    BY KeyDownNow DEF EnterKey
  <2>2. UNCHANGED <<activity, modes, flushes, erased>> /\ TypeKey /\ context' = composition'
    BY DEF EnterKey
  <2>3. PICK granted \in Granted("denyKey"), started \in Started :
          IF granted /\ started
            THEN CommitReadyInOrder(EnterQueue, <<>>)
            ELSE /\ queue' = EnterQueue /\ session' = <<>>
                 /\ UNCHANGED <<history, host>>
    BY DEF EnterKey, EnterQueue, TypedQueue, NewlineId
  <2>4. CommitReadyInOrder(EnterQueue, <<>>)
    <3>1. granted = TRUE /\ started = TRUE
      BY KindHost
    <3> QED BY <2>3, <3>1
  <2> QED BY <2>1, <2>2, <2>4 DEF activity, modes, TypeKey
<1>2. /\ QueueOK(EnterQueue, NewlineId + 1, jobs) /\ SourcesOK(EnterQueue)
      /\ EnterQueue # <<>>
      /\ Concat(EnterQueue) = View(queue, session) \o <<Typed>>
  BY EnterShape, EnterTexts DEF Kept
<1>3. left \in Text /\ View(queue, session) \in Text /\ clock \in 0..MaxKeys
  BY <1>1, ViewNow, CalmNow DEF Kept
<1>4. /\ shown' = View(queue', session')
      /\ composition' <=> ~(queue' = <<>> /\ session' = <<>>)
  BY <1>1, <1>2, <1>3, EmptyText, KindHost, CommitDraft
<1>5. Calm'
  BY <1>1, <1>4 DEF Calm, AllEmpty, DirectModeIsClean
<1>6. DraftInv' /\ draft' = Stamps(View(queue', session'))
  BY <1>5, NextCalm DEF Kept
<1>7. Stamps(View(EnterQueue, <<>>)) = Append(draft, clock + 1)
  <2>1. <<Typed>> \in Text /\ Stamps(<<Typed>>) = <<clock + 1>>
    BY <1>1, <1>3, TypedText, KeyedTyped
  <2>2. View(EnterQueue, <<>>) = View(queue, session) \o <<Typed>>
    <3>1. View(queue, session) \o <<Typed>> \in Text
      BY <1>3, <2>1, TextConcat
    <3> QED BY <1>2, <3>1, ConcatEmptySeq DEF View, Text
  <2>3. Stamps(View(EnterQueue, <<>>)) = draft \o <<clock + 1>>
    BY <1>1, <1>3, <2>1, <2>2, StampsConcat, CalmNow
  <2>4. Append(draft, clock + 1) = draft \o <<clock + 1>>
    <3>1. draft \in Seq(Nat) /\ clock + 1 \in Nat
      BY <1>1, <1>3, CalmNow
    <3> DEFINE k == clock + 1
    <3> HIDE DEF k
    <3> QED BY <3>1, AppendIsConcat DEF k
  <2> QED BY <2>3, <2>4
<1>8. Confirms(Stamps(View(EnterQueue, <<>>)))
  BY <1>1, <1>2, <1>3, <1>6, EmptyText, KindHost, CommitStream DEF Kept
<1> QED BY <1>1, <1>6, <1>7, <1>8 DEF Moves, Types

\* Nothing is left of a draft that is empty.
LEMMA EmptyView == View(<<>>, <<>>) = <<>> /\ Stamps(<<>>) = <<>>
<1>1. View(<<>>, <<>>) = <<>>
  BY ConcatEmpty, EmptyText, ConcatEmptySeq DEF View, Text
<1> QED BY <1>1, EmptyText, StampsShape

\* Calls after which nothing is unconfirmed.
LEMMA ClearedDraft ==
  ASSUME Kept, flushes' = <<>>, queue' = <<>>, session' = <<>>, shown' = <<>>,
         composition' = FALSE, context' = FALSE
  PROVE  DraftInv' /\ draft' = <<>>
<1>1. Calm'
  BY EmptyView DEF Calm, AllEmpty, DirectModeIsClean
<1> QED BY <1>1, NextCalm, EmptyView DEF Kept

LEMMA EscapeKeyDraft ==
  ASSUME Faults \subseteq KindFaults, Kept, EscapeKey PROVE DraftInv' /\ Moves
<1>1. /\ flushes = <<>> /\ flushes' = <<>> /\ queue' = <<>> /\ session' = <<>>
      /\ erased' = erased \cup ToSet(Stamps(View(queue, session)))
      /\ shown' = <<>> /\ composition' = FALSE /\ context' = FALSE
      /\ UNCHANGED <<left, clock>>
  <2>1. active /\ flushes = <<>> /\ mode = "Conversion"
    BY KeyDownNow DEF EscapeKey
  <2>2. /\ queue' = <<>> /\ session' = <<>> /\ context' = FALSE
        /\ erased' = erased \cup ToSet(Stamps(View(queue, session)))
        /\ UNCHANGED <<flushes, clock>>
    BY DEF EscapeKey
  <2>3. \E granted \in {TRUE} :
          IF granted THEN ClearText ELSE UNCHANGED host
    BY KindHost DEF EscapeKey
  <2>4. composition' = FALSE /\ shown' = <<>> /\ left' = left
    BY <2>3, KindHost DEF ClearText
  <2> QED BY <2>1, <2>2, <2>4
<1>2. DraftInv' /\ draft' = <<>>
  BY <1>1, ClearedDraft
<1>3. draft = Stamps(View(queue, session)) /\ draft \in Seq(Nat)
  BY <1>1, CalmNow
<1>4. draft = draft' \o draft
  BY <1>2, <1>3, ConcatEmptySeq
<1>5. Erases
  BY <1>1, <1>2, <1>3, <1>4 DEF Erases, document
<1> QED BY <1>2, <1>5 DEF Moves

\* What the application inserts is typed behind the draft if there is none.
LEMMA AppInsertsDraft ==
  ASSUME Faults \subseteq KindFaults, Kept, flushes = <<>>, AllEmpty, AppInserts
  PROVE  DraftInv' /\ Moves
<1>1. /\ flushes' = <<>> /\ TypeKey /\ clock' = clock + 1 /\ left' = Append(left, Typed)
      /\ UNCHANGED <<active, mode, queue, session, composition, shown, context, erased>>
  BY DEF AppInserts, activity, modes, model, TypeKey
<1>2. left \in Text /\ clock \in 0..MaxKeys /\ document \in Seq(Nat)
  BY <1>1, CalmNow, ViewNow DEF Kept
<1>3. Calm
  BY DraftCalm DEF Kept
<1>4. Calm'
  BY <1>1, <1>3 DEF Calm, AllEmpty, DirectModeIsClean
<1>5. DraftInv' /\ draft' = Stamps(View(queue', session'))
  BY <1>4, NextCalm DEF Kept
<1>6. draft = <<>> /\ draft' = <<>>
  BY <1>5, <1>1, CalmNow, EmptyView DEF AllEmpty
<1>7. document' = document \o <<clock + 1>>
  <2>1. <<Typed>> \in Text /\ Typed \in Token /\ Stamps(<<Typed>>) = <<clock + 1>>
    BY <1>1, <1>2, TypedText, KeyedTyped
  <2>2. left' = left \o <<Typed>>
    BY <1>1, <1>2, <2>1, AppendIsConcat DEF Text
  <2> QED BY <1>2, <2>1, <2>2, StampsConcat DEF document
<1>8. Append(draft, clock + 1) = <<clock + 1>> /\ <<clock + 1>> \in Seq(Nat)
  BY <1>2, <1>6
<1>9. Confirms(Append(draft, clock + 1))
  BY <1>6, <1>7, <1>8, ConfirmsAll
<1> QED BY <1>1, <1>5, <1>9 DEF Moves, Types

LEMMA PassThroughKeyDraft ==
  ASSUME Faults \subseteq KindFaults, Kept, PassThroughKey PROVE DraftInv' /\ Moves
<1>1. flushes = <<>> /\ ~composition /\ AppInserts
  BY KindHost DEF PassThroughKey
<1>2. AllEmpty
  BY <1>1, CalmNow
<1> QED BY <1>1, <1>2, AppInsertsDraft

\* The draft goes to the document as it is.
LEMMA CommittedDraft ==
  ASSUME Faults \subseteq KindFaults, Kept, flushes = <<>>,
         flushes' = <<>>, queue' = <<>>, session' = <<>>, shown' = <<>>,
         composition' = FALSE, context' = FALSE, UNCHANGED <<clock, erased>>,
         left' = left \o View(queue, session) \/ left' = left \o shown
  PROVE  DraftInv' /\ Moves
<1>1. DraftInv' /\ draft' = <<>>
  BY ClearedDraft
<1>2. /\ left \in Text /\ shown \in Text /\ View(queue, session) \in Text
      /\ Stamps(shown) = draft /\ Stamps(View(queue, session)) = draft
      /\ draft \in Seq(Nat)
  BY CalmNow, ViewNow DEF Kept
<1>3. document' = document \o draft
  BY <1>2, StampsConcat DEF document
<1>4. Keeps
  BY <1>1, <1>2, <1>3, ConfirmsAll DEF Keeps
<1> QED BY <1>1, <1>4 DEF Moves

\* Calls that leave the draft and what shows it alone.
LEMMA OtherDraft ==
  ASSUME Faults \subseteq KindFaults, Kept, flushes = <<>>,
         UNCHANGED <<flushes, queue, session, composition, context, shown, left, clock,
                     erased>>,
         ~active' => AllEmpty, active' /\ mode' = "Direct" => AllEmpty
  PROVE  DraftInv' /\ Moves
<1>1. Calm /\ draft = Stamps(View(queue, session)) /\ draft \in Seq(Nat)
      /\ document \in Seq(Nat)
  BY DraftCalm, CalmNow DEF Kept
<1>2. Calm'
  BY <1>1 DEF Calm, AllEmpty, DirectModeIsClean
<1>3. DraftInv' /\ draft' = draft
  BY <1>1, <1>2, NextCalm DEF Kept
<1>4. Keeps
  BY <1>1, <1>3, ConfirmsNothing DEF Keeps, document
<1> QED BY <1>3, <1>4 DEF Moves

LEMMA ModeKeyDraft ==
  ASSUME Faults \subseteq KindFaults, Kept, ModeKey PROVE DraftInv' /\ Moves
<1>1. /\ flushes = <<>> /\ flushes' = <<>> /\ active /\ active' = active
      /\ UNCHANGED <<clock, erased>>
  BY KindHost DEF ModeKey, activity, user
<1>2. CASE AllEmpty
  <2>1. UNCHANGED <<queue, session, composition, context, shown, left>>
    BY <1>2 DEF ModeKey, model, host
  <2> QED BY <1>1, <1>2, <2>1, OtherDraft
<1>3. CASE ~AllEmpty
  <2>1. /\ queue' = <<>> /\ session' = <<>> /\ context' = FALSE
        /\ left' = left \o View(queue, session) /\ shown' = <<>> /\ composition' = FALSE
    <3> DEFINE text == View(queue, session)
    <3>1. FlushAsRaw(text)
      BY <1>3 DEF ModeKey
    <3> HIDE DEF text
    <3>4. /\ queue' = <<>> /\ session' = <<>> /\ context' = FALSE
          /\ \E granted \in {TRUE} :
               IF granted THEN FlushSession(text) ELSE UNCHANGED <<history, host>>
      BY <3>1, KindHost DEF FlushAsRaw
    <3>5. \E started \in {TRUE} : IF started THEN CommitText(text) ELSE UNCHANGED host
      BY <3>4, KindHost DEF FlushSession
    <3>2. queue' = <<>> /\ session' = <<>> /\ context' = FALSE /\ CommitText(text)
      BY <3>4, <3>5
    <3>3. left' = left \o text /\ shown' = <<>> /\ composition' = FALSE
      BY <3>2, KindHost DEF CommitText
    <3> QED BY <3>2, <3>3 DEF text
  <2> QED BY <1>1, <2>1, CommittedDraft
<1> QED BY <1>2, <1>3

LEMMA AppSetsOpenDraft ==
  ASSUME Faults \subseteq KindFaults, Kept, NEW o \in BOOLEAN, AppSetsOpen(o)
  PROVE  DraftInv' /\ Moves
<1>1. /\ flushes = <<>> /\ UNCHANGED <<active, composition, left, shown, clock, erased>>
  BY KindHost DEF AppSetsOpen, activity, host, user
<1> DEFINE Flushes == /\ active /\ ~AllEmpty /\ context
                      /\ flushes' = Append(flushes, View(queue, session))
                      /\ queue' = <<>> /\ session' = <<>> /\ context' = FALSE
           Follows == /\ UNCHANGED <<flushes, queue, session, context>>
                      /\ mode' = mode \/ (mode' = ModeOf(o) /\ (o \/ AllEmpty \/ ~context))
<1>4. Flushes \/ Follows
  BY KindHost DEF AppSetsOpen, model
<1>2. CASE Flushes
  <2> DEFINE text == View(queue, session)
  <2>1. /\ flushes' = Append(flushes, text)
        /\ queue' = <<>> /\ session' = <<>> /\ context' = FALSE
    BY <1>2
  <2>2. /\ text \in Text /\ text # <<>> /\ composition /\ draft = Stamps(text)
        /\ "denyResult" \notin Faults => shown = text
        /\ Stamps(shown) = draft /\ draft \in Seq(Nat) /\ document \in Seq(Nat)
    BY <1>1, <1>2, CalmNow, ViewNow DEF Kept
  <2> HIDE DEF text
  <2>3. flushes' = <<text>>
    BY <1>1, <2>1
  <2>4. Draft' = text
    <3>1. FlattenSeq(<<text>>) = text
      BY <2>2, FlattenOne DEF Text
    <3>2. text \o <<>> = text
      BY <2>2, ConcatEmptySeq DEF Text
    <3>3. Draft' = FlattenSeq(flushes') \o View(queue', session')
      BY DEF Draft
    <3>4. View(queue', session') = <<>>
      BY <2>1, EmptyView
    <3> QED BY <2>3, <3>1, <3>2, <3>3, <3>4
  <2>5. Len(flushes') = 1 /\ flushes'[1] = text
    BY <2>3
  <2>6. draft' = draft
    BY <2>2, <2>4 DEF draft
  <2>7. DraftInv'
    BY <1>1, <1>2, <2>1, <2>2, <2>4, <2>5, <2>6 DEF DraftInv, AllEmpty, DirectModeIsClean
  <2>8. Keeps
    BY <1>1, <2>2, <2>6, ConfirmsNothing DEF Keeps, document
  <2> QED BY <2>7, <2>8 DEF Moves
<1>3. CASE Follows
  <2>1. UNCHANGED <<flushes, queue, session, context>>
    BY <1>3
  <2>2. active' /\ mode' = "Direct" => AllEmpty
    BY <1>1, <1>3, CalmNow DEF DirectModeIsClean, ModeOf
  <2>3. ~active' => AllEmpty
    BY <1>1, CalmNow
  <2> QED BY <1>1, <2>1, <2>2, <2>3, OtherDraft
<1> QED BY <1>2, <1>3, <1>4

LEMMA RunFlushDraft ==
  ASSUME Faults \subseteq KindFaults, Kept, RunFlush PROVE DraftInv' /\ Moves
<1> DEFINE text == Head(flushes)
<1>1. /\ flushes # <<>> /\ flushes' = Tail(flushes)
      /\ left' = left \o text /\ shown' = <<>> /\ composition' = FALSE
      /\ UNCHANGED <<queue, session, context, clock, erased>>
  <2>1. /\ flushes # <<>> /\ flushes' = Tail(flushes)
        /\ FlushSession(text) /\ UNCHANGED <<model, context, user>>
    BY DEF RunFlush
  <2> HIDE DEF text
  <2>2. \E started \in {TRUE} : IF started THEN CommitText(text) ELSE UNCHANGED host
    BY <2>1, KindHost DEF FlushSession
  <2>3. left' = left \o text /\ shown' = <<>> /\ composition' = FALSE
    BY <2>2, KindHost DEF CommitText
  <2> QED BY <2>1, <2>3 DEF model, user
<1>2. /\ AllEmpty /\ Len(flushes) = 1 /\ flushes \in Seq(Text) /\ ~context
  BY <1>1 DEF Kept, DraftInv, TInv, TextTypeOK
<1>3. text \in Text /\ flushes = <<text>> /\ Tail(flushes) = <<>>
  <2>1. flushes[1] \in Text /\ flushes = <<flushes[1]>>
    BY <1>2, ElementOfSeq
  <2>2. text = flushes[1]
    BY <2>1
  <2>3. Tail(flushes) = <<>>
    <3>1. Tail(flushes) \in Seq(Text) /\ Len(Tail(flushes)) = Len(flushes) - 1
      BY <1>1, <1>2, HeadTailProperties
    <3>2. Len(Tail(flushes)) = 0
      BY <1>2, <3>1
    <3> QED BY <3>1, <3>2, EmptySeq
  <2> QED BY <2>1, <2>2, <2>3
<1> HIDE DEF text
<1>4. Draft = text
  <2>1. FlattenSeq(<<text>>) = text /\ text \o <<>> = text
    BY <1>3, FlattenOne, ConcatEmptySeq DEF Text
  <2>2. View(queue, session) = <<>>
    BY <1>2, EmptyView DEF AllEmpty
  <2> QED BY <1>3, <2>1, <2>2 DEF Draft
<1>5. DraftInv' /\ draft' = <<>>
  <2>1. context' = FALSE
    BY <1>1, <1>2 DEF Kept, IInv, Scalars
  <2> QED BY <1>1, <1>2, <1>3, <2>1, ClearedDraft DEF AllEmpty
<1>6. document' = document \o draft /\ draft \in Seq(Nat)
  <2>1. left \in Text
    BY ViewNow DEF Kept
  <2> QED BY <1>1, <1>3, <1>4, <2>1, StampsConcat, StampsShape DEF document, draft
<1>7. Keeps
  BY <1>1, <1>5, <1>6, ConfirmsAll DEF Keeps
<1> QED BY <1>5, <1>7 DEF Moves

LEMMA AnswerDraft ==
  ASSUME Faults \subseteq KindFaults, Kept, NEW job \in jobs, NEW ok \in BOOLEAN,
         Answer(job, ok)
  PROVE  DraftInv' /\ Moves
<1> DEFINE q == AnswerQueue(job, ok)
<1>1. /\ flushes = <<>> /\ flushes' = <<>> /\ active
      /\ UNCHANGED <<active, mode, clock, erased>>
  BY KindHost DEF Answer, activity, modes, user
<1>2. CASE ~CanMark(queue, job.id)
  <2>1. UNCHANGED <<queue, session, composition, context, shown, left>>
    BY <1>2 DEF Answer, model, host
  <2>2. active /\ mode = "Direct" => AllEmpty
    BY <1>1, CalmNow DEF DirectModeIsClean
  <2> QED BY <1>1, <2>1, <2>2, OtherDraft
<1>3. CASE CanMark(queue, job.id)
  <2>1. queue # <<>>
    BY <1>3 DEF CanMark, PendingAt
  <2>2. composition = TRUE /\ context = TRUE /\ mode # "Direct"
    BY <1>1, <2>1, CalmNow DEF AllEmpty, DirectModeIsClean, Kept, IInv, Scalars
  <2>3. /\ QueueOK(q, nextId, jobs) /\ SourcesOK(q) /\ q # <<>>
        /\ Stamps(Concat(q)) = Stamps(Concat(queue))
    BY <2>1, AnswerShape DEF Kept
  <2>4. left \in Text /\ session \in Text
    BY ViewNow DEF Kept
  <2>5. /\ \/ CommitReadyInOrder(q, session)
           \/ /\ "denyResult" \in Faults
              /\ queue' = q /\ UNCHANGED <<session, composition, shown, left>>
        /\ context' = composition'
    BY <1>3, <2>2 DEF Answer, AnswerQueue, Granted, host
  <2> HIDE DEF q
  <2>6. Stamps(View(q, session)) = draft
    BY <1>1, <2>3, <2>4, ViewShape, CalmNow
  <2>7. CASE CommitReadyInOrder(q, session)
    <3>1. /\ shown' = View(queue', session')
          /\ composition' <=> ~(queue' = <<>> /\ session' = <<>>)
      BY <2>3, <2>4, <2>7, KindHost, CommitDraft
    <3>2. Calm'
      BY <1>1, <2>2, <2>5, <3>1 DEF Calm, AllEmpty, DirectModeIsClean
    <3>3. DraftInv' /\ draft' = Stamps(View(queue', session'))
      BY <3>2, NextCalm DEF Kept
    <3>4. Confirms(Stamps(View(q, session)))
      BY <2>3, <2>4, <2>7, <3>3, KindHost, CommitStream DEF Kept
    <3> QED BY <1>1, <2>6, <3>3, <3>4 DEF Moves, Keeps
  <2>8. CASE /\ "denyResult" \in Faults
             /\ queue' = q /\ UNCHANGED <<session, composition, shown, left>>
    <3>1. Stamps(View(queue', session')) = draft /\ Stamps(shown') = draft
      BY <1>1, <2>6, <2>8, CalmNow
    <3>2. Calm'
      BY <1>1, <2>2, <2>3, <2>5, <2>8, <3>1 DEF Calm, AllEmpty, DirectModeIsClean
    <3>3. DraftInv' /\ draft' = draft /\ draft \in Seq(Nat) /\ document \in Seq(Nat)
      BY <1>1, <3>1, <3>2, NextCalm, CalmNow DEF Kept
    <3>4. Keeps
      BY <1>1, <2>8, <3>3, ConfirmsNothing DEF Keeps, document
    <3> QED BY <3>3, <3>4 DEF Moves
  <2> QED BY <2>5, <2>7, <2>8
<1> QED BY <1>2, <1>3

LEMMA AbandonDraft ==
  ASSUME Faults \subseteq KindFaults, Kept, CompositionTerminated \/ Deactivate
  PROVE  DraftInv' /\ Moves
<1>1. /\ flushes = <<>> /\ flushes' = <<>> /\ queue' = <<>> /\ session' = <<>>
      /\ shown' = <<>> /\ composition' = FALSE /\ context' = FALSE
      /\ UNCHANGED <<clock, erased>> /\ left' = left \o shown
  BY KindHost DEF CompositionTerminated, Deactivate, Abandon, user
<1> QED BY <1>1, CommittedDraft

LEMMA ActivateExDraft ==
  ASSUME Faults \subseteq KindFaults, Kept, ActivateEx PROVE DraftInv' /\ Moves
<1>1. /\ ~active
      /\ UNCHANGED <<flushes, queue, session, composition, context, shown, left, clock,
                     erased>>
  BY DEF ActivateEx, model, host, user
<1>2. flushes = <<>> /\ AllEmpty
  BY <1>1 DEF Kept, DraftInv
<1> QED BY <1>1, <1>2, OtherDraft

\* Lost answers, and steps of others, leave all of it alone.
LEMMA StillDraft ==
  ASSUME Kept, UNCHANGED <<flushes, queue, session, composition, context, shown, left, clock,
                           erased, active, mode>>
  PROVE  DraftInv' /\ Moves
<1>1. Draft' = Draft /\ draft' = draft /\ document' = document
  BY DEF Draft, draft, document
<1>2. DraftInv'
  BY <1>1 DEF Kept, DraftInv, AllEmpty, DirectModeIsClean
<1>3. draft \in Seq(Nat) /\ document \in Seq(Nat)
  BY DraftShape DEF Kept, StreamTypes
<1>4. Keeps
  BY <1>1, <1>3, ConfirmsNothing DEF Keeps
<1> QED BY <1>2, <1>4 DEF Moves

LEMMA StepDraft ==
  ASSUME Faults \subseteq KindFaults, Kept, [Next]_vars PROVE DraftInv' /\ Moves
<1>1. CASE Keys
  BY <1>1, AppendKeyDraft, BackspaceKeyDraft, TriggerKeyDraft, EnterKeyDraft,
     EscapeKeyDraft, PassThroughKeyDraft, ModeKeyDraft DEF Keys
<1>2. CASE \E o \in BOOLEAN : AppSetsOpen(o)
  BY <1>2, AppSetsOpenDraft
<1>3. CASE RunFlush
  BY <1>3, RunFlushDraft
<1>4. CASE ConvertResult
  BY <1>4, AnswerDraft DEF ConvertResult
<1>5. CASE \E job \in jobs : LoseAnswer(job)
  BY <1>5, StillDraft DEF LoseAnswer, activity, modes, model, host, user
<1>6. CASE CompositionTerminated \/ Deactivate
  BY <1>6, AbandonDraft
<1>7. CASE ActivateEx
  BY <1>7, ActivateExDraft
<1>8. CASE UNCHANGED vars
  BY <1>8, StillDraft DEF vars, activity, modes, model, host, user
<1> QED BY <1>1, <1>2, <1>3, <1>4, <1>5, <1>6, <1>7, <1>8 DEF Next

----------------------------------------------------------------------------
\* What follows for the user.  The host grants the sessions of the keys and of
\* the flushes, starts compositions, finds their range, and runs asynchronous
\* sessions in time; under a host that does not, the runs flush and hostile
\* show what is lost.

DInv == IInv /\ TInv /\ DraftInv /\ Stream

LEMMA InitDraft == Init => DInv
<1> SUFFICES ASSUME Init PROVE DInv
  OBVIOUS
<1>1. IInv /\ TInv
  BY InitInv, InitTexts
<1>2. /\ flushes = <<>> /\ queue = <<>> /\ session = <<>> /\ shown = <<>> /\ left = <<>>
      /\ ~composition /\ ~context /\ ~active /\ clock = 0 /\ erased = {}
  BY DEF Init
<1>3. Calm
  BY <1>2, EmptyView DEF Calm, AllEmpty, DirectModeIsClean
<1>4. DraftInv /\ draft = <<>> /\ document = <<>>
  BY <1>1, <1>2, <1>3, CalmDraft, EmptyView DEF document
<1>5. document \o draft = <<>>
  BY <1>4, EmptySeq, ConcatEmptySeq
<1>6. ToSet(<<>>) = {} /\ 1..0 = {} /\ Increasing(<<>>)
  BY DEF ToSet, Increasing
<1>7. Stream
  BY <1>2, <1>5, <1>6 DEF Stream
<1> QED BY <1>1, <1>4, <1>7 DEF DInv

LEMMA StepDInv ==
  ASSUME Faults \subseteq KindFaults, DInv, [Next]_vars
  PROVE  DInv' /\ StreamTypes /\ StreamTypes' /\ Moves
<1>1. IInv' /\ TInv'
  BY StepInv, StepTexts DEF DInv
<1>2. Kept
  BY <1>1 DEF Kept, DInv
<1>3. DraftInv' /\ Moves
  BY <1>2, StepDraft
<1>4. StreamTypes /\ StreamTypes'
  BY <1>1, DraftShape, NextShape DEF DInv
<1>5. Stream'
  BY <1>3, <1>4, StreamStep DEF Moves, DInv
<1> QED BY <1>1, <1>3, <1>4, <1>5 DEF DInv

\* The document and the draft behind it are all the keys typed and not taken
\* back, in the order they were typed, whatever comes between them: the
\* inductive invariant of the four theorems below.
THEOREM DraftInvariance ==
  ASSUME Faults \subseteq KindFaults PROVE Spec => []DInv
<1>1. DInv /\ [Next]_vars => DInv'
  BY StepDInv
<1> QED BY <1>1, InitDraft, PTL DEF Spec

\* What the invariant says of the texts.
LEMMA DraftTexts ==
  ASSUME DInv
  PROVE  /\ left \in Text /\ shown \in Text /\ Draft \in Text /\ left \o shown \in Text
         /\ document \in Seq(Nat) /\ draft \in Seq(Nat)
         /\ Stamps(left \o Draft) = document \o draft
         /\ Stamps(left \o shown) = document \o draft
<1>1. left \in Text /\ shown \in Text /\ Draft \in Text /\ StreamTypes
  BY ViewNow, DraftShape DEF DInv
<1>2. left \o shown \in Text
  BY <1>1, TextConcat
<1>3. Stamps(left \o Draft) = document \o draft
  BY <1>1, StampsConcat DEF document, draft
<1>4. Stamps(left \o shown) = document \o Stamps(shown)
  BY <1>1, StampsConcat DEF document
<1> QED BY <1>1, <1>2, <1>3, <1>4 DEF DInv, DraftInv, StreamTypes

LEMMA DraftIsInOrder == DInv => TypingOrder
BY DraftTexts DEF DInv, Stream, Increasing, TypingOrder

LEMMA DraftIsComplete == DInv => NothingLost
<1> SUFFICES ASSUME DInv PROVE NothingLost
  OBVIOUS
<1>1. /\ left \o shown \in Text /\ Draft \in Text
      /\ document \in Seq(Nat) /\ draft \in Seq(Nat)
      /\ Stamps(left \o shown) = document \o draft
  BY DraftTexts
<1>2. document \o draft \in Seq(Nat)
  BY <1>1, ConcatProperties
<1>3. Stamps((left \o shown) \o Draft) = (document \o draft) \o draft
  BY <1>1, StampsConcat DEF draft
<1>4. ToSet((document \o draft) \o draft) = ToSet(document \o draft) \cup ToSet(draft)
  <2> DEFINE a == document \o draft
             d == draft
  <2>1. a \in Seq(Nat) /\ d \in Seq(Nat)
    BY <1>1, <1>2
  <2> HIDE DEF a, d
  <2>2. ToSet(a \o d) = ToSet(a) \cup ToSet(d)
    BY <2>1, ToSetConcat
  <2> QED BY <2>2 DEF a, d
<1>5. ToSet(document \o draft) = (1..clock) \ erased
  BY DEF DInv, Stream
<1> QED BY <1>3, <1>4, <1>5 DEF NothingLost

LEMMA ErasedIsOut == DInv => ErasedStaysOut
BY DraftTexts DEF DInv, Stream, ErasedStaysOut

\* Nothing moves past anything: answers in any order, literals between them,
\* partial confirmations and flushes (TextService.cpp:594 and 787).
THEOREM TypedOrderIsKept ==
  ASSUME Faults \subseteq KindFaults PROVE Spec => []TypingOrder
BY DraftIsInOrder, DraftInvariance, PTL

\* No key is lost on the way (TextService.cpp:390, 573 and 711).
THEOREM NoKeyIsLost ==
  ASSUME Faults \subseteq KindFaults PROVE Spec => []NothingLost
BY DraftIsComplete, DraftInvariance, PTL

\* What was taken back is neither in the document nor on the screen, and no
\* late answer brings it there (TextService.cpp:565).
THEOREM ErasedKeysStayOut ==
  ASSUME Faults \subseteq KindFaults PROVE Spec => []ErasedStaysOut
BY ErasedIsOut, DraftInvariance, PTL

\* Direct mode never begins with a draft behind it (TextService.cpp:372).
THEOREM DirectModeStartsClean ==
  ASSUME Faults \subseteq KindFaults PROVE Spec => []DirectModeIsClean
<1>1. DInv => DirectModeIsClean
  BY DEF DInv, DraftInv
<1> QED BY <1>1, DraftInvariance, PTL

\* The composition shows exactly what is unconfirmed, and is there exactly
\* when something is, as long as results, too, get their sessions.
THEOREM WhatYouSeeIsTheDraft ==
  ASSUME Faults \subseteq KindFaults \ {"denyResult"} PROVE Spec => []ShowsTheDraft
<1>1. Faults \subseteq KindFaults /\ "denyResult" \notin Faults
  OBVIOUS
<1>2. DInv => ShowsTheDraft
  BY <1>1 DEF DInv, DraftInv, ShowsTheDraft
<1> QED BY <1>1, <1>2, DraftInvariance, PTL

LEMMA InitIsIme == Init => User!Init
<1> SUFFICES ASSUME Init PROVE User!Init
  OBVIOUS
<1>1. /\ left = <<>> /\ flushes = <<>> /\ queue = <<>> /\ session = <<>> /\ clock = 0
  BY DEF Init
<1>2. Draft = <<>>
  BY <1>1, InitDraft, DraftShape, EmptyView DEF DInv
<1> QED BY <1>1, <1>2, EmptyView DEF User!Init

\* To the user the service, with its queue, its workers and its late answers,
\* is the input method of Ime: every call is a key joining the draft, a
\* confirmation from its front, an erasure at its end, or nothing at all.
THEOREM ServiceImplementsIme ==
  ASSUME Faults \subseteq KindFaults PROVE Spec => ImplementsIme
<1>1. DInv /\ [Next]_vars => [User!Next]_<<Stamps(left), Stamps(Draft), clock>>
  <2>1. ASSUME DInv, [Next]_vars PROVE [User!Next]_<<document, draft, clock>>
    BY <2>1, StepDInv, ImeStep DEF Moves
  <2> QED BY <2>1 DEF document, draft
<1> QED BY <1>1, InitIsIme, DraftInvariance, PTL DEF Spec, ImplementsIme, User!Spec

----------------------------------------------------------------------------
\* What is converting, and what is ready.

\* A request with something in its source has something to show.
LEMMA RequestsShow ==
  ASSUME NEW q, NEW n, NEW js, QueueOK(q, n, js), SourcesOK(q), NEW i \in DOMAIN q
  PROVE  TextOf(q[i]) # <<>>
<1>1. q[i] \in Req /\ q[i].source \in Text /\ q[i].source # <<>>
  BY QueueShape, LenProperties, ElementOfSeq DEF QueueOK, SourcesOK
<1>2. CASE q[i].state # "Done"
  BY <1>1, <1>2 DEF TextOf
<1>3. CASE q[i].state = "Done"
  <2>1. Stamps(q[i].result) = Stamps(q[i].source)
    BY <1>3 DEF QueueOK
  <2>2. q[i].result \in Text
    BY <1>1, <1>3, RequestText DEF TextOf
  <2>3. q[i].result # <<>>
    BY <1>1, <2>1, <2>2, StampsShape
  <2> QED BY <1>3, <2>3 DEF TextOf
<1> QED BY <1>2, <1>3

\* So what is ready commits something, when anything is.
LEMMA ReadyShows ==
  ASSUME NEW q, NEW n, NEW js, QueueOK(q, n, js), SourcesOK(q), Concat(Ready(q)) = <<>>
  PROVE  Ready(q) = <<>>
<1> DEFINE p == Ready(q)
<1>1. q \in Seq(Req) /\ p \in Seq(Req) /\ Unready(q) \in Seq(Req) /\ p \o Unready(q) = q
  BY ReadySplit DEF QueueOK
<1> HIDE DEF p
<1>2. DOMAIN p = 1..Len(p) /\ DOMAIN q = 1..Len(q) /\ Len(p) \in Nat
  BY <1>1, LenProperties
<1>3. \A i \in DOMAIN p : i \in DOMAIN q /\ p[i] = q[i]
  <2>1. /\ Len(p \o Unready(q)) = Len(p) + Len(Unready(q)) /\ Len(Unready(q)) \in Nat
        /\ \A i \in 1..Len(p \o Unready(q)) :
             (p \o Unready(q))[i] = IF i <= Len(p) THEN p[i] ELSE Unready(q)[i - Len(p)]
    BY <1>1, ConcatProperties, LenProperties
  <2> QED BY <1>1, <1>2, <2>1
<1>4. \A i \in DOMAIN TextsOf(p) : TextsOf(p)[i] # <<>>
  BY <1>3, RequestsShow DEF TextsOf
<1>5. TextsOf(p) \in Seq(Seq(Token)) /\ Len(TextsOf(p)) = Len(p)
  BY <1>1, TextsOfShape DEF Text
<1>6. Concat(p) = FlattenSeq(TextsOf(p))
  BY <1>1, ConcatType
<1>7. TextsOf(p) = <<>>
  BY <1>4, <1>5, <1>6, FlattenNonempty DEF p
<1>8. Len(p) = 0
  BY <1>5, <1>7, EmptySeq
<1>9. p = <<>>
  BY <1>1, <1>8, EmptySeq
<1> QED BY <1>9 DEF p

HeadPending == queue # <<>> => Head(queue).state = "Pending"

\* What CommitReadyInOrder leaves in the queue begins with a request that is
\* still being converted: it takes everything before one.
LEMMA CommitHead ==
  ASSUME NEW q, NEW n, NEW js, QueueOK(q, n, js), SourcesOK(q), NEW s,
         q # <<>>, CommitReadyInOrder(q, s)
  PROVE  HeadPending' /\ (queue' = <<>> \/ queue' = Unready(q))
<1>1. q \in Seq(Req)
  BY DEF QueueOK
<1>2. /\ Unready(q) # <<>> => Head(Unready(q)).state = "Pending"
      /\ Ready(q) = <<>> => Unready(q) = q
  BY <1>1, ReadySplit
<1>3. CASE Concat(Ready(q)) = <<>> /\ queue' = q
  <2>1. Unready(q) = q
    BY <1>2, <1>3, ReadyShows
  <2> QED BY <1>2, <1>3, <2>1 DEF HeadPending
<1>4. CASE queue' = <<>>
  BY <1>4 DEF HeadPending
<1>5. CASE queue' = Unready(q)
  BY <1>2, <1>5 DEF HeadPending
<1> QED BY <1>3, <1>4, <1>5 DEF CommitReadyInOrder

\* Every request that waits has somebody working on it.
Worked(q, js) == \A i \in PendingAt(q) : \E j \in js : j.id = q[i].id

LEMMA EmptyWorked == ASSUME NEW js PROVE Worked(<<>>, js)
BY DEF Worked, PendingAt

LEMMA AppendWorked ==
  ASSUME NEW q \in Seq(Req), NEW req \in Req, NEW js, NEW ks, Worked(q, js),
         js \subseteq ks, req.state = "Pending" => \E j \in ks : j.id = req.id
  PROVE  Worked(Append(q, req), ks)
<1> DEFINE r == Append(q, req)
<1>1. /\ DOMAIN r = 1..(Len(q) + 1) /\ DOMAIN q = 1..Len(q) /\ Len(q) \in Nat
      /\ \A i \in 1..Len(q) : r[i] = q[i]
      /\ r[Len(q) + 1] = req
  BY AppendProperties, LenProperties
<1> HIDE DEF r
<1>2. \A i \in PendingAt(r) : \/ i \in PendingAt(q) /\ r[i] = q[i]
                              \/ r[i] = req /\ req.state = "Pending"
  BY <1>1 DEF PendingAt
<1>3. Worked(r, ks)
  BY <1>2 DEF Worked
<1> QED BY <1>3 DEF r

LEMMA UnreadyWorked ==
  ASSUME NEW q \in Seq(Req), NEW js, Worked(q, js) PROVE Worked(Unready(q), js)
<1> DEFINE k == ReadyCount(q)
           r == SubSeq(q, k + 1, Len(q))
<1>1. k \in Nat /\ k <= Len(q)
  BY ReadyCountBounds
<1> HIDE DEF k
<1>2. \A i \in DOMAIN r : i + k \in DOMAIN q /\ r[i] = q[i + k]
  BY <1>1, SuffixPending
<1> HIDE DEF r
<1>3. Worked(r, js)
  BY <1>2 DEF Worked, PendingAt
<1> QED BY <1>3 DEF r, k, Unready

\* An answer settles the request it is for, and leaves the others their jobs.
LEMMA AnswerWorked ==
  ASSUME IInv, Worked(queue, jobs), NEW job \in jobs, NEW ok \in BOOLEAN
  PROVE  /\ Worked(AnswerQueue(job, ok), jobs \ {job})
         /\ ~CanMark(queue, job.id) => Worked(queue, jobs \ {job})
<1> DEFINE r == AnswerQueue(job, ok)
<1>1. /\ queue \in Seq(Req) /\ DOMAIN queue = 1..Len(queue) /\ Len(queue) \in Nat
      /\ \A i, j \in DOMAIN queue : i < j => queue[i].id < queue[j].id
      /\ \A i \in DOMAIN queue : queue[i].id \in Nat
  <2>1. QueueOK(queue, nextId, jobs)
    BY DEF IInv
  <2>2. \A i \in DOMAIN queue : queue[i].id \in Ids
    BY <2>1, QueueShape
  <2>3. queue \in Seq(Req) /\ DOMAIN queue = 1..Len(queue) /\ Len(queue) \in Nat
    BY <2>1, QueueShape DEF QueueOK
  <2>4. \A i, j \in DOMAIN queue : i < j => queue[i].id < queue[j].id
    BY <2>1 DEF QueueOK
  <2> QED BY <2>2, <2>3, <2>4 DEF Ids
<1>2. ASSUME NEW i \in PendingAt(queue), queue[i].id # job.id
      PROVE  \E j \in jobs \ {job} : j.id = queue[i].id
  BY <1>2 DEF Worked
<1>3. /\ DOMAIN r = DOMAIN queue
      /\ \A i \in DOMAIN queue :
           IF Marks(queue, job.id, i) THEN r[i].state # "Pending" ELSE r[i] = queue[i]
  <2>1. \A i \in DOMAIN queue : queue[i] \in Req
    BY <1>1, ElementOfSeq
  <2> QED BY <2>1 DEF AnswerQueue, MarkDone, MarkFailed, Req, ConversionRequest, ConvState
<1> HIDE DEF r
<1>4. \A i \in PendingAt(queue) : queue[i].id = job.id => Marks(queue, job.id, i)
  <2> SUFFICES ASSUME NEW i \in PendingAt(queue), queue[i].id = job.id,
                      NEW j \in 1..(i - 1)
               PROVE  queue[j].id # job.id
    BY DEF Marks, PendingAt
  <2>1. i \in DOMAIN queue /\ j \in DOMAIN queue /\ j < i
    BY <1>1 DEF PendingAt
  <2>2. queue[j].id < queue[i].id /\ queue[i].id \in Nat /\ queue[j].id \in Nat
    BY <1>1, <2>1
  <2> QED BY <2>2
<1>5. \A i \in PendingAt(r) : /\ i \in PendingAt(queue) /\ r[i] = queue[i]
                              /\ queue[i].id # job.id
  BY <1>3, <1>4 DEF PendingAt
<1>6. Worked(r, jobs \ {job})
  BY <1>2, <1>5 DEF Worked
<1>7. ~CanMark(queue, job.id) => Worked(queue, jobs \ {job})
  BY <1>2 DEF CanMark, Worked
<1> QED BY <1>6, <1>7 DEF r

HeadInv == HeadPending /\ Worked(queue, jobs)

\* Calls that empty the queue, or leave it and its workers alone.
LEMMA StillHead ==
  ASSUME HeadInv, queue' = <<>> \/ UNCHANGED <<queue, jobs>> PROVE HeadInv'
BY EmptyWorked DEF HeadInv, HeadPending

LEMMA TriggerKeyHead ==
  ASSUME "lost" \notin Faults, IInv, TInv, HeadInv, TriggerKey PROVE HeadInv'
<1> DEFINE req == NewRequest(nextId, session)
<1>1. req \in Req /\ queue \in Seq(Req) /\ queue' = Append(queue, req)
  BY TriggerShape
<1>2. req.id = nextId /\ req.state = "Pending"
  BY DEF NewRequest
<1> DEFINE job == [id |-> nextId, source |-> session, context |-> HistoryTail(history)]
<1>3. jobs' = jobs \cup {job}
  BY DEF TriggerKey, Dispatch, Granted
<1>4. job.id = nextId
  OBVIOUS
<1> HIDE DEF req, job
<1>5. Worked(queue', jobs')
  BY <1>1, <1>2, <1>3, <1>4, AppendWorked DEF HeadInv
<1>6. HeadPending'
  <2>1. CASE queue = <<>>
    <3>1. Head(Append(queue, req)) = req
      BY <2>1
    <3> QED BY <1>1, <1>2, <3>1 DEF HeadPending
  <2>2. CASE queue # <<>>
    <3>1. Head(Append(queue, req)) = Head(queue)
      BY <1>1, <2>2, HeadTailAppend
    <3> QED BY <1>1, <2>2, <3>1 DEF HeadPending, HeadInv
  <2> QED BY <2>1, <2>2
<1> QED BY <1>5, <1>6 DEF HeadInv

LEMMA EnterQueueWorked ==
  ASSUME IInv, TInv, EnterKey, Worked(queue, jobs)
  PROVE  Worked(EnterQueue, jobs) /\ (PendingAt(queue) = {} => PendingAt(EnterQueue) = {})
<1>1. /\ session \in Text /\ <<Typed>> \in Text
      /\ nextId \in Ids /\ NewlineId \in Ids
      /\ queue \in Seq(Req) /\ TypedQueue \in Seq(Req)
  BY EnterShape, TypedText DEF QueueOK, IInv, Scalars
<1>2. ASSUME NEW q \in Seq(Req), NEW id \in Ids, NEW text \in Text
      PROVE  /\ \A js : Worked(q, js) => Worked(PushCommitted(q, id, text), js)
             /\ PendingAt(q) = {} => PendingAt(PushCommitted(q, id, text)) = {}
  <2> DEFINE req == [id |-> id, source |-> text, state |-> "Done", result |-> text]
  <2>1. req \in Req /\ req.state = "Done" /\ PushCommitted(q, id, text) = Append(q, req)
    BY DEF Req, ConversionRequest, ConvState, PushCommitted
  <2> HIDE DEF req
  <2>2. \A js : Worked(q, js) => Worked(Append(q, req), js)
    BY <2>1, AppendWorked
  <2>3. PendingAt(q) = {} => PendingAt(Append(q, req)) = {}
    <3> SUFFICES ASSUME PendingAt(q) = {} PROVE PendingAt(Append(q, req)) = {}
      OBVIOUS
    <3>1. Worked(q, {})
      BY DEF Worked
    <3>2. Worked(Append(q, req), {})
      BY <2>2, <3>1
    <3> QED BY <3>2 DEF Worked
  <2> QED BY <2>1, <2>2, <2>3
<1>3. Worked(TypedQueue, jobs) /\ (PendingAt(queue) = {} => PendingAt(TypedQueue) = {})
  BY <1>1, <1>2 DEF TypedQueue
<1> QED BY <1>1, <1>2, <1>3 DEF EnterQueue

\* With the sessions of its keys granted, Enter confirms what is ready.
LEMMA EnterCommits ==
  ASSUME "denyKey" \notin Faults, "noStart" \notin Faults, EnterKey
  PROVE  CommitReadyInOrder(EnterQueue, <<>>)
<1>1. PICK granted \in Granted("denyKey"), started \in Started :
        IF granted /\ started
          THEN CommitReadyInOrder(EnterQueue, <<>>)
          ELSE /\ queue' = EnterQueue /\ session' = <<>>
               /\ UNCHANGED <<history, host>>
  BY DEF EnterKey, EnterQueue, TypedQueue, NewlineId
<1>2. granted = TRUE /\ started = TRUE
  BY DEF Granted, Started
<1> QED BY <1>1, <1>2

LEMMA EnterKeyHead ==
  ASSUME "denyKey" \notin Faults, "noStart" \notin Faults, IInv, TInv, HeadInv, EnterKey
  PROVE  HeadInv'
<1>1. /\ QueueOK(EnterQueue, NewlineId + 1, jobs) /\ SourcesOK(EnterQueue)
      /\ EnterQueue # <<>> /\ EnterQueue \in Seq(Req)
  BY EnterShape, EnterTexts DEF QueueOK
<1>2. HeadPending' /\ (queue' = <<>> \/ queue' = Unready(EnterQueue))
  BY <1>1, EnterCommits, CommitHead
<1>3. jobs' = jobs
  BY DEF EnterKey
<1>4. Worked(queue', jobs)
  BY <1>1, <1>2, EnterQueueWorked, UnreadyWorked, EmptyWorked DEF HeadInv
<1> QED BY <1>2, <1>3, <1>4 DEF HeadInv

LEMMA AnswerHead ==
  ASSUME "denyResult" \notin Faults, IInv, TInv, DraftInv, HeadInv,
         NEW job \in jobs, NEW ok \in BOOLEAN, flushes = <<>>, Answer(job, ok)
  PROVE  HeadInv'
<1>1. jobs' = jobs \ {job}
  BY DEF Answer
<1>2. CASE ~CanMark(queue, job.id)
  <2>1. queue' = queue
    BY <1>2 DEF Answer, model
  <2> QED BY <1>1, <1>2, <2>1, AnswerWorked DEF HeadInv, HeadPending
<1>3. CASE CanMark(queue, job.id)
  <2>1. queue # <<>>
    BY <1>3 DEF CanMark, PendingAt
  <2>2. composition /\ context
    BY <2>1, ViewNow, DraftCalm DEF Calm, AllEmpty
  <2>3. CommitReadyInOrder(AnswerQueue(job, ok), session)
    BY <1>3, <2>2 DEF Answer, AnswerQueue, Granted
  <2>4. /\ QueueOK(AnswerQueue(job, ok), nextId, jobs) /\ SourcesOK(AnswerQueue(job, ok))
        /\ AnswerQueue(job, ok) # <<>>
    BY <2>1, AnswerShape
  <2>5. HeadPending' /\ (queue' = <<>> \/ queue' = Unready(AnswerQueue(job, ok)))
    BY <2>3, <2>4, CommitHead
  <2>6. Worked(queue', jobs \ {job})
    <3>1. AnswerQueue(job, ok) \in Seq(Req)
      BY <2>4 DEF QueueOK
    <3>2. Worked(AnswerQueue(job, ok), jobs \ {job})
      BY AnswerWorked DEF HeadInv
    <3>3. Worked(Unready(AnswerQueue(job, ok)), jobs \ {job})
      BY <3>1, <3>2, UnreadyWorked
    <3> QED BY <2>5, <3>3, EmptyWorked
  <2> QED BY <1>1, <2>5, <2>6 DEF HeadInv
<1> QED BY <1>2, <1>3

LEMMA StepHead ==
  ASSUME Faults \subseteq KindFaults \ {"denyResult", "lost"}, DInv, HeadInv, [Next]_vars
  PROVE  HeadInv'
<1>0. /\ "lost" \notin Faults /\ "denyResult" \notin Faults
      /\ "denyKey" \notin Faults /\ "noStart" \notin Faults
      /\ Faults \subseteq KindFaults
      /\ IInv /\ TInv /\ DraftInv
  BY DEF KindFaults, DInv
<1>1. CASE TriggerKey
  BY <1>0, <1>1, TriggerKeyHead
<1>2. CASE EnterKey
  BY <1>0, <1>2, EnterKeyHead
<1>3. CASE AppendKey \/ BackspaceKey \/ EscapeKey \/ PassThroughKey
  BY <1>3, StillHead DEF AppendKey, BackspaceKey, EscapeKey, PassThroughKey, AppInserts, work, model
<1>4. CASE ModeKey
  BY <1>4, StillHead DEF ModeKey, FlushAsRaw, work, model
<1>5. CASE \E o \in BOOLEAN : AppSetsOpen(o)
  BY <1>5, StillHead DEF AppSetsOpen, work, model
<1>6. CASE RunFlush
  BY <1>6, StillHead DEF RunFlush, work, model
<1>7. CASE ConvertResult
  <2>1. PICK job \in jobs, ok \in BOOLEAN : Answer(job, ok)
    BY <1>7 DEF ConvertResult
  <2>2. flushes = <<>>
    BY <1>0, <2>1, KindHost DEF Answer
  <2> QED BY <1>0, <2>1, <2>2, AnswerHead
<1>8. CASE \E job \in jobs : LoseAnswer(job)
  BY <1>0, <1>8 DEF LoseAnswer
<1>9. CASE CompositionTerminated \/ Deactivate
  BY <1>9, StillHead DEF CompositionTerminated, Deactivate, Abandon
<1>10. CASE ActivateEx
  BY <1>10, StillHead DEF ActivateEx, work, model
<1>11. CASE UNCHANGED vars
  BY <1>11, StillHead DEF vars, work, model
<1> QED BY <1>1, <1>2, <1>3, <1>4, <1>5, <1>6, <1>7, <1>8, <1>9, <1>10, <1>11
        DEF Next, Keys

\* Nothing that is ready waits behind nothing: the queue begins with a request
\* whose answer is still being worked out, and every request that waits has
\* its job, with its text (TextService.cpp:573 and 594).
THEOREM ReadyNeverWaits ==
  ASSUME Faults \subseteq KindFaults \ {"denyResult", "lost"}
  PROVE  Spec => []HeadIsConverting
<1>1. Faults \subseteq KindFaults
  OBVIOUS
<1>2. Init => HeadInv
  BY EmptyWorked DEF Init, HeadInv, HeadPending
<1>3. DInv /\ HeadInv /\ [Next]_vars => HeadInv'
  BY StepHead
<1>4. DInv /\ HeadInv => HeadIsConverting
  <2> SUFFICES ASSUME DInv, HeadInv PROVE HeadIsConverting
    OBVIOUS
  <2>1. ASSUME NEW i \in PendingAt(queue)
        PROVE  \E j \in jobs : j.id = queue[i].id /\ j.source = queue[i].source
    <3>1. PICK j \in jobs : j.id = queue[i].id
      BY DEF HeadInv, Worked
    <3>2. queue[i].source = j.source
      BY <3>1 DEF DInv, IInv, QueueOK, PendingAt
    <3> QED BY <3>1, <3>2
  <2> QED BY <2>1 DEF HeadInv, HeadPending, HeadIsConverting
<1> QED BY <1>1, <1>2, <1>3, <1>4, DraftInvariance, PTL DEF Spec

\* Enter with nothing under conversion confirms at once: the text as typed and
\* then the newline, in that order (TextService.cpp:782), as long as the session
\* can write (TextService.cpp:549).
THEOREM EnterIsImmediate ==
  ASSUME "denyKey" \notin Faults, "noStart" \notin Faults,
         "noRange" \notin Faults, "noText" \notin Faults
  PROVE  Spec => EnterConfirmsAtOnce
<1>1. Init => IInv /\ TInv
  BY InitInv, InitTexts
<1>2. IInv /\ TInv /\ [Next]_vars => (IInv /\ TInv)'
  BY StepInv, StepTexts
<1>3. ASSUME IInv, TInv, EnterKey, PendingAt(queue) = {}
      PROVE  AllEmpty' /\ left' = left \o View(queue, session) \o <<Typed>>
  <2> DEFINE q == EnterQueue
             committed == Concat(Ready(q))
  <2>1. /\ QueueOK(q, NewlineId + 1, jobs) /\ SourcesOK(q) /\ q # <<>> /\ q \in Seq(Req)
        /\ Concat(q) = View(queue, session) \o <<Typed>>
    BY <1>3, EnterShape, EnterTexts DEF QueueOK
  <2>2. PendingAt(q) = {}
    <3>1. Worked(queue, jobs)
      BY <1>3 DEF Worked
    <3> QED BY <1>3, <3>1, EnterQueueWorked
  <2>3. CommitReadyInOrder(q, <<>>)
    BY <1>3, EnterCommits
  <2> HIDE DEF q
  <2>4. Unready(q) = <<>> /\ Ready(q) \o Unready(q) = q /\ Ready(q) \in Seq(Req)
    BY <2>1, <2>2, ReadySplit
  <2>5. Ready(q) = q
    BY <2>4, ConcatEmptySeq
  <2>6. committed # <<>>
    BY <2>1, <2>5, KeyedQueue
  <2>7. queue' = <<>> /\ session' = <<>> /\ left' = left \o committed
    <3>1. queue' = <<>> /\ session' = <<>> /\ CommitText(committed)
      BY <2>3, <2>4, <2>6 DEF CommitReadyInOrder
    <3>2. ~Unwritten
      BY DEF Unwritten
    <3> HIDE DEF committed
    <3> QED BY <3>1, <3>2 DEF CommitText
  <2>8. left \o (View(queue, session) \o <<Typed>>) = (left \o View(queue, session)) \o <<Typed>>
    <3>1. left \in Text /\ View(queue, session) \in Text
      BY <1>3, ViewNow
    <3>2. <<Typed>> \in Text
      BY <1>3, EnterShape, TypedText DEF IInv, Scalars
    <3> DEFINE w == <<Typed>>
    <3> HIDE DEF w
    <3> QED BY <3>1, <3>2, TokenAssoc DEF w, Text
  <2> QED BY <2>1, <2>5, <2>7, <2>8 DEF AllEmpty
<1> QED BY <1>1, <1>2, <1>3, PTL DEF Spec, EnterConfirmsAtOnce

----------------------------------------------------------------------------
\* The context given to a conversion, and the history it is cut from.

\* Cutting a sequence down to its last elements takes some off its front.
LEMMA LastOfSuffix ==
  ASSUME NEW S, NEW s \in Seq(S), NEW n \in Nat
  PROVE  \E p \in Seq(S) : s = p \o LastOf(s, n)
<1>1. Len(s) \in Nat
  BY LenProperties
<1>2. CASE Len(s) > n
  <2> DEFINE k == Len(s) - n
  <2>1. /\ 1 \in 1..(Len(s) + 1) /\ k \in (1 - 1)..Len(s) /\ k \in 0..Len(s) /\ Len(s) \in k..Len(s)
        /\ k \in Int /\ 1 \in Int
    BY <1>1, <1>2
  <2>2. LastOf(s, n) = SubSeq(s, k + 1, Len(s))
    BY <1>2 DEF LastOf
  <2> HIDE DEF k
  <2>3. SubSeq(s, 1, k) \o SubSeq(s, k + 1, Len(s)) = SubSeq(s, 1, Len(s))
    BY <2>1, ConcatAdjacentSubSeq
  <2>4. SubSeq(s, 1, Len(s)) = s
    BY SubSeqFull
  <2>5. SubSeq(s, 1, k) \in Seq(S)
    <3>1. \A i \in 1..k : s[i] \in S
      <4>1. \A i \in 1..k : i \in 1..Len(s)
        BY <1>1, <2>1
      <4> QED BY <4>1, ElementOfSeq
    <3> QED BY <2>1, <3>1, SubSeqProperties
  <2> QED BY <2>2, <2>3, <2>4, <2>5
<1>3. CASE ~(Len(s) > n)
  <2>1. LastOf(s, n) = s /\ <<>> \in Seq(S) /\ <<>> \o s = s
    BY <1>3, EmptySeq, ConcatEmptySeq DEF LastOf
  <2> QED BY <2>1
<1> QED BY <1>2, <1>3

\* A text has its words in order, none before another typed earlier, and they
\* are all in the document.
Rising(t)   == \A i, j \in Words(t) : i < j => t[i].at < t[j].at
Drawn(t, l) == \A i \in Words(t) : t[i] \in ToSet(l)
Fits(t, l)  == Rising(t) /\ Drawn(t, l)

\* Where the tokens of two texts one after the other come from.
LEMMA ConcatTokens ==
  ASSUME NEW a \in Text, NEW b \in Text
  PROVE  /\ Len(a) \in Nat /\ Len(b) \in Nat
         /\ DOMAIN a = 1..Len(a) /\ DOMAIN b = 1..Len(b)
         /\ DOMAIN (a \o b) = 1..(Len(a) + Len(b))
         /\ \A i \in 1..Len(a) : i \in DOMAIN (a \o b) /\ (a \o b)[i] = a[i]
         /\ \A i \in 1..Len(b) : Len(a) + i \in DOMAIN (a \o b) /\ (a \o b)[Len(a) + i] = b[i]
         /\ \A i \in DOMAIN (a \o b) : \/ i \in 1..Len(a)
                                       \/ i - Len(a) \in 1..Len(b) /\ i = Len(a) + (i - Len(a))
<1> DEFINE m == Len(a)
           n == Len(b)
           c == a \o b
<1>1. /\ DOMAIN c = 1..(m + n) /\ DOMAIN a = 1..m /\ DOMAIN b = 1..n
      /\ m \in Nat /\ n \in Nat
      /\ \A i \in 1..(m + n) : c[i] = IF i <= m THEN a[i] ELSE b[i - m]
  BY ConcatProperties, LenProperties DEF Text
<1> HIDE DEF m, n, c
<1>2. ASSUME NEW i \in 1..m PROVE i \in 1..(m + n) /\ c[i] = a[i]
  BY <1>1
<1>3. ASSUME NEW i \in 1..n PROVE m + i \in 1..(m + n) /\ c[m + i] = b[i]
  <2>1. m + i \in 1..(m + n) /\ ~(m + i <= m) /\ (m + i) - m = i
    BY <1>1
  <2>2. c[m + i] = b[(m + i) - m]
    BY <1>1, <2>1
  <2> QED BY <2>1, <2>2
<1>4. ASSUME NEW i \in 1..(m + n) PROVE i \in 1..m \/ (i - m \in 1..n /\ i = m + (i - m))
  BY <1>1
<1> QED BY <1>1, <1>2, <1>3, <1>4 DEF m, n, c

LEMMA SuffixFits ==
  ASSUME NEW a \in Text, NEW b \in Text, NEW l, Fits(a \o b, l)
  PROVE  Fits(b, l)
<1> DEFINE c == a \o b
           m == Len(a)
<1>1. /\ m \in Nat /\ Len(b) \in Nat /\ DOMAIN b = 1..Len(b)
      /\ \A i \in 1..Len(b) : m + i \in DOMAIN c /\ c[m + i] = b[i]
  BY ConcatTokens
<1>2. Fits(c, l)
  OBVIOUS
<1> HIDE DEF c, m
<1>3. \A i \in Words(b) : i \in 1..Len(b) /\ m + i \in Words(c) /\ c[m + i] = b[i]
  BY <1>1 DEF Words
<1>4. Drawn(b, l)
  BY <1>2, <1>3 DEF Fits, Drawn
<1>5. ASSUME NEW i \in Words(b), NEW j \in Words(b), i < j PROVE b[i].at < b[j].at
  <2>1. m + i < m + j
    BY <1>1, <1>3, <1>5
  <2>2. c[m + i].at < c[m + j].at
    BY <1>2, <1>3, <2>1 DEF Fits, Rising
  <2> QED BY <1>3, <2>2
<1> QED BY <1>4, <1>5 DEF Fits, Rising

LEMMA LaterFits ==
  ASSUME NEW t, NEW l \in Text, NEW x \in Text, Fits(t, l)
  PROVE  Fits(t, l \o x)
<1>1. ToSet(l \o x) = ToSet(l) \cup ToSet(x)
  BY ToSetConcat DEF Text
<1> QED BY <1>1 DEF Fits, Drawn

\* A token of the front of an increasing text was typed before one of its end.
LEMMA FrontIsOlder ==
  ASSUME NEW a \in Text, NEW b \in Text, Increasing(Stamps(a \o b)),
         NEW x \in ToSet(a), NEW y \in ToSet(b)
  PROVE  x.at < y.at
<1> DEFINE c == a \o b
           m == Len(a)
<1>1. /\ m \in Nat /\ Len(b) \in Nat /\ DOMAIN a = 1..m /\ DOMAIN b = 1..Len(b)
      /\ \A i \in 1..m : i \in DOMAIN c /\ c[i] = a[i]
      /\ \A i \in 1..Len(b) : m + i \in DOMAIN c /\ c[m + i] = b[i]
  BY ConcatTokens
<1>2. Increasing(Stamps(c))
  OBVIOUS
<1> HIDE DEF c, m
<1>3. PICK i \in 1..m : x = a[i]
  BY <1>1 DEF ToSet
<1>4. PICK j \in 1..Len(b) : y = b[j]
  BY <1>1 DEF ToSet
<1>5. i < m + j /\ i \in DOMAIN c /\ m + j \in DOMAIN c
  BY <1>1
<1>6. c[i].at < c[m + j].at
  BY <1>2, <1>5 DEF Increasing, Stamps
<1> QED BY <1>1, <1>3, <1>4, <1>6

LEMMA IncreasingRises ==
  ASSUME NEW t, Increasing(Stamps(t)) PROVE Rising(t)
BY DEF Increasing, Stamps, Rising, Words

\* What is confirmed next fits behind what fits.
LEMMA ConcatFits ==
  ASSUME NEW a \in Text, NEW b \in Text, NEW l \in Text, Fits(a, l),
         Increasing(Stamps(l \o b))
  PROVE  Fits(a \o b, l \o b)
<1> DEFINE c == a \o b
           m == Len(a)
<1>1. /\ m \in Nat /\ Len(b) \in Nat /\ DOMAIN a = 1..m /\ DOMAIN b = 1..Len(b)
      /\ \A i \in 1..m : i \in DOMAIN c /\ c[i] = a[i]
      /\ \A i \in 1..Len(b) : m + i \in DOMAIN c /\ c[m + i] = b[i]
      /\ \A i \in DOMAIN c : i \in 1..m \/ (i - m \in 1..Len(b) /\ i = m + (i - m))
  BY ConcatTokens
<1>2. ToSet(l \o b) = ToSet(l) \cup ToSet(b)
  BY ToSetConcat DEF Text
<1>3. Rising(b)
  <2>1. /\ Len(l) \in Nat /\ DOMAIN b = 1..Len(b)
        /\ \A i \in 1..Len(b) : Len(l) + i \in DOMAIN (l \o b) /\ (l \o b)[Len(l) + i] = b[i]
    BY ConcatTokens
  <2>2. ASSUME NEW i \in 1..Len(b), NEW j \in 1..Len(b), i < j PROVE b[i].at < b[j].at
    <3>1. Len(l) + i < Len(l) + j
      BY <1>1, <2>1, <2>2
    <3>2. (l \o b)[Len(l) + i].at < (l \o b)[Len(l) + j].at
      BY <2>1, <3>1 DEF Increasing, Stamps
    <3> QED BY <2>1, <3>2
  <2> QED BY <2>1, <2>2 DEF Rising, Words
<1>4. \A x \in ToSet(l), y \in ToSet(b) : x.at < y.at
  BY FrontIsOlder
<1> HIDE DEF c, m
<1>5. \A i \in Words(c) : \/ i \in Words(a) /\ i \in 1..m /\ c[i] = a[i]
                          \/ /\ i - m \in Words(b) /\ i - m \in 1..Len(b)
                             /\ i = m + (i - m) /\ c[i] = b[i - m]
  <2> SUFFICES ASSUME NEW i \in Words(c)
               PROVE  \/ i \in Words(a) /\ i \in 1..m /\ c[i] = a[i]
                      \/ /\ i - m \in Words(b) /\ i - m \in 1..Len(b)
                         /\ i = m + (i - m) /\ c[i] = b[i - m]
    OBVIOUS
  <2>1. i \in DOMAIN c /\ c[i] # Space
    BY DEF Words
  <2>2. CASE i \in 1..m
    BY <1>1, <2>1, <2>2 DEF Words
  <2>3. CASE i - m \in 1..Len(b) /\ i = m + (i - m)
    <3> DEFINE k == i - m
    <3>1. k \in 1..Len(b) /\ i = m + k
      BY <2>3
    <3> HIDE DEF k
    <3>2. c[i] = b[k] /\ k \in Words(b)
      BY <1>1, <2>1, <3>1 DEF Words
    <3> QED BY <2>3, <3>1, <3>2 DEF k
  <2> QED BY <1>1, <2>1, <2>2, <2>3
<1>6. \A i \in Words(b) : b[i] \in ToSet(b)
  BY DEF Words, ToSet
<1>7. Drawn(c, l \o b)
  <2> SUFFICES ASSUME NEW i \in Words(c) PROVE c[i] \in ToSet(l) \cup ToSet(b)
    BY <1>2 DEF Drawn
  <2> QED BY <1>5, <1>6 DEF Fits, Drawn
<1>8. ASSUME NEW i \in Words(c), NEW j \in Words(c), i < j PROVE c[i].at < c[j].at
  <2>1. CASE i \in Words(a) /\ c[i] = a[i] /\ j \in Words(a) /\ c[j] = a[j]
    BY <1>8, <2>1 DEF Fits, Rising
  <2>2. CASE i \in Words(a) /\ c[i] = a[i] /\ j - m \in Words(b) /\ c[j] = b[j - m]
    <3>1. a[i] \in ToSet(l) /\ b[j - m] \in ToSet(b)
      BY <1>6, <2>2 DEF Fits, Drawn
    <3>2. a[i].at < b[j - m].at
      BY <1>4, <3>1
    <3> QED BY <2>2, <3>2
  <2>3. CASE /\ i - m \in Words(b) /\ c[i] = b[i - m] /\ i = m + (i - m) /\ i - m \in 1..Len(b)
             /\ j \in 1..m
    BY <1>1, <1>8, <2>3
  <2>4. CASE /\ i - m \in Words(b) /\ c[i] = b[i - m] /\ i = m + (i - m) /\ i - m \in 1..Len(b)
             /\ j - m \in Words(b) /\ c[j] = b[j - m] /\ j = m + (j - m) /\ j - m \in 1..Len(b)
    <3>1. i - m < j - m
      BY <1>1, <1>8, <2>4
    <3>2. b[i - m].at < b[j - m].at
      BY <1>3, <2>4, <3>1 DEF Rising
    <3> QED BY <2>4, <3>2
  <2> QED BY <1>5, <2>1, <2>2, <2>3, <2>4
<1> QED BY <1>7, <1>8 DEF Fits, Rising, c

LEMMA SpaceText == <<Space>> \in Text
<1>1. Space \in Token
  BY MaxKeysAssumption DEF Space, Token
<1> QED BY <1>1 DEF Text

\* The blank between two entries disturbs no order.
LEMMA SpaceFits ==
  ASSUME NEW a \in Text, NEW l, Fits(a, l)
  PROVE  a \o <<Space>> \in Text /\ Fits(a \o <<Space>>, l)
<1> DEFINE s == <<Space>>
           c == a \o s
<1>1. s \in Text /\ Len(s) = 1 /\ s[1] = Space
  BY SpaceText
<1>2. c \in Text
  BY <1>1, TextConcat
<1>3. Words(c) = Words(a) /\ \A i \in Words(a) : c[i] = a[i]
  <2>1. /\ Len(a) \in Nat /\ DOMAIN a = 1..Len(a)
        /\ \A i \in 1..Len(a) : i \in DOMAIN c /\ c[i] = a[i]
        /\ \A i \in 1..Len(s) : Len(a) + i \in DOMAIN c /\ c[Len(a) + i] = s[i]
        /\ \A i \in DOMAIN c : i \in 1..Len(a) \/ (i - Len(a) \in 1..Len(s)
                                                   /\ i = Len(a) + (i - Len(a)))
    <3> HIDE DEF s
    <3> QED BY <1>1, ConcatTokens
  <2> HIDE DEF s, c
  <2>2. ASSUME NEW i \in DOMAIN c, i \notin 1..Len(a) PROVE c[i] = Space
    <3>1. i - Len(a) \in 1..Len(s) /\ i = Len(a) + (i - Len(a))
      BY <2>1, <2>2
    <3>2. i - Len(a) = 1 /\ i = Len(a) + 1
      BY <1>1, <2>1, <3>1
    <3>3. 1 \in 1..Len(s) /\ c[Len(a) + 1] = s[1]
      BY <1>1, <2>1
    <3> QED BY <1>1, <3>2, <3>3
  <2> QED BY <2>1, <2>2 DEF Words
<1> HIDE DEF c
<1>4. Fits(c, l)
  BY <1>3 DEF Fits, Rising, Drawn
<1> QED BY <1>2, <1>4 DEF c

\* Entries joined with blanks between them.
Joints(h) == [i \in DOMAIN h |-> IF i = 1 THEN h[i] ELSE <<Space>> \o h[i]]
Joined(h) == FlattenSeq(Joints(h))

LEMMA JointsShape ==
  ASSUME NEW h \in Seq(Text)
  PROVE  /\ Joints(h) \in Seq(Text) /\ Len(Joints(h)) = Len(h) /\ Len(h) \in Nat
         /\ \A i \in 1..Len(h) : Joints(h)[i] = IF i = 1 THEN h[i] ELSE <<Space>> \o h[i]
         /\ Joined(h) \in Text /\ FlattenSeq(h) \in Text
<1>1. Len(h) \in Nat /\ DOMAIN h = 1..Len(h) /\ \A i \in 1..Len(h) : h[i] \in Text
  BY LenProperties, ElementOfSeq
<1>2. \A i \in 1..Len(h) : (IF i = 1 THEN h[i] ELSE <<Space>> \o h[i]) \in Text
  BY <1>1, SpaceText, TextConcat
<1>3. Joints(h) = [i \in 1..Len(h) |-> IF i = 1 THEN h[i] ELSE <<Space>> \o h[i]]
  BY <1>1 DEF Joints
<1>4. Joints(h) \in Seq(Text)
  BY <1>1, <1>2, <1>3, IsASeq
<1>5. 1..Len(Joints(h)) = 1..Len(h) /\ Len(Joints(h)) \in Nat
  BY <1>3, <1>4, LenProperties
<1>6. Joined(h) \in Text /\ FlattenSeq(h) \in Text
  BY <1>4, FlattenType DEF Joined, Text
<1> QED BY <1>1, <1>3, <1>4, <1>5, <1>6

\* The rest of a sequence, place by place.
LEMMA TailShape ==
  ASSUME NEW S, NEW s \in Seq(S), s # <<>>
  PROVE  /\ Tail(s) \in Seq(S) /\ Len(s) \in Nat \ {0} /\ Len(Tail(s)) = Len(s) - 1
         /\ s[1] \in S
         /\ \A i \in 1..(Len(s) - 1) : Tail(s)[i] = s[i + 1]
         /\ s = <<s[1]>> \o Tail(s)
<1>1. /\ Tail(s) \in Seq(S) /\ Len(Tail(s)) = Len(s) - 1 /\ Len(s) \in Nat \ {0}
  BY HeadTailProperties, EmptySeq
<1>2. s[1] \in S
  BY <1>1, ElementOfSeq
<1>3. \A i \in 1..(Len(s) - 1) : Tail(s)[i] = s[i + 1]
  BY <1>1
<1>4. s = <<s[1]>> \o Tail(s)
  <2>1. 1 \in 1..Len(s) /\ Len(s) \in 1..Len(s)
    BY <1>1
  <2>2. SubSeq(s, 1, Len(s)) = <<s[1]>> \o SubSeq(s, 1 + 1, Len(s))
    BY <2>1, SubSeqRecursiveFirst
  <2>3. Tail(s) = SubSeq(s, 1 + 1, Len(s))
    BY TailIsSubSeq
  <2> QED BY <2>2, <2>3, SubSeqFull
<1> QED BY <1>1, <1>2, <1>3, <1>4

LEMMA FlattenTail ==
  ASSUME NEW h \in Seq(Text), h # <<>>
  PROVE  FlattenSeq(h) = h[1] \o FlattenSeq(Tail(h)) /\ FlattenSeq(Tail(h)) \in Text
<1>1. h[1] \in Text /\ Tail(h) \in Seq(Text) /\ h = <<h[1]>> \o Tail(h)
  BY TailShape
<1> DEFINE x == <<h[1]>>
           t == Tail(h)
<1>2. x \in Seq(Seq(Token)) /\ t \in Seq(Seq(Token)) /\ h[1] \in Seq(Token)
  BY <1>1 DEF Text
<1>3. FlattenSeq(x) = h[1]
  BY <1>2, FlattenOne
<1> HIDE DEF x, t
<1>4. FlattenSeq(x \o t) = FlattenSeq(x) \o FlattenSeq(t) /\ FlattenSeq(t) \in Seq(Token)
  BY <1>2, FlattenConcat, FlattenType
<1> QED BY <1>1, <1>3, <1>4 DEF x, t, Text

\* An entry more is a blank and a text more.
LEMMA JoinedAppend ==
  ASSUME NEW h \in Seq(Text), NEW t \in Text
  PROVE  Joined(Append(h, t)) = IF h = <<>> THEN t ELSE (Joined(h) \o <<Space>>) \o t
<1> DEFINE g == Append(h, t)
           n == Len(h)
           e == IF h = <<>> THEN t ELSE <<Space>> \o t
<1>1. /\ g \in Seq(Text) /\ Len(g) = n + 1 /\ n \in Nat
      /\ \A i \in 1..n : g[i] = h[i]
      /\ g[n + 1] = t
      /\ (h = <<>> <=> n = 0)
  BY AppendProperties, LenProperties, EmptySeq
<1>2. e \in Text
  BY SpaceText, TextConcat
<1>3. /\ Joints(h) \in Seq(Text) /\ Len(Joints(h)) = n
      /\ \A i \in 1..n : Joints(h)[i] = IF i = 1 THEN h[i] ELSE <<Space>> \o h[i]
      /\ Joined(h) \in Text
  BY JointsShape
<1>4. /\ Joints(g) \in Seq(Text) /\ Len(Joints(g)) = n + 1
      /\ \A i \in 1..(n + 1) : Joints(g)[i] = IF i = 1 THEN g[i] ELSE <<Space>> \o g[i]
  <2> HIDE DEF g
  <2> QED BY <1>1, JointsShape
<1>5. Joints(g) = Append(Joints(h), e)
  <2> DEFINE x == Joints(g)
             y == Append(Joints(h), e)
  <2>1. /\ y \in Seq(Text) /\ Len(y) = n + 1 /\ y[n + 1] = e
        /\ \A i \in 1..n : y[i] = Joints(h)[i]
    <3> HIDE DEF e
    <3> QED BY <1>2, <1>3, AppendProperties
  <2>2. ASSUME NEW i \in 1..(n + 1) PROVE x[i] = y[i]
    <3>1. CASE i \in 1..n
      <4>1. x[i] = IF i = 1 THEN g[i] ELSE <<Space>> \o g[i]
        BY <1>4
      <4>2. g[i] = h[i]
        BY <1>1, <3>1
      <4>3. y[i] = IF i = 1 THEN h[i] ELSE <<Space>> \o h[i]
        BY <1>3, <2>1, <3>1
      <4> HIDE DEF x, y, g
      <4> QED BY <4>1, <4>2, <4>3
    <3>2. CASE i = n + 1
      <4>1. n + 1 = 1 <=> h = <<>>
        BY <1>1
      <4>2. x[i] = IF i = 1 THEN g[i] ELSE <<Space>> \o g[i]
        BY <1>4
      <4> HIDE DEF g, n, y, x
      <4> QED BY <1>1, <2>1, <3>2, <4>1, <4>2
    <3> HIDE DEF n, x, y
    <3>3. i \in 1..n \/ i = n + 1
      BY <1>1
    <3> QED BY <3>1, <3>2, <3>3
  <2> HIDE DEF x, y
  <2>3. x \in Seq(Text) /\ Len(x) = Len(y)
    BY <1>4, <2>1 DEF x
  <2>4. \A i \in 1..Len(x) : x[i] = y[i]
    BY <1>4, <2>2 DEF x
  <2>5. x = y
    BY <2>1, <2>3, <2>4, SeqEqual
  <2> QED BY <2>5 DEF x, y
<1>6. Joined(g) = Joined(h) \o e
  <2> HIDE DEF e, g
  <2> QED BY <1>2, <1>3, <1>5, FlattenAppend DEF Joined, Text
<1>7. CASE h = <<>>
  <2>1. Joints(h) = <<>>
    BY <1>1, <1>3, <1>7, EmptySeq
  <2>2. Joined(h) = <<>>
    BY <2>1, FlattenEmpty DEF Joined
  <2> QED BY <1>6, <1>7, <2>2, ConcatEmptySeq DEF Text
<1>8. CASE h # <<>>
  <2> DEFINE a == Joined(h)
             s == <<Space>>
  <2>1. a \in Seq(Token) /\ s \in Seq(Token) /\ t \in Seq(Token)
    BY <1>3, SpaceText DEF Text
  <2>2. a \o (s \o t) = (a \o s) \o t
    <3> HIDE DEF a, s
    <3> QED BY <2>1, TokenAssoc
  <2> QED BY <1>6, <1>8, <2>2
<1> QED BY <1>7, <1>8

\* Without its first entry it has less of its front.
LEMMA JoinedTail ==
  ASSUME NEW h \in Seq(Text), h # <<>>
  PROVE  \E p \in Text : Joined(h) = p \o Joined(Tail(h))
<1> DEFINE g == Tail(h)
           J == Joints(h)
           K == Joints(g)
           n == Len(h)
<1>1. /\ g \in Seq(Text) /\ n \in Nat \ {0} /\ Len(g) = n - 1
      /\ \A i \in 1..(n - 1) : g[i] = h[i + 1]
  BY TailShape
<1>2. /\ J \in Seq(Text) /\ Len(J) = n
      /\ \A i \in 1..n : J[i] = IF i = 1 THEN h[i] ELSE <<Space>> \o h[i]
      /\ Joined(h) \in Text
  BY JointsShape
<1>3. /\ K \in Seq(Text) /\ Len(K) = n - 1
      /\ \A i \in 1..(n - 1) : K[i] = IF i = 1 THEN g[i] ELSE <<Space>> \o g[i]
      /\ Joined(g) \in Text
  <2> HIDE DEF g
  <2> QED BY <1>1, JointsShape
<1> HIDE DEF g, J, K, n
<1>4. CASE n = 1
  <2>1. K = <<>>
    BY <1>3, <1>4, EmptySeq
  <2>2. Joined(g) = <<>>
    BY <2>1, FlattenEmpty DEF Joined, K
  <2>3. Joined(h) = Joined(h) \o Joined(g)
    BY <1>2, <2>2, ConcatEmptySeq DEF Text
  <2> QED BY <1>2, <2>3 DEF g
<1>5. CASE n # 1
  <2> DEFINE R == Tail(J)
  <2>1. J # <<>> /\ K # <<>>
    BY <1>1, <1>2, <1>3, <1>5, EmptySeq
  <2>2. /\ R \in Seq(Text) /\ Len(R) = n - 1 /\ J[1] \in Text
        /\ \A i \in 1..(n - 1) : R[i] = J[i + 1]
    BY <1>2, <2>1, TailShape
  <2>3. FlattenSeq(J) = J[1] \o FlattenSeq(R)
    BY <1>2, <2>1, FlattenTail
  <2> HIDE DEF R
  <2>4. R # <<>>
    BY <1>1, <1>5, <2>2, EmptySeq
  <2>5. FlattenSeq(R) = R[1] \o FlattenSeq(Tail(R)) /\ FlattenSeq(Tail(R)) \in Text
    BY <2>2, <2>4, FlattenTail
  <2>6. FlattenSeq(K) = K[1] \o FlattenSeq(Tail(K))
    BY <1>3, <2>1, FlattenTail
  <2>7. K[1] \in Text /\ R[1] = <<Space>> \o K[1]
    <3>1. 1 \in 1..(n - 1) /\ 1 + 1 \in 1..n /\ 1 + 1 # 1
      BY <1>1, <1>5
    <3>2. R[1] = <<Space>> \o h[1 + 1]
      BY <1>2, <2>2, <3>1
    <3>3. K[1] = h[1 + 1]
      BY <1>1, <1>3, <3>1
    <3>4. K[1] \in Text
      BY <1>3, <3>1, ElementOfSeq
    <3> QED BY <3>2, <3>3, <3>4
  <2>8. Tail(R) = Tail(K)
    <3> DEFINE x == Tail(R)
               y == Tail(K)
    <3>1. /\ x \in Seq(Text) /\ Len(x) = (n - 1) - 1
          /\ \A i \in 1..((n - 1) - 1) : x[i] = R[i + 1]
      BY <2>2, <2>4, TailShape
    <3>2. /\ y \in Seq(Text) /\ Len(y) = (n - 1) - 1
          /\ \A i \in 1..((n - 1) - 1) : y[i] = K[i + 1]
      BY <1>3, <2>1, TailShape
    <3> HIDE DEF x, y
    <3>3. ASSUME NEW i \in 1..((n - 1) - 1) PROVE x[i] = y[i]
      <4>1. /\ i + 1 \in 1..(n - 1) /\ (i + 1) + 1 \in 1..n
            /\ i + 1 # 1 /\ (i + 1) + 1 # 1
        BY <1>1
      <4>2. R[i + 1] = <<Space>> \o h[(i + 1) + 1]
        BY <1>2, <2>2, <4>1
      <4>3. K[i + 1] = <<Space>> \o h[(i + 1) + 1]
        BY <1>1, <1>3, <4>1
      <4> QED BY <3>1, <3>2, <4>2, <4>3
    <3>4. x = y
      BY <3>1, <3>2, <3>3, SeqEqual
    <3> QED BY <3>4 DEF x, y
  <2> DEFINE a == J[1]
             s == <<Space>>
             b == K[1]
             c == FlattenSeq(Tail(K))
  <2>9. a \in Seq(Token) /\ s \in Seq(Token) /\ b \in Seq(Token) /\ c \in Seq(Token)
    BY <2>2, <2>5, <2>7, <2>8, SpaceText DEF Text
  <2>10. FlattenSeq(J) = a \o ((s \o b) \o c) /\ FlattenSeq(K) = b \o c
    BY <2>3, <2>5, <2>6, <2>7, <2>8
  <2> HIDE DEF a, s, b, c
  <2>11. a \o s \in Seq(Token) /\ b \o c \in Seq(Token)
    BY <2>9, ConcatProperties
  <2>12. (s \o b) \o c = s \o (b \o c)
    BY <2>9, TokenAssoc
  <2>13. a \o (s \o (b \o c)) = (a \o s) \o (b \o c)
    <3> DEFINE d == b \o c
    <3>1. d \in Seq(Token)
      BY <2>11
    <3> HIDE DEF d
    <3>2. a \o (s \o d) = (a \o s) \o d
      BY <2>9, <3>1, TokenAssoc
    <3> QED BY <3>2 DEF d
  <2>14. FlattenSeq(J) = (a \o s) \o FlattenSeq(K)
    BY <2>10, <2>12, <2>13
  <2> QED BY <2>11, <2>14 DEF Joined, J, K, g, Text
<1> QED BY <1>4, <1>5

\* The history fits the document, joined either way.
HistFits(h, l) == Fits(FlattenSeq(h), l) /\ Fits(Joined(h), l)

LEMMA NoHistoryFits == ASSUME NEW l PROVE HistFits(<<>>, l)
<1>1. Joints(<<>>) = <<>>
  BY DEF Joints
<1>2. FlattenSeq(<<>>) = <<>> /\ Joined(<<>>) = <<>>
  BY <1>1, FlattenEmpty DEF Joined
<1>3. Words(<<>>) = {}
  BY DEF Words
<1> QED BY <1>2, <1>3 DEF HistFits, Fits, Rising, Drawn

LEMMA PushFits ==
  ASSUME NEW h \in Seq(Text), Len(h) <= HistoryEntries, NEW t \in Text, NEW l \in Text,
         HistFits(h, l), Increasing(Stamps(l \o t))
  PROVE  HistFits(Push(h, t), l \o t)
<1> DEFINE g == Append(h, t)
<1>1. /\ g \in Seq(Text) /\ Len(g) = Len(h) + 1 /\ Len(h) \in Nat
      /\ HistoryEntries \in Nat \ {0}
  BY AppendProperties, LenProperties, HistoryAssumption
<1>2. FlattenSeq(h) \in Text /\ Joined(h) \in Text /\ FlattenSeq(g) \in Text /\ Joined(g) \in Text
  <2> HIDE DEF g
  <2> QED BY <1>1, JointsShape
<1>3. FlattenSeq(g) = FlattenSeq(h) \o t
  BY FlattenAppend DEF Text
<1>4. Fits(FlattenSeq(g), l \o t)
  BY <1>2, <1>3, ConcatFits DEF HistFits
<1>5. Fits(Joined(g), l \o t)
  <2>1. CASE h = <<>>
    <3>1. Joined(g) = t /\ FlattenSeq(g) = t
      BY <1>3, <2>1, JoinedAppend, FlattenEmpty, ConcatEmptySeq DEF Text
    <3> QED BY <1>4, <3>1
  <2>2. CASE h # <<>>
    <3> DEFINE j == Joined(h) \o <<Space>>
    <3>1. j \in Text /\ Fits(j, l)
      BY <1>2, SpaceFits DEF HistFits
    <3>2. Joined(g) = j \o t
      BY <2>2, JoinedAppend
    <3> HIDE DEF j, g
    <3> QED BY <3>1, <3>2, ConcatFits
  <2> QED BY <2>1, <2>2
<1> HIDE DEF g
<1>6. CASE t = <<>>
  <2>1. l \o t = l
    BY <1>6, ConcatEmptySeq DEF Text
  <2> QED BY <1>6, <2>1 DEF Push
<1>7. CASE t # <<>> /\ ~(Len(g) > HistoryEntries)
  BY <1>4, <1>5, <1>7 DEF Push, LastOf, HistFits, g
<1>8. CASE t # <<>> /\ Len(g) > HistoryEntries
  <2>1. Len(g) - HistoryEntries + 1 = 2 /\ g # <<>>
    BY <1>1, <1>8, EmptySeq
  <2>2. Push(h, t) = Tail(g)
    <3>1. Tail(g) = SubSeq(g, 2, Len(g))
      BY <1>1, <2>1, TailIsSubSeq
    <3> QED BY <1>8, <2>1, <3>1 DEF Push, LastOf, g
  <2>3. Tail(g) \in Seq(Text) /\ g[1] \in Text
    BY <1>1, <2>1, TailShape
  <2>4. Joined(Tail(g)) \in Text /\ FlattenSeq(Tail(g)) \in Text
    BY <2>3, JointsShape
  <2>5. Fits(FlattenSeq(Tail(g)), l \o t)
    <3>1. FlattenSeq(g) = g[1] \o FlattenSeq(Tail(g))
      BY <1>1, <2>1, FlattenTail
    <3> QED BY <1>4, <2>3, <2>4, <3>1, SuffixFits
  <2>6. Fits(Joined(Tail(g)), l \o t)
    <3>1. PICK p \in Text : Joined(g) = p \o Joined(Tail(g))
      BY <1>1, <2>1, JoinedTail
    <3> QED BY <1>5, <2>4, <3>1, SuffixFits
  <2> QED BY <2>2, <2>5, <2>6 DEF HistFits
<1> QED BY <1>6, <1>7, <1>8

----------------------------------------------------------------------------
\* What the jobs carry: text that was confirmed when they were made, older than
\* what they are to convert.
JobFits(j, l) == /\ Fits(j.context, l)
                 /\ \A x \in ToSet(j.context), y \in ToSet(j.source) : x.at < y.at

ContextInv == HistFits(history, left) /\ \A j \in jobs : JobFits(j, left)

\* What any call does to them: a text is added to the document, and is pushed or
\* not; a job is made of the segment and the history.
Remembers == \E t \in Text : left' = left \o t /\ history' \in {history, Push(history, t)}
Asks == \A j \in jobs' : j \in jobs \/ (j.context = HistoryTail(history) /\ j.source = session)

LEMMA OrderedDocument ==
  ASSUME DInv
  PROVE  /\ left \in Text /\ history \in Seq(Text) /\ Len(history) <= HistoryEntries
         /\ session \in Text /\ Keyed(session)
         /\ Increasing(Stamps(left))
         /\ \A x \in ToSet(left), y \in ToSet(session) : x.at < y.at
<1>1. /\ left \in Text /\ history \in Seq(Text) /\ Len(history) <= HistoryEntries
      /\ session \in Text /\ Keyed(session)
  BY DEF DInv, IInv, Scalars, TInv, TextTypeOK
<1>2. /\ Draft \in Text /\ document \in Seq(Nat) /\ draft \in Seq(Nat)
      /\ Stamps(left \o Draft) = document \o draft
  BY DraftTexts
<1>3. Increasing(document \o draft)
  BY DEF DInv, Stream
<1>4. Increasing(Stamps(left))
  <2> DEFINE a == document
             b == draft
  <2>1. a \in Seq(Nat) /\ b \in Seq(Nat) /\ Increasing(a \o b)
    BY <1>2, <1>3
  <2> HIDE DEF a, b
  <2>2. Increasing(a)
    BY <2>1, IncreasingParts
  <2> QED BY <2>2 DEF a, document
<1>5. \A x \in ToSet(left), y \in ToSet(Draft) : x.at < y.at
  BY <1>1, <1>2, <1>3, FrontIsOlder
<1>6. ToSet(session) \subseteq ToSet(Draft)
  <2> DEFINE f == FlattenSeq(flushes)
             c == Concat(queue)
  <2>1. f \in Seq(Token) /\ c \in Seq(Token) /\ session \in Seq(Token) /\ c \o session \in Seq(Token)
    <3>1. f \in Seq(Token)
      BY FlattenType DEF DInv, TInv, TextTypeOK, Text
    <3>2. c \in Text
      BY KeyedQueue DEF DInv, IInv, TInv
    <3> QED BY <1>1, <3>1, <3>2, ConcatProperties DEF Text
  <2>2. Draft = f \o (c \o session)
    BY DEF Draft, View
  <2> HIDE DEF f, c
  <2>3. ToSet(c \o session) = ToSet(c) \cup ToSet(session)
    BY <2>1, ToSetConcat
  <2>4. ToSet(f \o (c \o session)) = ToSet(f) \cup ToSet(c \o session)
    <3> DEFINE d == c \o session
    <3>1. d \in Seq(Token)
      BY <2>1
    <3> HIDE DEF d
    <3>2. ToSet(f \o d) = ToSet(f) \cup ToSet(d)
      BY <2>1, <3>1, ToSetConcat
    <3> QED BY <3>2 DEF d
  <2> QED BY <2>2, <2>3, <2>4
<1> QED BY <1>1, <1>4, <1>5, <1>6

LEMMA NextDocument ==
  DInv' => (left \in Text /\ Increasing(Stamps(left)))'
<1>1. DInv => left \in Text /\ Increasing(Stamps(left))
  BY OrderedDocument
<1> QED BY <1>1, PTL

\* The context of a job made now.
LEMMA TailFits ==
  ASSUME DInv, HistFits(history, left)
  PROVE  /\ Fits(HistoryTail(history), left)
         /\ \A x \in ToSet(HistoryTail(history)), y \in ToSet(session) : x.at < y.at
<1> DEFINE t == HistoryTail(history)
<1>1. t \in Text /\ Joined(history) \in Text
  BY OrderedDocument, HistoryTailShape, JointsShape
<1>2. Fits(t, left)
  <2>1. t = LastOf(Joined(history), HistoryChars)
    BY DEF HistoryTail, Joined, Joints
  <2>2. PICK p \in Text : Joined(history) = p \o t
    <3> DEFINE w == Joined(history)
    <3>1. w \in Seq(Token) /\ HistoryChars \in Nat
      BY <1>1, HistoryAssumption DEF Text
    <3> HIDE DEF w
    <3>2. \E p \in Seq(Token) : w = p \o LastOf(w, HistoryChars)
      BY <3>1, LastOfSuffix
    <3> QED BY <2>1, <3>2 DEF w, Text
  <2> HIDE DEF t
  <2> QED BY <1>1, <2>2, SuffixFits DEF HistFits
<1> HIDE DEF t
<1>3. ASSUME NEW x \in ToSet(t), NEW y \in ToSet(session) PROVE x.at < y.at
  <2>1. CASE x = Space
    <3>1. PICK i \in DOMAIN session : y = session[i]
      BY <1>3 DEF ToSet
    <3>2. session \in Text /\ DOMAIN session = 1..Len(session)
      BY OrderedDocument, LenProperties DEF Text
    <3>3. y.at \in ToSet(Stamps(session))
      BY <3>1 DEF ToSet, Stamps
    <3>4. y.at \in 1..MaxKeys
      BY <3>3, OrderedDocument DEF Keyed
    <3> QED BY <2>1, <3>4, MaxKeysAssumption DEF Space
  <2>2. CASE x # Space
    <3>1. PICK i \in DOMAIN t : x = t[i]
      BY <1>3 DEF ToSet
    <3>2. x \in ToSet(left)
      BY <1>2, <2>2, <3>1 DEF Fits, Drawn, Words
    <3> QED BY <1>3, <3>2, OrderedDocument
  <2> QED BY <2>1, <2>2
<1> QED BY <1>2, <1>3 DEF t

LEMMA ContextStep ==
  ASSUME DInv, DInv', ContextInv, Remembers, Asks
  PROVE  ContextInv'
<1>1. PICK t \in Text : left' = left \o t /\ history' \in {history, Push(history, t)}
  BY DEF Remembers
<1>2. /\ left \in Text /\ history \in Seq(Text) /\ Len(history) <= HistoryEntries
      /\ left' \in Text /\ Increasing(Stamps(left'))
  BY OrderedDocument, NextDocument
<1>3. HistFits(history, left \o t) /\ HistFits(Push(history, t), left \o t)
  BY <1>1, <1>2, LaterFits, PushFits DEF ContextInv, HistFits
<1>4. HistFits(history', left')
  BY <1>1, <1>3
<1>5. ASSUME NEW j \in jobs' PROVE JobFits(j, left')
  <2>1. JobFits(j, left)
    <3>1. CASE j \in jobs
      BY <3>1 DEF ContextInv
    <3>2. CASE j.context = HistoryTail(history) /\ j.source = session
      BY <3>2, TailFits DEF JobFits, ContextInv
    <3> QED BY <1>5, <3>1, <3>2 DEF Asks
  <2> QED BY <1>1, <1>2, <2>1, LaterFits DEF JobFits
<1> QED BY <1>4, <1>5 DEF ContextInv

\* What fits an ordered document is within it.
LEMMA FitsWithin ==
  ASSUME NEW t, NEW l \in Text, Increasing(Stamps(l)), Fits(t, l)
  PROVE  Within(t, l)
<1>1. DOMAIN l = 1..Len(l) /\ Len(l) \in Nat /\ \A i \in 1..Len(l) : l[i].at \in Nat
  BY StampsShape, LenProperties, ElementOfSeq DEF Text, Token
<1>2. \A i \in Words(t) : t[i] \in ToSet(l)
  BY DEF Fits, Drawn
<1>3. ASSUME NEW i \in Words(t), NEW j \in Words(t), i < j
      PROVE  \E m, n \in DOMAIN l : m < n /\ l[m] = t[i] /\ l[n] = t[j]
  <2>1. PICK m \in DOMAIN l : l[m] = t[i]
    BY <1>2 DEF ToSet
  <2>2. PICK n \in DOMAIN l : l[n] = t[j]
    BY <1>2 DEF ToSet
  <2>3. t[i].at < t[j].at
    BY <1>3 DEF Fits, Rising
  <2>4. ~(n < m) /\ n # m
    <3>1. n < m => l[n].at < l[m].at
      BY DEF Increasing, Stamps
    <3> QED BY <1>1, <2>1, <2>2, <2>3, <3>1
  <2>5. m < n
    BY <1>1, <2>4
  <2> QED BY <2>1, <2>2, <2>5
<1> QED BY <1>2, <1>3 DEF Within

LEMMA ContextConfirmed == DInv /\ ContextInv => ContextIsConfirmed
BY OrderedDocument, FitsWithin DEF ContextInv, HistFits, JobFits, ContextIsConfirmed

----------------------------------------------------------------------------
\* History, document and jobs, call by call.

\* Calls that confirm nothing and ask for nothing.
LEMMA NothingSaid ==
  ASSUME left \in Text, UNCHANGED <<left, history>>
  PROVE  Remembers
<1>1. <<>> \in Text /\ left \o <<>> = left
  BY EmptyText, ConcatEmptySeq DEF Text
<1> QED BY <1>1 DEF Remembers

LEMMA NobodyAsked == ASSUME jobs' \subseteq jobs PROVE Asks
BY DEF Asks

LEMMA CommitRemembers ==
  ASSUME NEW q, NEW n, NEW js, QueueOK(q, n, js), SourcesOK(q), NEW s \in Text,
         left \in Text, ~Unwritten, CommitReadyInOrder(q, s)
  PROVE  Remembers
<1> DEFINE committed == Concat(Ready(q))
           remaining == View(Unready(q), s)
<1>1. /\ SourcesOK(Unready(q)) /\ Ready(q) \in Seq(Req)
      /\ QueueOK(Unready(q), n, js)
  BY CutSourcesOK, UnreadyQueueOK
<1>2. committed \in Text /\ remaining \in Text
  BY <1>1, ConcatType, ViewShape
<1>3. \/ UNCHANGED <<left, history>>
      \/ history' = Push(history, committed) /\ left' = left \o committed
      \/ /\ history' = Push(history, committed \o remaining)
         /\ left' = left \o (committed \o remaining)
  <2>1. "noRange" \notin Faults /\ "noText" \notin Faults
    BY DEF Unwritten
  <2> HIDE DEF committed, remaining
  <2>2. /\ UpdateText(q, s) => left' = left
        /\ CommitText(committed) => left' = left \o committed
        /\ CommitText(committed \o remaining) => left' = left \o (committed \o remaining)
        /\ Shrink(committed, remaining) => left' = left \o committed
    BY <2>1 DEF UpdateText, CommitText, Shrink, Unwritten
  <2>3. \/ UpdateText(q, s) /\ history' = history
        \/ CommitText(committed) /\ history' = Push(history, committed)
        \/ Shrink(committed, remaining) /\ history' = Push(history, committed)
        \/ /\ CommitText(committed \o remaining)
           /\ history' = Push(history, committed \o remaining)
    BY <2>1 DEF CommitReadyInOrder, committed, remaining
  <2> QED BY <2>2, <2>3
<1> HIDE DEF committed, remaining
<1>4. committed \o remaining \in Text
  BY <1>2, TextConcat
<1> QED BY <1>2, <1>3, <1>4, NothingSaid DEF Remembers

LEMMA FlushRemembers ==
  ASSUME Faults \subseteq KindFaults, NEW text \in Text, FlushSession(text)
  PROVE  Remembers
<1>1. history' = Push(history, text) /\ Started = {TRUE}
  BY KindHost DEF FlushSession
<1>2. PICK started \in Started : IF started THEN CommitText(text) ELSE UNCHANGED host
  BY DEF FlushSession
<1>3. left' = left \o text
  BY <1>1, <1>2, KindHost DEF CommitText
<1> QED BY <1>1, <1>3 DEF Remembers

LEMMA InsertRemembers ==
  ASSUME IInv, TInv, AppInserts PROVE Remembers /\ Asks
<1>1. left \in Text
  BY ViewNow
<1>2. left' = Append(left, Typed) /\ UNCHANGED <<history, jobs>> /\ TypeKey
  BY DEF AppInserts, work
<1>3. <<Typed>> \in Text /\ Typed \in Token
  BY <1>2, TypedText DEF IInv, Scalars
<1>4. left' = left \o <<Typed>>
  BY <1>1, <1>2, <1>3, AppendIsConcat DEF Text
<1> QED BY <1>2, <1>3, <1>4, NobodyAsked DEF Remembers

LEMMA KeysRemember ==
  ASSUME Faults \subseteq KindFaults, IInv, TInv, Keys PROVE Remembers /\ Asks
<1>1. left \in Text /\ View(queue, session) \in Text
  BY ViewNow
<1>2. CASE AppendKey \/ BackspaceKey \/ EscapeKey
  <2>1. UNCHANGED <<left, history, jobs>>
    BY <1>2, KindHost DEF AppendKey, BackspaceKey, EscapeKey, UpdateText, ClearText, host, work
  <2> QED BY <1>1, <2>1, NothingSaid, NobodyAsked
<1>3. CASE TriggerKey
  <2>1. UNCHANGED <<left, history>>
    BY <1>3 DEF TriggerKey, UpdateText
  <2>2. Asks
    BY <1>3 DEF TriggerKey, Dispatch, Asks
  <2> QED BY <1>1, <2>1, <2>2, NothingSaid
<1>4. CASE EnterKey
  <2>1. QueueOK(EnterQueue, NewlineId + 1, jobs) /\ SourcesOK(EnterQueue)
    BY <1>4, EnterShape, EnterTexts
  <2>2. \/ CommitReadyInOrder(EnterQueue, <<>>)
        \/ UNCHANGED <<left, history>>
    BY <1>4, EnterShape DEF host
  <2>3. Remembers
    BY <1>1, <2>1, <2>2, EmptyText, KindHost, CommitRemembers, NothingSaid
  <2>4. jobs' = jobs
    BY <1>4 DEF EnterKey
  <2> QED BY <2>3, <2>4, NobodyAsked
<1>5. CASE PassThroughKey
  BY <1>5, InsertRemembers DEF PassThroughKey
<1>6. CASE ModeKey
  <2>1. FlushSession(View(queue, session)) \/ UNCHANGED <<left, history>>
    BY <1>6 DEF ModeKey, FlushAsRaw, host
  <2>2. jobs' = jobs
    BY <1>6 DEF ModeKey, work
  <2> QED BY <1>1, <2>1, <2>2, FlushRemembers, NothingSaid, NobodyAsked
<1> QED BY <1>2, <1>3, <1>4, <1>5, <1>6 DEF Keys

LEMMA AnswerRemembers ==
  ASSUME Faults \subseteq KindFaults, IInv, TInv, NEW job \in jobs, NEW ok \in BOOLEAN, Answer(job, ok)
  PROVE  Remembers /\ Asks
<1> DEFINE q == AnswerQueue(job, ok)
<1>1. QueueOK(q, nextId, jobs) /\ SourcesOK(q) /\ session \in Text /\ left \in Text
  BY AnswerShape, ViewNow
<1>2. CommitReadyInOrder(q, session) \/ UNCHANGED <<left, history>>
  BY DEF Answer, AnswerQueue, host
<1> HIDE DEF q
<1>3. Remembers
  BY <1>1, <1>2, KindHost, CommitRemembers, NothingSaid
<1>4. jobs' \subseteq jobs
  BY DEF Answer
<1> QED BY <1>3, <1>4, NobodyAsked

LEMMA StepRemembers ==
  ASSUME Faults \subseteq KindFaults, IInv, TInv, [Next]_vars PROVE Remembers /\ Asks
<1>1. left \in Text /\ shown \in Text /\ flushes \in Seq(Text)
  BY DEF TInv, TextTypeOK
<1>2. CASE Keys
  BY <1>2, KeysRemember
<1>3. CASE RunFlush
  <2>1. FlushSession(Head(flushes)) /\ Head(flushes) \in Text /\ jobs' = jobs
    BY <1>1, <1>3, HeadTailProperties DEF RunFlush, work
  <2> QED BY <2>1, FlushRemembers, NobodyAsked
<1>4. CASE ConvertResult
  BY <1>4, AnswerRemembers DEF ConvertResult
<1>5. CASE CompositionTerminated \/ Deactivate
  <2>1. left' = left \o shown /\ history' = history /\ jobs' \subseteq jobs
    BY <1>5 DEF CompositionTerminated, Deactivate, Abandon, work
  <2> QED BY <1>1, <2>1, NobodyAsked DEF Remembers
<1>6. CASE \/ \E o \in BOOLEAN : AppSetsOpen(o)
           \/ \E job \in jobs : LoseAnswer(job)
           \/ ActivateEx
           \/ UNCHANGED vars
  <2>1. UNCHANGED <<left, history>> /\ jobs' \subseteq jobs
    BY <1>6 DEF AppSetsOpen, LoseAnswer, ActivateEx, vars, host, work
  <2> QED BY <1>1, <2>1, NothingSaid, NobodyAsked
<1> QED BY <1>2, <1>3, <1>4, <1>5, <1>6 DEF Next

LEMMA InitContext == Init => ContextInv
BY NoHistoryFits DEF Init, ContextInv

\* A conversion is told what was confirmed, in its order, and nothing younger
\* than what it is to convert (ContextHistory.h:26, TextService.cpp:771).
THEOREM ContextWasConfirmed ==
  ASSUME Faults \subseteq KindFaults PROVE Spec => []ContextIsConfirmed
<1>1. DInv /\ ContextInv /\ [Next]_vars => (DInv /\ ContextInv)'
  <2> SUFFICES ASSUME DInv, ContextInv, [Next]_vars PROVE DInv' /\ ContextInv'
    OBVIOUS
  <2>1. DInv'
    BY StepDInv
  <2>2. Remembers /\ Asks
    BY StepRemembers DEF DInv
  <2> QED BY <2>1, <2>2, ContextStep
<1>2. Init => DInv /\ ContextInv
  BY InitDraft, InitContext
<1>3. DInv /\ ContextInv => ContextIsConfirmed
  BY ContextConfirmed
<1> QED BY <1>1, <1>2, <1>3, PTL DEF Spec
=============================================================================
