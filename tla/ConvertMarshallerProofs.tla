----------------------- MODULE ConvertMarshallerProofs -----------------------
(***************************************************************************)
(* Proofs about ConvertMarshaller, for any number of generations and jobs  *)
(* and any set of faults: the mutex excludes, posts reach a window, the    *)
(* DLL outlives the conversions, and results are delivered as              *)
(* ResultDelivery asks.                                                    *)
(***************************************************************************)
EXTENDS ConvertMarshaller, FiniteSetTheorems, SequenceTheorems, TLAPS

\* The shape of everything but the reference count.
Shape ==
  /\ state \in 0..MaxStarts /\ starts \in 0..MaxStarts
  /\ handles \subseteq Generations /\ windows \subseteq Generations
  /\ results \in [Generations -> SUBSET Jobs]
  /\ messages \in [Generations -> Seq(Jobs)]
  /\ mutex \in [Generations -> 0..MaxJobs]
  /\ jobs \in 0..MaxJobs /\ under \in [Jobs -> 0..MaxStarts] /\ worker \in [Jobs -> Stage]
  /\ delivered \in Seq(Jobs)
  /\ service \in BOOLEAN /\ refs \in Int /\ loaded \in BOOLEAN

\* Only the current generation has a handle or a window, and the handle goes
\* first; it belongs to a service.
OneGeneration ==
  /\ state <= starts /\ (state # 0 => service)
  /\ handles \subseteq windows /\ windows \subseteq {state}

\* A job that was dispatched has a number already used and a generation that
\* was begun.
Dispatched ==
  \A j \in Jobs : worker[j] # "none" =>
    j <= jobs /\ under[j] \in Generations /\ under[j] <= starts

\* The mutex and the critical sections name each other.
Mutexes ==
  /\ \A j \in Jobs : worker[j] \in Holding => mutex[under[j]] = j
  /\ \A g \in Generations : mutex[g] # 0 =>
       mutex[g] \in Jobs /\ worker[mutex[g]] \in Holding /\ under[mutex[g]] = g

\* Who has stored a result still has the handle it looked at.
StoredOpen == \A j \in Jobs : worker[j] = "stored" => under[j] \in handles

\* The reference count, and what it is for.
Pinned == {j \in Jobs : worker[j] \in Pinning}
Counted == /\ refs = Cardinality(Pinned) + (IF service THEN 1 ELSE 0)
           /\ service => loaded
           /\ \A j \in Jobs : worker[j] \in Pinning => loaded

\* A message is for a job past its callback, in the job's own generation, and
\* no job has two.
Past == {"answered", "leaving", "gone"}
Posted ==
  \A g \in Generations :
    /\ \A i \in DOMAIN messages[g] :
         worker[messages[g][i]] \in Past /\ under[messages[g][i]] = g
    /\ \A i, k \in DOMAIN messages[g] : messages[g][i] = messages[g][k] => i = k

IInv == /\ Shape /\ OneGeneration /\ Dispatched /\ Mutexes /\ StoredOpen /\ Counted /\ Posted

----------------------------------------------------------------------------
LEMMA PinnedFinite ==
  ASSUME Shape
  PROVE  IsFiniteSet(Pinned) /\ Cardinality(Pinned) \in Nat
<1>1. IsFiniteSet(Jobs)
  BY FS_Interval, BoundsAssumption DEF Jobs
<1>2. Pinned \subseteq Jobs
  BY DEF Pinned
<1> QED
  BY <1>1, <1>2, FS_Subset, FS_CardinalityType

LEMMA InitInv == Init => IInv
<1> SUFFICES ASSUME Init PROVE IInv
  OBVIOUS
<1>1. Shape
  <2>1. <<>> \in Seq(Jobs)
    BY EmptySeq
  <2>2. messages \in [Generations -> Seq(Jobs)] /\ delivered \in Seq(Jobs)
    BY <2>1 DEF Init
  <2>3. /\ results \in [Generations -> SUBSET Jobs] /\ mutex \in [Generations -> 0..MaxJobs]
        /\ under \in [Jobs -> 0..MaxStarts] /\ worker \in [Jobs -> Stage]
    BY BoundsAssumption DEF Init, Stage
  <2>4. state \in 0..MaxStarts /\ starts \in 0..MaxStarts /\ jobs \in 0..MaxJobs
    BY BoundsAssumption DEF Init
  <2>5. handles \subseteq Generations /\ windows \subseteq Generations /\ refs \in Int
    BY DEF Init
  <2>6. service \in BOOLEAN /\ loaded \in BOOLEAN
    BY DEF Init
  <2> QED
    BY <2>2, <2>3, <2>4, <2>5, <2>6 DEF Shape
<1>2. Pinned = {}
  BY DEF Init, Pinned, Pinning
<1>3. Counted
  BY <1>2, FS_EmptySet DEF Init, Counted, Pinning
<1>4. Posted
  BY DEF Init, Posted, Generations
<1>5. OneGeneration /\ Dispatched /\ Mutexes /\ StoredOpen
  BY DEF Init, OneGeneration, Dispatched, Mutexes, StoredOpen, Holding, Generations, Jobs
<1> QED
  BY <1>1, <1>3, <1>4, <1>5 DEF IInv

----------------------------------------------------------------------------
\* The service's thread.

LEMMA StartStep == IInv /\ Start => IInv'
<1> SUFFICES ASSUME IInv, Start PROVE IInv'
  OBVIOUS
<1> USE DEF IInv
<1>1. starts + 1 \in Generations /\ windows = {} /\ handles = {}
  BY BoundsAssumption DEF Start, OneGeneration, Shape, Generations
<1>2. Shape'
  BY <1>1, BoundsAssumption DEF Start, Shape, Generations, threads, dll
<1>3. OneGeneration'
  BY <1>1 DEF Start, OneGeneration, Shape, dll
<1>4. Dispatched'
  BY DEF Start, Dispatched, Shape, threads, Generations, Jobs
<1>5. Mutexes' /\ StoredOpen' /\ Posted'
  BY DEF Start, Mutexes, StoredOpen, Posted, threads
<1>6. Counted'
  BY DEF Start, Counted, Pinned, threads, dll
<1> QED
  BY <1>2, <1>3, <1>4, <1>5, <1>6

LEMMA StopClearStep == IInv /\ StopClear => IInv'
<1> SUFFICES ASSUME IInv, StopClear PROVE IInv'
  OBVIOUS
<1> USE DEF IInv
<1>1. Shape' /\ OneGeneration'
  BY DEF StopClear, Shape, OneGeneration, threads, dll
<1>2. Dispatched' /\ Mutexes' /\ Posted'
  BY DEF StopClear, Dispatched, Mutexes, Posted, threads
<1>3. StoredOpen'
  <2> SUFFICES ASSUME NEW j \in Jobs, worker[j] = "stored" PROVE under[j] \in handles'
    BY DEF StopClear, StoredOpen, threads
  <2>1. mutex[under[j]] = j /\ j # 0
    BY DEF Mutexes, Holding, Jobs
  <2> QED
    BY <2>1 DEF StopClear, StoredOpen
<1>4. Counted'
  BY DEF StopClear, Counted, Pinned, threads, dll
<1> QED
  BY <1>1, <1>2, <1>3, <1>4

LEMMA StopDestroyStep == IInv /\ StopDestroy => IInv'
<1> SUFFICES ASSUME IInv, StopDestroy PROVE IInv'
  OBVIOUS
<1> USE DEF IInv
<1>1. windows' = {} /\ handles' = {} /\ handles = {}
  BY DEF StopDestroy, OneGeneration
<1>2. messages' \in [Generations -> Seq(Jobs)]
  BY EmptySeq DEF StopDestroy, Shape
<1>3. Shape' /\ OneGeneration'
  BY <1>1, <1>2, BoundsAssumption DEF StopDestroy, Shape, OneGeneration, threads, dll
<1>4. Dispatched' /\ Mutexes' /\ StoredOpen'
  BY DEF StopDestroy, Dispatched, Mutexes, StoredOpen, threads
<1>5. Counted'
  BY DEF StopDestroy, Counted, Pinned, threads, dll
<1>6. Posted'
  <2> SUFFICES ASSUME NEW g \in Generations
               PROVE  /\ \A i \in DOMAIN messages'[g] :
                           worker[messages'[g][i]] \in Past /\ under[messages'[g][i]] = g
                      /\ \A i, k \in DOMAIN messages'[g] :
                           messages'[g][i] = messages'[g][k] => i = k
    BY DEF StopDestroy, Posted, threads
  <2>1. CASE g = state
    BY <2>1 DEF StopDestroy, Shape
  <2>2. CASE g # state
    BY <2>2 DEF StopDestroy, Shape, Posted
  <2> QED
    BY <2>1, <2>2
<1> QED
  BY <1>3, <1>4, <1>5, <1>6

LEMMA DispatchStep == IInv /\ Dispatch => IInv'
<1> SUFFICES ASSUME IInv, Dispatch PROVE IInv'
  OBVIOUS
<1> USE DEF IInv
<1> DEFINE job == jobs + 1
<1>1. job \in Jobs /\ worker[job] = "none" /\ state \in Generations /\ jobs' = job
  BY BoundsAssumption DEF Dispatch, Shape, Jobs, Dispatched
<1>2. PICK created \in BOOLEAN :
        /\ worker' = [worker EXCEPT ![job] = IF created THEN "converting" ELSE "gone"]
        /\ refs' = IF created THEN refs + 1 ELSE refs
  BY <1>1 DEF Dispatch, Granted
<1>3. /\ worker'[job] = (IF created THEN "converting" ELSE "gone") /\ under'[job] = state
      /\ \A j \in Jobs \ {job} : worker'[j] = worker[j] /\ under'[j] = under[j]
  BY <1>1, <1>2 DEF Dispatch, Shape
<1> HIDE DEF job
<1>4. Shape'
  <2>1. worker' \in [Jobs -> Stage]
    BY <1>2 DEF Shape, Stage
  <2>2. under' \in [Jobs -> 0..MaxStarts]
    BY <1>1 DEF Dispatch, Shape
  <2>3. jobs' \in 0..MaxJobs
    BY <1>1, BoundsAssumption DEF Jobs
  <2> QED
    BY <1>2, <2>1, <2>2, <2>3 DEF Dispatch, Shape, states
<1>5. OneGeneration'
  BY DEF Dispatch, OneGeneration, states
<1>6. Dispatched'
  BY <1>1, <1>3 DEF Dispatch, Dispatched, OneGeneration, Shape, states, job, Jobs, Generations
<1>7. Mutexes' /\ StoredOpen'
  BY <1>1, <1>3 DEF Dispatch, Mutexes, StoredOpen, Holding, states
<1>8. Counted'
  <2>1. service /\ loaded
    BY <1>1 DEF OneGeneration, Counted, Generations, Shape
  <2>2. CASE created
    <3>1. Pinned' = Pinned \cup {job} /\ job \notin Pinned
      BY <1>1, <1>3, <2>2 DEF Pinned, Pinning
    <3>2. Cardinality(Pinned') = Cardinality(Pinned) + 1
      BY <3>1, PinnedFinite, FS_AddElement
    <3> QED
      BY <1>2, <2>1, <2>2, <3>2, PinnedFinite DEF Dispatch, Counted
  <2>3. CASE ~created
    <3>1. Pinned' = Pinned
      BY <1>1, <1>3, <2>3 DEF Pinned, Pinning
    <3> QED
      BY <1>2, <2>1, <2>3, <3>1 DEF Dispatch, Counted
  <2> QED
    BY <2>2, <2>3
<1>9. Posted'
  <2> SUFFICES ASSUME NEW g \in Generations, NEW i \in DOMAIN messages[g]
               PROVE  worker'[messages[g][i]] \in Past /\ under'[messages[g][i]] = g
    BY DEF Dispatch, Posted, states
  <2>1. messages[g][i] \in Jobs /\ worker[messages[g][i]] \in Past
    BY DEF Shape, Posted
  <2>2. messages[g][i] # job
    BY <1>1, <2>1 DEF Past
  <2> QED
    BY <1>3, <2>1, <2>2 DEF Posted
<1> QED
  BY <1>4, <1>5, <1>6, <1>7, <1>8, <1>9

\* What is left in a window's queue once its first message is taken.
LEMMA TailEntries ==
  ASSUME NEW S, NEW s \in Seq(S), s # <<>>
  PROVE  /\ Tail(s) \in Seq(S) /\ DOMAIN Tail(s) = 1..(Len(s) - 1) /\ Head(s) = s[1]
         /\ \A i \in DOMAIN Tail(s) : Tail(s)[i] = s[i + 1] /\ i + 1 \in DOMAIN s
         /\ 1 \in DOMAIN s /\ s[1] \in S /\ DOMAIN s \subseteq Nat
OBVIOUS

LEMMA WndProcStep == IInv /\ WndProc => IInv'
<1> SUFFICES ASSUME IInv, WndProc PROVE IInv'
  OBVIOUS
<1> USE DEF IInv
<1> DEFINE id == Head(messages[state])
<1>1. state \in Generations /\ messages[state] \in Seq(Jobs) /\ messages[state] # <<>>
  BY DEF WndProc, Shape
<1>2. id \in Jobs /\ Tail(messages[state]) \in Seq(Jobs)
  BY <1>1, TailEntries
<1>3. Shape'
  <2>1. messages' \in [Generations -> Seq(Jobs)]
    BY <1>1, <1>2 DEF WndProc, Shape
  <2>2. results' \in [Generations -> SUBSET Jobs]
    BY <1>1 DEF WndProc, Shape
  <2>3. delivered' \in Seq(Jobs)
    <3>1. delivered' \in {delivered, Append(delivered, id)}
      BY DEF WndProc
    <3>2. Append(delivered, id) \in Seq(Jobs)
      BY <1>2, AppendProperties DEF Shape
    <3> QED
      BY <3>1, <3>2 DEF Shape
  <2> QED
    BY <2>1, <2>2, <2>3 DEF WndProc, Shape, threads, dll
<1>4. OneGeneration' /\ Dispatched' /\ Mutexes' /\ StoredOpen'
  BY DEF WndProc, OneGeneration, Dispatched, Mutexes, StoredOpen, threads, dll
<1>5. Counted'
  BY DEF WndProc, Counted, Pinned, threads, dll
<1>6. Posted'
  <2> SUFFICES ASSUME NEW g \in Generations
               PROVE  /\ \A i \in DOMAIN messages'[g] :
                           worker[messages'[g][i]] \in Past /\ under[messages'[g][i]] = g
                      /\ \A i, k \in DOMAIN messages'[g] :
                           messages'[g][i] = messages'[g][k] => i = k
    BY DEF WndProc, Posted, threads
  <2>1. CASE g = state
    <3>1. messages'[g] = Tail(messages[state])
      BY <1>1, <2>1 DEF WndProc, Shape
    <3>2. \A i \in DOMAIN messages'[g] :
            /\ messages'[g][i] = messages[g][i + 1] /\ i + 1 \in DOMAIN messages[g] /\ i \in Nat
      BY <1>1, <2>1, <3>1, TailEntries
    <3> QED
      BY <3>2 DEF Posted
  <2>2. CASE g # state
    BY <2>2 DEF WndProc, Shape, Posted
  <2> QED
    BY <2>1, <2>2
<1> QED
  BY <1>3, <1>4, <1>5, <1>6

----------------------------------------------------------------------------
\* The workers.  A worker that moves touches its own stage and its own
\* generation's mutex, results or messages.

LEMMA Moves ==
  ASSUME IInv, NEW job \in Jobs, NEW stage \in Stage \ {"none"}, NEW next \in Stage,
         At(job, stage, next)
  PROVE  /\ worker[job] = stage /\ worker'[job] = next
         /\ \A j \in Jobs \ {job} : worker'[j] = worker[j]
         /\ worker' \in [Jobs -> Stage]
         /\ under[job] \in Generations /\ under[job] <= starts /\ job <= jobs /\ job # 0
BY DEF IInv, Shape, At, Dispatched, Jobs

\* A step that keeps the worker within those that count, or without, and does
\* not touch the host's side, keeps the count.
LEMMA CountKept ==
  ASSUME Counted, UNCHANGED dll,
         \A j \in Jobs : worker'[j] \in Pinning <=> worker[j] \in Pinning
  PROVE  Counted'
<1>1. Pinned' = Pinned
  BY DEF Pinned
<1> QED
  BY <1>1 DEF Counted, dll

\* What a worker's step leaves true as long as the host, the handles and the
\* windows stay as they are.
LEMMA WorkerKeeps ==
  ASSUME IInv, NEW job \in Jobs, NEW stage \in Stage \ {"none"}, NEW next \in Stage,
         At(job, stage, next), next = "stored" => under[job] \in handles,
         stage \in Past => next \in Past,
         UNCHANGED <<state, starts, handles, windows, jobs, under, delivered, service, loaded>>
  PROVE  OneGeneration' /\ Dispatched' /\ StoredOpen'
<1> USE Moves
<1>1. OneGeneration'
  BY DEF IInv, OneGeneration
<1>2. Dispatched'
  <2> SUFFICES ASSUME NEW j \in Jobs, worker'[j] # "none"
               PROVE  j <= jobs /\ under[j] \in Generations /\ under[j] <= starts
    BY DEF Dispatched
  <2> QED
    BY DEF IInv, Dispatched
<1>3. StoredOpen'
  <2> SUFFICES ASSUME NEW j \in Jobs, worker'[j] = "stored" PROVE under[j] \in handles
    BY DEF StoredOpen
  <2> QED
    BY DEF IInv, StoredOpen
<1> QED
  BY <1>1, <1>2, <1>3

\* A message stays right however far its job's worker goes.
LEMMA PostedKept ==
  ASSUME IInv, UNCHANGED <<messages, under>>,
         \A j \in Jobs : worker[j] \in Past => worker'[j] \in Past
  PROVE  Posted'
<1> SUFFICES ASSUME NEW g \in Generations, NEW i \in DOMAIN messages[g]
             PROVE  worker'[messages[g][i]] \in Past
  BY DEF IInv, Posted
<1>1. messages[g] \in Seq(Jobs)
  BY DEF IInv, Shape
<1>2. messages[g][i] \in Jobs
  BY <1>1, LenProperties
<1> QED
  BY <1>2 DEF IInv, Posted

LEMMA LockStep == ASSUME IInv, NEW job \in Jobs, Lock(job) PROVE IInv'
<1>1. /\ worker[job] = "converting" /\ worker'[job] = "locked"
      /\ \A j \in Jobs \ {job} : worker'[j] = worker[j]
      /\ worker' \in [Jobs -> Stage]
      /\ under[job] \in Generations /\ job # 0
  BY Moves DEF Lock, Stage
<1>2. /\ mutex[under[job]] = 0 /\ mutex'[under[job]] = job
      /\ \A g \in Generations \ {under[job]} : mutex'[g] = mutex[g]
      /\ mutex' \in [Generations -> 0..MaxJobs]
  BY <1>1 DEF Lock, IInv, Shape, Jobs
<1>3. Shape'
  BY <1>1, <1>2 DEF Lock, IInv, Shape, dll
<1>4. OneGeneration' /\ Dispatched' /\ StoredOpen'
  BY WorkerKeeps DEF Lock, Stage, Past, dll
<1>5. Mutexes'
  <2>1. ASSUME NEW j \in Jobs, worker'[j] \in Holding PROVE mutex'[under[j]] = j
    <3>1. CASE j = job
      BY <1>2, <3>1
    <3>2. CASE j # job
      <4>1. worker[j] \in Holding /\ under[j] \in Generations
        BY <1>1, <2>1, <3>2 DEF IInv, Dispatched, Holding
      <4>2. mutex[under[j]] = j /\ j # 0
        BY <4>1 DEF IInv, Mutexes, Jobs
      <4> QED
        BY <1>2, <4>1, <4>2
    <3> QED
      BY <3>1, <3>2
  <2>2. ASSUME NEW g \in Generations, mutex'[g] # 0
        PROVE  mutex'[g] \in Jobs /\ worker'[mutex'[g]] \in Holding /\ under[mutex'[g]] = g
    <3>1. CASE g = under[job]
      BY <1>1, <1>2, <3>1 DEF Holding
    <3>2. CASE g # under[job]
      BY <1>1, <1>2, <2>2, <3>2 DEF IInv, Mutexes
    <3> QED
      BY <3>1, <3>2
  <2> QED
    BY <2>1, <2>2 DEF Mutexes, Lock
<1>6. Counted'
  BY <1>1, CountKept DEF Lock, IInv, Pinning
<1>7. Posted'
  BY <1>1, PostedKept DEF Lock, Past
<1> QED
  BY <1>3, <1>4, <1>5, <1>6, <1>7 DEF IInv

LEMMA StoreStep == ASSUME IInv, NEW job \in Jobs, Store(job) PROVE IInv'
<1>1. /\ worker[job] = "locked" /\ worker'[job] = "stored"
      /\ \A j \in Jobs \ {job} : worker'[j] = worker[j]
      /\ worker' \in [Jobs -> Stage] /\ under[job] \in Generations
  BY Moves DEF Store, Stage
<1>2. results' \in [Generations -> SUBSET Jobs]
  BY <1>1 DEF Store, IInv, Shape
<1>3. Shape'
  BY <1>1, <1>2 DEF Store, IInv, Shape, dll
<1>4. OneGeneration' /\ Dispatched' /\ StoredOpen'
  BY WorkerKeeps DEF Store, Stage, Past, dll
<1>5. Mutexes'
  BY <1>1 DEF Store, IInv, Mutexes, Holding, Shape
<1>6. Counted'
  BY <1>1, CountKept DEF Store, IInv, Pinning
<1>7. Posted'
  BY <1>1, PostedKept DEF Store, Past
<1> QED
  BY <1>3, <1>4, <1>5, <1>6, <1>7 DEF IInv

\* The mutex is released by the one who holds it.
LEMMA Unlocked ==
  ASSUME IInv, NEW job \in Jobs, worker[job] \in Holding, UNCHANGED under,
         worker'[job] \notin Holding, \A j \in Jobs \ {job} : worker'[j] = worker[j],
         mutex' = [mutex EXCEPT ![under[job]] = 0]
  PROVE  Mutexes' /\ mutex' \in [Generations -> 0..MaxJobs]
<1>1. mutex[under[job]] = job /\ under[job] \in Generations /\ job # 0
  BY DEF IInv, Mutexes, Dispatched, Holding, Jobs
<1>2. /\ mutex'[under[job]] = 0 /\ mutex' \in [Generations -> 0..MaxJobs]
      /\ \A g \in Generations \ {under[job]} : mutex'[g] = mutex[g]
  BY <1>1, BoundsAssumption DEF IInv, Shape
<1>3. ASSUME NEW j \in Jobs, worker'[j] \in Holding PROVE mutex'[under[j]] = j
  <2>1. j # job /\ worker[j] \in Holding /\ under[j] \in Generations
    BY <1>3 DEF IInv, Dispatched, Holding
  <2> QED
    BY <1>1, <1>2, <2>1 DEF IInv, Mutexes
<1>4. ASSUME NEW g \in Generations, mutex'[g] # 0
      PROVE  mutex'[g] \in Jobs /\ worker'[mutex'[g]] \in Holding /\ under[mutex'[g]] = g
  <2>1. g # under[job] /\ mutex'[g] = mutex[g]
    BY <1>2, <1>4
  <2>2. mutex[g] \in Jobs /\ worker[mutex[g]] \in Holding /\ under[mutex[g]] = g
    BY <1>4, <2>1 DEF IInv, Mutexes
  <2> QED
    BY <2>1, <2>2
<1> QED
  BY <1>2, <1>3, <1>4 DEF Mutexes

LEMMA DiscardStep == ASSUME IInv, NEW job \in Jobs, Discard(job) PROVE IInv'
<1>1. /\ worker[job] = "locked" /\ worker'[job] = "answered"
      /\ \A j \in Jobs \ {job} : worker'[j] = worker[j]
      /\ worker' \in [Jobs -> Stage]
  BY Moves DEF Discard, Stage
<1>2. Mutexes' /\ mutex' \in [Generations -> 0..MaxJobs]
  BY <1>1, Unlocked DEF Discard, Holding
<1>3. Shape'
  BY <1>1, <1>2 DEF Discard, IInv, Shape, dll
<1>4. OneGeneration' /\ Dispatched' /\ StoredOpen'
  BY WorkerKeeps DEF Discard, Stage, Past, dll
<1>5. Counted'
  BY <1>1, CountKept DEF Discard, IInv, Pinning
<1>6. Posted'
  BY <1>1, PostedKept DEF Discard, Past
<1> QED
  BY <1>2, <1>3, <1>4, <1>5, <1>6 DEF IInv

LEMMA PostStep == ASSUME IInv, NEW job \in Jobs, Post(job) PROVE IInv'
<1> DEFINE g0 == under[job]
<1>1. /\ worker[job] = "stored" /\ worker'[job] = "answered"
      /\ \A j \in Jobs \ {job} : worker'[j] = worker[j]
      /\ worker' \in [Jobs -> Stage] /\ g0 \in Generations
  BY Moves DEF Post, Stage
<1>2. Mutexes' /\ mutex' \in [Generations -> 0..MaxJobs]
  BY <1>1, Unlocked DEF Post, Holding
<1>3. messages' \in {messages, [messages EXCEPT ![g0] = Append(@, job)]}
  BY DEF Post
<1>4. /\ messages[g0] \in Seq(Jobs) /\ Append(messages[g0], job) \in Seq(Jobs)
      /\ DOMAIN messages[g0] = 1..Len(messages[g0]) /\ Len(messages[g0]) \in Nat
      /\ DOMAIN Append(messages[g0], job) = 1..(Len(messages[g0]) + 1)
      /\ \A i \in 1..Len(messages[g0]) :
           messages[g0][i] \in Jobs /\ Append(messages[g0], job)[i] = messages[g0][i]
      /\ Append(messages[g0], job)[Len(messages[g0]) + 1] = job
  <2>1. messages[g0] \in Seq(Jobs)
    BY <1>1 DEF IInv, Shape
  <2> QED
    BY <2>1, LenProperties, AppendProperties
<1>5. Shape'
  <2>1. messages' \in [Generations -> Seq(Jobs)]
    BY <1>3, <1>4 DEF IInv, Shape
  <2> QED
    BY <1>1, <1>2, <2>1 DEF Post, IInv, Shape, dll
<1>6. OneGeneration' /\ Dispatched' /\ StoredOpen'
  BY WorkerKeeps DEF Post, Stage, Past, dll
<1>7. Counted'
  BY <1>1, CountKept DEF Post, IInv, Pinning
<1>8. Posted'
  <2>1. under' = under /\ \A j \in Jobs : worker[j] \in Past => worker'[j] \in Past
    BY <1>1 DEF Post, Past
  <2>2. CASE messages' = messages
    BY <2>1, <2>2, PostedKept
  <2>3. CASE messages' = [messages EXCEPT ![g0] = Append(@, job)]
    <3> SUFFICES ASSUME NEW g \in Generations
                 PROVE  /\ \A i \in DOMAIN messages'[g] :
                             worker'[messages'[g][i]] \in Past /\ under[messages'[g][i]] = g
                        /\ \A i, k \in DOMAIN messages'[g] :
                             messages'[g][i] = messages'[g][k] => i = k
      BY <2>1 DEF Posted
    <3>1. messages[g] \in Seq(Jobs) /\ \A i \in DOMAIN messages[g] : messages[g][i] \in Jobs
      BY LenProperties DEF IInv, Shape
    <3>2. \A i \in DOMAIN messages[g] :
            worker'[messages[g][i]] \in Past /\ under[messages[g][i]] = g
      BY <2>1, <3>1 DEF IInv, Posted
    <3>3. CASE g # g0
      <4>1. messages'[g] = messages[g]
        BY <2>3, <3>3 DEF IInv, Shape
      <4> QED
        BY <3>2, <4>1 DEF IInv, Posted
    <3>4. CASE g = g0
      <4>1. messages'[g] = Append(messages[g0], job)
        BY <1>1, <2>3, <3>4 DEF IInv, Shape
      <4>2. \A i \in 1..Len(messages[g0]) : messages[g0][i] # job
        BY <1>1, <1>4 DEF IInv, Posted, Past
      <4>3. \A i \in DOMAIN messages'[g] :
              \/ i = Len(messages[g0]) + 1 /\ messages'[g][i] = job
              \/ i \in DOMAIN messages[g0] /\ messages'[g][i] = messages[g0][i]
                 /\ messages[g0][i] # job
        BY <1>4, <4>1, <4>2
      <4>4. worker'[job] \in Past /\ under[job] = g
        BY <1>1, <3>4 DEF Past
      <4>5. \A i, k \in DOMAIN messages[g0] : messages[g0][i] = messages[g0][k] => i = k
        BY <1>1 DEF IInv, Posted
      <4> QED
        BY <3>2, <3>4, <4>3, <4>4, <4>5
    <3> QED
      BY <3>3, <3>4
  <2> QED
    BY <1>3, <2>2, <2>3
<1> QED
  BY <1>2, <1>5, <1>6, <1>7, <1>8 DEF IInv

\* The thread's own reference goes, and it is one of those counted.
LEMMA ReleaseStep == ASSUME IInv, NEW job \in Jobs, Release(job) PROVE IInv'
<1>1. /\ worker[job] = "answered" /\ worker'[job] = "leaving"
      /\ \A j \in Jobs \ {job} : worker'[j] = worker[j]
      /\ worker' \in [Jobs -> Stage]
  BY Moves DEF Release, Stage
<1>2. Shape'
  BY <1>1 DEF Release, IInv, Shape, states
<1>3. OneGeneration' /\ Dispatched' /\ StoredOpen'
  BY WorkerKeeps DEF Release, Stage, Past, states
<1>4. Mutexes'
  BY <1>1 DEF Release, IInv, Mutexes, Holding, Shape, states
<1>5. Counted'
  <2>1. Pinned' = Pinned \ {job} /\ job \in Pinned
    BY <1>1 DEF Pinned, Pinning
  <2>2. Cardinality(Pinned') = Cardinality(Pinned) - 1
    BY <2>1, PinnedFinite, FS_RemoveElement DEF IInv
  <2>3. \A j \in Jobs : worker'[j] \in Pinning => worker[j] \in Pinning
    BY <1>1 DEF Pinning
  <2> QED
    BY <2>2, <2>3, PinnedFinite DEF Release, IInv, Counted
<1>6. Posted'
  BY <1>1, PostedKept DEF Release, Past, states
<1> QED
  BY <1>2, <1>3, <1>4, <1>5, <1>6 DEF IInv

LEMMA ExitStep == ASSUME IInv, NEW job \in Jobs, Exit(job) PROVE IInv'
<1>1. /\ worker[job] = "leaving" /\ worker'[job] = "gone"
      /\ \A j \in Jobs \ {job} : worker'[j] = worker[j]
      /\ worker' \in [Jobs -> Stage]
  BY Moves DEF Exit, Stage
<1>2. Shape'
  BY <1>1 DEF Exit, IInv, Shape, states, dll
<1>3. OneGeneration' /\ Dispatched' /\ StoredOpen'
  BY WorkerKeeps DEF Exit, Stage, Past, states, dll
<1>4. Mutexes'
  BY <1>1 DEF Exit, IInv, Mutexes, Holding, Shape, states
<1>5. Counted'
  BY <1>1, CountKept DEF Exit, IInv, Pinning
<1>6. Posted'
  BY <1>1, PostedKept DEF Exit, Past, states
<1> QED
  BY <1>2, <1>3, <1>4, <1>5, <1>6 DEF IInv

----------------------------------------------------------------------------
\* The host.

\* What the host does leaves marshaller and workers alone.
LEMMA HostKeeps ==
  ASSUME IInv, UNCHANGED <<states, threads, delivered>>
  PROVE  /\ Dispatched' /\ Mutexes' /\ StoredOpen' /\ Posted' /\ Pinned' = Pinned
         /\ refs' \in Int /\ service' \in BOOLEAN /\ loaded' \in BOOLEAN => Shape'
         /\ (state # 0 => service') => OneGeneration'
<1>1. Dispatched' /\ Mutexes' /\ StoredOpen'
  BY DEF IInv, Dispatched, Mutexes, StoredOpen, states, threads
<1>2. Posted'
  BY DEF IInv, Posted, states, threads
<1>3. Pinned' = Pinned
  BY DEF Pinned, threads
<1>4. refs' \in Int /\ service' \in BOOLEAN /\ loaded' \in BOOLEAN => Shape'
  BY DEF IInv, Shape, states, threads
<1>5. (state # 0 => service') => OneGeneration'
  BY DEF IInv, OneGeneration, states
<1> QED
  BY <1>1, <1>2, <1>3, <1>4, <1>5

\* A service created while the DLL is mapped adds to the count; mapping the DLL
\* anew starts it at one, and nobody can be counted then.
LEMMA CreateStep == IInv /\ CreateService => IInv'
<1> SUFFICES ASSUME IInv, CreateService PROVE IInv'
  OBVIOUS
<1>1. Shape' /\ OneGeneration' /\ Dispatched' /\ Mutexes' /\ StoredOpen' /\ Posted'
  BY HostKeeps DEF CreateService, IInv, Shape
<1>2. Counted'
  <2>1. Pinned' = Pinned
    BY HostKeeps DEF CreateService
  <2>2. CASE loaded
    BY <2>1, <2>2, PinnedFinite DEF CreateService, IInv, Counted, threads
  <2>3. CASE ~loaded
    <3>1. Pinned = {}
      BY <2>3 DEF IInv, Counted, Pinned
    <3> QED
      BY <2>1, <2>3, <3>1, FS_EmptySet DEF CreateService, IInv, Counted, threads
  <2> QED
    BY <2>2, <2>3
<1> QED
  BY <1>1, <1>2 DEF IInv

LEMMA ReleaseServiceStep == IInv /\ ReleaseService => IInv'
<1> SUFFICES ASSUME IInv, ReleaseService PROVE IInv'
  OBVIOUS
<1>1. Shape' /\ OneGeneration' /\ Dispatched' /\ Mutexes' /\ StoredOpen' /\ Posted'
  <2>1. UNCHANGED <<states, threads, delivered>> /\ state = 0 /\ loaded' = loaded
    BY DEF ReleaseService
  <2>2. refs' \in Int
    BY DEF ReleaseService, IInv, Shape
  <2>3. service' \in BOOLEAN /\ loaded' \in BOOLEAN
    BY <2>1 DEF ReleaseService, IInv, Shape
  <2> QED
    BY <2>1, <2>2, <2>3, HostKeeps
<1>2. Counted'
  <2>1. Pinned' = Pinned
    BY HostKeeps DEF ReleaseService
  <2> QED
    BY <2>1, PinnedFinite DEF ReleaseService, IInv, Counted, threads
<1> QED
  BY <1>1, <1>2 DEF IInv

\* With a count of zero nobody needs the DLL.
LEMMA UnloadStep == IInv /\ Unload => IInv'
<1> SUFFICES ASSUME IInv, Unload PROVE IInv'
  OBVIOUS
<1>1. Pinned = {} /\ ~service
  <2>1. IsFiniteSet(Pinned) /\ Cardinality(Pinned) \in Nat /\ refs <= 0
    BY PinnedFinite DEF Unload, IInv
  <2>2. refs = Cardinality(Pinned) + (IF service THEN 1 ELSE 0) /\ service \in BOOLEAN
    BY DEF IInv, Counted, Shape
  <2>3. Cardinality(Pinned) = 0 /\ ~service
    BY <2>1, <2>2
  <2> QED
    BY <2>1, <2>3, FS_EmptySet
<1>2. Shape' /\ OneGeneration' /\ Dispatched' /\ Mutexes' /\ StoredOpen' /\ Posted'
  BY HostKeeps DEF Unload, IInv, Shape, OneGeneration
<1>3. Counted'
  BY <1>1 DEF Unload, IInv, Counted, Pinned, threads
<1> QED
  BY <1>2, <1>3 DEF IInv

----------------------------------------------------------------------------
LEMMA StepInv == IInv /\ [Next]_vars => IInv'
<1> SUFFICES ASSUME IInv, [Next]_vars PROVE IInv'
  OBVIOUS
<1>1. CASE Pump
  BY <1>1, StartStep, StopClearStep, StopDestroyStep, DispatchStep, WndProcStep DEF Pump
<1>2. CASE Host
  BY <1>2, CreateStep, ReleaseServiceStep, UnloadStep DEF Host
<1>3. CASE \E job \in Jobs : Work(job)
  BY <1>3, LockStep, StoreStep, DiscardStep, PostStep, ReleaseStep, ExitStep DEF Work
<1>4. CASE UNCHANGED vars
  <2>1. UNCHANGED <<states, threads, delivered>> /\ UNCHANGED dll
    BY <1>4 DEF vars
  <2>2. refs' \in Int /\ service' \in BOOLEAN /\ loaded' \in BOOLEAN /\ (state # 0 => service')
    BY <2>1 DEF dll, IInv, Shape, OneGeneration
  <2>3. Dispatched' /\ Mutexes' /\ StoredOpen' /\ Posted'
    BY <2>1, HostKeeps
  <2>4. Shape' /\ OneGeneration'
    BY <2>1, <2>2, HostKeeps
  <2>5. Counted'
    BY <2>1, CountKept DEF threads, IInv
  <2> QED
    BY <2>3, <2>4, <2>5 DEF IInv
<1> QED
  BY <1>1, <1>2, <1>3, <1>4 DEF Next

\* The invariant behind everything here, for any number of generations and jobs
\* and any faults.
THEOREM Invariance == Spec => []IInv
<1> QED
  BY InitInv, StepInv, PTL DEF Spec

\* The state keeps its shape, and the reference count of the DLL never goes
\* below zero (dllmain.cpp:33 would unload a DLL in use).
THEOREM TypeCorrect == Spec => []TypeOK
<1>1. IInv => TypeOK
  <2> SUFFICES ASSUME IInv PROVE TypeOK
    OBVIOUS
  <2>1. refs \in Nat
    BY PinnedFinite DEF IInv, Counted
  <2> QED
    BY <2>1 DEF IInv, Shape, TypeOK
<1> QED
  BY <1>1, Invariance, PTL

\* The mutex of a State excludes (ConvertMarshaller.cpp:40, 79 and 104).
THEOREM MutualExclusion == Spec => []MutexHeld
<1>1. IInv => MutexHeld
  <2> SUFFICES ASSUME IInv, NEW g \in Generations
               PROVE  {j \in Jobs : worker[j] \in Holding /\ under[j] = g} = {mutex[g]} \ {0}
    BY DEF MutexHeld
  <2>1. \A j \in Jobs : worker[j] \in Holding /\ under[j] = g => j = mutex[g] /\ j # 0
    BY DEF IInv, Mutexes, Jobs
  <2>2. mutex[g] # 0 => mutex[g] \in Jobs /\ worker[mutex[g]] \in Holding /\ under[mutex[g]] = g
    BY DEF IInv, Mutexes
  <2> QED
    BY <2>1, <2>2
<1> QED
  BY <1>1, Invariance, PTL

\* A worker that has seen the handle posts to a window that still exists
\* (ConvertMarshaller.cpp:107), whatever Stop does meanwhile.
THEOREM PostsArrive == Spec => []PostsReachAWindow
<1>1. IInv => PostsReachAWindow
  BY DEF IInv, StoredOpen, OneGeneration, PostsReachAWindow
<1> QED
  BY <1>1, Invariance, PTL

\* g_cRefDll counts the service and the conversions, no more and no less.
THEOREM CountIsExact == Spec => []RefsCountTheUsers
<1>1. IInv => RefsCountTheUsers
  BY DEF IInv, Counted, Pinned, RefsCountTheUsers
<1> QED
  BY <1>1, Invariance, PTL

\* No conversion outlives the code it runs (ConvertMarshaller.cpp:97).
THEOREM DllStays == Spec => []ConversionsPinTheDll
<1>1. IInv => ConversionsPinTheDll
  BY DEF IInv, Counted, ConversionsPinTheDll
<1> QED
  BY <1>1, Invariance, PTL

----------------------------------------------------------------------------
\* Messages and results, where Windows refuses no message.  The map of a
\* generation not begun yet is empty.
In(g, j)     == \E i \in DOMAIN messages[g] : messages[g][i] = j
Stored(g, j) == worker[j] = "stored" /\ under[j] = g
Matched ==
  /\ \A g \in Generations : g > starts => results[g] = {}
  /\ \A g \in handles, j \in Jobs : j \in results[g] <=> In(g, j) \/ Stored(g, j)

\* No message is for a job that is still at work.
LEMMA PostedArePast ==
  ASSUME IInv, NEW g \in Generations, NEW j \in Jobs, In(g, j)
  PROVE  worker[j] \in Past /\ under[j] = g /\ g <= starts
<1>1. worker[j] \in Past /\ under[j] = g
  BY DEF IInv, Posted, In
<1> QED
  BY <1>1 DEF IInv, Dispatched, Past

\* As many messages as jobs they are for: none has two.
LEMMA OneMessageEach ==
  ASSUME IInv, NEW g \in Generations
  PROVE  Cardinality(Announced(g)) = Len(messages[g])
<1> DEFINE s == messages[g]
<1>1. s \in Seq(Jobs) /\ \A i, k \in DOMAIN s : s[i] = s[k] => i = k
  BY DEF IInv, Shape, Posted
<1>2. Announced(g) = {s[i] : i \in DOMAIN s}
  BY DEF Announced
<1> HIDE DEF s
<1>3. Len(s) \in Nat /\ DOMAIN s = 1..Len(s) /\ s \in [1..Len(s) -> Jobs]
  BY <1>1, LenProperties
<1>4. s \in [1..Len(s) -> Announced(g)]
  BY <1>2, <1>3
<1>5. s \in Bijection(1..Len(s), Announced(g))
  BY <1>1, <1>2, <1>3, <1>4 DEF Bijection, Injection, Surjection, IsInjective
<1>6. ExistsBijection(1..Len(s), Announced(g))
  BY <1>5 DEF ExistsBijection
<1>7. Cardinality(Announced(g)) = Len(s)
  BY <1>3, <1>6, FS_CountingElements
<1> QED
  BY <1>7 DEF s

\* A step that neither stores, posts nor takes anything.
LEMMA MatchKept ==
  ASSUME Matched, UNCHANGED <<results, messages, under>>, handles' \subseteq handles,
         starts' = starts, \A j \in Jobs : worker'[j] = "stored" <=> worker[j] = "stored"
  PROVE  Matched'
BY DEF Matched, In, Stored

LEMMA StartMatches == IInv /\ Matched /\ Start => Matched'
<1> SUFFICES ASSUME IInv, Matched, Start PROVE Matched'
  OBVIOUS
<1>1. starts + 1 \in Generations /\ handles = {} /\ starts \in Nat
  BY BoundsAssumption DEF Start, IInv, OneGeneration, Shape, Generations
<1>2. handles' = {starts + 1} /\ starts' = starts + 1 /\ results' = results
  BY <1>1 DEF Start
<1>3. \A g, j : (In(g, j)' <=> In(g, j)) /\ (Stored(g, j)' <=> Stored(g, j))
  BY DEF Start, In, Stored, threads
<1>4. \A j \in Jobs : ~In(starts + 1, j)
  BY <1>1, PostedArePast
<1>5. \A j \in Jobs : ~Stored(starts + 1, j)
  BY <1>1 DEF Stored, IInv, Dispatched
<1>6. results[starts + 1] = {}
  BY <1>1 DEF Matched
<1>7. \A g \in Generations : g > starts' => results'[g] = {}
  BY <1>1, <1>2 DEF Matched, Generations
<1> QED
  BY <1>2, <1>3, <1>4, <1>5, <1>6, <1>7 DEF Matched

LEMMA DispatchMatches == IInv /\ Matched /\ Dispatch => Matched'
<1> SUFFICES ASSUME IInv, Matched, Dispatch PROVE Matched'
  OBVIOUS
<1> DEFINE job == jobs + 1
<1>1. job \in Jobs /\ worker[job] = "none" /\ jobs' = job
  BY BoundsAssumption DEF Dispatch, IInv, Shape, Jobs, Dispatched
<1>2. worker'[job] # "stored" /\ \A j \in Jobs \ {job} : worker'[j] = worker[j] /\ under'[j] = under[j]
  BY <1>1 DEF Dispatch, IInv, Shape
<1> HIDE DEF job
<1>3. \A g : \A j \in Jobs : Stored(g, j)' <=> Stored(g, j)
  BY <1>1, <1>2 DEF Stored
<1>4. UNCHANGED <<results, handles, starts>> /\ \A g, j : In(g, j)' <=> In(g, j)
  BY DEF Dispatch, states, In
<1> QED
  BY <1>3, <1>4 DEF Matched

LEMMA WndProcMatches == IInv /\ Matched /\ WndProc => Matched'
<1> SUFFICES ASSUME IInv, Matched, WndProc PROVE Matched'
  OBVIOUS
<1> DEFINE queue == messages[state]
           id    == Head(queue)
<1>1. /\ state \in Generations /\ handles = {state} /\ handles' = handles /\ starts' = starts
      /\ UNCHANGED threads /\ state <= starts
      /\ queue \in Seq(Jobs) /\ queue # <<>> /\ messages'[state] = Tail(queue)
      /\ results'[state] = results[state] \ {id}
      /\ \A g \in Generations \ {state} : results'[g] = results[g]
  BY DEF WndProc, IInv, Shape, OneGeneration
<1> HIDE DEF queue, id
<1>2. /\ id = queue[1] /\ 1 \in DOMAIN queue /\ id \in Jobs
      /\ DOMAIN queue = 1..Len(queue) /\ Len(queue) \in Nat
      /\ DOMAIN Tail(queue) = 1..(Len(queue) - 1)
      /\ \A i \in DOMAIN Tail(queue) : Tail(queue)[i] = queue[i + 1] /\ i + 1 \in DOMAIN queue
  BY <1>1, TailEntries, LenProperties DEF id
<1>3. \A i, k \in DOMAIN queue : queue[i] = queue[k] => i = k
  BY <1>1 DEF IInv, Posted, queue
<1>4. \A j : In(state, j)' <=> j # id /\ In(state, j)
  <2>1. ASSUME NEW i \in DOMAIN Tail(queue)
        PROVE  Tail(queue)[i] # id /\ \E k \in DOMAIN queue : queue[k] = Tail(queue)[i]
    BY <1>2, <1>3
  <2>2. ASSUME NEW i \in DOMAIN queue, queue[i] # id
        PROVE  i - 1 \in DOMAIN Tail(queue) /\ Tail(queue)[i - 1] = queue[i]
    BY <1>2, <2>2
  <2>3. \A j : (\E i \in DOMAIN Tail(queue) : Tail(queue)[i] = j)
                 <=> j # id /\ \E i \in DOMAIN queue : queue[i] = j
    BY <2>1, <2>2
  <2>4. state' = state
    BY DEF WndProc
  <2> QED
    BY <1>1, <2>3, <2>4 DEF In, queue
<1>5. \A j \in Jobs : Stored(state, j)' <=> Stored(state, j)
  <2>1. state' = state
    BY DEF WndProc
  <2> QED
    BY <1>1, <2>1 DEF Stored, threads
<1>6. ~Stored(state, id)
  <2>1. In(state, id)
    BY <1>2 DEF In, queue
  <2> QED
    BY <1>1, <1>2, <2>1, PostedArePast DEF Stored, Past
<1>7. \A g \in Generations : g > starts' => results'[g] = {}
  BY <1>1 DEF Matched, IInv, Shape, Generations
<1>8. ASSUME NEW j \in Jobs
      PROVE  j \in results'[state] <=> In(state, j)' \/ Stored(state, j)'
  BY <1>1, <1>4, <1>5, <1>6 DEF Matched
<1>9. state' = state
  BY DEF WndProc
<1> QED
  BY <1>1, <1>7, <1>8, <1>9 DEF Matched

LEMMA StoreMatches == ASSUME IInv, Matched, NEW job \in Jobs, Store(job) PROVE Matched'
<1>1. /\ worker[job] = "locked" /\ worker'[job] = "stored"
      /\ \A j \in Jobs \ {job} : worker'[j] = worker[j]
      /\ under[job] \in Generations /\ under[job] <= starts
  BY Moves DEF Store, Stage
<1>2. /\ UNCHANGED <<starts, handles, messages, under>>
      /\ results'[under[job]] = results[under[job]] \cup {job}
      /\ \A g \in Generations \ {under[job]} : results'[g] = results[g]
  BY <1>1 DEF Store, IInv, Shape
<1>3. \A g, j : In(g, j)' <=> In(g, j)
  BY <1>2 DEF In
<1>4. ASSUME NEW g \in Generations, g > starts PROVE results'[g] = {}
  <2>1. g # under[job]
    BY <1>1, <1>4 DEF IInv, Shape, Generations
  <2> QED
    BY <1>2, <1>4, <2>1 DEF Matched
<1>5. ASSUME NEW g \in handles, NEW j \in Jobs
      PROVE  j \in results'[g] <=> In(g, j) \/ Stored(g, j)'
  <2>1. g \in Generations
    BY DEF IInv, Shape
  <2> QED
    BY <1>1, <1>2, <2>1 DEF Matched, Stored
<1> QED
  BY <1>2, <1>3, <1>4, <1>5 DEF Matched

LEMMA PostMatches ==
  ASSUME "noPost" \notin Faults, IInv, Matched, NEW job \in Jobs, Post(job)
  PROVE  Matched'
<1>1. /\ worker[job] = "stored" /\ worker'[job] = "answered"
      /\ \A j \in Jobs \ {job} : worker'[j] = worker[j]
  BY Moves DEF Post, Stage
<1>2. under[job] \in handles /\ under[job] \in windows /\ under[job] \in Generations
  BY <1>1 DEF IInv, StoredOpen, OneGeneration, Shape
<1>3. /\ UNCHANGED <<starts, handles, results, under>>
      /\ messages' = [messages EXCEPT ![under[job]] = Append(@, job)]
  BY <1>2 DEF Post, Granted
<1>4. /\ messages[under[job]] \in Seq(Jobs)
      /\ messages'[under[job]] = Append(messages[under[job]], job)
      /\ \A g \in Generations \ {under[job]} : messages'[g] = messages[g]
  BY <1>2, <1>3 DEF IInv, Shape
<1>5. \A j : In(under[job], j)' <=> j = job \/ In(under[job], j)
  <2> DEFINE s == messages[under[job]]
  <2>1. /\ DOMAIN s = 1..Len(s) /\ Len(s) \in Nat
        /\ DOMAIN Append(s, job) = 1..(Len(s) + 1)
        /\ \A i \in 1..Len(s) : Append(s, job)[i] = s[i]
        /\ Append(s, job)[Len(s) + 1] = job
    BY <1>4, LenProperties, AppendProperties
  <2> HIDE DEF s
  <2>2. DOMAIN Append(s, job) = DOMAIN s \cup {Len(s) + 1}
    BY <2>1
  <2>3. \A j : (\E i \in DOMAIN Append(s, job) : Append(s, job)[i] = j)
                 <=> j = job \/ \E i \in DOMAIN s : s[i] = j
    BY <2>1, <2>2
  <2> QED
    BY <1>3, <1>4, <2>3 DEF In, s
<1>6. ASSUME NEW g \in handles, NEW j \in Jobs
      PROVE  j \in results[g] <=> In(g, j)' \/ Stored(g, j)'
  <2>1. g \in Generations
    BY DEF IInv, Shape
  <2>2. CASE g = under[job]
    BY <1>1, <1>3, <1>5, <2>2 DEF Matched, Stored
  <2>3. CASE g # under[job]
    <3>1. In(g, j)' <=> In(g, j)
      BY <1>4, <2>1, <2>3 DEF In
    <3> QED
      BY <1>1, <1>3, <2>3, <3>1 DEF Matched, Stored
  <2> QED
    BY <2>2, <2>3
<1> QED
  BY <1>3, <1>6 DEF Matched

LEMMA MatchStep ==
  ASSUME "noPost" \notin Faults
  PROVE  IInv /\ Matched /\ [Next]_vars => Matched'
<1> SUFFICES ASSUME IInv, Matched, [Next]_vars PROVE Matched'
  OBVIOUS
<1>1. CASE StopClear
  BY <1>1, MatchKept DEF StopClear, threads
<1>2. CASE StopDestroy
  <2>1. handles = {} /\ handles' = {}
    BY <1>2 DEF StopDestroy, IInv, OneGeneration
  <2> QED
    BY <1>2, <2>1 DEF StopDestroy, Matched
<1>3. CASE Pump
  BY <1>1, <1>2, <1>3, StartMatches, DispatchMatches, WndProcMatches DEF Pump
<1>4. CASE Host
  BY <1>4, MatchKept DEF Host, CreateService, ReleaseService, Unload, states, threads
<1>5. ASSUME NEW job \in Jobs, Work(job) PROVE Matched'
  <2>1. CASE Lock(job) \/ Discard(job) \/ Release(job) \/ Exit(job)
    <3>1. UNCHANGED <<results, messages, under, handles, starts>>
      BY <2>1 DEF Lock, Discard, Release, Exit, states
    <3>2. worker \in [Jobs -> Stage]
      BY DEF IInv, Shape
    <3>3. \A j \in Jobs : worker'[j] = "stored" <=> worker[j] = "stored"
      BY <2>1, <3>2 DEF Lock, Discard, Release, Exit, At
    <3> QED
      BY <3>1, <3>3, MatchKept
  <2> QED
    BY <1>5, <2>1, StoreMatches, PostMatches DEF Work
<1>6. CASE UNCHANGED vars
  BY <1>6, MatchKept DEF vars, states, threads
<1> QED
  BY <1>3, <1>4, <1>5, <1>6 DEF Next

\* Every message finds its result, and every result of a running generation has
\* its message or a worker about to post it (ConvertMarshaller.cpp:42 and 106),
\* as long as Windows takes every message.
THEOREM MessagesMatch ==
  ASSUME "noPost" \notin Faults
  PROVE  Spec => []MessagesMatchResults
<1>1. Init => Matched
  BY DEF Init, Matched
<1>2. IInv /\ Matched => MessagesMatchResults
  <2> SUFFICES ASSUME IInv, Matched, NEW g \in handles
               PROVE  /\ results[g] = Announced(g) \cup {j \in Jobs : Stored(g, j)}
                      /\ Cardinality(Announced(g)) = Len(messages[g])
    BY DEF MessagesMatchResults, Stored
  <2>1. g \in Generations /\ results[g] \subseteq Jobs /\ messages[g] \in Seq(Jobs)
    BY DEF IInv, Shape
  <2>2. Announced(g) = {j \in Jobs : In(g, j)}
    BY <2>1, LenProperties DEF Announced, In
  <2>3. results[g] = Announced(g) \cup {j \in Jobs : Stored(g, j)}
    BY <2>1, <2>2 DEF Matched
  <2> QED
    BY <2>1, <2>3, OneMessageEach
<1>3. IInv /\ Matched /\ [Next]_vars => Matched'
  BY MatchStep
<1> QED
  BY <1>1, <1>2, <1>3, Invariance, PTL DEF Spec

----------------------------------------------------------------------------
\* Refinement of ResultDelivery, one lemma for each kind of step.

\* While a marshaller is stopped nothing is outstanding.
LEMMA ClosedIsEmpty == state \notin handles => Outstanding = {}
BY DEF Outstanding

\* A new generation starts with nothing outstanding: no worker and no message
\* has its number.
LEMMA StartDelivers == IInv /\ Start => Delivery!Open
<1> SUFFICES ASSUME IInv, Start PROVE Delivery!Open
  OBVIOUS
<1>1. state \notin handles /\ state' \in handles' /\ state' = starts + 1 /\ starts \in Nat
  BY DEF Start, IInv, Shape, Generations
<1>2. Outstanding = {}
  BY <1>1, ClosedIsEmpty
<1>3. Outstanding' = {}
  <2>1. \A j \in Jobs : worker[j] # "none" => under[j] # starts + 1
    BY <1>1 DEF IInv, Shape, Dispatched, Generations
  <2>2. starts + 1 \in Generations
    BY <1>1, BoundsAssumption DEF Start, Generations
  <2>3. messages[starts + 1] \in Seq(Jobs)
    BY <2>2 DEF IInv, Shape
  <2>4. \A i \in DOMAIN messages[starts + 1] :
          /\ messages[starts + 1][i] \in Jobs
          /\ worker[messages[starts + 1][i]] # "none" /\ under[messages[starts + 1][i]] = starts + 1
    BY <2>2, <2>3, LenProperties DEF IInv, Posted, Past
  <2>5. \A j \in Jobs : \A i \in DOMAIN messages[starts + 1] : messages[starts + 1][i] # j
    BY <2>1, <2>4
  <2>6. worker' = worker /\ under' = under /\ messages' = messages
    BY DEF Start, threads
  <2>7. ASSUME NEW j \in Outstanding' PROVE FALSE
    <3>1. /\ j \in Jobs /\ under[j] = starts + 1
          /\ worker[j] \in {"converting", "locked", "stored"}
             \/ \E i \in DOMAIN messages[starts + 1] : messages[starts + 1][i] = j
      BY <1>1, <2>6, <2>7 DEF Outstanding, Announced
    <3> QED
      BY <2>1, <2>5, <3>1
  <2> QED
    BY <2>7
<1>4. jobs' = jobs /\ delivered' = delivered
  BY DEF Start, threads
<1> QED
  BY <1>1, <1>2, <1>3, <1>4 DEF Delivery!Open

Working == {"converting", "locked", "stored"}

\* A step that posts and takes no message, and stops no worker of the current
\* generation, is none of the delivery's business.
LEMMA OutKept ==
  ASSUME UNCHANGED <<state, handles, messages, under>>,
         \A j \in Jobs : under[j] \in handles => (worker'[j] \in Working <=> worker[j] \in Working)
  PROVE  Outstanding' = Outstanding
<1>1. \A j \in Jobs : j \in Outstanding' <=> j \in Outstanding
  BY DEF Outstanding, Announced, Working
<1>2. Outstanding \subseteq Jobs /\ Outstanding' \subseteq Jobs
  BY DEF Outstanding
<1> QED
  BY <1>1, <1>2

LEMMA StopClearDelivers == IInv /\ StopClear => Delivery!Close
<1> SUFFICES ASSUME IInv, StopClear PROVE Delivery!Close
  OBVIOUS
<1>1. state \in handles /\ state' = state /\ state' \notin handles'
  BY DEF StopClear
<1>2. Outstanding' = {}
  BY <1>1 DEF Outstanding
<1>3. jobs' = jobs /\ delivered' = delivered
  BY DEF StopClear, threads
<1> QED
  BY <1>1, <1>2, <1>3 DEF Delivery!Close

LEMMA StopDestroyDelivers ==
  IInv /\ StopDestroy => UNCHANGED <<state \in handles, 1..jobs, Outstanding, delivered>>
<1> SUFFICES ASSUME IInv, StopDestroy
             PROVE  UNCHANGED <<state \in handles, 1..jobs, Outstanding, delivered>>
  OBVIOUS
<1>1. state \notin handles /\ state' \notin handles'
  BY DEF StopDestroy, IInv, Shape, Generations
<1>2. Outstanding = {} /\ Outstanding' = {}
  BY <1>1 DEF Outstanding
<1>3. jobs' = jobs /\ delivered' = delivered
  BY DEF StopDestroy, threads
<1> QED
  BY <1>1, <1>2, <1>3

\* The job dispatched is a new one, and outstanding if it has a thread.
LEMMA DispatchTakes ==
  ASSUME IInv, Dispatch
  PROVE  /\ jobs \in Nat /\ jobs' = jobs + 1 /\ jobs' \in Jobs /\ jobs' \notin Outstanding
         /\ Outstanding \subseteq Jobs
         /\ Outstanding' \in {Outstanding, Outstanding \cup {jobs'}}
         /\ state \in handles /\ UNCHANGED <<state, handles, delivered>>
<1> DEFINE job == jobs + 1
<1>1. /\ job \in Jobs /\ worker[job] = "none" /\ state \in Generations /\ state \in handles
      /\ jobs' = job /\ jobs \in Nat
  BY BoundsAssumption DEF Dispatch, IInv, Shape, Jobs, Dispatched
<1>2. PICK created \in BOOLEAN :
        worker' = [worker EXCEPT ![job] = IF created THEN "converting" ELSE "gone"]
  BY <1>1 DEF Dispatch, Granted
<1>3. /\ worker'[job] = (IF created THEN "converting" ELSE "gone") /\ under'[job] = state
      /\ \A j \in Jobs \ {job} : worker'[j] = worker[j] /\ under'[j] = under[j]
  BY <1>1, <1>2 DEF Dispatch, IInv, Shape
<1>4. state' = state /\ handles' = handles /\ messages' = messages /\ delivered' = delivered
  BY DEF Dispatch, states
<1> HIDE DEF job
<1>5. \A i \in DOMAIN messages[state] : messages[state][i] # job
  BY <1>1 DEF IInv, Posted, Past
<1>6. \A j \in Jobs \ {job} : j \in Outstanding' <=> j \in Outstanding
  BY <1>3, <1>4 DEF Outstanding, Announced
<1>7. job \in Outstanding' <=> created
  BY <1>1, <1>3, <1>4, <1>5 DEF Outstanding, Announced
<1>8. job \notin Outstanding /\ Outstanding \subseteq Jobs /\ Outstanding' \subseteq Jobs
  BY <1>1, <1>5 DEF Outstanding, Announced
<1>9. Outstanding' \in {Outstanding, Outstanding \cup {job}}
  BY <1>6, <1>7, <1>8
<1>10. job = jobs + 1
  BY DEF job
<1> QED
  BY <1>1, <1>4, <1>8, <1>9, <1>10

LEMMA DispatchDelivers == IInv /\ Dispatch => Delivery!HandOver
<1> SUFFICES ASSUME IInv, Dispatch PROVE Delivery!HandOver
  OBVIOUS
<1>1. 1..jobs' = (1..jobs) \cup {jobs'} /\ jobs' \in (1..jobs') \ (1..jobs)
  BY DispatchTakes
<1> QED
  BY <1>1, DispatchTakes DEF Delivery!HandOver

\* The message taken is for an outstanding job, and was the only one for it.
LEMMA WndProcTakes ==
  ASSUME IInv, WndProc
  PROVE  /\ state \in Generations /\ state \in handles
         /\ state' = state /\ handles' = handles /\ jobs' = jobs
         /\ Head(messages[state]) \in Outstanding
         /\ Outstanding' = Outstanding \ {Head(messages[state])}
         /\ delivered' \in {delivered, Append(delivered, Head(messages[state]))}
<1> DEFINE queue == messages[state]
           id    == Head(queue)
<1>1. /\ state \in Generations /\ state \in handles
      /\ state' = state /\ handles' = handles /\ UNCHANGED threads
      /\ queue \in Seq(Jobs) /\ queue # <<>> /\ messages'[state] = Tail(queue)
  BY DEF WndProc, IInv, Shape
<1>2. delivered' \in {delivered, Append(delivered, id)}
  BY DEF WndProc
<1> HIDE DEF queue, id
<1>3. /\ id = queue[1] /\ 1 \in DOMAIN queue /\ id \in Jobs /\ DOMAIN queue \subseteq Nat
      /\ DOMAIN queue = 1..Len(queue) /\ Len(queue) \in Nat
      /\ DOMAIN Tail(queue) = 1..(Len(queue) - 1)
      /\ \A i \in DOMAIN Tail(queue) : Tail(queue)[i] = queue[i + 1] /\ i + 1 \in DOMAIN queue
  BY <1>1, TailEntries, LenProperties DEF id
<1>4. /\ \A i \in DOMAIN queue : worker[queue[i]] \in Past /\ under[queue[i]] = state
      /\ \A i, k \in DOMAIN queue : queue[i] = queue[k] => i = k
  BY <1>1 DEF IInv, Posted, queue
<1>5. \A j : (\E i \in DOMAIN Tail(queue) : Tail(queue)[i] = j)
               <=> j # id /\ \E i \in DOMAIN queue : queue[i] = j
  <2>1. ASSUME NEW i \in DOMAIN Tail(queue)
        PROVE  Tail(queue)[i] # id /\ \E k \in DOMAIN queue : queue[k] = Tail(queue)[i]
    BY <1>3, <1>4
  <2>2. ASSUME NEW i \in DOMAIN queue, queue[i] # id
        PROVE  i - 1 \in DOMAIN Tail(queue) /\ Tail(queue)[i - 1] = queue[i]
    BY <1>3, <2>2
  <2> QED
    BY <2>1, <2>2
<1>6. id \in Outstanding
  BY <1>1, <1>3, <1>4 DEF Outstanding, Announced, queue
<1>7. worker[id] \notin Working
  BY <1>3, <1>4 DEF Past, Working
<1>8. \A j \in Jobs : j \in Outstanding' <=> j \in Outstanding /\ j # id
  <2>1. worker' = worker /\ under' = under
    BY <1>1 DEF threads
  <2>2. \A j \in Jobs : j \in Outstanding <=>
          under[j] = state /\ (worker[j] \in Working \/ \E i \in DOMAIN queue : queue[i] = j)
    BY <1>1 DEF Outstanding, Announced, queue, Working
  <2>3. \A j \in Jobs : j \in Outstanding' <=>
          under[j] = state /\ (worker[j] \in Working
                               \/ \E i \in DOMAIN messages'[state] : messages'[state][i] = j)
    BY <1>1, <2>1 DEF Outstanding, Announced, Working
  <2> QED
    BY <1>1, <1>5, <1>7, <2>2, <2>3
<1>9. Outstanding' = Outstanding \ {id}
  BY <1>8 DEF Outstanding
<1>10. jobs' = jobs
  BY <1>1 DEF threads
<1> QED
  BY <1>1, <1>2, <1>6, <1>9, <1>10 DEF id, queue

LEMMA WndProcDelivers == IInv /\ WndProc => Delivery!Answer \/ Delivery!Lose
BY WndProcTakes DEF Delivery!Answer, Delivery!Lose


\* A job posted stays outstanding as a message; one whose message Windows
\* refuses is lost.
LEMMA PostDelivers ==
  ASSUME IInv, NEW job \in Jobs, Post(job)
  PROVE  Delivery!Lose \/ UNCHANGED <<state \in handles, 1..jobs, Outstanding, delivered>>
<1>1. /\ worker[job] = "stored" /\ worker'[job] = "answered"
      /\ \A j \in Jobs \ {job} : worker'[j] = worker[j]
  BY Moves DEF Post, Stage
<1>2. under[job] = state /\ state \in handles /\ state \in Generations
  BY <1>1 DEF IInv, StoredOpen, OneGeneration, Shape
<1>3. /\ state' = state /\ handles' = handles /\ under' = under /\ jobs' = jobs
      /\ delivered' = delivered
  BY DEF Post
<1>4. job \in Outstanding /\ Outstanding \subseteq Jobs /\ Outstanding' \subseteq Jobs
  BY <1>1, <1>2 DEF Outstanding
<1>5. messages' = messages \/ messages' = [messages EXCEPT ![state] = Append(@, job)]
  BY <1>2 DEF Post
<1>6. CASE messages' = messages
  <2>1. \A i \in DOMAIN messages[state] : messages[state][i] # job
    BY <1>1, <1>2 DEF IInv, Posted, Past
  <2>2. \A j \in Jobs : j \in Outstanding' <=> j \in Outstanding /\ j # job
    BY <1>1, <1>2, <1>3, <1>6, <2>1 DEF Outstanding, Announced
  <2>3. Outstanding' = Outstanding \ {job}
    BY <1>4, <2>2
  <2> QED
    BY <1>2, <1>3, <1>4, <2>3 DEF Delivery!Lose
<1>7. CASE messages' = [messages EXCEPT ![state] = Append(@, job)]
  <2>1. messages[state] \in Seq(Jobs) /\ messages'[state] = Append(messages[state], job)
    BY <1>2, <1>7 DEF IInv, Shape
  <2>2. \A j : (\E i \in DOMAIN messages'[state] : messages'[state][i] = j)
                 <=> j = job \/ \E i \in DOMAIN messages[state] : messages[state][i] = j
    <3>1. /\ DOMAIN messages[state] = 1..Len(messages[state]) /\ Len(messages[state]) \in Nat
          /\ DOMAIN messages'[state] = 1..(Len(messages[state]) + 1)
          /\ \A i \in 1..Len(messages[state]) : messages'[state][i] = messages[state][i]
          /\ messages'[state][Len(messages[state]) + 1] = job
      BY <2>1, LenProperties, AppendProperties
    <3>2. DOMAIN messages'[state] = DOMAIN messages[state] \cup {Len(messages[state]) + 1}
      BY <3>1
    <3> QED
      BY <3>1, <3>2
  <2>3. \A j \in Jobs : j \in Outstanding' <=> j \in Outstanding
    BY <1>1, <1>2, <1>3, <2>2 DEF Outstanding, Announced
  <2> QED
    BY <1>3, <1>4, <2>3
<1> QED
  BY <1>5, <1>6, <1>7

LEMMA DeliveryStep ==
  IInv /\ [Next]_vars
    => [Delivery!Next]_<<state \in handles, 1..jobs, Outstanding, delivered>>
<1> DEFINE delivery == <<state \in handles, 1..jobs, Outstanding, delivered>>
<1> SUFFICES ASSUME IInv, [Next]_vars PROVE Delivery!Next \/ UNCHANGED delivery
  OBVIOUS
<1>1. CASE Pump
  BY <1>1, StartDelivers, StopClearDelivers, StopDestroyDelivers, DispatchDelivers, WndProcDelivers
     DEF Pump, Delivery!Next
<1>2. ASSUME UNCHANGED <<states, threads, delivered>> PROVE UNCHANGED delivery
  <2>1. Outstanding' = Outstanding
    BY <1>2, OutKept DEF states, threads
  <2> QED
    BY <1>2, <2>1 DEF states, threads
<1>3. CASE Host
  BY <1>2, <1>3 DEF Host, CreateService, ReleaseService, Unload
<1>4. ASSUME NEW job \in Jobs, Work(job) PROVE Delivery!Next \/ UNCHANGED delivery
  <2>1. CASE Post(job)
    BY <2>1, PostDelivers DEF Delivery!Next
  <2>2. CASE Lock(job) \/ Store(job) \/ Discard(job) \/ Release(job) \/ Exit(job)
    <3>1. UNCHANGED <<state, handles, messages, under, jobs, delivered>>
      BY <2>2 DEF Lock, Store, Discard, Release, Exit, states
    <3>2. worker \in [Jobs -> Stage]
      BY DEF IInv, Shape
    <3>3. \A j \in Jobs : under[j] \in handles => (worker'[j] \in Working <=> worker[j] \in Working)
      BY <2>2, <3>2 DEF Lock, Store, Discard, Release, Exit, At, Working
    <3>4. Outstanding' = Outstanding
      BY <3>1, <3>3, OutKept
    <3> QED
      BY <3>1, <3>4
  <2> QED
    BY <1>4, <2>1, <2>2 DEF Work
<1>5. CASE UNCHANGED vars
  BY <1>2, <1>5 DEF vars
<1> QED
  BY <1>1, <1>3, <1>4, <1>5 DEF Next

\* To the text service the marshaller, its threads and messages are a delivery
\* of results: no answer twice, none from before a restart
\* (ConvertMarshaller.h:7).
THEOREM Refinement == Spec => DeliversResults
<1>1. Init => Delivery!Init
  <2> SUFFICES ASSUME Init PROVE Delivery!Init
    OBVIOUS
  <2>1. state \notin handles /\ 1..jobs = {} /\ delivered = <<>>
    BY DEF Init
  <2>2. Outstanding = {}
    BY <2>1, ClosedIsEmpty
  <2> QED
    BY <2>1, <2>2 DEF Delivery!Init
<1>2. IInv /\ [Next]_vars
        => [Delivery!Next]_<<state \in handles, 1..jobs, Outstanding, delivered>>
  BY DeliveryStep
<1> QED
  BY <1>1, <1>2, Invariance, PTL DEF Spec, DeliversResults, Delivery!Spec
=============================================================================
