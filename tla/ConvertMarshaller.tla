-------------------------- MODULE ConvertMarshaller --------------------------
(***************************************************************************)
(* ConvertMarshaller.cpp: conversions run on detached threads, and their   *)
(* results come back to the thread of the text service through a           *)
(* message-only window.  The service's thread, the workers and the host's  *)
(* COM library interleave; what one of them does while it holds the mutex  *)
(* of a State is split where another could otherwise get between.          *)
(*                                                                         *)
(* Every Start makes a State of its own (a generation), shared with the    *)
(* workers dispatched under it; they may outlive it, and the service.      *)
(***************************************************************************)
EXTENDS Integers, Sequences, FiniteSets

CONSTANTS MaxStarts,   \* bound: generations
          MaxJobs,     \* bound: conversions dispatched
          Faults       \* what Windows may refuse, see FaultKinds

FaultKinds == {"noThread",  \* std::thread throws
               "noPost"}    \* PostMessage fails

ASSUME BoundsAssumption == MaxStarts \in Nat /\ MaxJobs \in Nat
ASSUME FaultsAssumption == Faults \subseteq FaultKinds

Generations == 1..MaxStarts
Jobs        == 1..MaxJobs

VARIABLES
  state,     \* state_: the current generation, 0 when null
  starts,    \* generations begun so far
  handles,   \* generations whose State::hwnd is set
  windows,   \* generations whose window exists
  results,   \* State::results: ids by generation
  messages,  \* ids posted to each window, not yet dispatched
  mutex,     \* State::mutex: the job whose worker holds it, 0 when free
  jobs,      \* jobs dispatched so far
  under,     \* the generation each job was dispatched under
  worker,    \* how far each job's worker thread is
  delivered, \* the jobs onResult was called for, in order
  service,   \* a CTextService exists
  refs,      \* g_cRefDll
  loaded     \* the DLL is mapped

states  == <<state, starts, handles, windows, results, messages, mutex>>
threads == <<jobs, under, worker>>
dll     == <<service, refs, loaded>>
vars    == <<states, threads, delivered, dll>>

Granted(fault) == IF fault \in Faults THEN BOOLEAN ELSE {TRUE}

\* A worker's thread: not begun, in Convert, holding the mutex, its result
\* stored, past the callback, past DllRelease, ended.
Stage == {"none", "converting", "locked", "stored", "answered", "leaving", "gone"}
Pinning == {"converting", "locked", "stored", "answered"}
Holding == {"locked", "stored"}

----------------------------------------------------------------------------
\* The service's thread.

\* Mutant: one State for all time.
StartReusesState ==
  /\ service /\ state = 0 /\ starts < MaxStarts
  /\ starts' = starts + 1 /\ state' = 1
  /\ handles' = handles \cup {1} /\ windows' = windows \cup {1}
  /\ UNCHANGED <<results, messages, mutex, threads, delivered, dll>>

\* Start: a new State and its window.  When the window cannot be had state_
\* stays null and every Dispatch returns at once.
Start ==
  /\ service /\ state = 0 /\ starts < MaxStarts
  /\ starts' = starts + 1 /\ state' = starts'
  /\ handles' = handles \cup {starts'} /\ windows' = windows \cup {starts'}
  /\ UNCHANGED <<results, messages, mutex, threads, delivered, dll>>

\* Mutant: the handle is cleared without the mutex.
StopClearUnlocked ==
  /\ state \in handles
  /\ handles' = handles \ {state}
  /\ UNCHANGED <<state, starts, windows, results, messages, mutex, threads, delivered, dll>>

\* Stop, under the mutex: from here on workers throw their results away.
StopClear ==
  /\ state \in handles /\ mutex[state] = 0
  /\ handles' = handles \ {state}
  /\ UNCHANGED <<state, starts, windows, results, messages, mutex, threads, delivered, dll>>

\* Stop, after it: the window goes, and the messages posted to it.
StopDestroy ==
  /\ state # 0 /\ state \notin handles
  /\ windows' = windows \ {state}
  /\ messages' = [messages EXCEPT ![state] = <<>>]
  /\ state' = 0
  /\ UNCHANGED <<starts, handles, results, mutex, threads, delivered, dll>>

\* Mutant: the reference of a thread that never was is kept.
DispatchLeaks ==
  /\ state \in handles /\ jobs < MaxJobs
  /\ jobs' = jobs + 1
  /\ under' = [under EXCEPT ![jobs'] = state]
  /\ \E created \in Granted("noThread") :
       worker' = [worker EXCEPT ![jobs'] = IF created THEN "converting" ELSE "gone"]
  /\ refs' = refs + 1
  /\ UNCHANGED <<states, delivered, service, loaded>>

\* Mutant: the thread is left to take its own reference.
DispatchUnpinned ==
  /\ state \in handles /\ jobs < MaxJobs
  /\ jobs' = jobs + 1
  /\ under' = [under EXCEPT ![jobs'] = state]
  /\ \E created \in Granted("noThread") :
       worker' = [worker EXCEPT ![jobs'] = IF created THEN "converting" ELSE "gone"]
  /\ UNCHANGED <<states, delivered, dll>>

\* Mutant: the number of a job whose thread has ended is used again.
DispatchReusesIds ==
  /\ state \in handles
  /\ \E job \in Jobs :
       /\ worker[job] \in {"none", "gone"}
       /\ \A j \in 1..(job - 1) : worker[j] \notin {"none", "gone"}
       /\ jobs' = IF job > jobs THEN job ELSE jobs
       /\ under' = [under EXCEPT ![job] = state]
       /\ worker' = [worker EXCEPT ![job] = "converting"]
  /\ refs' = refs + 1
  /\ UNCHANGED <<states, delivered, service, loaded>>

\* Dispatch: a reference on the DLL, then a thread; without a thread the
\* reference is given back and nobody works on the job.
Dispatch ==
  /\ state \in handles /\ jobs < MaxJobs
  /\ jobs' = jobs + 1
  /\ under' = [under EXCEPT ![jobs'] = state]
  /\ \E created \in Granted("noThread") :
       /\ worker' = [worker EXCEPT ![jobs'] = IF created THEN "converting" ELSE "gone"]
       /\ refs' = IF created THEN refs + 1 ELSE refs
  /\ UNCHANGED <<states, delivered, service, loaded>>

\* MarshallerWndProc: the result is taken out under the mutex, and the handler
\* called with it.
WndProc ==
  /\ state \in handles /\ mutex[state] = 0 /\ messages[state] # <<>>
  /\ LET id == Head(messages[state])
     IN  /\ results' = [results EXCEPT ![state] = @ \ {id}]
         /\ delivered' = IF id \in results[state] THEN Append(delivered, id) ELSE delivered
  /\ messages' = [messages EXCEPT ![state] = Tail(@)]
  /\ UNCHANGED <<state, starts, handles, windows, mutex, threads, dll>>

----------------------------------------------------------------------------
\* The workers.

At(job, stage, next) ==
  worker[job] = stage /\ worker' = [worker EXCEPT ![job] = next]

\* The conversion is over, whatever came of it, and the callback takes the
\* mutex.
Lock(job) ==
  /\ At(job, "converting", "locked")
  /\ mutex[under[job]] = 0 /\ mutex' = [mutex EXCEPT ![under[job]] = job]
  /\ UNCHANGED <<state, starts, handles, windows, results, messages, jobs, under,
                 delivered, dll>>

\* With the handle still set, the result goes into the map.
Store(job) ==
  /\ At(job, "locked", "stored")
  /\ under[job] \in handles
  /\ results' = [results EXCEPT ![under[job]] = @ \cup {job}]
  /\ UNCHANGED <<state, starts, handles, windows, messages, mutex, jobs, under,
                 delivered, dll>>

\* After a Stop it is thrown away.
Discard(job) ==
  /\ At(job, "locked", "answered")
  /\ under[job] \notin handles
  /\ mutex' = [mutex EXCEPT ![under[job]] = 0]
  /\ UNCHANGED <<state, starts, handles, windows, results, messages, jobs, under,
                 delivered, dll>>

\* Mutant: a message for the first result only, to be sent while the map is empty.
PostWhenEmpty(job) ==
  /\ At(job, "stored", "answered")
  /\ messages' = IF results[under[job]] = {job}
                   THEN [messages EXCEPT ![under[job]] = Append(@, job)] ELSE messages
  /\ mutex' = [mutex EXCEPT ![under[job]] = 0]
  /\ UNCHANGED <<state, starts, handles, windows, results, jobs, under, delivered, dll>>

\* Mutant: the mutex is not released.
PostKeepsMutex(job) ==
  /\ At(job, "stored", "answered")
  /\ messages' = [messages EXCEPT ![under[job]] = Append(@, job)]
  /\ UNCHANGED <<state, starts, handles, windows, results, mutex, jobs, under, delivered, dll>>

\* The message is posted, and the mutex released.  Nobody looks at what
\* PostMessage returns.
Post(job) ==
  /\ At(job, "stored", "answered")
  /\ \E posted \in Granted("noPost") :
       messages' = IF posted /\ under[job] \in windows
                     THEN [messages EXCEPT ![under[job]] = Append(@, job)]
                     ELSE messages
  /\ mutex' = [mutex EXCEPT ![under[job]] = 0]
  /\ UNCHANGED <<state, starts, handles, windows, results, jobs, under, delivered, dll>>

\* DllRelease, still in the lambda: its captures are destroyed after it.
Release(job) ==
  /\ At(job, "answered", "leaving")
  /\ refs' = refs - 1
  /\ UNCHANGED <<states, jobs, under, delivered, service, loaded>>

\* The thread has left the DLL's code.
Exit(job) ==
  /\ At(job, "leaving", "gone")
  /\ UNCHANGED <<states, jobs, under, delivered, dll>>

Work(job) == \/ Lock(job) \/ Store(job) \/ Discard(job) \/ Post(job)
             \/ Release(job) \/ Exit(job)

----------------------------------------------------------------------------
\* The host.

\* CoCreateInstance: the DLL is mapped, and the service counts itself.
CreateService ==
  /\ ~service
  /\ service' = TRUE /\ loaded' = TRUE /\ refs' = IF loaded THEN refs + 1 ELSE 1
  /\ UNCHANGED <<states, threads, delivered>>

\* The last Release of a deactivated service.
ReleaseService ==
  /\ service /\ state = 0
  /\ service' = FALSE /\ refs' = refs - 1
  /\ UNCHANGED <<states, threads, delivered, loaded>>

\* CoFreeUnusedLibraries, when DllCanUnloadNow says so.
Unload ==
  /\ loaded /\ refs <= 0
  /\ loaded' = FALSE
  /\ UNCHANGED <<states, threads, delivered, service, refs>>

Init ==
  /\ state = 0 /\ starts = 0 /\ handles = {} /\ windows = {}
  /\ results = [g \in Generations |-> {}]
  /\ messages = [g \in Generations |-> <<>>]
  /\ mutex = [g \in Generations |-> 0]
  /\ jobs = 0 /\ under = [j \in Jobs |-> 0] /\ worker = [j \in Jobs |-> "none"]
  /\ delivered = <<>>
  /\ service = FALSE /\ refs = 0 /\ loaded = FALSE

Pump == Start \/ StopClear \/ StopDestroy \/ Dispatch \/ WndProc
Host == CreateService \/ ReleaseService \/ Unload

Next == Pump \/ Host \/ \E job \in Jobs : Work(job)

Spec == Init /\ [][Next]_vars

\* A thread that can run does, every conversion ends, if only with a timeout,
\* and the application pumps messages; nothing makes the user stop or start.
Fairness == (\A job \in Jobs : WF_vars(Work(job))) /\ WF_vars(WndProc)
FairSpec == Spec /\ Fairness

----------------------------------------------------------------------------
TypeOK ==
  /\ state \in 0..MaxStarts /\ starts \in 0..MaxStarts
  /\ handles \subseteq Generations /\ windows \subseteq Generations
  /\ results \in [Generations -> SUBSET Jobs]
  /\ messages \in [Generations -> Seq(Jobs)]
  /\ mutex \in [Generations -> 0..MaxJobs]
  /\ jobs \in 0..MaxJobs /\ under \in [Jobs -> 0..MaxStarts] /\ worker \in [Jobs -> Stage]
  /\ delivered \in Seq(Jobs)
  /\ service \in BOOLEAN /\ refs \in Nat /\ loaded \in BOOLEAN

\* The mutex excludes: whoever is in the callback's critical section holds it,
\* and it is held by nobody else.
MutexHeld ==
  \A g \in Generations :
    {j \in Jobs : worker[j] \in Holding /\ under[j] = g} = {mutex[g]} \ {0}

\* A message is only ever posted to a window that exists: Stop cannot destroy
\* it between a worker's look at the handle and its post
\* (ConvertMarshaller.cpp:80 and 104).
PostsReachAWindow ==
  \A job \in Jobs : worker[job] = "stored" => under[job] \in windows

\* Every message finds its result in the map, and every result in the map of a
\* running generation has its message, or a worker about to post it: nothing
\* is delivered twice, and nothing sits in the map for good.
Announced(g) == {messages[g][i] : i \in DOMAIN messages[g]}
MessagesMatchResults ==
  \A g \in handles :
    /\ results[g] = Announced(g) \cup {j \in Jobs : worker[j] = "stored" /\ under[j] = g}
    /\ Cardinality(Announced(g)) = Len(messages[g])

\* The reference count is the number of those who need the DLL: the service and
\* the workers that have not released it.
RefsCountTheUsers ==
  refs = Cardinality({j \in Jobs : worker[j] \in Pinning}) + (IF service THEN 1 ELSE 0)

\* The DLL stays mapped while a conversion runs, even when the service that
\* asked for it is gone (ConvertMarshaller.cpp:97).
ConversionsPinTheDll ==
  \A job \in Jobs : worker[job] \in Pinning => loaded

\* The DLL stays mapped for the life of the thread, as the comment at
\* ConvertMarshaller.cpp:97 has it: the captures' destructors are code, too.
ThreadsPinTheDll ==
  \A job \in Jobs : worker[job] \in Pinning \cup {"leaving"} => loaded

\* Each conversion handed over is answered, unless its generation is stopped.
EveryJobIsAnswered ==
  \A job \in Jobs :
    worker[job] = "converting" ~> (\E i \in DOMAIN delivered : delivered[i] = job)
                                  \/ under[job] \notin handles

\* To the service this is a delivery of results: an answer comes at most once,
\* and never after the Stop of the generation that asked (ConvertMarshaller.h:7).
Outstanding ==
  {j \in Jobs : /\ under[j] = state /\ state \in handles
                /\ \/ worker[j] \in {"converting", "locked", "stored"}
                   \/ j \in Announced(state)}
Delivery == INSTANCE ResultDelivery
              WITH isOpen <- state \in handles, issued <- 1..jobs,
                   out <- Outstanding, answered <- delivered
DeliversResults == Delivery!Spec
=============================================================================
