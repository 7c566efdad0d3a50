---------------------------- MODULE ImeSystemProofs ----------------------------
(***************************************************************************)
(* ImeSystem, for any number of keys, starts, services and conversions:    *)
(* what is proved of TextService and of ConvertMarshaller alone holds of   *)
(* the two together, and of the host that tests its keys first.            *)
(*                                                                         *)
(* Every step of the system is a step of each or none, but for two: a key  *)
(* may be inserted in a mode that it was not tested in, and a new service  *)
(* takes the place of an old one.  What TextService assumes, that an       *)
(* answer is for a request of its own, is here what the marshaller, which  *)
(* knows its jobs by number only, has to provide: InFlightIsOurs.          *)
(***************************************************************************)
EXTENDS ImeSystem, TextServiceProofs

\* The marshaller once more, with what is proved of it.
Proved == INSTANCE ConvertMarshallerProofs WITH jobs <- dispatched, Faults <- WindowsFaults

----------------------------------------------------------------------------
\* The two instances of ConvertMarshaller are one.

LEMMA MarshallerFits == Proved!BoundsAssumption /\ Proved!FaultsAssumption
BY StartsAssumption, WindowsAssumption
   DEF Proved!BoundsAssumption, Proved!FaultsAssumption, Proved!FaultKinds,
       Marshaller!FaultKinds

LEMMA SameJobs == /\ Marshaller!Jobs = Proved!Jobs
                  /\ Marshaller!Outstanding = Proved!Outstanding
BY DEF Marshaller!Outstanding, Proved!Outstanding, Marshaller!Announced, Proved!Announced,
       Marshaller!Jobs, Proved!Jobs

LEMMA SameJobsNext == (Marshaller!Outstanding = Proved!Outstanding)'
BY SameJobs, PTL

LEMMA SameInit == Marshaller!Init => Proved!Init
BY DEF Marshaller!Init, Proved!Init, Marshaller!Generations, Proved!Generations,
       Marshaller!Jobs, Proved!Jobs

LEMMA SamePump ==
  /\ Marshaller!Start => Proved!Start
  /\ Marshaller!StopClear => Proved!StopClear
  /\ Marshaller!StopDestroy => Proved!StopDestroy
  /\ Marshaller!WndProc => Proved!WndProc
BY DEF Marshaller!Start, Proved!Start, Marshaller!StopClear, Proved!StopClear,
       Marshaller!StopDestroy, Proved!StopDestroy, Marshaller!WndProc, Proved!WndProc,
       Marshaller!threads, Proved!threads, Marshaller!dll, Proved!dll

LEMMA SameDispatch == Marshaller!Dispatch => Proved!Dispatch
BY DEF Marshaller!Dispatch, Proved!Dispatch, Marshaller!Granted, Proved!Granted,
       Marshaller!states, Proved!states

LEMMA SameHost ==
  /\ Marshaller!CreateService => Proved!CreateService
  /\ Marshaller!ReleaseService => Proved!ReleaseService
  /\ Marshaller!Unload => Proved!Unload
BY DEF Marshaller!CreateService, Proved!CreateService, Marshaller!ReleaseService,
       Proved!ReleaseService, Marshaller!Unload, Proved!Unload, Marshaller!states,
       Proved!states, Marshaller!threads, Proved!threads

LEMMA SameWork == \A job : Marshaller!Work(job) => Proved!Work(job)
<1> TAKE job
<1>1. /\ Marshaller!Lock(job) => Proved!Lock(job)
      /\ Marshaller!Store(job) => Proved!Store(job)
      /\ Marshaller!Discard(job) => Proved!Discard(job)
  BY DEF Marshaller!Lock, Proved!Lock, Marshaller!Store, Proved!Store, Marshaller!Discard,
         Proved!Discard, Marshaller!At, Proved!At, Marshaller!dll, Proved!dll
<1>2. Marshaller!Post(job) => Proved!Post(job)
  BY DEF Marshaller!Post, Proved!Post, Marshaller!At, Proved!At, Marshaller!dll, Proved!dll,
         Marshaller!Granted, Proved!Granted
<1>3. /\ Marshaller!Release(job) => Proved!Release(job)
      /\ Marshaller!Exit(job) => Proved!Exit(job)
  BY DEF Marshaller!Release, Proved!Release, Marshaller!Exit, Proved!Exit, Marshaller!At,
         Proved!At, Marshaller!dll, Proved!dll, Marshaller!states, Proved!states
<1> QED BY <1>1, <1>2, <1>3 DEF Marshaller!Work, Proved!Work

LEMMA SameStill == UNCHANGED threads => UNCHANGED Proved!vars
BY DEF threads, Proved!vars, Proved!states, Proved!threads, Proved!dll

----------------------------------------------------------------------------
\* The steps of the system, by what they do to the two parts.

Outstanding == Proved!Outstanding

\* A key that the service has tested comes to nothing while it is not active.
KeepsTested == tested' = NoKey \/ active \/ UNCHANGED tested

\* The service, and not its marshaller.
ServiceStep ==
  /\ [Next]_vars
  /\ UNCHANGED <<threads, request, jobs, active>> /\ KeepsTested
  /\ ~active => UNCHANGED model

\* The application inserts a key that was tested before.
InsertStep ==
  /\ active /\ Quiet /\ AppInserts
  /\ tested.key \in TextKeys /\ (tested.eaten => ~Eats(tested.key))
  /\ UNCHANGED <<threads, request>> /\ tested' = NoKey

SubmitStep == active /\ Submit /\ tested' = NoKey

\* The marshaller, its workers and the DLL, and not the service.
ThreadStep ==
  /\ \/ Proved!StopDestroy \/ Proved!ReleaseService \/ Proved!Unload
     \/ \E job \in Proved!Jobs : Proved!Work(job)
  /\ Proved!ReleaseService => ~active
  /\ UNCHANGED <<vars, request, tested>>

LEMMA HandleSteps ==
  ASSUME NEW action, Handle(action), active, tested' = NoKey
  PROVE  ServiceStep \/ SubmitStep
<1>1. CASE Alone(AppendKey) \/ Alone(BackspaceKey) \/ Alone(EnterKey) \/ Alone(EscapeKey)
  BY <1>1 DEF Alone, ServiceStep, KeepsTested, Next, Keys, AppendKey, BackspaceKey, EnterKey,
     EscapeKey, activity, work
<1>2. CASE Submit
  BY <1>2 DEF SubmitStep
<1>3. CASE Swallow(action)
  BY <1>3 DEF Swallow, Alone, ServiceStep, KeepsTested, vars, activity, work
<1> QED BY <1>1, <1>2, <1>3 DEF Handle

LEMMA KeySteps ==
  ASSUME OnTestKeyDown \/ OnKeyDown \/ PassKey
  PROVE  ServiceStep \/ InsertStep \/ SubmitStep
<1>1. CASE OnTestKeyDown
  BY <1>1 DEF OnTestKeyDown, ServiceStep, KeepsTested, vars, activity, work
<1>2. ASSUME AppTakes(tested.key), tested.eaten => ~Eats(tested.key), active, Quiet,
             tested' = NoKey
      PROVE  ServiceStep \/ InsertStep
  <2>1. CASE tested.key \in TextKeys
    BY <1>2, <2>1 DEF AppTakes, InsertStep
  <2>2. CASE tested.key \notin TextKeys
    BY <1>2, <2>2 DEF AppTakes, ServiceStep, KeepsTested, vars, activity, work
  <2> QED BY <2>1, <2>2
<1>3. CASE OnKeyDown
  <2> DEFINE key == tested.key
  <2>1. ~Stopping /\ active /\ Quiet /\ tested' = NoKey
    BY <1>3 DEF OnKeyDown
  <2>2. \/ AppTakes(key) /\ ~Eats(key)
        \/ Alone(ModeKey /\ mode' = ModeAfter(key))
        \/ Handle(Decide(key, AllEmpty))
    BY <1>3 DEF OnKeyDown
  <2>3. CASE AppTakes(key) /\ ~Eats(key)
    BY <1>2, <2>1, <2>3
  <2>4. CASE Alone(ModeKey /\ mode' = ModeAfter(key))
    BY <2>1, <2>4 DEF Alone, ModeKey, ServiceStep, KeepsTested, Next, Keys, activity, work
  <2>5. CASE Handle(Decide(key, AllEmpty))
    BY <2>1, <2>5, HandleSteps
  <2> QED BY <2>2, <2>3, <2>4, <2>5
<1>4. CASE PassKey
  BY <1>2, <1>4 DEF PassKey
<1> QED BY <1>1, <1>3, <1>4

LEMMA Steps ==
  ASSUME [SystemNext]_system
  PROVE  \/ ServiceStep \/ InsertStep \/ SubmitStep \/ ThreadStep
         \/ Deliver \/ Activate \/ Stop \/ CreateService
<1>1. CASE OnTestKeyDown \/ OnKeyDown \/ PassKey
  BY <1>1, KeySteps
<1>2. CASE LanguageBar
  BY <1>2 DEF LanguageBar, Alone, ServiceStep, KeepsTested, Next, AppSetsOpen, activity, work
<1>3. CASE Terminated
  BY <1>3 DEF Terminated, Alone, ServiceStep, KeepsTested, Next, CompositionTerminated,
     activity, work
<1>4. CASE FlushGranted
  BY <1>4 DEF FlushGranted, Alone, ServiceStep, KeepsTested, Next, RunFlush, activity, work
<1>5. CASE DestroyWindow \/ ReleaseService \/ Unload
  <2>1. Proved!StopDestroy \/ (Proved!ReleaseService /\ ~active) \/ Proved!Unload
    BY <1>5, SamePump, SameHost DEF DestroyWindow, ReleaseService, Unload
  <2>2. UNCHANGED <<vars, request, tested>>
    BY <1>5 DEF DestroyWindow, ReleaseService, Unload
  <2>3. Proved!StopDestroy \/ Proved!Unload => ~Proved!ReleaseService
    BY DEF Proved!StopDestroy, Proved!Unload, Proved!ReleaseService, Proved!dll
  <2> QED BY <2>1, <2>2, <2>3 DEF ThreadStep
<1>6. CASE Worker
  <2>1. PICK job \in Proved!Jobs : Proved!Work(job)
    BY <1>6, SameWork, SameJobs DEF Worker
  <2>2. service' = service
    BY <2>1 DEF Proved!Work, Proved!Lock, Proved!Store, Proved!Discard, Proved!Post,
       Proved!Release, Proved!Exit, Proved!dll
  <2>3. ~Proved!ReleaseService
    BY <2>2 DEF Proved!ReleaseService
  <2> QED BY <1>6, <2>1, <2>3 DEF Worker, ThreadStep
<1>7. CASE UNCHANGED system
  BY <1>7 DEF system, ServiceStep, KeepsTested, vars, activity, work
<1> QED BY <1>1, <1>2, <1>3, <1>4, <1>5, <1>6, <1>7 DEF SystemNext

----------------------------------------------------------------------------
\* The invariant of the two together, under any faults.

\* A service that is not active has nothing to wait for.
Idle == ~active => AllEmpty /\ jobs = {} /\ tested = NoKey /\ state \notin handles

\* What is on its way was asked for by this service, each job under its own id.
Ours == /\ \A j \in Outstanding : request[j] \in jobs
        /\ \A j, k \in Outstanding : request[j].id = request[k].id => j = k

SystemInv ==
  /\ IInv /\ TInv /\ Proved!IInv
  /\ Idle /\ (active => service)
  /\ DOMAIN request = Proved!Jobs /\ Ours

\* To the marshaller and its threads every step is a step of theirs, or none.
LEMMA ThreadsMove ==
  ASSUME [SystemNext]_system
  PROVE  [Proved!Next]_Proved!vars
<1>1. CASE ServiceStep \/ InsertStep
  BY <1>1, SameStill DEF ServiceStep, InsertStep
<1>2. CASE SubmitStep
  BY <1>2, SameStill, SameDispatch DEF SubmitStep, Submit, Proved!Next, Proved!Pump
<1>3. CASE ThreadStep
  BY <1>3 DEF ThreadStep, Proved!Next, Proved!Pump, Proved!Host
<1>4. CASE Deliver \/ Activate \/ Stop
  BY <1>4, SameStill, SamePump DEF Deliver, Activate, Stop, Proved!Next, Proved!Pump
<1>5. CASE CreateService
  BY <1>5, SameHost DEF CreateService, Proved!Next, Proved!Host
<1> QED BY <1>1, <1>2, <1>3, <1>4, <1>5, Steps

\* What is outstanding grows only by what is dispatched.
LEMMA OnlyDispatchAdds ==
  ASSUME Proved!IInv, [Proved!Next]_Proved!vars, UNCHANGED dispatched
  PROVE  Outstanding' \subseteq Outstanding
<1>1. [Proved!Delivery!Next]_<<state \in handles, 1..dispatched, Proved!Outstanding, delivered>>
  BY MarshallerFits, Proved!DeliveryStep
<1>2. ~Proved!Delivery!HandOver
  BY DEF Proved!Delivery!HandOver
<1> QED BY <1>1, <1>2 DEF Proved!Delivery!Next, Proved!Delivery!Open, Proved!Delivery!Close,
           Proved!Delivery!Answer, Proved!Delivery!Lose, Outstanding

\* The window procedure hands over an answer that the service waits for.
LEMMA Delivers ==
  ASSUME SystemInv, Deliver
  PROVE  /\ active /\ UNCHANGED <<request, tested>>
         /\ Head(messages[state]) \in Outstanding
         /\ Outstanding' = Outstanding \ {Head(messages[state])}
         /\ \/ UNCHANGED vars
            \/ \E ok \in BOOLEAN : Answer(request[Head(messages[state])], ok)
<1>1. Proved!WndProc
  BY SamePump DEF Deliver
<1>2. /\ state \in handles
      /\ Head(messages[state]) \in Outstanding
      /\ Outstanding' = Outstanding \ {Head(messages[state])}
  BY <1>1, MarshallerFits, Proved!WndProcTakes DEF SystemInv, Outstanding
<1>3. active
  BY <1>2 DEF SystemInv, Idle
<1> QED BY <1>2, <1>3 DEF Deliver

\* To the service every step but two is one of its own, or none.
LEMMA ServiceMoves ==
  ASSUME SystemInv, ServiceStep \/ SubmitStep \/ ThreadStep \/ Deliver \/ Activate \/ Stop
  PROVE  [Next]_vars
<1>1. CASE ServiceStep \/ ThreadStep
  BY <1>1 DEF ServiceStep, ThreadStep
<1>2. CASE SubmitStep
  BY <1>2 DEF SubmitStep, Submit, Next, Keys
<1>3. CASE Activate \/ Stop
  BY <1>3 DEF Activate, Stop, Next
<1>4. CASE Deliver
  <2>1. CASE UNCHANGED vars
    BY <2>1
  <2>2. CASE \E ok \in BOOLEAN : Answer(request[Head(messages[state])], ok)
    <3>1. request[Head(messages[state])] \in jobs
      BY <1>4, Delivers DEF SystemInv, Ours
    <3> QED BY <2>2, <3>1 DEF Next, ConvertResult
  <2> QED BY <1>4, <2>1, <2>2, Delivers
<1> QED BY <1>1, <1>2, <1>3, <1>4

\* A new service is made while there is none, and nothing of the old one left.
LEMMA Creates ==
  ASSUME SystemInv, CreateService
  PROVE  /\ ~active /\ AllEmpty /\ jobs = {} /\ mode' = "Conversion"
         /\ history' = <<>> /\ nextId' = 1
         /\ UNCHANGED <<active, openClose, listening, queue, session, composition, context,
                        jobs, open, left, shown, flushes, clock, erased, request, tested>>
<1>1. ~service
  BY SameHost DEF CreateService, Proved!CreateService
<1> QED BY <1>1 DEF CreateService, SystemInv, Idle

LEMMA CreatesService == SystemInv /\ CreateService => IInv' /\ TInv'
<1> SUFFICES ASSUME SystemInv, CreateService PROVE IInv' /\ TInv'
  OBVIOUS
<1>1. QueueOK(queue', nextId', jobs')
  BY Creates, EmptyQueueOK DEF AllEmpty
<1>2. JobsOK(jobs', nextId')
  BY Creates DEF JobsOK
<1>3. nextId' \in 1..(MaxKeys + 1)
  BY Creates, MaxKeysAssumption
<1>4. Scalars'
  BY <1>3, Creates DEF SystemInv, IInv, Scalars
<1>5. KeysPayForIds'
  BY Creates, EmptyText DEF SystemInv, IInv, Scalars, KeysPayForIds, AllEmpty
<1>6. ModesInv'
  BY Creates DEF ModesInv, ModeIsCompartment
<1>7. history' \in Seq(Text) /\ Len(history') <= HistoryEntries
  BY Creates, EmptySeq, HistoryAssumption
<1>8. TextTypeOK'
  BY <1>7, Creates DEF SystemInv, TInv, TextTypeOK
<1> QED BY <1>1, <1>2, <1>4, <1>5, <1>6, <1>8, Creates DEF SystemInv, IInv, TInv

LEMMA ServiceKeeps == SystemInv /\ [SystemNext]_system => IInv' /\ TInv'
<1> SUFFICES ASSUME SystemInv, [SystemNext]_system PROVE IInv' /\ TInv'
  OBVIOUS
<1>1. CASE [Next]_vars
  BY <1>1, StepInv, StepTexts DEF SystemInv
<1>2. CASE InsertStep
  BY <1>2, AppInsertsStep, AppInsertsTexts DEF SystemInv, InsertStep
<1>3. CASE CreateService
  BY <1>3, CreatesService
<1> QED BY <1>1, <1>2, <1>3, Steps, ServiceMoves

\* Nobody has handle 0.
LEMMA NoHandle == Proved!IInv => 0 \notin handles
BY DEF Proved!IInv, Proved!Shape, Proved!Generations

LEMMA NoHandleNext == Proved!IInv' => 0 \notin handles'
BY DEF Proved!IInv, Proved!Shape, Proved!Generations

\* A step of the threads alone leaves the current generation closed if it is.
LEMMA StaysClosed ==
  ASSUME Proved!IInv, ThreadStep, state \notin handles PROVE state' \notin handles'
<1>1. CASE Proved!StopDestroy
  BY <1>1, NoHandle DEF Proved!StopDestroy
<1>2. CASE Proved!ReleaseService \/ Proved!Unload
  BY <1>2 DEF Proved!ReleaseService, Proved!Unload, Proved!states
<1>3. ASSUME NEW job, Proved!Work(job) PROVE UNCHANGED <<state, handles>>
  BY <1>3 DEF Proved!Work, Proved!Lock, Proved!Store, Proved!Discard, Proved!Post,
     Proved!Release, Proved!Exit, Proved!states
<1> QED BY <1>1, <1>2, <1>3 DEF ThreadStep

LEMMA StaysIdle == SystemInv /\ Proved!IInv' /\ [SystemNext]_system => Idle'
<1> SUFFICES ASSUME SystemInv, Proved!IInv', [SystemNext]_system PROVE Idle'
  OBVIOUS
<1>1. CASE ServiceStep
  BY <1>1 DEF ServiceStep, KeepsTested, threads, model, SystemInv, Idle, AllEmpty
<1>2. CASE InsertStep \/ SubmitStep
  BY <1>2 DEF InsertStep, AppInserts, SubmitStep, Submit, TriggerKey, activity, Idle
<1>3. CASE ThreadStep
  BY <1>3, StaysClosed DEF ThreadStep, vars, activity, model, work, SystemInv, Idle, AllEmpty
<1>4. CASE Deliver
  BY <1>4, Delivers DEF Answer, vars, activity, Idle
<1>5. CASE Activate
  <2>1. /\ ~active /\ UNCHANGED <<queue, session, jobs, tested>> /\ (state' # 0 => active')
    BY <1>5 DEF Activate, ActivateEx, model, work
  <2> QED BY <2>1, NoHandleNext DEF SystemInv, Idle, AllEmpty
<1>6. CASE Stop
  <2>1. /\ queue' = <<>> /\ session' = <<>> /\ jobs' = {} /\ tested' = NoKey
    BY <1>6 DEF Stop, Deactivate, Abandon
  <2>2. state' \notin handles'
    <3>1. CASE Marshaller!StopClear
      BY <3>1 DEF Marshaller!StopClear
    <3>2. CASE state = 0 /\ UNCHANGED threads
      BY <3>2, NoHandle DEF threads, SystemInv
    <3> QED BY <1>6, <3>1, <3>2 DEF Stop
  <2> QED BY <2>1, <2>2 DEF Idle, AllEmpty
<1>7. CASE CreateService
  <2>1. UNCHANGED <<state, handles>>
    BY <1>7, SameHost DEF CreateService, Proved!CreateService, Proved!states
  <2> QED BY <1>7, <2>1, Creates DEF SystemInv, Idle, AllEmpty
<1> QED BY <1>1, <1>2, <1>3, <1>4, <1>5, <1>6, <1>7, Steps

LEMMA StaysServed == SystemInv /\ [SystemNext]_system => (active' => service')
<1> SUFFICES ASSUME SystemInv, [SystemNext]_system PROVE active' => service'
  OBVIOUS
<1>1. CASE ServiceStep \/ InsertStep
  BY <1>1 DEF ServiceStep, InsertStep, AppInserts, activity, threads, SystemInv
<1>2. CASE SubmitStep
  <2>1. UNCHANGED service
    BY <1>2 DEF SubmitStep, Submit, threads, Marshaller!Dispatch
  <2>2. UNCHANGED active
    BY <1>2 DEF SubmitStep, Submit, TriggerKey, activity
  <2> QED BY <2>1, <2>2 DEF SystemInv
<1>3. CASE ThreadStep
  <2>1. UNCHANGED active
    BY <1>3 DEF ThreadStep, vars, activity
  <2>2. CASE Proved!ReleaseService
    BY <1>3, <2>1, <2>2 DEF ThreadStep
  <2>3. CASE Proved!StopDestroy \/ Proved!Unload \/ \E job \in Proved!Jobs : Proved!Work(job)
    <3>1. UNCHANGED service
      BY <2>3 DEF Proved!StopDestroy, Proved!Unload, Proved!Work, Proved!Lock, Proved!Store,
         Proved!Discard, Proved!Post, Proved!Release, Proved!Exit, Proved!dll
    <3> QED BY <2>1, <3>1 DEF SystemInv
  <2> QED BY <1>3, <2>2, <2>3 DEF ThreadStep
<1>4. CASE Deliver
  <2>1. UNCHANGED service
    BY <1>4, SamePump DEF Deliver, Proved!WndProc, Proved!dll
  <2> QED BY <1>4, <2>1, Delivers DEF SystemInv
<1>5. CASE Activate
  <2>1. service /\ UNCHANGED service
    BY <1>5, SamePump DEF Activate, Proved!Start, Proved!dll, threads
  <2> QED BY <2>1
<1>6. CASE Stop
  BY <1>6 DEF Stop, Deactivate
<1>7. CASE CreateService
  BY <1>7, Creates
<1> QED BY <1>1, <1>2, <1>3, <1>4, <1>5, <1>6, <1>7, Steps

LEMMA OursKept ==
  ASSUME Ours, UNCHANGED request, jobs \subseteq jobs', Outstanding' \subseteq Outstanding
  PROVE  Ours'
BY DEF Ours

\* A new job: its request is new to the service, so is its id, and it is sent
\* under the number the marshaller gives it.
LEMMA SubmitsOurs ==
  ASSUME SystemInv, SubmitStep
  PROVE  DOMAIN request' = Proved!Jobs /\ Ours'
<1> DEFINE new == [id |-> nextId, source |-> session, context |-> HistoryTail(history)]
<1>1. jobs' = jobs \cup {new}
  BY LossAssumption DEF SubmitStep, Submit, TriggerKey, Dispatch, Granted
<1>2. CASE state = 0 /\ UNCHANGED <<threads, request>>
  <2>1. UNCHANGED dispatched /\ state' \notin handles'
    BY <1>2, NoHandle DEF threads, SystemInv
  <2>2. Outstanding' = {}
    BY <2>1 DEF Outstanding, Proved!Outstanding
  <2> QED BY <1>1, <1>2, <2>2 DEF SystemInv, Ours
<1>3. CASE /\ Marshaller!Dispatch
           /\ request' = [request EXCEPT ![dispatched'] = new]
  <2> DEFINE job == dispatched'
  <2>1. /\ job \in Proved!Jobs /\ job \notin Outstanding /\ Outstanding \subseteq Proved!Jobs
        /\ Outstanding' \subseteq Outstanding \cup {job}
    BY <1>3, SameDispatch, MarshallerFits, Proved!DispatchTakes DEF SystemInv, Outstanding
  <2>2. /\ DOMAIN request' = Proved!Jobs /\ request'[job] = new
        /\ \A j \in Outstanding : request'[j] = request[j]
    BY <1>3, <2>1 DEF SystemInv
  <2>3. \A j \in Outstanding : request[j] \in jobs /\ request[j].id < nextId
    BY DEF SystemInv, Ours, IInv, JobsOK
  <2>4. nextId \in Nat /\ \A j \in Outstanding : request[j].id \in Nat
    BY <2>3 DEF SystemInv, IInv, Scalars, JobsOK, Ids
  <2> HIDE DEF job, new
  <2>5. \A j \in Outstanding' : request'[j] \in jobs'
    BY <1>1, <2>1, <2>2, <2>3
  <2>6. new.id = nextId
    BY DEF new
  <2>7. \A j, k \in Outstanding' : request'[j].id = request'[k].id => j = k
    BY <2>1, <2>2, <2>3, <2>4, <2>6 DEF SystemInv, Ours
  <2> QED BY <2>2, <2>5, <2>7 DEF Ours
<1> QED BY <1>2, <1>3 DEF SubmitStep, Submit

\* The request that is answered is the only one that leaves the jobs.
LEMMA DeliversOurs ==
  ASSUME SystemInv, Deliver PROVE Ours'
<1> DEFINE id == Head(messages[state])
<1>1. UNCHANGED request /\ id \in Outstanding /\ Outstanding' = Outstanding \ {id}
  BY Delivers
<1>2. jobs' = jobs \/ jobs' = jobs \ {request[id]}
  BY Delivers DEF Answer, vars, work
<1>3. Ours
  BY DEF SystemInv
<1> HIDE DEF id
<1>4. \A j \in Outstanding' : request[j] \in jobs /\ request[j] # request[id]
  BY <1>1, <1>3 DEF Ours
<1> QED BY <1>1, <1>2, <1>3, <1>4 DEF Ours

LEMMA StaysOurs ==
  SystemInv /\ [SystemNext]_system => DOMAIN request' = Proved!Jobs /\ Ours'
<1> SUFFICES ASSUME SystemInv, [SystemNext]_system
             PROVE  DOMAIN request' = Proved!Jobs /\ Ours'
  OBVIOUS
<1>1. [Proved!Next]_Proved!vars /\ Ours /\ Proved!IInv /\ DOMAIN request = Proved!Jobs
  BY ThreadsMove DEF SystemInv
<1>2. ASSUME UNCHANGED <<dispatched, request>>, jobs \subseteq jobs'
      PROVE  DOMAIN request' = Proved!Jobs /\ Ours'
  BY <1>1, <1>2, OnlyDispatchAdds, OursKept
<1>3. CASE ServiceStep \/ InsertStep
  BY <1>2, <1>3 DEF ServiceStep, InsertStep, AppInserts, threads, work
<1>4. CASE SubmitStep
  BY <1>4, SubmitsOurs
<1>5. CASE ThreadStep
  <2>1. UNCHANGED dispatched
    BY <1>5 DEF ThreadStep, Proved!StopDestroy, Proved!ReleaseService, Proved!Unload,
       Proved!Work, Proved!Lock, Proved!Store, Proved!Discard, Proved!Post, Proved!Release,
       Proved!Exit, Proved!threads
  <2> QED BY <1>2, <1>5, <2>1 DEF ThreadStep, vars, work
<1>6. CASE Deliver
  BY <1>1, <1>6, Delivers, DeliversOurs
<1>7. CASE Activate
  <2>1. UNCHANGED <<dispatched, request, jobs>>
    BY <1>7, SamePump DEF Activate, ActivateEx, work, Proved!Start, Proved!threads, threads
  <2> QED BY <1>2, <2>1
<1>8. CASE Stop
  <2>1. state' \notin handles' /\ UNCHANGED request
    <3>1. CASE Marshaller!StopClear
      BY <1>8, <3>1 DEF Marshaller!StopClear, Stop
    <3>2. CASE state = 0 /\ UNCHANGED threads
      BY <1>8, <3>2, NoHandle DEF threads, SystemInv, Stop
    <3> QED BY <1>8, <3>1, <3>2 DEF Stop
  <2>2. Outstanding' = {}
    BY <2>1 DEF Outstanding, Proved!Outstanding
  <2> QED BY <1>1, <2>1, <2>2 DEF Ours
<1>9. CASE CreateService
  <2>1. UNCHANGED <<dispatched, request, jobs>>
    BY <1>9, SameHost, Creates DEF CreateService, Proved!CreateService, Proved!threads
  <2> QED BY <1>2, <2>1
<1> QED BY <1>3, <1>4, <1>5, <1>6, <1>7, <1>8, <1>9, Steps

LEMMA SystemInitInv == SystemInit => SystemInv
<1> SUFFICES ASSUME SystemInit PROVE SystemInv
  OBVIOUS
<1>1. IInv /\ TInv
  BY InitInv, InitTexts DEF SystemInit
<1>2. Proved!Init /\ Proved!IInv
  BY SameInit, MarshallerFits, Proved!InitInv DEF SystemInit
<1>3. state \notin handles
  BY <1>2 DEF Proved!Init
<1>4. Idle /\ ~active
  BY <1>3 DEF SystemInit, Init, Idle, AllEmpty
<1>5. DOMAIN request = Proved!Jobs
  BY SameJobs DEF SystemInit
<1>6. Ours
  BY <1>3 DEF Ours, Outstanding, Proved!Outstanding
<1> QED BY <1>1, <1>2, <1>4, <1>5, <1>6 DEF SystemInv

LEMMA SystemStepInv == SystemInv /\ [SystemNext]_system => SystemInv'
<1> SUFFICES ASSUME SystemInv, [SystemNext]_system PROVE SystemInv'
  OBVIOUS
<1>1. Proved!IInv'
  BY ThreadsMove, MarshallerFits, Proved!StepInv DEF SystemInv
<1>2. Idle' /\ (active' => service') /\ DOMAIN request' = Proved!Jobs /\ Ours'
  BY <1>1, StaysIdle, StaysServed, StaysOurs
<1>3. IInv' /\ TInv'
  BY ServiceKeeps
<1> QED BY <1>1, <1>2, <1>3 DEF SystemInv

\* Service and marshaller keep their invariants together, and jobs and requests
\* stay matched: the inductive invariant of the three theorems below, whatever
\* the host and Windows refuse.
THEOREM SystemInvariance == SystemSpec => []SystemInv
BY SystemInitInv, SystemStepInv, PTL DEF SystemSpec

\* What is on its way to the service was asked by this service since it was
\* activated, each under a number of its own: no answer is for a request of a
\* service before it, nor of before a restart (ConvertMarshaller.h:7,
\* TextService.cpp:276).
THEOREM AnswersAreOurs == SystemSpec => []InFlightIsOurs
<1>1. SystemInv => InFlightIsOurs
  BY SameJobs DEF SystemInv, Ours, Outstanding, InFlightIsOurs, InFlight
<1> QED BY <1>1, SystemInvariance, PTL

\* With threads, messages and restarts behind it, too, a result lands on the
\* request it was computed for (ConvertMarshaller.cpp:39 and 80).
THEOREM SystemResultsLand == SystemSpec => []ResultMeetsRequest
<1>1. SystemInv => ResultMeetsRequest
  BY DEF SystemInv, IInv, QueueOK, ResultMeetsRequest
<1> QED BY <1>1, SystemInvariance, PTL

\* Whatever the service and its host do, they are a pump and a host to the
\* marshaller: its threads deliver as ResultDelivery asks, nothing after the
\* Stop, and have the DLL mapped while they convert (ConvertMarshaller.cpp:80
\* and 97).
THEOREM SystemDelivers ==
  SystemSpec => Marshaller!DeliversResults /\ []Marshaller!ConversionsPinTheDll
<1>1. SystemInit => Proved!Init
  BY SameInit DEF SystemInit
<1>2. [SystemNext]_system => [Proved!Next]_Proved!vars
  BY ThreadsMove
<1>3. SystemSpec => Proved!Spec
  BY <1>1, <1>2, PTL DEF SystemSpec, Proved!Spec
<1>4. Proved!ConversionsPinTheDll => Marshaller!ConversionsPinTheDll
  BY DEF Proved!ConversionsPinTheDll, Marshaller!ConversionsPinTheDll, Marshaller!Jobs,
         Proved!Jobs, Marshaller!Pinning, Proved!Pinning
<1>5. Proved!Delivery!Init => Marshaller!Delivery!Init
  BY SameJobs DEF Proved!Delivery!Init, Marshaller!Delivery!Init
<1>6. [Proved!Delivery!Next]_<<state \in handles, 1..dispatched, Proved!Outstanding, delivered>>
        => [Marshaller!Delivery!Next]_<<state \in handles, 1..dispatched,
                                        Marshaller!Outstanding, delivered>>
  BY SameJobs, SameJobsNext
     DEF Proved!Delivery!Next, Proved!Delivery!Open, Proved!Delivery!Close,
         Proved!Delivery!HandOver, Proved!Delivery!Answer, Proved!Delivery!Lose,
         Marshaller!Delivery!Next, Marshaller!Delivery!Open, Marshaller!Delivery!Close,
         Marshaller!Delivery!HandOver, Marshaller!Delivery!Answer, Marshaller!Delivery!Lose
<1>7. Proved!DeliversResults => Marshaller!DeliversResults
  BY <1>5, <1>6, PTL DEF Proved!DeliversResults, Proved!Delivery!Spec,
     Marshaller!DeliversResults, Marshaller!Delivery!Spec
<1>8. Proved!Spec => Proved!DeliversResults /\ []Proved!ConversionsPinTheDll
  BY MarshallerFits, Proved!Refinement, Proved!DllStays, PTL
<1> QED BY <1>3, <1>4, <1>7, <1>8, PTL

----------------------------------------------------------------------------
\* The draft behind all of it, under a host that grants what the draft depends
\* on, as in TextServiceProofs.

\* A key that the application is about to insert overtakes nothing.
Passes == ~tested.eaten /\ tested.key \in TextKeys => AllEmpty

DraftKept == SystemInv /\ DInv /\ Passes

\* A key the service does not eat stands for no text, or finds no draft.
LEMMA NotEaten ==
  ASSUME NEW key \in TextKeys, active, mode \in {"Conversion", "Direct"}, DirectModeIsClean,
         ~Eats(key)
  PROVE  AllEmpty
<1>1. mode = "Direct" \/ Decide(key, AllEmpty) = "PassThrough"
  BY DEF Eats, TextKeys, ModeKeys
<1>2. ASSUME ~AllEmpty PROVE Decide(key, AllEmpty) # "PassThrough"
  <2>1. CASE key = "Character"
    BY <2>1 DEF Decide
  <2>2. CASE key = "Trigger"
    BY <1>2, <2>2 DEF Decide
  <2>3. CASE key = "Enter"
    BY <1>2, <2>3 DEF Decide
  <2>4. CASE key = "Space"
    BY <1>2, <2>4 DEF Decide
  <2> QED BY <2>1, <2>2, <2>3, <2>4 DEF TextKeys
<1> QED BY <1>1, <1>2 DEF DirectModeIsClean

LEMMA InsertsBehindNothing ==
  ASSUME DraftKept, InsertStep PROVE AllEmpty
<1>1. tested.key \in TextKeys /\ active /\ mode \in {"Conversion", "Direct"}
      /\ DirectModeIsClean
  BY DEF InsertStep, DraftKept, DInv, IInv, Scalars, DraftInv
<1>2. CASE tested.eaten
  <2>1. ~Eats(tested.key)
    BY <1>2 DEF InsertStep
  <2> QED BY <1>1, <2>1, NotEaten
<1>3. CASE ~tested.eaten
  BY <1>1, <1>3 DEF DraftKept, Passes
<1> QED BY <1>2, <1>3

\* An answer that finds no draft makes none.
LEMMA AnswerToNothing ==
  ASSUME NEW job, NEW ok, Answer(job, ok), AllEmpty PROVE AllEmpty'
<1>1. ~CanMark(queue, job.id)
  BY DEF CanMark, PendingAt, AllEmpty
<1> QED BY <1>1 DEF Answer, model, AllEmpty

LEMMA StaysPassed == DraftKept /\ [SystemNext]_system => Passes'
<1> SUFFICES ASSUME DraftKept, [SystemNext]_system PROVE Passes'
  OBVIOUS
<1>1. ASSUME tested' = NoKey PROVE Passes'
  BY <1>1 DEF Passes, NoKey, TextKeys
<1>2. ASSUME UNCHANGED tested, AllEmpty => AllEmpty' PROVE Passes'
  BY <1>2 DEF Passes, DraftKept
<1>3. CASE OnTestKeyDown
  <2>1. PICK key \in AnyKey : tested' = Verdict(key)
    BY <1>3 DEF OnTestKeyDown
  <2>2. tested'.key = key /\ tested'.eaten = Eats(key)
    BY <2>1 DEF Verdict
  <2>3. active /\ UNCHANGED model
    BY <1>3 DEF OnTestKeyDown, vars
  <2>4. mode \in {"Conversion", "Direct"} /\ DirectModeIsClean
    BY DEF DraftKept, DInv, IInv, Scalars, DraftInv
  <2>5. ASSUME ~Eats(key), key \in TextKeys PROVE AllEmpty'
    BY <2>3, <2>4, <2>5, NotEaten DEF AllEmpty, model
  <2> QED BY <2>2, <2>5 DEF Passes
<1>4. CASE OnKeyDown \/ PassKey \/ Stop
  BY <1>1, <1>4 DEF OnKeyDown, PassKey, Stop
<1>5. CASE LanguageBar
  BY <1>2, <1>5 DEF LanguageBar, Alone, AppSetsOpen, model, AllEmpty
<1>6. CASE Terminated
  BY <1>2, <1>6 DEF Terminated, Alone, CompositionTerminated, Abandon, AllEmpty
<1>7. CASE FlushGranted \/ Activate
  BY <1>2, <1>7 DEF FlushGranted, Alone, RunFlush, Activate, ActivateEx, model, AllEmpty
<1>8. CASE Deliver
  <2>1. UNCHANGED tested /\ (AllEmpty => AllEmpty')
    BY <1>8, Delivers, AnswerToNothing DEF DraftKept, vars, model, AllEmpty
  <2> QED BY <1>2, <2>1
<1>9. CASE DestroyWindow \/ ReleaseService \/ Worker \/ Unload \/ UNCHANGED system
  BY <1>2, <1>9 DEF DestroyWindow, ReleaseService, Worker, Unload, system, vars, model,
     AllEmpty
<1>10. CASE CreateService
  BY <1>2, <1>10, Creates DEF DraftKept, AllEmpty
<1> QED BY <1>3, <1>4, <1>5, <1>6, <1>7, <1>8, <1>9, <1>10 DEF SystemNext

\* The stream moves in one of the three ways, in the system as in the service.
LEMMA SystemMoves ==
  ASSUME Faults \subseteq KindFaults, DraftKept, [SystemNext]_system
  PROVE  DInv' /\ StreamTypes /\ StreamTypes' /\ Moves
<1>1. IInv' /\ TInv'
  BY ServiceKeeps DEF DraftKept
<1>2. Kept
  BY <1>1 DEF Kept, DraftKept, DInv
<1>3. ASSUME DraftInv' /\ Moves
      PROVE  DInv' /\ StreamTypes /\ StreamTypes' /\ Moves
  <2>1. StreamTypes /\ StreamTypes'
    BY <1>1, DraftShape, NextShape DEF DraftKept, DInv
  <2>2. Stream'
    BY <1>3, <2>1, StreamStep DEF Moves, DraftKept, DInv
  <2> QED BY <1>1, <1>3, <2>1, <2>2 DEF DInv
<1>4. CASE [Next]_vars
  BY <1>4, StepDInv DEF DraftKept
<1>5. CASE InsertStep
  <2>1. flushes = <<>> /\ AllEmpty /\ AppInserts
    BY <1>5, KindHost, InsertsBehindNothing DEF InsertStep
  <2> QED BY <1>2, <1>3, <2>1, AppInsertsDraft
<1>6. CASE CreateService
  <2>1. flushes = <<>>
    BY <1>2, <1>6, Creates DEF DraftKept, Kept, DraftInv
  <2>2. /\ UNCHANGED <<flushes, queue, session, composition, context, shown, left, clock,
                      erased>>
        /\ AllEmpty
    BY <1>6, Creates DEF DraftKept
  <2> QED BY <1>2, <1>3, <2>1, <2>2, OtherDraft
<1> QED BY <1>4, <1>5, <1>6, Steps, ServiceMoves DEF DraftKept

LEMMA SystemDraftInit == SystemInit => DraftKept
<1> SUFFICES ASSUME SystemInit PROVE DraftKept
  OBVIOUS
<1>1. SystemInv /\ DInv
  BY SystemInitInv, InitDraft DEF SystemInit
<1>2. Passes
  BY DEF SystemInit, Passes, NoKey, TextKeys
<1> QED BY <1>1, <1>2 DEF DraftKept

LEMMA SystemDraftStep ==
  ASSUME Faults \subseteq KindFaults PROVE DraftKept /\ [SystemNext]_system => DraftKept'
BY SystemStepInv, StaysPassed, SystemMoves DEF DraftKept

\* What is true of the draft in TextService is true behind threads, messages,
\* restarts and new services.
THEOREM SystemDraftInvariance ==
  ASSUME Faults \subseteq KindFaults PROVE SystemSpec => []DraftKept
BY SystemDraftInit, SystemDraftStep, PTL DEF SystemSpec

\* What is true of the draft is true of what the user sees: nothing typed is
\* lost or moved, nothing taken back returns (TextService.cpp:565 and 573).
LEMMA DraftShows == DInv => TypingOrder /\ NothingLost /\ ErasedStaysOut /\ DirectModeIsClean
BY DraftIsInOrder, DraftIsComplete, ErasedIsOut DEF DInv, DraftInv

\* Nothing typed is lost or moved past anything, in the system as in the service
\* (TextService.cpp:573 and 594).
THEOREM SystemKeepsTheOrder ==
  ASSUME Faults \subseteq KindFaults PROVE SystemSpec => [](TypingOrder /\ NothingLost)
<1>1. DraftKept => TypingOrder /\ NothingLost
  BY DraftShows DEF DraftKept
<1> QED BY <1>1, SystemDraftInvariance, PTL

\* Nothing taken back returns, also when its answer comes after a restart, or to
\* a new service that counts from 1 again (TextService.cpp:565).
THEOREM SystemErasedStayOut ==
  ASSUME Faults \subseteq KindFaults PROVE SystemSpec => []ErasedStaysOut
<1>1. DraftKept => ErasedStaysOut
  BY DraftShows DEF DraftKept
<1> QED BY <1>1, SystemDraftInvariance, PTL

\* Direct mode holds no draft, whatever the host dispatches between its question
\* about a key and the key (TextService.cpp:372).
THEOREM SystemDirectModeIsClean ==
  ASSUME Faults \subseteq KindFaults PROVE SystemSpec => []DirectModeIsClean
<1>1. DraftKept => DirectModeIsClean
  BY DraftShows DEF DraftKept
<1> QED BY <1>1, SystemDraftInvariance, PTL

\* To the user all of it together is the input method of Ime.
THEOREM SystemImplementsIme ==
  ASSUME Faults \subseteq KindFaults PROVE SystemSpec => ImplementsIme
<1>1. SystemInit => User!Init
  BY InitIsIme DEF SystemInit
<1>2. DraftKept /\ [SystemNext]_system => [User!Next]_<<Stamps(left), Stamps(Draft), clock>>
  <2>1. ASSUME DraftKept, [SystemNext]_system
        PROVE  [User!Next]_<<document, draft, clock>>
    BY <2>1, SystemMoves, ImeStep DEF Moves
  <2> QED BY <2>1 DEF document, draft
<1> QED BY <1>1, <1>2, SystemDraftInvariance, PTL DEF SystemSpec, ImplementsIme, User!Spec

\* In the service's own steps the application inserts a key only behind no draft.
LEMMA ServiceInsertsBehindNothing ==
  ASSUME Faults \subseteq KindFaults, Kept, [Next]_vars, AppInserts PROVE AllEmpty
<1>1. /\ clock' = clock + 1 /\ clock \in Nat
      /\ UNCHANGED <<queue, session, nextId>>
  BY DEF AppInserts, TypeKey, model, work, Kept, IInv, Scalars
<1>2. CASE AppendKey
  <2>1. session' = Append(session, Typed) /\ session \in Seq(Token)
    BY <1>2 DEF AppendKey, Kept, IInv, Scalars, Text
  <2>2. Len(session') = Len(session) + 1 /\ Len(session) \in Nat
    BY <2>1, AppendProperties, TypedText, LenProperties DEF AppInserts, Kept, IInv, Scalars
  <2> QED BY <1>1, <2>2
<1>3. CASE EnterKey
  <2>1. nextId' = nextId + 1 \/ nextId' = nextId + 2
    BY <1>3 DEF EnterKey, Kept, IInv, Scalars
  <2> QED BY <1>1, <2>1 DEF Kept, IInv, Scalars
<1>4. CASE PassThroughKey
  <2>1. flushes = <<>> /\ ~composition
    BY <1>4, KindHost DEF PassThroughKey
  <2> QED BY <2>1, CalmNow
<1>5. CASE BackspaceKey \/ TriggerKey \/ EscapeKey \/ ModeKey
  BY <1>1, <1>5 DEF BackspaceKey, TriggerKey, EscapeKey, ModeKey, user
<1>6. CASE \/ \E o \in BOOLEAN : AppSetsOpen(o)
           \/ RunFlush \/ ConvertResult \/ \E job \in jobs : LoseAnswer(job)
           \/ CompositionTerminated \/ Deactivate \/ ActivateEx
  <2>1. UNCHANGED user
    BY <1>6 DEF AppSetsOpen, RunFlush, ConvertResult, Answer, LoseAnswer,
       CompositionTerminated, Deactivate, ActivateEx
  <2> QED BY <1>1, <2>1 DEF user
<1>7. CASE UNCHANGED vars
  BY <1>1, <1>7 DEF vars, user
<1> QED BY <1>2, <1>3, <1>4, <1>5, <1>6, <1>7 DEF Next, Keys

\* Whatever comes between the host's question and the insertion, a key the
\* application gets has nothing of ours unconfirmed before it
\* (TextService.cpp:699 and 727).
THEOREM PassedKeysWaitForNothing ==
  ASSUME Faults \subseteq KindFaults PROVE SystemSpec => PassedKeyOvertakesNothing
<1>1. ASSUME DraftKept, [SystemNext]_system, AppTakes(tested.key), clock' # clock
      PROVE  AllEmpty
  <2>1. AppInserts
    BY <1>1 DEF AppTakes, vars, user
  <2>2. Kept
    BY <1>1, ServiceKeeps DEF DraftKept, DInv, Kept
  <2>3. CASE [Next]_vars
    BY <2>1, <2>2, <2>3, ServiceInsertsBehindNothing
  <2>4. CASE InsertStep
    BY <1>1, <2>4, InsertsBehindNothing
  <2>5. CASE CreateService
    BY <1>1, <2>5 DEF CreateService
  <2> QED BY <1>1, <2>3, <2>4, <2>5, Steps, ServiceMoves DEF DraftKept
<1>2. DraftKept /\ [SystemNext]_system
        => [AppTakes(tested.key) /\ clock' # clock => AllEmpty]_system
  BY <1>1
<1> QED BY <1>2, SystemDraftInvariance, PTL DEF SystemSpec, PassedKeyOvertakesNothing

\* A new service remembers nothing, and everything else that happens is a call to
\* the service or none.
LEMMA SystemContextStep ==
  ASSUME Faults \subseteq KindFaults, DraftKept, ContextInv, [SystemNext]_system
  PROVE  ContextInv'
<1>1. DInv /\ DInv' /\ IInv /\ TInv
  BY SystemMoves DEF DraftKept, DInv
<1>2. CASE Remembers /\ Asks
  BY <1>1, <1>2, ContextStep
<1>3. CASE [Next]_vars
  BY <1>1, <1>2, <1>3, StepRemembers
<1>4. CASE InsertStep
  BY <1>1, <1>2, <1>4, InsertRemembers DEF InsertStep
<1>5. CASE CreateService
  <2>1. history' = <<>> /\ UNCHANGED <<jobs, left>>
    BY <1>5, Creates DEF DraftKept
  <2> QED BY <2>1, NoHistoryFits DEF ContextInv
<1> QED BY <1>3, <1>4, <1>5, Steps, ServiceMoves DEF DraftKept

\* With threads, restarts and new services, too, a conversion is told what was
\* confirmed, in its order, and nothing younger than what it is to convert
\* (ContextHistory.h:26, TextService.cpp:771).
THEOREM SystemContextIsConfirmed ==
  ASSUME Faults \subseteq KindFaults PROVE SystemSpec => []ContextIsConfirmed
<1>1. (DraftKept /\ ContextInv) /\ [SystemNext]_system => (DraftKept /\ ContextInv)'
  BY SystemDraftStep, SystemContextStep
<1>2. SystemInit => DraftKept /\ ContextInv
  BY SystemDraftInit, InitContext DEF SystemInit
<1>3. DraftKept /\ ContextInv => ContextIsConfirmed
  BY ContextConfirmed DEF DraftKept
<1> QED BY <1>1, <1>2, <1>3, PTL DEF SystemSpec
=============================================================================
