------------------------------- MODULE ImeSystem -------------------------------
(***************************************************************************)
(* The text service at work: CTextService with the ConvertMarshaller it    *)
(* owns, its workers, and the host that tests a key before it sends it.    *)
(* TextService counts on an answer only to what it asked since it was      *)
(* activated; what really comes is up to the marshaller, which knows jobs  *)
(* by number only.  A service is made, started, stopped and let go any     *)
(* number of times, and a new one counts its requests from 1 again.        *)
(*                                                                         *)
(* A key comes in two calls, OnTestKeyDown and OnKeyDown, and the host may *)
(* dispatch anything else to the service between the two.                  *)
(***************************************************************************)
EXTENDS TextService

CONSTANTS MaxStarts, MaxJobs,  \* see ConvertMarshaller
          WindowsFaults        \* ConvertMarshaller's Faults

VARIABLES
  \* ConvertMarshaller, its threads and the DLL; see ConvertMarshaller
  state, starts, handles, windows, results, messages, mutex,
  dispatched, under, worker, delivered, service, refs, loaded,
  \* what only the two together have
  request,   \* the request each dispatched job carries
  tested     \* the key OnTestKeyDown was asked about last, until it is dealt with

Marshaller == INSTANCE ConvertMarshaller WITH jobs <- dispatched, Faults <- WindowsFaults

ASSUME StartsAssumption == MaxStarts \in Nat /\ MaxJobs \in Nat
ASSUME WindowsAssumption == WindowsFaults \subseteq Marshaller!FaultKinds
\* An answer is lost by the marshaller, or not at all.
ASSUME LossAssumption == "lost" \notin Faults

\* What may still be answered, as the service asked for it.
InFlight == {request[job] : job \in Marshaller!Outstanding}

NoRequest == [id |-> 0, source |-> <<>>, context |-> <<>>]
NoKey     == [key |-> "none", eaten |-> FALSE]

threads == <<state, starts, handles, windows, results, messages, mutex,
             dispatched, under, worker, delivered, service, refs, loaded>>
system  == <<vars, threads, request, tested>>

\* Stop has cleared the handle and not yet returned: the service's thread is in it.
Stopping == state # 0 /\ state \notin handles

\* What the service does without its marshaller.
Alone(action) == ~Stopping /\ UNCHANGED <<threads, request>> /\ action

----------------------------------------------------------------------------
\* Keys.

AnyKey == KeyKind \cup ModeKeys

\* Mutant: the draft is taken for empty when only nothing is being typed.
EatsBySession(key) ==
  IF key \in ModeKeys THEN Eaten(key)
  ELSE mode = "Conversion" /\ Decide(key, session = <<>>) # "PassThrough"

\* What a key is to the service now: does it eat it?  A one-way mode key that
\* does not fit the mode is a key like any other.
Eats(key) ==
  IF key \in ModeKeys THEN Eaten(key)
  ELSE mode = "Conversion" /\ Decide(key, AllEmpty) # "PassThrough"

\* The answer of OnTestKeyDown.
Verdict(key) == [key |-> key, eaten |-> Eats(key)]

OnTestKeyDown ==
  /\ ~Stopping /\ active /\ Quiet /\ tested = NoKey /\ clock < MaxKeys
  /\ \E key \in AnyKey : tested' = Verdict(key)
  /\ UNCHANGED <<vars, threads, request>>

\* Tab: Dispatch starts a worker for the request, or nobody does; without a
\* window it returns at once.
Submit ==
  /\ ~Stopping
  /\ \/ /\ Marshaller!Dispatch
        /\ request' = [request EXCEPT ![dispatched'] =
             [id |-> nextId, source |-> session, context |-> HistoryTail(history)]]
     \/ state = 0 /\ UNCHANGED <<threads, request>>
  /\ TriggerKey

\* The key is eaten, and nothing comes of it.
Swallow(action) ==
  /\ \/ action = "DeleteLast" /\ session = <<>>
     \/ action = "Commit" /\ (session = <<>> \/ Full(queue, Capacity))
  /\ Alone(UNCHANGED vars)

Handle(action) ==
  \/ action = "Append" /\ Alone(AppendKey)
  \/ action = "DeleteLast" /\ Alone(BackspaceKey)
  \/ action = "Commit" /\ Submit
  \/ action = "CommitRaw" /\ Alone(EnterKey)
  \/ action = "Cancel" /\ Alone(EscapeKey)
  \/ Swallow(action)

\* The application gets the key, and inserts what it stands for, if anything.
AppTakes(key) ==
  /\ IF key \in TextKeys THEN AppInserts ELSE UNCHANGED vars
  /\ UNCHANGED <<threads, request>>

\* OnKeyDown, for a key OnTestKeyDown said it eats; it decides again.
OnKeyDown ==
  /\ ~Stopping /\ active /\ Quiet /\ tested.eaten
  /\ LET key == tested.key
     IN  IF ~Eats(key) THEN AppTakes(key)
         ELSE IF key \in ModeKeys
           THEN Alone(ModeKey /\ mode' = ModeAfter(key))
           ELSE Handle(Decide(key, AllEmpty))
  /\ tested' = NoKey

\* A key it does not eat never comes to OnKeyDown.
PassKey ==
  /\ ~Stopping /\ active /\ Quiet
  /\ tested # NoKey /\ ~tested.eaten
  /\ AppTakes(tested.key)
  /\ tested' = NoKey

----------------------------------------------------------------------------
\* Everything else that reaches the service's thread.

\* MarshallerWndProc hands the result to OnConvertResult; only now is it told
\* whether the conversion had succeeded.
Deliver ==
  /\ ~Stopping
  /\ Marshaller!WndProc
  /\ UNCHANGED <<request, tested>>
  /\ IF delivered' = delivered THEN UNCHANGED vars
     ELSE \E ok \in BOOLEAN : Answer(request[Head(messages[state])], ok)

LanguageBar == \E o \in BOOLEAN : Alone(AppSetsOpen(o)) /\ UNCHANGED tested
Terminated  == Alone(CompositionTerminated) /\ UNCHANGED tested
FlushGranted == Alone(RunFlush) /\ UNCHANGED tested

\* ActivateEx starts the marshaller, and goes on without one when its window
\* cannot be had; without the key sink it is stopped at once.  Bound: while a
\* Start is left.
Activate ==
  /\ service /\ ~Stopping /\ starts < MaxStarts
  /\ Marshaller!Start \/ UNCHANGED threads
  /\ UNCHANGED <<request, tested>>
  /\ ActivateEx
  /\ state' # 0 => active'

\* Deactivate stops the marshaller: first, under its mutex, the handle ...
Stop ==
  /\ ~Stopping
  /\ Marshaller!StopClear \/ (state = 0 /\ UNCHANGED threads)
  /\ UNCHANGED request
  /\ Deactivate
  /\ tested' = NoKey

\* ... then the window, with whatever was posted to it.
DestroyWindow ==
  Marshaller!StopDestroy /\ UNCHANGED <<vars, request, tested>>

\* A new CTextService knows nothing of the one before; the compartment is the
\* thread's, and the document the application's.
CreateService ==
  /\ Marshaller!CreateService
  /\ mode' = "Conversion" /\ history' = <<>> /\ nextId' = 1
  /\ UNCHANGED <<active, openClose, listening, queue, session, composition, context, jobs, open,
                 left, shown, flushes, clock, erased, request, tested>>

\* Assumed: no session that was asked for is still to be granted by then.
ReleaseService ==
  /\ ~active /\ flushes = <<>>
  /\ Marshaller!ReleaseService /\ UNCHANGED <<vars, request, tested>>

Worker == \E job \in Marshaller!Jobs :
            Marshaller!Work(job) /\ UNCHANGED <<vars, request, tested>>

Unload == Marshaller!Unload /\ UNCHANGED <<vars, request, tested>>

SystemInit == /\ Marshaller!Init
              /\ request = [job \in Marshaller!Jobs |-> NoRequest]
              /\ Init
              /\ tested = NoKey

SystemNext == \/ OnTestKeyDown \/ OnKeyDown \/ PassKey
              \/ Deliver \/ LanguageBar \/ Terminated \/ FlushGranted
              \/ Activate \/ Stop \/ DestroyWindow
              \/ CreateService \/ ReleaseService
              \/ Worker \/ Unload

SystemSpec == SystemInit /\ [][SystemNext]_system

\* Threads run, conversions end, if only with a timeout, and the application
\* pumps its messages; nothing makes the user type, stop or start.
SystemFairness ==
  /\ \A job \in Marshaller!Jobs :
       WF_system(Marshaller!Work(job) /\ UNCHANGED <<vars, request, tested>>)
  /\ WF_system(Deliver)
FairSystemSpec == SystemSpec /\ SystemFairness

----------------------------------------------------------------------------
\* The invariants of TextService, and its refinement of Ime, are checked of this
\* system, too: now with threads, messages, restarts, and new services that
\* count from 1 again behind them.

\* What is on its way to the service was asked by this service since it was
\* activated, each under a number of its own, although a new service, too,
\* counts from 1 (ConvertMarshaller.h:7, TextService.cpp:276).
InFlightIsOurs ==
  /\ InFlight \subseteq jobs
  /\ \A j, k \in Marshaller!Outstanding : request[j].id = request[k].id => j = k

\* A key the application gets is inserted with nothing of ours unconfirmed
\* before it, whatever came between OnTestKeyDown and the insertion
\* (TextService.cpp:699 and 727).
PassedKeyOvertakesNothing ==
  [][AppTakes(tested.key) /\ clock' # clock => AllEmpty]_system

\* The queue drains: workers, the window procedure and the service never block
\* one another for good.  What may hold it up is an answer dropped for want of
\* a thread or a message, or a session for a result that the host refused.
QueueDrains ==
  []<>(\/ queue = <<>>
       \/ Stuck(queue, InFlight)
       \/ Head(queue).state # "Pending")
=============================================================================
