----------------------------- MODULE TextService -----------------------------
(***************************************************************************)
(* CTextService, the text input processor: one instance, on the thread of  *)
(* the application that hosts it, editing one document with the caret at   *)
(* its end.  Keys, conversion results, mode changes and the application    *)
(* terminating the composition reach it as separate calls on that thread,  *)
(* so one action is one call, with the edit session it asks for inside it. *)
(*                                                                         *)
(* A text is a sequence of tokens: the number of the keystroke that made   *)
(* it, and whether it is still as typed ("raw") or converted ("conv").     *)
(* A conversion is taken token by token: what the properties need of it is *)
(* only which keystrokes a piece of text stands for, and in which order.   *)
(***************************************************************************)
EXTENDS ConversionRequests, SequencesExt

CONSTANTS Capacity,        \* m_queue(8): conversions outstanding
          HistoryEntries,  \* ContextHistory::maxEntries_, 3 in the code
          HistoryChars,    \* ContextHistory::maxChars_, 240 in the code
          MaxKeys,         \* bound: keys typed
          Faults           \* what the host may do to us, see FaultKinds

FaultKinds == {"denyKey",       \* an edit session a key handler asks for is refused
               "denyFlush",     \* the one FlushAsRaw asks for is refused
               "denyResult",    \* the one OnConvertResult asks for is refused
               "noStart",       \* StartComposition fails
               "noRange",       \* GetRange fails in an edit session
               "noText",        \* SetText fails in an edit session
               "noShrink",      \* ShiftStart does not reach the new start
               "lost",          \* no thread, no window or no message for an answer
               "lateFlush",     \* an asynchronous edit session waits past other calls
               "noCompartment", \* GetCompartment fails
               "noSetValue",    \* SetValue fails on the compartment
               "noAdvise",      \* AdviseSink fails on the compartment
               "noGetValue",    \* GetValue fails in OnChange
               "noSink"}        \* AdviseKeyEventSink fails

ASSUME CapacityAssumption == Capacity \in Nat \ {0}
ASSUME HistoryAssumption  == HistoryEntries \in Nat \ {0} /\ HistoryChars \in Nat
ASSUME MaxKeysAssumption  == MaxKeys \in Nat
ASSUME FaultsAssumption   == Faults \subseteq FaultKinds

VARIABLES
  active,      \* between ActivateEx and Deactivate
  mode,        \* m_mode
  openClose,   \* m_pOpenClose is set
  listening,   \* m_openCloseCookie is valid: OnChange is called
  queue,       \* m_queue
  session,     \* m_session: the segment being typed
  history,     \* m_history
  composition, \* m_pComposition is set
  context,     \* m_pContext is set
  nextId,      \* m_nextRequestId
  jobs,        \* dispatched to a worker, answer not yet delivered
  open,        \* the value of the open/close compartment
  left,        \* the document's text outside the composition
  shown,       \* the text inside the composition
  flushes,     \* texts of FlushAsRaw's asynchronous sessions not yet granted
  clock,       \* keys typed so far
  erased       \* numbers of the keys the user took back

model    == <<queue, session>>
host     == <<composition, left, shown>>
activity == <<active, openClose, listening>>
modes    == <<mode, open>>
work     == <<nextId, jobs>>
user     == <<clock, erased>>
vars == <<activity, modes, model, history, host, context, work, flushes, user>>

\* An edit session of this kind is granted, or may be refused.
Granted(fault) == IF fault \in Faults THEN BOOLEAN ELSE {TRUE}

\* What a session wants to write in the composition may fail to get there.
Unwritten == Faults \cap {"noRange", "noText"} # {}

\* An asynchronous session runs before the next call, unless it may be late.
Quiet == flushes = <<>> \/ "lateFlush" \in Faults

----------------------------------------------------------------------------
\* Texts.
Typed == [at |-> clock + 1, form |-> "raw"]
Converted(text) == [i \in DOMAIN text |-> [text[i] EXCEPT !.form = "conv"]]
Space == [at |-> 0, form |-> "raw"]
Stamps(text) == [i \in DOMAIN text |-> text[i].at]

Concat(reqs) == FlattenSeq([i \in DOMAIN reqs |-> TextOf(reqs[i])])

\* BuildPreeditView(queue, typing).text
View(q, typing) == Concat(q) \o typing

AllEmpty == queue = <<>> /\ session = <<>>

\* ContextHistory::Push and Tail: entries joined by a blank, cut from the old
\* side.
LastOf(s, n) == IF Len(s) > n THEN SubSeq(s, Len(s) - n + 1, Len(s)) ELSE s

\* Mutant: the newest entry goes to the old end.
PushAtOldEnd(h, text) == IF text = <<>> THEN h ELSE LastOf(<<text>> \o h, HistoryEntries)

Push(h, text) == IF text = <<>> THEN h ELSE LastOf(Append(h, text), HistoryEntries)
HistoryTail(h) ==
  LastOf(FlattenSeq([i \in DOMAIN h |-> IF i = 1 THEN h[i] ELSE <<Space>> \o h[i]]),
         HistoryChars)

----------------------------------------------------------------------------
\* TriggerPolicy.
KeyKind == {"Character", "Trigger", "Enter", "Space", "Backspace", "Escape", "Other"}

\* Those that stand for a piece of text: a letter, a tab, a newline, a blank.
TextKeys == {"Character", "Trigger", "Enter", "Space"}

Decide(kind, preeditEmpty) ==
  IF kind = "Character" THEN "Append"
  ELSE IF kind = "Other" \/ preeditEmpty THEN "PassThrough"
  ELSE CASE kind = "Trigger"   -> "Commit"
         [] kind = "Enter"     -> "CommitRaw"
         [] kind = "Space"     -> "Append"
         [] kind = "Backspace" -> "DeleteLast"
         [] kind = "Escape"    -> "Cancel"

\* OnKeyDown classifies a key, and decides what to do, in conversion mode.
KeyDown(action) ==
  /\ active /\ Quiet /\ mode = "Conversion"
  /\ \E kind \in KeyKind : Decide(kind, AllEmpty) = action

TypeKey == clock < MaxKeys /\ clock' = clock + 1

----------------------------------------------------------------------------
\* What an edit session does to the composition and the document.

\* UpdateText: the composition shows the preedit; without one it fails.
UpdateText(q, s) ==
  /\ \/ composition' /\ shown' = View(q, s)
     \/ (~composition' \/ Unwritten) /\ UNCHANGED shown
  /\ UNCHANGED left

\* CommitText on a live composition: its text is replaced, and it ends; it ends
\* with the text it showed when it could not be written.
CommitText(text) ==
  /\ left' = left \o text \/ (Unwritten /\ left' = left \o shown)
  /\ shown' = <<>> /\ composition' = FALSE

\* The composition is emptied and ends: ClearText or UpdateText, EndComposition.
ClearText ==
  /\ UNCHANGED left \/ (Unwritten /\ left' = left \o shown)
  /\ shown' = <<>> /\ composition' = FALSE

\* A partial confirmation shrinks the composition to what remains.  Over a text
\* that could not be written, it is cut wherever the length leads.
Shrink(committed, remaining) ==
  /\ composition' = TRUE
  /\ \/ left' = left \o committed /\ shown' = remaining
     \/ /\ "noText" \in Faults
        /\ \E n \in 0..Len(shown) : /\ left' = left \o SubSeq(shown, 1, n)
                                    /\ shown' = SubSeq(shown, n + 1, Len(shown))

\* StartComposition when there is none yet: does it leave one behind?
Started == IF composition THEN {TRUE}
           ELSE IF "noStart" \in Faults THEN BOOLEAN ELSE {TRUE}

\* CommitReadyInOrder with queue q and session s: everything is confirmed, or
\* the settled front of the queue is, with the composition shrunk to the rest.
CommitReadyInOrder(q, s) ==
  LET committed == Concat(Ready(q))
      remaining == View(Unready(q), s)
      full      == committed \o remaining
  IN  \/ /\ committed = <<>>
         /\ queue' = q /\ session' = s
         /\ composition' = TRUE /\ UpdateText(q, s)
         /\ UNCHANGED history
      \/ /\ committed # <<>> /\ Unready(q) = <<>> /\ s = <<>>
         /\ queue' = <<>> /\ session' = s
         /\ history' = Push(history, committed)
         /\ CommitText(committed)
      \/ /\ committed # <<>> /\ ~(Unready(q) = <<>> /\ s = <<>>)
         /\ \/ /\ queue' = Unready(q) /\ session' = s
               /\ history' = Push(history, committed)
               /\ Shrink(committed, remaining)
            \/ /\ Faults \cap {"noShrink", "noText"} # {}
               /\ queue' = <<>> /\ session' = <<>>
               /\ history' = Push(history, full)
               /\ CommitText(full)
            \/ /\ "noRange" \in Faults
               /\ queue' = Unready(q) /\ session' = s
               /\ composition' = TRUE
               /\ UNCHANGED <<history, left, shown>>

----------------------------------------------------------------------------
\* OnKeyDown.

\* A character, or a blank inside a preedit, joins the segment being typed.
AppendKey ==
  /\ KeyDown("Append") /\ TypeKey
  /\ session' = Append(session, Typed)
  /\ context' = TRUE
  /\ \E granted \in Granted("denyKey"), started \in Started :
       IF granted THEN /\ composition' = started
                       /\ UpdateText(queue, session')
                  ELSE UNCHANGED host
  /\ UNCHANGED <<activity, modes, queue, history, work, flushes, erased>>

\* Mutant: the composition is kept when nothing is left to show.
BackspaceKeepsComposition ==
  /\ KeyDown("DeleteLast") /\ session # <<>>
  /\ session' = Front(session)
  /\ erased' = erased \cup {Last(session).at}
  /\ \E granted \in Granted("denyKey") :
       /\ UNCHANGED composition
       /\ IF granted THEN UpdateText(queue, session') ELSE UNCHANGED <<left, shown>>
  /\ UNCHANGED <<activity, modes, queue, history, context, work, flushes, clock>>

\* Backspace edits the segment being typed, never one under conversion; when
\* it leaves nothing at all the composition ends.
BackspaceKey ==
  /\ KeyDown("DeleteLast") /\ session # <<>>
  /\ session' = Front(session)
  /\ erased' = erased \cup {Last(session).at}
  /\ \E granted \in Granted("denyKey") :
       IF ~granted THEN UNCHANGED host
       ELSE IF queue = <<>> /\ session' = <<>>
            THEN ClearText
            ELSE UNCHANGED composition /\ UpdateText(queue, session')
  /\ context' = (context /\ ~(queue = <<>> /\ session' = <<>>))
  /\ UNCHANGED <<activity, modes, queue, history, work, flushes, clock>>

\* Dispatch: a worker takes the job, or (no thread, no window) nobody does.
Dispatch(job) ==
  \E taken \in Granted("lost") : jobs' = IF taken THEN jobs \cup {job} ELSE jobs

\* Tab sends the segment to conversion, with what was confirmed last as its
\* context, and typing goes on.  With nothing typed, or Capacity conversions
\* outstanding, the key is swallowed.
TriggerKey ==
  /\ KeyDown("Commit") /\ session # <<>> /\ ~Full(queue, Capacity)
  /\ queue' = TryEnqueue(queue, Capacity, NewRequest(nextId, session))
  /\ nextId' = nextId + 1
  /\ session' = <<>>
  /\ context' = TRUE
  /\ Dispatch([id |-> nextId, source |-> session, context |-> HistoryTail(history)])
  /\ \E granted \in Granted("denyKey") :
       /\ UNCHANGED composition
       /\ IF granted THEN UpdateText(queue', session') ELSE UNCHANGED <<left, shown>>
  /\ UNCHANGED <<activity, modes, history, flushes, user>>

\* Enter puts the segment, as typed, and a newline behind whatever is still
\* converting, and confirms what is ready.
EnterKey ==
  /\ KeyDown("CommitRaw") /\ TypeKey
  /\ LET typed == IF session = <<>> THEN queue
                  ELSE PushCommitted(queue, nextId, session)
         newline == IF session = <<>> THEN nextId ELSE nextId + 1
         q == PushCommitted(typed, newline, <<Typed>>)
     IN  /\ nextId' = newline + 1
         /\ \E granted \in Granted("denyKey"), started \in Started :
              IF granted /\ started
                THEN CommitReadyInOrder(q, <<>>)
                ELSE /\ queue' = q /\ session' = <<>>
                     /\ UNCHANGED <<history, host>>
  /\ context' = composition'
  /\ UNCHANGED <<activity, modes, jobs, flushes, erased>>

\* Mutant: what is being converted survives the Esc.
EscapeKeepsQueue ==
  /\ KeyDown("Cancel")
  /\ session' = <<>> /\ UNCHANGED queue
  /\ erased' = erased \cup ToSet(Stamps(View(queue, session)))
  /\ \E granted \in Granted("denyKey") :
       IF granted THEN ClearText ELSE UNCHANGED host
  /\ context' = FALSE
  /\ UNCHANGED <<activity, modes, history, work, flushes, clock>>

\* Esc takes back everything unconfirmed, what is being converted included.
EscapeKey ==
  /\ KeyDown("Cancel")
  /\ queue' = <<>> /\ session' = <<>>
  /\ erased' = erased \cup ToSet(Stamps(View(queue, session)))
  /\ \E granted \in Granted("denyKey") :
       IF granted THEN ClearText ELSE UNCHANGED host
  /\ context' = FALSE
  /\ UNCHANGED <<activity, modes, history, work, flushes, clock>>

\* The application inserts what a key stands for.
\* What it inserts next to a live composition is its own affair and not modelled.
AppInserts ==
  /\ TypeKey
  /\ left' = Append(left, Typed)
  /\ UNCHANGED <<activity, modes, model, history, composition, shown, context,
                 work, flushes, erased>>

\* A key the service does not take goes to the application.
PassThroughKey ==
  /\ active /\ Quiet /\ ~composition
  /\ \E kind \in TextKeys :
       mode = "Direct" \/ Decide(kind, AllEmpty) = "PassThrough"
  /\ AppInserts

----------------------------------------------------------------------------
\* Modes: keys, and the open/close compartment.

\* The body of FlushAsRaw's session: text becomes context and is committed, in
\* a new composition if there is none and one can be started.
FlushSession(text) ==
  /\ history' = Push(history, text)
  /\ \E started \in Started :
       IF started THEN CommitText(text) ELSE UNCHANGED host

\* FlushAsRaw from a key handler.  The model is emptied before the session is
\* asked for.
FlushAsRaw(text) ==
  /\ queue' = <<>> /\ session' = <<>>
  /\ \E granted \in Granted("denyFlush") :
       IF granted THEN FlushSession(text) ELSE UNCHANGED <<history, host>>
  /\ context' = FALSE

\* Which of the configured mode keys does something in the current mode, and
\* the mode it leads to.
ModeKeys == {"toggle", "conversionOn", "directOn"}
Eaten(key) == \/ key = "toggle"
              \/ key = "conversionOn" /\ mode = "Direct"
              \/ key = "directOn" /\ mode = "Conversion"
ModeAfter(key) ==
  IF key = "conversionOn" \/ (key = "toggle" /\ mode = "Direct")
    THEN "Conversion" ELSE "Direct"

\* InputMode, as OnChange reads it from the compartment.
ModeOf(o) == IF o THEN "Conversion" ELSE "Direct"

\* Mutant: the compartment is set first, and the toggle that follows turns back
\* what the call-back has turned.
SetOpenCloseFirst(m) ==
  \E set \in Granted("noSetValue"), called \in BOOLEAN, read \in Granted("noGetValue") :
    /\ open' = IF openClose /\ set THEN m = "Conversion" ELSE open
    /\ mode' = IF openClose /\ set /\ listening /\ called /\ read
                 THEN ModeOf(~open') ELSE m

\* SetOpenCloseCompartment, with the mode changed to m before it.  That SetValue
\* fails is ignored; when it does not, it may call OnChange back at once, which
\* finds the model empty and takes the mode from the value, if it can read it.
\* (A call-back that comes later is AppSetsOpen with the value there is.)
SetOpenClose(m) ==
  \E set \in Granted("noSetValue"), called \in BOOLEAN, read \in Granted("noGetValue") :
    /\ open' = IF openClose /\ set THEN m = "Conversion" ELSE open
    /\ mode' = IF openClose /\ set /\ listening /\ called /\ read
                 THEN ModeOf(open') ELSE m

\* Mutant: the mode changes with the draft still in the composition.
ModeKeyKeepsDraft ==
  /\ active /\ Quiet
  /\ \E key \in ModeKeys : Eaten(key) /\ SetOpenClose(ModeAfter(key))
  /\ UNCHANGED <<activity, model, history, host, context, work, flushes, user>>

\* A mode key: what is unconfirmed is committed as typed, the mode changes,
\* then the compartment follows.
ModeKey ==
  /\ active /\ Quiet
  /\ IF AllEmpty THEN UNCHANGED <<model, history, host, context>>
                 ELSE FlushAsRaw(View(queue, session))
  /\ \E key \in ModeKeys : Eaten(key) /\ SetOpenClose(ModeAfter(key))
  /\ UNCHANGED <<activity, work, flushes, user>>

\* The language bar, the application or another input method sets the
\* compartment; OnChange follows while we are subscribed, and does nothing when
\* it cannot read the value.  Inside a sink the flush can only ask for an
\* asynchronous session.
AppSetsOpen(o) ==
  /\ Quiet
  /\ open' = o
  /\ \/ /\ active /\ listening
        /\ mode' = ModeOf(o)
        /\ IF ~o /\ ~AllEmpty /\ context
             THEN /\ \E granted \in Granted("denyFlush") :
                       flushes' = IF granted
                                    THEN Append(flushes, View(queue, session))
                                    ELSE flushes
                  /\ queue' = <<>> /\ session' = <<>> /\ context' = FALSE
             ELSE UNCHANGED <<flushes, model, context>>
     \/ /\ ~(active /\ listening) \/ "noGetValue" \in Faults
        /\ UNCHANGED <<mode, flushes, model, context>>
  /\ UNCHANGED <<activity, history, host, work, user>>

\* An asynchronous session FlushAsRaw asked for is granted, if late even to a
\* service that is no longer active.
RunFlush ==
  /\ flushes # <<>>
  /\ FlushSession(Head(flushes))
  /\ flushes' = Tail(flushes)
  /\ UNCHANGED <<activity, modes, model, context, work, user>>

----------------------------------------------------------------------------
\* OnConvertResult: the answer to a job arrives through the marshaller.  ok
\* stands for "ok, and not empty".
Answer(job, ok) ==
  /\ active /\ Quiet
  /\ jobs' = jobs \ {job}
  /\ LET q == IF ok THEN MarkDone(queue, job.id, Converted(job.source))
                    ELSE MarkFailed(queue, job.id)
     IN  IF ~CanMark(queue, job.id)
           THEN UNCHANGED <<model, history, host, context>>
         ELSE IF ~composition \/ ~context
           THEN queue' = q /\ UNCHANGED <<session, history, host, context>>
         ELSE /\ \E granted \in Granted("denyResult") :
                   IF granted THEN CommitReadyInOrder(q, session)
                   ELSE queue' = q /\ UNCHANGED <<session, history, host>>
              /\ context' = composition'
  /\ UNCHANGED <<activity, modes, nextId, flushes, user>>

\* An answer that never comes: the message could not be posted.
LoseAnswer(job) ==
  /\ "lost" \in Faults
  /\ jobs' = jobs \ {job}
  /\ UNCHANGED <<activity, modes, model, history, host, context, nextId, flushes, user>>

ConvertResult == \E job \in jobs : \E ok \in BOOLEAN : Answer(job, ok)

----------------------------------------------------------------------------
\* Life cycle.

\* Mutant: the text of the composition goes with the composition.
AbandonText ==
  /\ shown' = <<>> /\ composition' = FALSE /\ UNCHANGED left
  /\ context' = FALSE
  /\ queue' = <<>> /\ session' = <<>>

\* The composition is over and its text stays where it is; the model forgets.
Abandon ==
  /\ left' = left \o shown /\ shown' = <<>> /\ composition' = FALSE
  /\ context' = FALSE
  /\ queue' = <<>> /\ session' = <<>>

\* OnCompositionTerminated: focus moved, or the application ended it.
CompositionTerminated ==
  /\ active /\ Quiet /\ composition
  /\ Abandon
  /\ UNCHANGED <<activity, modes, history, work, flushes, user>>

\* Deactivate stops the marshaller: no answer of before arrives afterwards.  A
\* session that is still outstanding may be granted later, or never.
Deactivate ==
  /\ active /\ Quiet
  /\ active' = FALSE /\ openClose' = FALSE /\ listening' = FALSE
  /\ Abandon
  /\ jobs' = {}
  /\ flushes' \in {flushes, <<>>}
  /\ UNCHANGED <<modes, history, nextId, user>>

\* ActivateEx: with a compartment the mode starts as conversion, the compartment
\* is set and only then listened to; without the key sink it is all taken back.
ActivateEx ==
  /\ ~active
  /\ \E compartment \in Granted("noCompartment"), set \in Granted("noSetValue"),
        advised \in Granted("noAdvise"), sink \in Granted("noSink") :
       /\ active' = sink
       /\ openClose' = (sink /\ compartment)
       /\ listening' = (sink /\ compartment /\ advised)
       /\ mode' = IF compartment THEN "Conversion" ELSE mode
       /\ open' = IF compartment /\ set THEN TRUE ELSE open
  /\ UNCHANGED <<model, history, host, context, work, flushes, user>>

Init == /\ active = FALSE /\ openClose = FALSE /\ listening = FALSE
        /\ mode = "Conversion" /\ open \in BOOLEAN
        /\ queue = <<>> /\ session = <<>> /\ history = <<>>
        /\ composition = FALSE /\ left = <<>> /\ shown = <<>> /\ context = FALSE
        /\ nextId = 1 /\ jobs = {}
        /\ flushes = <<>>
        /\ clock = 0 /\ erased = {}

Keys == \/ AppendKey \/ BackspaceKey \/ TriggerKey \/ EnterKey \/ EscapeKey
        \/ PassThroughKey \/ ModeKey

Next == \/ Keys
        \/ \E o \in BOOLEAN : AppSetsOpen(o)
        \/ RunFlush
        \/ ConvertResult
        \/ \E job \in jobs : LoseAnswer(job)
        \/ CompositionTerminated
        \/ Deactivate
        \/ ActivateEx

Spec == Init /\ [][Next]_vars

\* Every converter answers, if only with a time-out, and the application runs
\* its message loop; TSF grants the asynchronous sessions it accepted.
Ids == 1..MaxKeys
AnswerTo(id) == \E job \in jobs : job.id = id /\ \E ok \in BOOLEAN : Answer(job, ok)
Fairness == (\A id \in Ids : WF_vars(AnswerTo(id))) /\ WF_vars(RunFlush)
FairSpec == Spec /\ Fairness

----------------------------------------------------------------------------
Token == [at : 0..MaxKeys, form : {"raw", "conv"}]
Text  == Seq(Token)
Job   == [id : Ids, source : Text, context : Text]

\* The shape of what decides: modes, queue, segment, ids and jobs.
ControlTypeOK ==
  /\ active \in BOOLEAN /\ openClose \in BOOLEAN
  /\ listening \in BOOLEAN /\ open \in BOOLEAN
  /\ mode \in {"Conversion", "Direct"}
  /\ queue \in Seq(ConversionRequest(Ids, Text)) /\ session \in Text
  /\ composition \in BOOLEAN /\ context \in BOOLEAN
  /\ nextId \in 1..(MaxKeys + 1)
  /\ \A j \in jobs : j.id \in Ids /\ j.source \in Text
  /\ clock \in 0..MaxKeys

\* The shape of the texts that pass through the document.
TextTypeOK ==
  /\ history \in Seq(Text) /\ Len(history) <= HistoryEntries
  /\ left \in Text /\ shown \in Text
  /\ jobs \subseteq Job
  /\ flushes \in Seq(Text)
  /\ erased \subseteq 1..MaxKeys

\* The shape of the whole state.
TypeOK == ControlTypeOK /\ TextTypeOK

\* What is typed and not yet confirmed, wherever the service holds it.
Draft == FlattenSeq(flushes) \o View(queue, session)

\* Back-pressure (ConversionQueue.h:35, TextService.cpp:764): however keys and
\* answers interleave, at most Capacity conversions are outstanding.
PendingBounded == Cardinality(PendingAt(queue)) <= Capacity

\* Ids name requests: the queue is in order of submission, a job's id is no
\* other job's, and both come from the counter.
IdsInOrder ==
  /\ \A i, j \in DOMAIN queue : i < j => queue[i].id < queue[j].id
  /\ \A i \in DOMAIN queue : queue[i].id < nextId
  /\ \A j, k \in jobs : j.id = k.id => j = k
  /\ \A j \in jobs : j.id < nextId

\* A result lands on the request it was computed for, even when it arrives
\* after an Esc, a termination or a restart (TextService.cpp:565).
ResultMeetsRequest ==
  \A i \in DOMAIN queue :
    queue[i].state = "Done" => Stamps(queue[i].result) = Stamps(queue[i].source)

\* The document, read with the draft behind it, is in typing order: answers in
\* any order, literals and partial confirmations move nothing past anything.
TypingOrder ==
  LET s == Stamps(left \o Draft) IN \A i, j \in DOMAIN s : i < j => s[i] < s[j]

\* No key is lost: what was typed and not taken back is in the document, still
\* in the composition, or in the draft (TextService.cpp:390, 573 and 711).
NothingLost ==
  (1..clock) \ erased \subseteq ToSet(Stamps(left \o shown \o Draft))

\* What was taken back stays away: no late answer brings an erased key back.
ErasedStaysOut == erased \cap ToSet(Stamps(left \o shown)) = {}

\* The user sees the truth: the composition exists exactly while something is
\* unconfirmed, shows it, and holds the context that answers will need.
ShowsTheDraft ==
  /\ composition <=> Draft # <<>>
  /\ shown = Draft
  /\ context <=> ~AllEmpty

\* Nothing that is ready waits: a queue that holds anything is held up by a
\* request that is still being converted, and whose answer is on its way.
HeadIsConverting ==
  /\ queue # <<>> => Head(queue).state = "Pending"
  /\ \A i \in PendingAt(queue) :
       \E j \in jobs : j.id = queue[i].id /\ j.source = queue[i].source

\* The mode and the language bar agree while we listen, whoever changed which:
\* the call-back of our own SetValue turns nothing back (TextService.cpp:712).
\* A SetValue or GetValue that fails is what it does not survive.
ModeIsCompartment == active /\ listening => (open <=> mode = "Conversion")

\* Direct mode holds no draft of ours: keys pass by without overtaking it.
DirectModeIsClean == active /\ mode = "Direct" => AllEmpty

\* Every word of the text is in the whole, and any two in the same order.
Words(text) == {i \in DOMAIN text : text[i] # Space}
Within(text, whole) ==
  /\ \A i \in Words(text) : text[i] \in ToSet(whole)
  /\ \A i, j \in Words(text) : i < j =>
       \E m, n \in DOMAIN whole : m < n /\ whole[m] = text[i] /\ whole[n] = text[j]
\* The context given to a conversion is text that really was confirmed, in the
\* order it was, and older than what is converted.
ContextIsConfirmed ==
  /\ Within(FlattenSeq(history), left)
  /\ \A j \in jobs : /\ Within(j.context, left)
                     /\ \A x \in ToSet(j.context), y \in ToSet(j.source) : x.at < y.at

\* Enter with nothing under conversion confirms at once: the text as typed and
\* then the newline, which is what the code does and its comment says
\* (TextService.cpp:782).  Older documents say that Enter on a preedit writes no
\* newline (HANDOFF.md:26, .spec/sub-specs/phase1-trigger-commit.md:122 and 132).
EnterConfirmsAtOnce ==
  [][EnterKey /\ PendingAt(queue) = {}
       => AllEmpty' /\ left' = left \o View(queue, session) \o <<Typed>>]_vars

\* Enter recovers a segment whose answer will never come: afterwards no request
\* waits for an answer nobody is working on (ConvertMarshaller.cpp:112).
Stuck(q, js) == \E i \in PendingAt(q) : \A j \in js : j.id # q[i].id
EnterRecovers == [][EnterKey => ~Stuck(queue', jobs')]_vars

\* Every request leaves the queue: converted, failed, cancelled or given up,
\* nothing waits there for ever.
EveryRequestSettles ==
  \A id \in Ids : (\E i \in DOMAIN queue : queue[i].id = id)
                    ~> ~(\E i \in DOMAIN queue : queue[i].id = id)

\* To the user the service is an input method that keeps the draft in order
\* and confirms it from the front.
User == INSTANCE Ime WITH document <- Stamps(left), draft <- Stamps(Draft)
ImplementsIme == User!Spec
=============================================================================
