# Yoshinani in TLA+

Yoshinani (よしなに) is a Japanese input method for Windows. What the user types
is collected as romaji; Tab sends the segment to a language model while typing
goes on, and results are confirmed into the document in the order in which the
segments were typed, whatever order they come back in. This directory models
the parts of it where order, failure and threads make mistakes possible, checks
them with TLC, and proves the most important facts for every size with TLAPS.

Paths below are relative to the repository's `src/`.

## 1. The system

| component | state | operations | interacts with |
|---|---|---|---|
| Conversion queue, `core/application/ConversionQueue` | `items_`: requests with an id, the romaji, Pending/Done/Failed and a result | `TryEnqueue`, `PushCommitted`, `MarkDone`, `MarkFailed`, `PopReadyInOrder`, `Clear` | called by the text service only |
| Session, view, history, mode, policy, `core/` | the segment being typed; the last confirmed texts; conversion or direct; a pure decision table | append, backspace, push, tail, set, toggle, `Decide` | called by the text service |
| Text service, `tsf/TextService` | the above, `m_pComposition`, `m_pContext`, `m_nextRequestId`, `m_pOpenClose` | key down, result, compartment change, composition terminated, (de)activation | TSF calls it; it asks TSF for edit sessions, which may be refused or deferred; it hands jobs to the marshaller |
| Marshaller, `tsf/ConvertMarshaller` | a `State` per Start: mutex, window handle, map of results | `Start`, `Stop`, `Dispatch`, the window procedure | detached worker threads post messages to a window on the service's thread |
| COM server, `tsf/dllmain`, `ClassFactory`, `DisplayAttribute`, `Globals` | `g_cRefDll`, an `m_cRef` in each object, an `m_index` in each enumerator | `DllGetClassObject`, `CreateInstance`, `LockServer`, `AddRef`, `Release`, `Next`, `Skip`, `Reset`, `Clone`, `DllCanUnloadNow` | the host's COM library maps and unmaps the DLL |
| Registration, `tsf/Register`, `dllmain` | registry keys of the COM server, TSF's profile and categories | `DllRegisterServer`, `DllUnregisterServer` | run by regsvr32; TSF and COM read what it leaves |
| Converters, `ipc/` | the handles, status and body of one exchange | `convert`, `PostJson` | called by a worker thread; talk to OpenAI or Ollama |
| Settings, `core/application/Settings`, `tsf/KeyMap` | `settings.json` | parse, serialise, key sets, choice of converter | written by the tray, read at activation |
| Settings window, `tray/SettingsWindow` | `working`, the controls, one row recording a key | show, record, clear, choose, Apply, OK, Cancel | replaces `settings.json` atomically |
| Tray, `tray/main` | an icon, a mutex against a second instance | menu, end | opens the settings window; not modelled, see section 7 |

What is hard: results out of order, late, repeated or never; edit sessions
refused, or granted asynchronously; TSF steps that fail half way; modes changed
from two sides; threads that outlive their marshaller, the service and nearly
the DLL; objects that share one count of references with locks and threads; an
installation that fails or is killed half way, under running applications; a reply
that breaks off; a crash while the settings are written; a form with three copies of
one value. `PROJECT.json` lists each of these under "hazards" with the line
where it bites and the properties that would catch it.

## 2. The modules

| module | models | how state and actions correspond to the code |
|---|---|---|
| `ConversionRequests` | the queue's data operations | a sequence is `items_`; one operator per method; `Marks` is where the scan of `MarkDone`/`MarkFailed` stops, `Ready` what the loop around `PopReadyInOrder` takes |
| `ConversionQueue` | the class, called in any order | one action per method, plus records of what was asked, answered and popped |
| `InOrderRelease` | what a queue promises | refined by `ConversionQueue` |
| `TextService` | `CTextService` in its host | one action per call of TSF, one per kind of key; the edit session a handler asks for is part of it |
| `Ime` | what a user expects of an input method | refined by `TextService` |
| `ConvertMarshaller` | marshaller, workers and the DLL's life | a worker's path is split at the mutex, the map, the post, the release and the end of the thread |
| `ResultDelivery` | what the text service relies on | refined by `ConvertMarshaller` |
| `ImeSystem` | `TextService` and `ConvertMarshaller` together | what the service counts on being answered, and what the marshaller has on its way; `OnTestKeyDown` and `OnKeyDown` are two calls (`AnyKey`, `AppTakes` when the application gets the key); services are made anew |
| `ComServer` | the DLL as COM sees it | one action per method of the four classes and per export |
| `PinnedDll` | what COM needs of a DLL | refined by `ComServer` |
| `Registration` | `DllRegisterServer`, `DllUnregisterServer` | one step per key, value, profile and category; `at` is where regsvr32 is |
| `InstalledServer` | a process and the installation it finds | `ComServer` and `Registration` together: what is listed is loaded from the path then written |
| `Converter` | one conversion by either converter | one action per call of WinHTTP; the service may send, stall or break off between any two |
| `Settings` | parsing, key names, key sets, converters | pure operators over a file taken apart into fields |
| `SettingsWindow` | the window and the file | one action per click or key; `WriteAtomic` is three steps, between which the tray may die |
| `MC*` | instances for TLC | constants only |
| `ConversionRequestsLemmas` and the `*Proofs` modules | proofs | section 6 |

Every component is checked on its own. Two compositions put components together that
the code puts together: `ImeSystem` extends `TextService`, whose actions are most of its own
and whose properties it checks again, and instantiates `ConvertMarshaller` by name, with
variables of its own; `InstalledServer` extends its two, whose variables are disjoint.

`ConversionRequests` is shared by `ConversionQueue` and `TextService`, so what is
proved of its operators serves both. The definitions named "Mutant" in a comment
are plausible mistakes, one for each property: replacing the definition they
belong to must make TLC find the property violated.

### Abstractions of the text service

* A text is a sequence of tokens: the number of the keystroke and whether it is
  raw or converted. Conversion keeps the keystrokes a text stands for. This is
  all that order, loss and duplication are about.
* One document, the caret at its end. The document is `left`, the text outside
  the composition, followed by `shown`, the text inside it.
* A call of TSF is one action. The service lives in one apartment, so calls do
  not interleave, except that `SetValue` may call `OnChange` back before it returns
  (`SetOpenClose`, where the call-back comes or does not), and that the session an
  `OnChange` asks for is asynchronous (`flushes`). Such a session may outlive an
  activation.
* `Faults` is the set of things the host may do to the service; each run says
  which ones it allows. They are, by the call that fails: `RequestEditSession` (from a key,
  a flush, a result), `StartComposition`, `ITfComposition::GetRange` (`noRange`),
  `ITfRange::SetText` (`noText`), `ShiftStart`, the thread, window or message of an answer,
  an asynchronous session that is late, `GetCompartment`, `SetValue`, the compartment's
  `AdviseSink`, `GetValue`, `AdviseKeyEventSink`.
* `GetRange` and `SetText` may fail in each function of an edit session that calls them. In
  `UpdateText` an older text stays on the screen; in `CommitText` the composition ends with
  what it showed; in `ClearText` what the user took back stays in the document; with
  `noRange` `CommitReadyInOrder` drops what it has popped, against the comment at
  TextService.cpp:573, and with `noText` it shrinks a composition that shows something else,
  by a length that fits another text. `hostile` includes these steps and claims nothing
  about the text; section 6 has a table of what each of them breaks.
* Not modelled: `EndComposition`, `SetSelection` and `Collapse` failing. `EndComposition` is
  followed by the release of the composition whatever it returns.
* `PassThroughKey` is offered only without a composition: what an application
  does with a key typed next to a live composition is its own affair.

### Abstractions of the marshaller

* A job's number stands for its id and its result. Ids come from the service's
  counter, which Stop and Start do not reset.
* `WndProc` takes a result under the mutex and calls the handler after it; both
  are one step since nothing else runs on that thread. Its edit session is
  `TextService`'s `Answer`.
* A `Start` whose window cannot be made leaves no `State`; here it is the action not
  taken, in `ImeSystem` an activation without a marshaller.

### The composition of service and marshaller

* `TextService` alone takes an answer from `jobs`, which a dispatch adds to and a
  restart empties. In `ImeSystem` the answers come from the marshaller, which knows
  jobs by number: `InFlight` are the requests of those that can still be answered,
  and `InFlightIsOurs` says that the service knows them all. Nothing of the
  marshaller's is cut down to make it so. A job that is never answered, for want of a
  thread, a message or a window, stays in `jobs` until the next activation.
* An activation may get no window: the service goes on without a marshaller and
  `Dispatch` returns at once. Bound: activations happen while a `Start` is left.
* A key is tested, then sent. Between the two the host may deliver a result, change
  the language bar, end the composition or stop the service. What `OnKeyDown` then
  does not eat goes to the application.
* `Stop` is two steps (handle, window), in which workers may run and the
  service's own thread may not.
* A new service has an empty history and counts ids from 1; the document and the
  compartment outlive it.
* Assumed: a service is not released while a session it asked for is still to be granted.
  FlushAsRaw's lambda holds `this` without a reference, so a host that did grant one
  afterwards would call a service that is gone; life times behind raw pointers are below
  the model.

### Abstractions of the COM server and the installation

* The host keeps the rules of COM: it calls only what it holds, and takes back only
  its own locks. It may do so in any order and free the DLL whenever
  `DllCanUnloadNow` agrees.
* `QueryInterface` is the `AddRef` it ends with. An object whose `QueryInterface` fails
  in its maker is gone before the call returns, and does not appear.
* `DllGetClassObject` is asked for while the registry names the image that is mapped.
* A path is a copy of the DLL; the texts of keys, descriptions and the icon are left out.
  Registering over an earlier registration finds the keys that are there.
* `RegDeleteTree` may remove nothing, or stop half way, and the CLSID may have no string
  (`noDelete`); the run ends as if it had gone well, and `kept` remembers that it did not.
  `noPath` is `GetModuleFileName` failing, or a path too long, with the keys already made.
* `noProfiles` and `keepsProfile` are refusals of the same profile manager, on the way in
  and on the way out; each may happen without the other, as two calls of
  `CoCreateInstance` may.

### Abstractions of the converters

* A reply is its status, its shape, whether the text in it is blank, and a length in
  pieces. `resp` holds the numbers of the pieces read, so a lost, repeated or
  misplaced piece shows. A body that broke off goes to the parser like any other; it parses
  from the piece that completes its JSON object (`closes`), and as long as only white space
  follows (`ends`). An object may therefore count although the reply is not whole.
* A reply is finite. The receive time-out is per call (HttpJson.cpp:23 and 44-51), so a
  service that sent a little of an endless body again and again would keep the worker in
  the loop; `ConversionEnds` says nothing of it.
* `WinHttpQueryHeaders` may fail: the status stays 0 and the body is read all the same.
* `arrived` is what WinHTTP has received; `QueryDataAvailable` sees it as it
  is then, and `ReadData` may read less.
* The key file is a short sequence of characters that are blank, printable ASCII or not.

### Abstractions of the settings window

* A file is the record of its fields, each with the value it has or `Absent`.
* Clicking anything ends a recording first, as Windows moves the focus before it sends
  the click; the other clicks therefore set `recording` to `NoRow`. `KillFocus` is the same
  without a click.
* `Documents`, the texts an editor may leave, are any with arrays for rows of keys.
  `MCDocuments` holds, among others, a model of the other backend, a backend and an effort
  that no button or box has, and an effort that is empty. The model may be empty: the boxes
  list the empty model first (SettingsWindow.cpp:167-177), so it survives a save. What they
  do not list is replaced by their first choice.

## 3. The runs

Passing:

| run | bounds | states | what it shows |
|---|---|---|---|
| `queue` | capacity 2, 4 ids, 2 texts | 84 thousand | bound, order, first answer stands, refines `InOrderRelease` |
| `faithful` | capacity 2, 4 keys; no shrinking, no compartment, no key sink; fairness | 137 thousand | nothing is lost, moved or hidden, ready text never waits; mode and compartment agree, whenever the call-back comes; Enter confirms at once; every request leaves the queue |
| `hostile` | capacity 2, 3 keys, each of the fourteen faults | 1.3 million | what no host can break: shape, bound, numbering, results on their own requests |
| `marshaller` | 2 generations, 3 jobs, threads refused, fairness | 35 thousand | no post to a dead window, results and messages match, counted references, refines `ResultDelivery`, every job is answered or stopped |
| `system` | capacity 2, 3 keys, 2 generations, 2 jobs; sessions for results refused, no shrinking, threads, windows and messages refused; fairness | 1.4 million | answers find their requests across restarts and new services, a key let through overtakes nothing, the whole refines `Ime`, the queue drains |
| `server` | 2 copies, 2 categories, 3 objects, 2 references each, 1 lock, 1 worker; keys, the path, profiles, categories and deletions refused, regsvr32 killed | 830 thousand | what is listed can be loaded, a registration is whole or undone but for keys that could not be deleted, the DLL stays while used, enumerators keep their place |
| `converter` | replies of up to 3 pieces, key files of up to 3 characters, both backends, fairness | 835 thousand | a text comes only from a whole object, a clean exchange gives it, every conversion ends |
| `settings_window` | 2 rows, 3 keys to press, 5 texts, 5 edits | 912 thousand | the file is whole, consistent, what the user meant, and otherwise as it was |

Disagreements between the code and what is written about it (`PROJECT.json`,
"findings", quotes the lines):

| run | property | what happens |
|---|---|---|
| `lost` | `EnterRecovers` | Enter queues behind a segment whose thread could not be had; a comment says it recovers it |
| `flush` | `NothingLost` | the model is emptied before the session that confirms it is granted |
| `unload` | `ThreadsPinTheDll` | the reference on the DLL is given back before the thread has left it |
| `settings_keys` | `RecordedKeyWorks` | a one-way key recorded under an alias is not recognised |
| `faithful` | `EnterConfirmsAtOnce` holds | Enter on a preedit writes a newline behind it; HANDOFF.md:26 and `.spec/sub-specs/phase1-trigger-commit.md`:122 and 132 say that it does not, the newer comment in the code says that it does |
| `server` | `AllOrNothing` holds, with `kept` | `regsvr32 /u` reports success over keys that stay (Register.cpp:58 and 63); `.spec/sub-specs/phase1-tsf-skeleton.md`:64 asks that none do |

### Why the bounds are enough

* Capacity 2 with up to 3 or 4 keys lets the queue be full, lets a literal sit
  between two conversions, and lets answers come in the wrong order. The real
  capacity, 8, differs in nothing but the number; the proofs are for any.
* `HistoryEntries` 2 and `HistoryChars` 3 are both exceeded within four keys, so
  old entries are dropped and the context is cut.
* `MaxKeys` bounds the keys typed, hence ids. Activations, mode changes, results
  and terminations are not bounded.
* `system` with two generations and two jobs has an answer of an old service on its way
  while a new one types; three keys are a segment, its Tab and a key tested while the
  answer arrives.
* Three objects let a `Next` that wants two find memory for one, beside the
  enumerator and with or without the service, factory or clone; two copies are an
  update of the DLL under a process that has the old one mapped.
* Three pieces can arrive and be read as 1+1+1, 1+2, 2+1 or 3, with the break
  before, between or after.
* Two generations are an old and a new marshaller; three jobs are two workers
  of one generation and one of the other, or three contending for one mutex.
* `MaxEdits` 5 is deletion of the file, a choice of backend, model and effort,
  and a save, in any order.

## 4. Fairness

`faithful`: each outstanding answer is delivered (`WF` per id) because every
converter returns, with WinHTTP's time-outs if need be, and the application runs
its message loop; an asynchronous session TSF accepted is granted. Keys are not
fair: the user may stop at any time. `marshaller`, `system`: each worker that can move
does (`WF` per job; the mutex is held over a bounded stretch, so weak fairness is
enough for the runs' few workers), and messages are pumped. Nothing makes the user type,
start or stop. `converter`: the worker's next step is taken (`WF(Work)`), since every call of
WinHTTP returns; the service is not fair, it may send nothing for ever. The other
runs assume no fairness.

## 5. What the properties say

* `TypingOrder` and `ImplementsIme`: the document with the draft behind it is
  always in the order of typing, and only the user's erasing removes keys.
* `NothingLost`, `ErasedStaysOut`: a key is in the document, the composition or
  the draft until it is erased, and then it never comes back.
* `ShowsTheDraft`: composition, what it shows, and `m_pContext` exist exactly as
  long as something is unconfirmed. This is what makes the early returns of
  `OnConvertResult` harmless when the host is faithful.
* `HeadIsConverting`: a queue that holds anything is held up by a conversion
  that is on its way; with it `EveryRequestSettles` follows from fairness.
* `ResultMeetsRequest`: ids are never reused, so an answer to a question from
  before an Esc or a restart cannot land on a new segment.
* `ModeIsCompartment`: mode and language bar agree while the service listens, from whichever
  side changed, and whether `SetValue` calls `OnChange` back at once or not: the handler sets
  the mode first, so that the call-back finds nothing to turn. It is checked and proved for a
  host whose `SetValue` and `GetValue` succeed. The code looks at neither result in a way that
  would help: one that fails leaves the two apart until the next change, so the property is
  not among those of `hostile`, which has these faults.
* `EnterConfirmsAtOnce`: with nothing under conversion Enter leaves nothing unconfirmed, and
  its newline comes behind the text, not before it and not later.
* `PostsReachAWindow`, `MessagesMatchResults`, `DeliversResults`: the protocol of
  mutex, map and messages. `Stop` clears the handle under the mutex and destroys
  the window after it; either alone would not do.
* `InFlightIsOurs`: the same with a real marshaller, and with a new service that counts
  from 1 while a worker of the old one is still out.
* `ContextIsConfirmed`: what a conversion is told came before is really in the document, in
  that order, and before what is converted, also when `Tail` cut it and entries fell out of
  the history.
* `PassedKeyOvertakesNothing`: a key that was eaten when tested and no longer when
  sent, or the other way round, is never inserted before something unconfirmed.
* `QueueDrains`: service, marshaller and workers never wait for one another for good.
  What may hold the queue up is named: an answer that was dropped for want of a thread,
  a window or a message, or a session refused for a result.
* `ListedIsLoadable`, `AllOrNothing`: the order in which registration writes and takes back
  (server, profile, categories, and the reverse) is the only protection a user has against
  an entry that cannot be loaded. Every intermediate state and death is looked at. A key that
  this run's own deletion could not remove is what may stay.
* `ImplementsPinnedDll`, `EnumeratorsMissNothing`: four classes, locks and threads each add
  to and take from one count; no object is used in an unmapped image. A `Next` that runs
  out of memory has handed out what its index says.
* `OkMeansWholeObject`, `CleanExchangeConverts`, `ConversionEnds`: only an object read to its
  end is taken for a reply, a reply in pieces is, and a worker always comes back with one answer and
  its handles closed. The first two together pin the reading loop from both sides.
* `SavedIsInEffect`: what is saved and read again means to the text service what
  the window was working on, although empty lists and texts are re-read as
  defaults.
* `ModelBelongsToBackend`, `OnlyTouchedFieldsChange`: a save brings no model under a backend
  that does not have it, and changes only what the user touched or no box can show.

## 6. What is proved

TLAPS proves for every capacity, number of ids, keys, texts, generations and jobs,
from the assumptions named in the modules (TLC evaluates them). Every safety property of
every passing run is a theorem; where one needs more than the assumptions it says so in
its ASSUME.

### The queue

`ConversionQueueProofs`: `TypeCorrect`, `BackPressure`, `NoOvertaking`,
`AnswersAreFinal` and `Refinement` (the queue implements `InOrderRelease`).
The invariant `IInv` adds to the properties what they rest on: pending requests
are exactly the asked ones without an answer, ids come from the counter, and
asked ids still wanted are not among those popped as literals. Each step is a
lemma; the popped and the queued part are reasoned about as one sequence.

`ConversionRequestsLemmas` says what the operators on requests do to length, ids, states
and the number of pending requests, and what `FlattenSeq` does to lists of texts. The
latter is defined by recursion. Its lemmas use the principle of the least number over a
set (`Induction`), which needs no operator as a parameter: the recursive function exists
(`FlattensExists`), is the only one (`FlattensSame`), and then concatenation, order and
elements follow. All modules that speak of texts rest on this.

### The text service

`TextServiceProofs` has one invariant on top of the other.

* `IInv`, under every fault: type, order and uniqueness of ids, and the link between a
  pending request and its job, that a job with the id of a queued request has that
  request's text. It is this link that an Esc or a restart might break, were ids
  reused. A last conjunct, `ModesInv`, is about hosts whose `SetValue` and `GetValue`
  succeed. It gives `ControlTypeCorrect`, `BackPressure`, `IdsNameRequests`,
  `ResultsLandWhereTheyBelong` and, for such hosts, `ModesAgree`: `SetOpenCloseEffect`
  shows that with and without a call-back the mode ends where the compartment is.
* `TInv`, under every fault: every text is made of typed tokens, segment and queue hold keys that
  were typed, and no request is empty. `TypeCorrect` follows, and `EnterIsImmediate` if
  Enter's own session is granted, its composition starts, and the session can write.
* `DInv`, under the faults of `KindFaults`. `DraftInv`: the composition is there exactly while
  there is a draft, `m_pContext` exactly while the queue or the segment holds something, and
  a session to confirm what a mode key left is outstanding only when both are
  empty. `Stream`: document and draft together are increasing key numbers, those typed and
  not taken back. What makes it inductive is that every handler does one of three things to
  the pair: a key joins the end and some of the front is confirmed (`Types`), some of the front is
  confirmed (`Keeps`), the last key or all of the draft is taken back (`Erases`). Each handler is
  shown to be one of them by the lemmas on concatenation. `TypedOrderIsKept`, `NoKeyIsLost`,
  `ErasedKeysStayOut`, `DirectModeStartsClean`, `ServiceImplementsIme` (step by step, the
  refinement of `Ime`), and without refused results `WhatYouSeeIsTheDraft`.
* `HeadInv`, besides without lost answers: the first request of the queue is pending, and each
  pending one has its job. `ReadyNeverWaits`.
* `ContextInv`, on `DInv`: the history, flattened, fits in the document, and so does the
  context of each job, before its segment. `Remembers` and `Asks` say what a call may do to document, history and
  jobs; `PushFits` and `JobFits` that `Push`, however much it drops, and `Tail`,
  wherever it cuts, keep it. `ContextWasConfirmed`.

`KindFaults` is what the host may still do: refuse a result's session, shrink no
composition, lose answers, refuse any call on the compartment, have no key sink. It is as large as it can be. With
one of the other faults alone TLC finds, for three keys:

| fault | breaks |
|---|---|
| `denyKey` | all of `NothingLost`, `ShowsTheDraft`, `ImplementsIme`, `TypingOrder`, `ErasedStaysOut`, `DirectModeIsClean`, `HeadIsConverting` |
| `noStart` | the same with `ContextIsConfirmed`, but not `ErasedStaysOut` |
| `noText` | `NothingLost`, `ShowsTheDraft`, `ImplementsIme`, `TypingOrder`, `ErasedStaysOut`, `ContextIsConfirmed` |
| `noRange` | the same, but not `TypingOrder` |
| `lateFlush` | `NothingLost`, `ShowsTheDraft`, `ImplementsIme`, `TypingOrder`, `HeadIsConverting` |
| `denyFlush` | `NothingLost`, `ShowsTheDraft`, `ImplementsIme` |

These are refusals the code does not provide for; the run `flush` shows the one that its own
comment contradicts. `noSetValue` and `noGetValue` break `ModeIsCompartment` and nothing else.

### The system

`ImeSystemProofs`: to the marshaller and its threads every step of the system is a step of theirs
or none (`ThreadsMove`); to the service every step is one of its own, but for two: `AppTakes`, where a
key goes to the application in a mode it was not tested in, and `CreateService`, which begins
again beside the same document. The proofs about the two are used
as they stand, the marshaller's through an instance of `ConvertMarshallerProofs`.

* `SystemInv`, under any faults: the invariants of both, `Ours` (every job that may still be answered
  carries a request the service still counts on, each under its own id) and `Idle` (a service that is
  not active waits for nothing). `Ours` is what `TextService` alone takes for granted. It
  holds because `Stop` clears the marshaller's handle before the service forgets its
  jobs, because what is outstanding grows only by a dispatch, and because an answer leaves it as it
  is delivered. `AnswersAreOurs`, `SystemResultsLand`, and `SystemDelivers`, by which the
  marshaller's own promises survive the composition.
* `DraftKept`, under `KindFaults`: with `DInv` and `Passes`, that a key tested and not eaten stands for no
  text or finds no draft. `SystemKeepsTheOrder`, `SystemErasedStayOut`,
  `SystemDirectModeIsClean`, `SystemImplementsIme`, `PassedKeysWaitForNothing`,
  `SystemContextIsConfirmed`.

### Marshaller and DLL

`ConvertMarshallerProofs`: `TypeCorrect`, `MutualExclusion`, `PostsArrive`,
`CountIsExact`, `DllStays` and `Refinement` (the marshaller implements
`ResultDelivery`). The invariant says that only the current generation has a
handle or a window, that mutex and critical sections name each other, that who
has stored a result still has its handle (Stop needs the mutex to clear it), and
that a message is for a job past its callback, of the window's own generation,
and the only one for that job. The last is why an answer comes at most once and
a new generation starts with none outstanding. `MessagesMatch` assumes that Windows
refuses no message (`noPost` not in `Faults`): the code does not look at what
`PostMessage` returns, and a refused one leaves its result in the map.

### COM server and installation

`InstalledServerProofs`, in three parts.

* Registration: `OfferedCanBeHad` and `WholeOrUndone`, for any copies and categories.
  The invariant says what is in place at each position of regsvr32: while registering,
  what the earlier steps wrote; while unregistering, that the profile is gone before
  the server is touched; and always that a listed profile has its server whole. The
  first theorem assumes that a value can be written and a profile
  taken back (`noValue`, `keepsProfile` not in `Faults`), the second also that categories
  can be taken back. That the keys may stay is no assumption: `noDelete` is among the faults,
  and `kept` in the statement. The code does not look at those results, and without the
  assumptions neither theorem holds: a `RegSetValueEx` that fails leaves a profile that
  is offered and cannot be loaded. The `server` run leaves the three out for the same reason.
* The DLL in use: `RefsAreUsers`, `DllStaysWhileUsed` (the refinement of `PinnedDll`) and
  `EnumeratorsKeepTheirPlace`, for any finite set of objects and any number of
  references, locks and workers. The count is related to a cardinality, so each step
  is a lemma about adding a set of objects or taking one away.
* Both: every step of the composition is a step or a stutter of each part, hence
  `HostIsSafe` and `InstallationIsSafe`.

### Converters and settings

`ConverterProofs`: `CountsOnlyWholeObjects` and `CleanExchangesConvert`, for replies and keys of any
length. The invariant says that `resp` is always a prefix of the reply no longer than what arrived, and that
past the status the reply is the one asked for; without a refused call the loop is left only at the end.

`SettingsWindowProofs`, for any rows, keys, hand-written texts and number of edits:

* `NeverHalfAFile` needs only that a part of a file is not taken for a text the window
  writes; the invariant is that the temporary file is whole when it is about to take the
  other's place.
* `ModelsFit` and `NothingElseChanges` rest on what the window works on and what its boxes
  show agreeing wherever the user touched nothing and the boxes can show it, and on the
  first choice standing where they cannot. They hold for any texts written by hand, whatever
  backend, model and effort these name.
* `SaveTakesEffect`: the invariant adds that rows are arrays (`KeyRows`). The round trip is then a matter of
  the operators: taking the strings of a row leaves the virtual keys it stands for
  (`StringsOfRow`), an empty trigger or toggle row means the same as the default that
  replaces it, and an empty model the same backend's. That `Absent`, nothing usable, is neither a
  text nor an array is a hypothesis.

### What the proofs changed

* `Decide` was a `CASE` with overlapping guards: right for TLC, which takes the first that holds,
  and unprovable, since `CASE` may take any. It now asks its questions in the order of the code.
* `ContextIsConfirmed` compared texts through `SelectSeq`, of which the prover knows nothing; it now speaks
  of words and their order (`Words`, `Within`), and its mutant still breaks it. For the same reason
  `Strings` in `Settings` puts together what each element contributes, as the loop of `ParseSettings`
  does.
* `ImeSystem` instantiated `TextService`; it extends it now, so that the properties of
  the service are those of the system, by name.

### What is only model-checked

Liveness: `EveryRequestSettles`, `EveryJobIsAnswered`, `QueueDrains`, `ConversionEnds`. They rest on fairness
and on `ENABLED`, which the installed provers do not reason about. What they need of
safety (`ReadyNeverWaits`, `MessagesMatch`, `AnswersAreOurs`) is proved. The violated properties
of section 3 are traces, with nothing to prove.

## 7. What is not modelled

* The tray process (`tray/main.cpp`): an icon, a menu of two items and a mutex against a
  second instance. Its end while the window is open is `SettingsWindow`'s `Crash`.
* The wording of the prompts, the conversions between encodings, JSON syntax, paths.
* Styles of display attributes, caret, selection: appearance.
* Keyboard layout (`VkToChar`) and keys held with Ctrl or Alt, which are passed on.
* Several documents at once.
* In `Registration`, the texts of descriptions and the icon.

An observation that is not a property: clicking elsewhere while a row records a
key leaves that row's text blank until the window is shown again, although the
assignment is kept (`SettingsWindow`, `KillFocus`).

## 8. Plan

Done, in order of importance:

1. Queue: operators, state machine, abstract release, all safety proved.
2. Text service: every handler, the faults of the host, refinement of `Ime`, all safety proved.
3. Marshaller and DLL: threads, restart, unloading, refinement of `ResultDelivery`, proved.
4. Settings and their window: crash safety, consistency, round trip; proved.
5. Composition of text service and marshaller, with keys in two calls and new services; all safety proved.
6. The COM server, registration and the two together; proved.
7. Converters and the HTTP exchange; safety proved.

Left:

1. Safety that the violated properties leave: what a mode key still guarantees when its session is
   refused (`flush`), what Enter does after a lost thread (`lost`), as properties that hold.
2. The steps of the liveness arguments as action properties: a request that is answered is never
   pending again, an outstanding job never moves back along the worker's path.
3. Two documents: `m_pContext` against the context a key came from.
4. The tray process, with two instances and one `settings.json`.
