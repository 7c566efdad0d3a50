------------------------------ MODULE ComServer ------------------------------
(***************************************************************************)
(* The DLL as COM sees it: the objects it hands out (class factories, text *)
(* services, display attributes and their enumerators), each with its own  *)
(* count of references, and the one count, g_cRefDll, that says whether    *)
(* the DLL may be unmapped.  The host holds the references and may use     *)
(* them in any order its contract with COM allows.                         *)
(***************************************************************************)
EXTENDS Integers, Sequences, FiniteSets, Functions

CONSTANTS Objects,     \* bound: objects alive at a time; beyond, new fails
          MaxRefs,     \* bound: references the host takes on one object
          MaxLocks,    \* bound: LockServer(TRUE) without its FALSE
          MaxWorkers   \* bound: conversions that run at a time

ASSUME ObjectsAssumption == IsFiniteSet(Objects)
ASSUME BoundsAssumption  == MaxRefs \in Nat /\ MaxLocks \in Nat /\ MaxWorkers \in Nat

VARIABLES
  kind,    \* what each object is, "none" when it is not
  count,   \* its m_cRef: references the host holds
  index,   \* an enumerator's m_index, the attribute of an attribute info
  seen,    \* history: what an enumerator handed out or skipped since its reset
  locks,   \* LockServer
  workers, \* worker threads before their DllRelease
  refs,    \* g_cRefDll
  loaded   \* the DLL is mapped

objects == <<kind, count, index, seen>>
process == <<objects, locks, workers, refs, loaded>>

Kinds      == {"factory", "service", "enumerator", "info"}
Attributes == <<"input", "converting">>

Is(k) == {o \in Objects : kind[o] = k}
Live  == {o \in Objects : kind[o] # "none"}
Free  == Is("none")

\* A constructor that ran, and the reference its caller keeps.  new may fail
\* at any time; then nothing happens.
New(o, k, at, past) ==
  /\ o \in Free
  /\ kind' = [kind EXCEPT ![o] = k] /\ count' = [count EXCEPT ![o] = 1]
  /\ index' = [index EXCEPT ![o] = at] /\ seen' = [seen EXCEPT ![o] = past]
  /\ refs' = refs + 1
  /\ UNCHANGED <<locks, workers, loaded>>

----------------------------------------------------------------------------
\* IUnknown, the same in all four classes.

\* AddRef, and a QueryInterface that succeeds.
AddRef(o) ==
  /\ o \in Live /\ count[o] < MaxRefs
  /\ count' = [count EXCEPT ![o] = @ + 1]
  /\ UNCHANGED <<kind, index, seen, locks, workers, refs, loaded>>

Release(o) ==
  /\ o \in Live
  /\ IF count[o] > 1
       THEN /\ count' = [count EXCEPT ![o] = @ - 1]
            /\ UNCHANGED <<kind, index, seen, refs>>
       ELSE /\ kind' = [kind EXCEPT ![o] = "none"] /\ count' = [count EXCEPT ![o] = 0]
            /\ index' = [index EXCEPT ![o] = 0] /\ seen' = [seen EXCEPT ![o] = <<>>]
            /\ refs' = refs - 1
  /\ UNCHANGED <<locks, workers, loaded>>

----------------------------------------------------------------------------
\* The exports and the class factory.

\* CoLoadLibrary: g_cRefDll starts from 0 in every image.
Load == /\ ~loaded /\ loaded' = TRUE /\ refs' = 0
        /\ UNCHANGED <<objects, locks, workers>>

\* A factory whose QueryInterface fails is gone again before the call returns.
DllGetClassObject == loaded /\ \E o \in Objects : New(o, "factory", 0, <<>>)

CreateInstance == Is("factory") # {} /\ \E o \in Objects : New(o, "service", 0, <<>>)

\* Mutant: a lock is not counted.
LockServerUncounted(lock) ==
  /\ Is("factory") # {}
  /\ IF lock THEN locks < MaxLocks /\ locks' = locks + 1
             ELSE locks > 0 /\ locks' = locks - 1
  /\ UNCHANGED <<objects, workers, refs, loaded>>

\* The host takes back only locks that it has.
LockServer(lock) ==
  /\ Is("factory") # {}
  /\ IF lock THEN locks < MaxLocks /\ locks' = locks + 1 /\ refs' = refs + 1
             ELSE locks > 0 /\ locks' = locks - 1 /\ refs' = refs - 1
  /\ UNCHANGED <<objects, workers, loaded>>

\* CoFreeUnusedLibraries, when DllCanUnloadNow says S_OK.
Unload == /\ loaded /\ refs <= 0 /\ loaded' = FALSE
          /\ UNCHANGED <<objects, locks, workers, refs>>

----------------------------------------------------------------------------
\* What a service makes: display attributes, their enumerator, and workers.

EnumDisplayAttributeInfo ==
  Is("service") # {} /\ \E o \in Objects : New(o, "enumerator", 0, <<>>)

\* E_INVALIDARG for an attribute that is not ours.
GetDisplayAttributeInfo ==
  Is("service") # {} /\ \E o \in Objects, a \in DOMAIN Attributes : New(o, "info", a, <<>>)

Clone(e) == e \in Is("enumerator") /\ \E o \in Objects : New(o, "enumerator", index[e], seen[e])

\* Mutant: the cursor moves by what was asked for.
NextByRequest(e) ==
  /\ e \in Is("enumerator")
  /\ \E new \in SUBSET Free, asked \in 1..(Len(Attributes) - index[e]) :
       /\ Cardinality(new) <= asked
       /\ \E item \in Bijection(new, (index[e] + 1)..(index[e] + Cardinality(new))) :
            /\ kind' = [o \in Objects |-> IF o \in new THEN "info" ELSE kind[o]]
            /\ count' = [o \in Objects |-> IF o \in new THEN 1 ELSE count[o]]
            /\ index' = [o \in Objects |-> IF o \in new THEN item[o]
                                           ELSE IF o = e THEN index[e] + asked
                                           ELSE index[o]]
       /\ seen' = [seen EXCEPT ![e] = @ \o SubSeq(Attributes, index[e] + 1,
                                                  index[e] + Cardinality(new))]
       /\ refs' = refs + Cardinality(new)
  /\ UNCHANGED <<locks, workers, loaded>>

\* Next makes an info for each attribute still to come, as many as were asked
\* for, or until there is no memory for another.
NextInfos(e) ==
  /\ e \in Is("enumerator")
  /\ \E new \in SUBSET Free :
       /\ Cardinality(new) \in 1..(Len(Attributes) - index[e])
       /\ \E item \in Bijection(new, (index[e] + 1)..(index[e] + Cardinality(new))) :
            /\ kind' = [o \in Objects |-> IF o \in new THEN "info" ELSE kind[o]]
            /\ count' = [o \in Objects |-> IF o \in new THEN 1 ELSE count[o]]
            /\ index' = [o \in Objects |-> IF o \in new THEN item[o]
                                           ELSE IF o = e THEN index[e] + Cardinality(new)
                                           ELSE index[o]]
       /\ seen' = [seen EXCEPT ![e] = @ \o SubSeq(Attributes, index[e] + 1,
                                                  index[e] + Cardinality(new))]
       /\ refs' = refs + Cardinality(new)
  /\ UNCHANGED <<locks, workers, loaded>>

\* Skip stays at the end however far it is asked to go.
Skip(e, n) ==
  /\ e \in Is("enumerator")
  /\ LET remain == Len(Attributes) - index[e]
         to     == IF n >= remain THEN Len(Attributes) ELSE index[e] + n
     IN  /\ index' = [index EXCEPT ![e] = to]
         /\ seen' = [seen EXCEPT ![e] = @ \o SubSeq(Attributes, index[e] + 1, to)]
  /\ UNCHANGED <<kind, count, locks, workers, refs, loaded>>

Reset(e) ==
  /\ e \in Is("enumerator")
  /\ index' = [index EXCEPT ![e] = 0] /\ seen' = [seen EXCEPT ![e] = <<>>]
  /\ UNCHANGED <<kind, count, locks, workers, refs, loaded>>

\* ConvertMarshaller::Dispatch; the thread may outlive the service.
Dispatch ==
  /\ Is("service") # {} /\ workers < MaxWorkers
  /\ workers' = workers + 1 /\ refs' = refs + 1
  /\ UNCHANGED <<objects, locks, loaded>>

WorkerEnds ==
  /\ workers > 0 /\ workers' = workers - 1 /\ refs' = refs - 1
  /\ UNCHANGED <<objects, locks, loaded>>

----------------------------------------------------------------------------
HostInit ==
  /\ kind = [o \in Objects |-> "none"] /\ count = [o \in Objects |-> 0]
  /\ index = [o \in Objects |-> 0] /\ seen = [o \in Objects |-> <<>>]
  /\ locks = 0 /\ workers = 0 /\ refs = 0 /\ loaded = FALSE

Enumerate(e) ==
  Clone(e) \/ NextInfos(e) \/ Reset(e) \/ \E n \in 1..(Len(Attributes) + 1) : Skip(e, n)

Serve ==
  \/ CreateInstance \/ (\E lock \in BOOLEAN : LockServer(lock))
  \/ EnumDisplayAttributeInfo \/ GetDisplayAttributeInfo
  \/ Dispatch \/ WorkerEnds
  \/ \E o \in Objects : AddRef(o) \/ Release(o) \/ Enumerate(o)

HostNext == Load \/ DllGetClassObject \/ Serve \/ Unload

HostSpec == HostInit /\ [][HostNext]_process

----------------------------------------------------------------------------
\* Who needs the DLL: every object somebody holds, every lock, every worker.
Users == Cardinality(Live) + locks + workers

\* g_cRefDll says so: each of four classes and three other places adds and
\* takes back on its own (DisplayAttribute.cpp:87, ClassFactory.cpp:7).
RefsCountTheUsers == loaded => refs = Users

\* The DLL is mapped as long as anything in it is used.
Pinned == INSTANCE PinnedDll WITH mapped <- loaded, users <- Users
ImplementsPinnedDll == Pinned!Spec

\* An enumerator hands out each attribute once and in order between two
\* resets, also when memory runs out in the middle of a Next; a clone goes on
\* where the original stood (DisplayAttribute.cpp:118 and 130).
EnumeratorsMissNothing ==
  \A e \in Is("enumerator") : seen[e] = SubSeq(Attributes, 1, index[e])
=============================================================================
