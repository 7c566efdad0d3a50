----------------------------- MODULE Registration -----------------------------
(***************************************************************************)
(* What regsvr32 does with the DLL: DllRegisterServer and                  *)
(* DllUnregisterServer, one step per thing that is written to the registry *)
(* (the keys of the COM server) or told to the Text Services Framework     *)
(* (the profile, the categories).  Every step may fail, and the process    *)
(* may die between two of them; the next run starts from what is there.    *)
(***************************************************************************)
CONSTANTS Copies,      \* builds of the DLL, each in a directory of its own
          NoCopy,      \* no path written
          Categories,  \* c_supportedCategories
          Faults       \* what may go wrong, see FaultKinds

FaultKinds == {"noKey",           \* a registry key cannot be created
               "noPath",          \* the DLL is not told where it lies
               "noValue",         \* a value cannot be written
               "noProfiles",      \* no profile manager, or it refuses
               "noCategories",    \* no category manager, or it refuses
               "keepsProfile",    \* a profile cannot be taken back
               "keepsCategories", \* a category cannot be taken back
               "noDelete",        \* the keys cannot be deleted, or not all of them
               "killed"}          \* regsvr32 dies

ASSUME CopiesAssumption == NoCopy \notin Copies
ASSUME FaultsAssumption == Faults \subseteq FaultKinds

VARIABLES
  key,        \* CLSID\{...} exists
  inproc,     \* CLSID\{...}\InProcServer32 exists
  path,       \* its default value, a copy of the DLL
  model,      \* its ThreadingModel is set
  tip,        \* ITfInputProcessorProfiles knows the CLSID
  listed,     \* the language profile is in the list the user picks from
  categories, \* categories the CLSID is registered for
  at,         \* where regsvr32 is, "idle" when it does not run
  dll,        \* the copy it registers
  todo,       \* categories still to go through
  refused,    \* some RegisterCategory failed
  outcome,    \* how the last run ended
  kept        \* it could not delete all the keys, which it does not report

server  == <<key, inproc, path, model>>
profile == <<tip, listed>>
run     == <<dll, outcome, kept>>
loop    == <<todo, refused>>

registry == <<server, profile, categories, at, run, loop>>

Fails(fault)   == fault \in Faults
Granted(fault) == IF Fails(fault) THEN BOOLEAN ELSE {TRUE}

\* The COM server can be created, and from which copy.
Whole(copy) == key /\ inproc /\ path = copy /\ model
\* Nobody hears of the input method, and nothing is left of its server.
Unheard  == ~tip /\ ~listed /\ categories = {}
Unserved == ~key /\ ~inproc

Go(from, to) == at = from /\ at' = to

\* Any failure on the way: DllUnregisterServer, and E_FAIL in the end.
RollBack(from) == /\ Go(from, "uncategories")
                  /\ outcome' = "failed" /\ todo' = Categories
                  /\ dll' = NoCopy /\ refused' = FALSE /\ kept' = FALSE
                  /\ UNCHANGED <<server, profile, categories>>

----------------------------------------------------------------------------
\* DllRegisterServer

Register(copy) ==
  /\ Go("idle", "key")
  /\ dll' = copy /\ outcome' = "running" /\ kept' = FALSE
  /\ UNCHANGED <<server, profile, categories, loop>>

\* RegisterServer: RegCreateKeyEx opens what is already there.
CreateKey ==
  \/ /\ Go("key", "inproc") /\ key' = TRUE
     /\ UNCHANGED <<inproc, path, model, profile, categories, run, loop>>
  \/ Fails("noKey") /\ RollBack("key")

CreateInProc ==
  \/ /\ Go("inproc", "path") /\ inproc' = TRUE
     /\ UNCHANGED <<key, path, model, profile, categories, run, loop>>
  \/ Fails("noKey") /\ RollBack("inproc")

\* Nobody looks at what RegSetValueEx returns.
SetPath ==
  \/ /\ Go("path", "model")
     /\ \E written \in Granted("noValue") : path' = IF written THEN dll ELSE path
     /\ UNCHANGED <<key, inproc, model, profile, categories, run, loop>>
  \/ Fails("noPath") /\ RollBack("path")

SetModel ==
  /\ Go("model", "tip")
  /\ \E written \in Granted("noValue") : model' = (written \/ model)
  /\ UNCHANGED <<key, inproc, path, profile, categories, run, loop>>

\* RegisterProfiles: first the text service, then its profile.
RegisterTip ==
  \/ /\ Go("tip", "profile") /\ tip' = TRUE
     /\ UNCHANGED <<server, listed, categories, run, loop>>
  \/ Fails("noProfiles") /\ RollBack("tip")

AddLanguageProfile ==
  \/ /\ Go("profile", "manager") /\ listed' = TRUE
     /\ UNCHANGED <<server, tip, categories, run, loop>>
  \/ Fails("noProfiles") /\ RollBack("profile")

\* RegisterCategories: goes through all of them, and fails if one did.
CreateCategoryMgr ==
  \/ /\ Go("manager", "categories") /\ todo' = Categories /\ refused' = FALSE
     /\ UNCHANGED <<server, profile, categories, run>>
  \/ Fails("noCategories") /\ RollBack("manager")

\* Mutant: the profiles' step is taken for the whole.
RegisterCategoryForgivingly(category) ==
  /\ at = "categories" /\ category \in todo /\ todo' = todo \ {category}
  /\ \E granted \in Granted("noCategories") :
       categories' = IF granted THEN categories \cup {category} ELSE categories
  /\ UNCHANGED <<server, profile, at, run, refused>>

RegisterCategory(category) ==
  /\ at = "categories" /\ category \in todo /\ todo' = todo \ {category}
  /\ \E granted \in Granted("noCategories") :
       /\ categories' = IF granted THEN categories \cup {category} ELSE categories
       /\ refused' = (refused \/ ~granted)
  /\ UNCHANGED <<server, profile, at, run>>

Registered ==
  /\ at = "categories" /\ todo = {}
  /\ IF refused THEN RollBack("categories")
     ELSE /\ Go("categories", "idle") /\ outcome' = "registered"
          /\ UNCHANGED <<server, profile, categories, dll, kept, loop>>

----------------------------------------------------------------------------
\* DllUnregisterServer, on its own or to roll back.

Unregister ==
  /\ Go("idle", "uncategories")
  /\ dll' = NoCopy /\ outcome' = "unregistered" /\ kept' = FALSE /\ todo' = Categories
  /\ UNCHANGED <<server, profile, categories, refused>>

\* One at a time, whatever is answered; without a manager none is tried.
UnregisterCategory(category) ==
  /\ at = "uncategories" /\ category \in todo /\ todo' = todo \ {category}
  /\ \E granted \in Granted("keepsCategories") :
       categories' = IF granted THEN categories \ {category} ELSE categories
  /\ UNCHANGED <<server, profile, at, run, refused>>

\* Mutant: the server goes before the profile.
UnregisterServerFirst ==
  /\ Go("uncategories", "unprofile") /\ todo = {}
  /\ inproc' = FALSE /\ path' = NoCopy /\ model' = FALSE
  /\ UNCHANGED <<key, profile, categories, run, loop>>

CategoriesGone ==
  /\ Go("uncategories", "unprofile") /\ todo = {}
  /\ UNCHANGED <<server, profile, categories, run, loop>>

UnregisterProfiles ==
  /\ Go("unprofile", "uninproc")
  /\ \E granted \in Granted("keepsProfile") :
       /\ tip' = (tip /\ ~granted)
       /\ listed' = (listed /\ ~granted)
  /\ UNCHANGED <<server, categories, run, loop>>

\* RegDeleteTree works from the leaves.  Where it stops, or the CLSID has no
\* string, the rest stays, and nobody is told.
Stay(from) == /\ Fails("noDelete") /\ Go(from, "idle") /\ kept' = TRUE
              /\ UNCHANGED <<key, inproc, profile, categories, dll, outcome, loop>>

DeleteInProc ==
  \/ /\ Go("uninproc", "unkey")
     /\ inproc' = FALSE /\ path' = NoCopy /\ model' = FALSE
     /\ UNCHANGED <<key, profile, categories, run, loop>>
  \/ /\ Stay("uninproc")
     /\ path' \in {path, NoCopy} /\ model' \in {model, FALSE}

DeleteKey ==
  \/ /\ Go("unkey", "idle")
     /\ key' = FALSE
     /\ UNCHANGED <<inproc, path, model, profile, categories, run, loop>>
  \/ Stay("unkey") /\ UNCHANGED <<path, model>>

----------------------------------------------------------------------------
Kill ==
  /\ Fails("killed") /\ at # "idle" /\ at' = "idle" /\ outcome' = "killed"
  /\ dll' = NoCopy /\ todo' = {} /\ refused' = FALSE /\ kept' = FALSE
  /\ UNCHANGED <<server, profile, categories>>

RegistryInit ==
  /\ key = FALSE /\ inproc = FALSE /\ path = NoCopy /\ model = FALSE
  /\ tip = FALSE /\ listed = FALSE /\ categories = {}
  /\ at = "idle" /\ dll = NoCopy /\ todo = {} /\ refused = FALSE
  /\ outcome = "none" /\ kept = FALSE

RegistryNext ==
  \/ (\E copy \in Copies : Register(copy)) \/ Unregister
  \/ CreateKey \/ CreateInProc \/ SetPath \/ SetModel
  \/ RegisterTip \/ AddLanguageProfile
  \/ CreateCategoryMgr \/ Registered
  \/ \E category \in Categories :
       RegisterCategory(category) \/ UnregisterCategory(category)
  \/ CategoriesGone \/ UnregisterProfiles \/ DeleteInProc \/ DeleteKey
  \/ Kill

RegistrySpec == RegistryInit /\ [][RegistryNext]_registry

----------------------------------------------------------------------------
\* Whoever is offered the input method can have it: while the profile is
\* listed its COM server is complete, at every instant of a registration, a
\* second one over it, an unregistration or a roll-back, and after a death in
\* the middle of one (the orders of dllmain.cpp:37 and 44).
ListedIsLoadable == listed => \E copy \in Copies : Whole(copy)

\* A registration that reports success has left this copy registered in full.
\* One that reports failure, and an unregistration, leave nothing the user could
\* be offered, and no key either, whatever was left over from before, unless
\* this run's own deletion broke off (dllmain.cpp:36, Register.cpp:58 and 63).
AllOrNothing ==
  at = "idle" =>
    /\ outcome = "registered" => Whole(dll) /\ tip /\ listed /\ categories = Categories
    /\ outcome \in {"failed", "unregistered"} => Unheard /\ (Unserved \/ kept)
=============================================================================
