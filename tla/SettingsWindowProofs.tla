------------------------- MODULE SettingsWindowProofs -------------------------
(***************************************************************************)
(* Proofs about SettingsWindow, for any rows, keys, texts that an editor   *)
(* may leave and number of edits: settings.json is whole at every instant, *)
(* the window brings no model under a backend that does not have it, a     *)
(* save changes what the user changed and what no box can show, and what   *)
(* it saves is what the next activation puts into effect.                  *)
(***************************************************************************)
EXTENDS SettingsWindow, ConversionRequestsLemmas

Fields == KeyFields \cup TextFields

\* Of the two files only the temporary one is ever a part, and not when it is
\* about to replace the other.
Whole == file # Partial /\ (saving = "renaming" => tmp # Partial)

\* The window works on whole settings, and the controls show what they offer.
Working  == WholeSettings(working) /\ working = [f \in Fields |-> working[f]]
Controls == /\ radio \in {"openai", "ollama"}
            /\ comboModel \in ToSet(ModelsFor(radio)) /\ comboEffort \in ToSet(Efforts)

\* While a file is being written nothing else happens to what is written.
Saving == /\ saving # "no" => recording = NoRow
          /\ saving = "renaming" => tmp = SerializeSettings(working)

\* A field that was loaded as s, as the form shows it.
Kept(s, f) == IF Shows(s, f) THEN s[f] ELSE FirstChoice[f]

\* What the user did not touch is as it was when the window opened, in the
\* settings or, harvested, as the controls have shown it since.
Untouched ==
  /\ "backend" \in touched => "model" \in touched
  /\ \A f \in Fields \ touched : working[f] \in {loaded[f], Kept(loaded, f)}
  /\ "backend" \notin touched => radio = Kept(loaded, "backend")
  /\ "model" \notin touched => comboModel = Kept(loaded, "model")
  /\ "reasoningEffort" \notin touched => comboEffort = Kept(loaded, "reasoningEffort")

\* A key is recorded for one of the rows.
Recorded == recording \in KeyFields \cup {NoRow}

\* The model is one of its backend's, or both are as they were found.
Fits == \/ working["model"] \in ToSet(ModelsFor(working["backend"]))
        \/ \A f \in {"backend", "model"} : working[f] = loaded[f]

IInv == Working /\ Controls /\ Saving /\ Untouched /\ Recorded /\ Fits

----------------------------------------------------------------------------
USE DEF disk, form, past

\* settings.json is written by a rename alone.
LEMMA WholeStep ==
  ASSUME \A s : SerializeSettings(s) # Partial, Whole, [Next]_vars
  PROVE  Whole'
<1> USE DEF Whole, Click
<1>1. CASE Show \/ KillFocus \/ Cancel
  BY <1>1 DEF Show, KillFocus, Cancel
<1>2. ASSUME NEW row \in Rows, Record(row) \/ Clear(row) PROVE Whole'
  BY <1>2 DEF Record, Clear
<1>3. ASSUME NEW vk \in Presses, KeyDown(vk) PROVE Whole'
  BY <1>3 DEF KeyDown
<1>4. ASSUME NEW backend, PickBackend(backend) PROVE Whole'
  BY <1>4 DEF PickBackend
<1>5. ASSUME NEW value, PickModel(value) \/ PickEffort(value) PROVE Whole'
  BY <1>5 DEF PickModel, PickEffort
<1>6. ASSUME NEW ok, Apply(ok) PROVE Whole'
  BY <1>6 DEF Apply, OpenTmp
<1>7. CASE OpenJson
  BY <1>7 DEF OpenJson, OpenTmp
<1>8. CASE WriteTmp
  BY <1>8 DEF WriteTmp
<1>9. CASE Rename \/ RenameFails
  BY <1>9 DEF Rename, RenameFails
<1>10. CASE HandEdit
  BY <1>10, DocumentsAssumption, FilesAssumption DEF HandEdit
<1>11. CASE Crash
  BY <1>11 DEF Crash
<1>12. CASE UNCHANGED vars
  BY <1>12 DEF vars
<1> QED
  BY <1>1, <1>2, <1>3, <1>4, <1>5, <1>6, <1>7, <1>8, <1>9, <1>10, <1>11, <1>12 DEF Next

\* Whoever reads settings.json, whenever, reads the whole of a text
\* (SettingsWindow.cpp:62); a part of a file is no text.
THEOREM NeverHalfAFile ==
  ASSUME \A s : SerializeSettings(s) # Partial
  PROVE  Spec => []FileIsWhole
<1>1. Init => Whole
  BY DocumentsAssumption, FilesAssumption DEF Init, Whole
<1>2. Whole => FileIsWhole
  BY DEF Whole, FileIsWhole
<1> QED
  BY <1>1, <1>2, WholeStep, PTL DEF Spec

----------------------------------------------------------------------------
\* Settings and boxes.

LEMMA BoxesOffer ==
  /\ \A b : ModelsFor(b)[1] = "" /\ "" \in ToSet(ModelsFor(b))
  /\ Efforts[1] = "none" /\ "none" \in ToSet(Efforts)
  /\ "low" \in ToSet(Efforts) /\ "high" \in ToSet(Efforts)
<1>1. ASSUME NEW b PROVE ModelsFor(b)[1] = "" /\ "" \in ToSet(ModelsFor(b))
  <2>1. 1 \in DOMAIN ModelsFor(b) /\ ModelsFor(b)[1] = ""
    BY DEF ModelsFor
  <2> QED
    BY <2>1 DEF ToSet
<1>2. /\ 1 \in DOMAIN Efforts /\ Efforts[1] = "none" /\ 2 \in DOMAIN Efforts /\ Efforts[2] = "low"
      /\ 4 \in DOMAIN Efforts /\ Efforts[4] = "high"
  BY DEF Efforts
<1> QED
  BY <1>1, <1>2 DEF ToSet

LEMMA FieldNames ==
  /\ "backend" \in Fields /\ "model" \in Fields /\ "reasoningEffort" \in Fields
  /\ KeyFields \subseteq Fields /\ TextFields \cap KeyFields = {}
  /\ "backend" \in TextFields /\ "model" \in TextFields /\ "reasoningEffort" \in TextFields
  /\ NoRow \notin Fields
  /\ \A f \in Fields : f \in KeyFields \cup {"backend", "model", "reasoningEffort"}
BY DEF Fields, KeyFields, TextFields, NoRow

LEMMA FirstChoices ==
  /\ FirstChoice["backend"] = "openai" /\ FirstChoice["model"] = ""
  /\ FirstChoice["reasoningEffort"] = "none"
BY DEF FirstChoice

\* The lists of models of a backend depend on whether it is the local one.
LEMMA SameModels ==
  ASSUME NEW s
  PROVE  ModelsFor(Kept(s, "backend")) = ModelsFor(s["backend"])
BY FirstChoices DEF Kept, Shows, ModelsFor

\* The texts that settings come from give whole settings.
LEMMA TextsAreWhole ==
  /\ "openai" \notin {Absent, ""} /\ "" # Absent /\ "low" \notin {Absent, ""}
  /\ \A b \in {"openai", "ollama"} : b \notin {Absent, ""}
  /\ \A b \in {"openai", "ollama"} : \A m \in ToSet(ModelsFor(b)) : m # Absent
  /\ \A e \in ToSet(Efforts) : e \notin {Absent, ""}
<1>1. \A e \in ToSet(Efforts) : e # ""
  <2>1. /\ DOMAIN Efforts = 1..5 /\ Efforts[1] = "none" /\ Efforts[2] = "low"
        /\ Efforts[3] = "medium" /\ Efforts[4] = "high" /\ Efforts[5] = "xhigh"
    BY DEF Efforts
  <2>2. \A i \in 1..5 : i \in {1, 2, 3, 4, 5}
    OBVIOUS
  <2>3. \A i \in DOMAIN Efforts : Efforts[i] # ""
    BY <2>1, <2>2
  <2> QED
    BY <2>3 DEF ToSet
<1> QED
  BY <1>1, BoxesOffer, FilesAssumption

LEMMA ParsedShape ==
  ASSUME NEW d
  PROVE  /\ WholeSettings(ParseSettings(d))
         /\ ParseSettings(d) = [f \in Fields |-> ParseSettings(d)[f]]
<1>1. /\ DefaultSettings["backend"] = "openai" /\ DefaultSettings["model"] = ""
      /\ DefaultSettings["reasoningEffort"] = "low"
  BY DEF DefaultSettings
<1>2. \A f \in TextFields :
        ParseSettings(d)[f] = IF d[f] \in {Absent, ""} THEN DefaultSettings[f] ELSE d[f]
  BY DEF ParseSettings, TextFields, KeyFields
<1>3. /\ DOMAIN ParseSettings(d) = Fields
      /\ ParseSettings(d) = [f \in Fields |-> ParseSettings(d)[f]]
  BY DEF ParseSettings, Fields
<1> QED
  BY <1>1, <1>2, <1>3, FieldNames, TextsAreWhole DEF WholeSettings, Fields

LEMMA DefaultShape ==
  /\ WholeSettings(DefaultSettings)
  /\ DefaultSettings = [f \in Fields |-> DefaultSettings[f]]
<1>1. DOMAIN DefaultSettings = Fields
  BY DEF DefaultSettings, Fields, KeyFields, TextFields
<1>2. DefaultSettings = [f \in Fields |-> DefaultSettings[f]]
  BY <1>1 DEF DefaultSettings
<1>3. /\ DefaultSettings["backend"] = "openai" /\ DefaultSettings["model"] = ""
      /\ DefaultSettings["reasoningEffort"] = "low"
  BY DEF DefaultSettings
<1> QED
  BY <1>1, <1>2, <1>3, TextsAreWhole DEF WholeSettings, Fields

\* The form filled from settings shows what it can of them.
LEMMA BoxesShow ==
  ASSUME NEW s, ApplyBackendToUI(s)
  PROVE  /\ radio' = Kept(s, "backend") /\ comboModel' = Kept(s, "model")
         /\ comboEffort' = Kept(s, "reasoningEffort") /\ Controls'
<1>0. /\ radio' = IF s["backend"] = "ollama" THEN "ollama" ELSE "openai"
      /\ comboModel' = ComboFill(ModelsFor(s["backend"]), s["model"])
      /\ comboEffort' = ComboFill(Efforts, s["reasoningEffort"])
  BY DEF ApplyBackendToUI
<1>1. radio' = Kept(s, "backend")
  BY <1>0, FieldNames, FirstChoices DEF Kept, Shows
<1>2. comboModel' = Kept(s, "model") /\ comboModel' \in ToSet(ModelsFor(s["backend"]))
  BY <1>0, FieldNames, BoxesOffer, FirstChoices DEF ComboFill, Kept, Shows
<1>3. comboEffort' = Kept(s, "reasoningEffort") /\ comboEffort' \in ToSet(Efforts)
  BY <1>0, FieldNames, BoxesOffer, FirstChoices DEF ComboFill, Kept, Shows
<1>4. radio' \in {"openai", "ollama"}
  BY DEF ApplyBackendToUI
<1> QED
  BY <1>1, <1>2, <1>3, <1>4, SameModels DEF Controls

\* A form that shows what it can of settings nobody touched shows the same when
\* it is filled again.
LEMMA FilledAgain ==
  ASSUME NEW s, working' = s, ApplyBackendToUI(s), UNCHANGED loaded,
         "backend" \in touched' => "model" \in touched',
         \A f \in Fields \ touched' : s[f] \in {loaded[f], Kept(loaded, f)}
  PROVE  Untouched' /\ Controls'
<1>1. /\ radio' = Kept(s, "backend") /\ comboModel' = Kept(s, "model")
      /\ comboEffort' = Kept(s, "reasoningEffort") /\ Controls'
  BY BoxesShow
<1>2. "backend" \notin touched' => Kept(s, "backend") = Kept(loaded, "backend")
  BY FieldNames, FirstChoices DEF Kept, Shows
<1>3. "reasoningEffort" \notin touched' => Kept(s, "reasoningEffort") = Kept(loaded, "reasoningEffort")
  BY FieldNames, FirstChoices, BoxesOffer DEF Kept, Shows
<1>4. "model" \notin touched' => Kept(s, "model") = Kept(loaded, "model")
  <2> SUFFICES ASSUME "model" \notin touched' PROVE Kept(s, "model") = Kept(loaded, "model")
    OBVIOUS
  <2>1. s["backend"] \in {loaded["backend"], Kept(loaded, "backend")}
    BY FieldNames
  <2>2. ModelsFor(s["backend"]) = ModelsFor(loaded["backend"])
    BY <2>1, SameModels
  <2>3. s["model"] \in {loaded["model"], Kept(loaded, "model")}
    BY FieldNames
  <2> QED
    BY <2>2, <2>3, BoxesOffer, FirstChoices DEF Kept, Shows
<1> QED
  BY <1>1, <1>2, <1>3, <1>4 DEF Untouched

LEMMA InitInv == Init => IInv
<1> SUFFICES ASSUME Init PROVE IInv
  OBVIOUS
<1>1. Working /\ Controls
  BY DefaultShape, BoxesOffer DEF Init, Working, Controls
<1>2. Saving /\ Recorded
  BY DEF Init, Saving, Recorded
<1>3. /\ DefaultSettings["backend"] = "openai" /\ DefaultSettings["model"] = ""
      /\ DefaultSettings["reasoningEffort"] = "low"
  BY DEF DefaultSettings
<1>4. Untouched
  BY <1>3, BoxesOffer DEF Init, Untouched, Kept, Shows
<1>5. Fits
  BY DEF Init, Fits
<1> QED
  BY <1>1, <1>2, <1>4, <1>5 DEF IInv

\* The window opens on what is in the file.
LEMMA ShowStep == IInv /\ Show => IInv'
<1> SUFFICES ASSUME IInv, Show PROVE IInv'
  OBVIOUS
<1>1. Working'
  BY ParsedShape, DefaultShape DEF Show, Working
<1>2. ApplyBackendToUI(working') /\ loaded' = working' /\ touched' = {}
  BY DEF Show
<1>3. /\ radio' = Kept(working', "backend") /\ comboModel' = Kept(working', "model")
      /\ comboEffort' = Kept(working', "reasoningEffort") /\ Controls'
  BY <1>2, BoxesShow
<1>4. Untouched' /\ Fits'
  BY <1>2, <1>3 DEF Untouched, Fits
<1>5. Saving' /\ Recorded'
  BY DEF Show, IInv, Saving, Recorded
<1> QED
  BY <1>1, <1>3, <1>4, <1>5 DEF IInv

\* A row's keys change, and the row is touched.
LEMMA RowStep ==
  ASSUME IInv, NEW row \in KeyFields, NEW keys, working' = [working EXCEPT ![row] = keys],
         touched' = touched \cup {row},
         UNCHANGED <<radio, comboModel, comboEffort, loaded>>
  PROVE  Working' /\ Controls' /\ Untouched' /\ Fits'
<1>1. /\ DOMAIN working' = Fields /\ working' = [f \in Fields |-> working'[f]]
      /\ \A f \in Fields \ {row} : working'[f] = working[f]
  BY FieldNames DEF IInv, Working, WholeSettings, Fields
<1>2. row \notin TextFields
  BY FieldNames
<1>3. \A f \in {"backend", "model", "reasoningEffort"} : working'[f] = working[f]
  BY <1>1, <1>2, FieldNames
<1>4. Working' /\ Fits'
  BY <1>1, <1>3 DEF IInv, Working, WholeSettings, Fits, Fields
<1>5. Untouched'
  BY <1>1, <1>2, FieldNames DEF IInv, Untouched
<1> QED
  BY <1>4, <1>5 DEF IInv, Controls

LEMMA KeyDownStep == ASSUME IInv, NEW vk \in Presses, KeyDown(vk) PROVE IInv'
<1>1. recording # NoRow /\ saving = "no" /\ saving' = "no" /\ recording' = NoRow
  BY DEF KeyDown, IInv, Saving
<1>2. Saving' /\ Recorded'
  BY <1>1 DEF Saving, Recorded
<1>3. CASE UNCHANGED <<working, touched>>
  <2>1. UNCHANGED <<radio, comboModel, comboEffort, loaded, file>>
    BY DEF KeyDown
  <2> QED
    BY <1>2, <1>3, <2>1 DEF IInv, Working, Controls, Untouched, Fits
<1>4. CASE ~UNCHANGED <<working, touched>>
  <2>1. /\ working' = [working EXCEPT ![recording] = <<VkToTrayName(vk)>>]
        /\ touched' = touched \cup {recording}
        /\ UNCHANGED <<radio, comboModel, comboEffort, loaded>>
    BY <1>4 DEF KeyDown
  <2>2. recording \in KeyFields
    BY <1>1 DEF IInv, Recorded
  <2> QED
    BY <1>1, <1>2, <2>1, <2>2, RowStep DEF IInv
<1> QED
  BY <1>3, <1>4

\* The row's record and clear buttons.
LEMMA RecordStep == ASSUME IInv, NEW row \in Rows, Record(row) PROVE IInv'
<1>1. Recorded' /\ Saving'
  BY RowsAssumption DEF Record, Click, Recorded, Saving
<1> QED
  BY <1>1 DEF Record, Click, IInv, Working, Controls, Untouched, Fits

LEMMA ClearStep == ASSUME IInv, NEW row \in Rows, Clear(row) PROVE IInv'
<1>1. row \in KeyFields
  BY RowsAssumption
<1>2. /\ working' = [working EXCEPT ![row] = <<>>] /\ touched' = touched \cup {row}
      /\ UNCHANGED <<radio, comboModel, comboEffort, saving, loaded>>
      /\ saving = "no" /\ recording' = NoRow
  BY DEF Clear, Click
<1>3. Recorded' /\ Saving'
  BY <1>2 DEF Recorded, Saving
<1> QED
  BY <1>1, <1>2, <1>3, RowStep DEF IInv

\* A backend button sets the model to the backend's default.
LEMMA PickBackendStep ==
  ASSUME IInv, NEW backend \in {"openai", "ollama"}, PickBackend(backend)
  PROVE  IInv'
<1>1. /\ working' = [working EXCEPT !["backend"] = backend, !["model"] = ""]
      /\ touched' = touched \cup {"backend", "model"} /\ ApplyBackendToUI(working')
      /\ saving = "no" /\ saving' = "no" /\ recording' = NoRow /\ loaded' = loaded
  BY DEF PickBackend, Click
<1>2. /\ DOMAIN working' = Fields /\ working' = [f \in Fields |-> working'[f]]
      /\ \A f \in Fields \ {"backend", "model"} : working'[f] = working[f]
      /\ working'["backend"] = backend /\ working'["model"] = ""
  BY <1>1, FieldNames DEF IInv, Working, WholeSettings, Fields
<1>3. Working'
  BY <1>2, TextsAreWhole, FieldNames DEF IInv, Working, WholeSettings, Fields
<1>4. Fits'
  BY <1>2, BoxesOffer DEF Fits
<1>5. \A f \in Fields \ touched' : working'[f] \in {loaded[f], Kept(loaded, f)}
  BY <1>1, <1>2 DEF IInv, Untouched
<1>6. Untouched' /\ Controls'
  BY <1>1, <1>5, FilledAgain
<1>7. Saving' /\ Recorded'
  BY <1>1 DEF Saving, Recorded
<1> QED
  BY <1>3, <1>4, <1>6, <1>7 DEF IInv

LEMMA PickBoxStep ==
  ASSUME IInv, NEW value,
         PickModel(value) \/ (PickEffort(value) /\ value \in {"low", "high"})
  PROVE  IInv'
<1>1. /\ UNCHANGED <<working, radio, loaded>> /\ recording' = NoRow
      /\ saving = "no" /\ saving' = "no"
  BY DEF PickModel, PickEffort, Click
<1>2. Controls' /\ Untouched'
  <2>1. CASE PickModel(value)
    BY <2>1, <1>1 DEF PickModel, IInv, Controls, Untouched
  <2>2. CASE PickEffort(value) /\ value \in {"low", "high"}
    BY <2>2, <1>1, BoxesOffer DEF PickEffort, IInv, Controls, Untouched
  <2> QED
    BY <2>1, <2>2
<1>3. Working' /\ Saving' /\ Recorded' /\ Fits'
  BY <1>1 DEF IInv, Working, Saving, Recorded, Fits
<1> QED
  BY <1>2, <1>3 DEF IInv

\* Apply and OK take what the controls show, and that fits.
LEMMA ApplyStep == ASSUME IInv, NEW ok, Apply(ok) PROVE IInv'
<1>1. /\ working' = HarvestForm /\ ApplyBackendToUI(working')
      /\ UNCHANGED <<loaded, touched>> /\ recording' = NoRow
      /\ saving' \in {"no", "writing"}
  BY DEF Apply, OpenTmp, Click
<1>2. /\ DOMAIN working' = Fields /\ working' = [f \in Fields |-> working'[f]]
      /\ \A f \in Fields \ {"backend", "model", "reasoningEffort"} : working'[f] = working[f]
      /\ working'["backend"] = radio /\ working'["model"] = comboModel
      /\ working'["reasoningEffort"] = comboEffort
  BY <1>1, FieldNames DEF IInv, Working, WholeSettings, Fields, HarvestForm
<1>3. Working'
  BY <1>2, TextsAreWhole DEF IInv, Controls, Working, WholeSettings, Fields
<1>4. Fits'
  BY <1>2 DEF IInv, Controls, Fits
<1>5. \A f \in Fields \ touched : working'[f] \in {loaded[f], Kept(loaded, f)}
  BY <1>2 DEF IInv, Untouched
<1>6. "backend" \in touched' => "model" \in touched'
  BY <1>1 DEF IInv, Untouched
<1>7. Untouched' /\ Controls'
  BY <1>1, <1>5, <1>6, FilledAgain
<1>8. Saving' /\ Recorded'
  BY <1>1 DEF Saving, Recorded
<1> QED
  BY <1>3, <1>4, <1>7, <1>8 DEF IInv

\* Steps that leave settings and controls alone.
LEMMA FormKept ==
  ASSUME IInv, UNCHANGED <<working, radio, comboModel, comboEffort, loaded, touched>>
  PROVE  Working' /\ Controls' /\ Untouched' /\ Fits'
BY DEF IInv, Working, Controls, Untouched, Fits

LEMMA OtherStep ==
  ASSUME IInv,
         \/ OpenJson \/ WriteTmp \/ Rename \/ RenameFails \/ Cancel \/ KillFocus
         \/ Crash \/ HandEdit
  PROVE  IInv'
<1>1. UNCHANGED <<working, radio, comboModel, comboEffort, loaded, touched>>
  BY DEF OpenJson, WriteTmp, Rename, RenameFails, Cancel, KillFocus, Crash, HandEdit, Click
<1>2. Recorded'
  BY DEF OpenJson, WriteTmp, Rename, RenameFails, Cancel, KillFocus, Crash, HandEdit, IInv, Recorded
<1>3. Saving'
  BY <1>1 DEF OpenJson, OpenTmp, WriteTmp, Rename, RenameFails, Cancel, KillFocus, Crash,
              HandEdit, IInv, Saving
<1> QED
  BY <1>1, <1>2, <1>3, FormKept DEF IInv

LEMMA StepInv == IInv /\ [Next]_vars => IInv'
<1> SUFFICES ASSUME IInv, [Next]_vars PROVE IInv'
  OBVIOUS
<1>1. CASE Show
  BY <1>1, ShowStep
<1>2. ASSUME NEW row \in Rows, Record(row) \/ Clear(row) PROVE IInv'
  BY <1>2, RecordStep, ClearStep
<1>3. ASSUME NEW vk \in Presses, KeyDown(vk) PROVE IInv'
  BY <1>3, KeyDownStep
<1>4. ASSUME NEW backend \in {"openai", "ollama"}, PickBackend(backend) PROVE IInv'
  BY <1>4, PickBackendStep
<1>5. ASSUME NEW model, PickModel(model) PROVE IInv'
  BY <1>5, PickBoxStep
<1>6. ASSUME NEW effort \in {"low", "high"}, PickEffort(effort) PROVE IInv'
  BY <1>6, PickBoxStep
<1>7. ASSUME NEW ok, Apply(ok) PROVE IInv'
  BY <1>7, ApplyStep
<1>8. CASE \/ OpenJson \/ WriteTmp \/ Rename \/ RenameFails \/ Cancel \/ KillFocus
           \/ Crash \/ HandEdit
  BY <1>8, OtherStep
<1>9. CASE UNCHANGED vars
  BY <1>9, FormKept DEF vars, IInv, Saving, Recorded
<1> QED
  BY <1>1, <1>2, <1>3, <1>4, <1>5, <1>6, <1>7, <1>8, <1>9 DEF Next

\* The invariant of the window and its controls.
THEOREM Invariance == Spec => []IInv
<1> QED
  BY InitInv, StepInv, PTL DEF Spec

\* What is saved is what the form worked on.
LEMMA SavedIsWorking ==
  ASSUME IInv, Saved
  PROVE  \A f \in Fields : file'[f] = working[f]
BY DEF Saved, IInv, Saving, SerializeSettings, Fields

\* The window brings no model under a backend that does not have it, in whatever
\* order backends and models are picked and saved (SettingsWindow.cpp:708).
THEOREM ModelsFit == Spec => ModelBelongsToBackend
<1>1. IInv /\ [Next]_vars =>
        [Saved => \/ file'["model"] \in ToSet(ModelsFor(file'["backend"]))
                  \/ \A f \in {"backend", "model"} : file'[f] = loaded[f]]_vars
  BY SavedIsWorking, FieldNames DEF IInv, Fits
<1> QED
  BY <1>1, Invariance, PTL DEF Spec, ModelBelongsToBackend

\* A save leaves what the user did not change as it was loaded, whatever text it
\* was loaded from; a value the form cannot show, and nothing else, becomes the
\* first choice (SettingsWindow.cpp:289, 424).
THEOREM NothingElseChanges == Spec => OnlyTouchedFieldsChange
<1>1. IInv /\ [Next]_vars =>
        [Saved => \A f \in (KeyFields \cup TextFields) \ touched :
                    \/ file'[f] = loaded[f]
                    \/ ~Shows(loaded, f) /\ file'[f] = FirstChoice[f]]_vars
  <2> SUFFICES ASSUME IInv, Saved, NEW f \in Fields \ touched
               PROVE  file'[f] = loaded[f] \/ (~Shows(loaded, f) /\ file'[f] = FirstChoice[f])
    BY DEF Fields
  <2>1. file'[f] = working[f]
    BY SavedIsWorking
  <2> QED
    BY <2>1 DEF IInv, Untouched, Kept
<1> QED
  BY <1>1, Invariance, PTL DEF Spec, OnlyTouchedFieldsChange

----------------------------------------------------------------------------
\* A save is what the next activation puts into effect.

LEMMA ConcatElements ==
  ASSUME NEW S, NEW s \in Seq(S), NEW t \in Seq(S)
  PROVE  \A x : x \in ToSet(s \o t) <=> x \in ToSet(s) \/ x \in ToSet(t)
<1> DEFINE c == s \o t
<1>1. /\ Len(c) = Len(s) + Len(t) /\ Len(s) \in Nat /\ Len(t) \in Nat
      /\ DOMAIN c = 1..Len(c) /\ DOMAIN s = 1..Len(s) /\ DOMAIN t = 1..Len(t)
      /\ \A i \in 1..Len(c) : c[i] = IF i <= Len(s) THEN s[i] ELSE t[i - Len(s)]
  BY ConcatProperties, LenProperties
<1> HIDE DEF c
<1>2. \A x : x \in ToSet(c) => x \in ToSet(s) \/ x \in ToSet(t)
  BY <1>1 DEF ToSet
<1>3. \A x : x \in ToSet(s) => x \in ToSet(c)
  BY <1>1 DEF ToSet
<1>4. ASSUME NEW j \in 1..Len(t) PROVE t[j] \in ToSet(c)
  <2>1. j + Len(s) \in 1..Len(c) /\ ~(j + Len(s) <= Len(s)) /\ (j + Len(s)) - Len(s) = j
    BY <1>1
  <2> QED
    BY <1>1, <2>1 DEF ToSet
<1> QED
  BY <1>1, <1>2, <1>3, <1>4 DEF ToSet, c

\* What is in one of the sequences put together is in the result, and nothing
\* else.
LEMMA FlattenElements ==
  ASSUME NEW S, NEW ss \in Seq(Seq(S))
  PROVE  \A x : x \in ToSet(FlattenSeq(ss)) <=> \E i \in 1..Len(ss) : x \in ToSet(ss[i])
<1> DEFINE Both(u) == \A x : x \in ToSet(FlattenSeq(u)) <=> \E i \in 1..Len(u) : x \in ToSet(u[i])
           T == {n \in Nat : \A u \in Seq(Seq(S)) : Len(u) = n => Both(u)}
<1>1. 0 \in T
  <2> SUFFICES ASSUME NEW u \in Seq(Seq(S)), Len(u) = 0 PROVE Both(u)
    OBVIOUS
  <2>1. u = <<>>
    BY EmptySeq
  <2>2. FlattenSeq(u) = <<>>
    BY <2>1, FlattenEmpty
  <2> QED
    BY <2>1, <2>2 DEF ToSet
<1>2. ASSUME NEW n \in Nat, n \in T PROVE n + 1 \in T
  <2> SUFFICES ASSUME NEW u \in Seq(Seq(S)), Len(u) = n + 1 PROVE Both(u)
    OBVIOUS
  <2> DEFINE v == SubSeq(u, 1, n)
             l == u[n + 1]
  <2>1. /\ v \in Seq(Seq(S)) /\ Len(v) = n /\ l \in Seq(S)
        /\ \A i \in 1..n : v[i] = u[i]
    <3>1. \A i \in 1..(n + 1) : u[i] \in Seq(S)
      BY ElementOfSeq
    <3> QED
      BY <3>1, SubSeqProperties
  <2>2. u = Append(v, l)
    BY <2>1, AppendProperties, SeqEqual
  <2>3. Both(v)
    BY <1>2, <2>1
  <2> HIDE DEF v, l
  <2>4. FlattenSeq(u) = FlattenSeq(v) \o l /\ FlattenSeq(v) \in Seq(S)
    BY <2>1, <2>2, FlattenAppend, FlattenType
  <2>5. \A x : x \in ToSet(FlattenSeq(u)) <=> x \in ToSet(FlattenSeq(v)) \/ x \in ToSet(l)
    BY <2>1, <2>4, ConcatElements
  <2>6. \A x : (\E i \in 1..(n + 1) : x \in ToSet(u[i]))
               <=> (\E i \in 1..n : x \in ToSet(v[i])) \/ x \in ToSet(l)
    <3>1. 1..(n + 1) = 1..n \cup {n + 1}
      OBVIOUS
    <3> QED
      BY <2>1, <3>1 DEF l
  <2> QED
    BY <2>1, <2>3, <2>5, <2>6
<1> HIDE DEF T
<1>3. \A n \in Nat : n \in T
  BY <1>1, <1>2, Induction
<1>4. Len(ss) \in Nat
  BY LenProperties
<1> QED
  BY <1>3, <1>4 DEF T

\* A row is an array of keys, whoever wrote it.
IsRow(row) == row \in Seq(ToSet(row))

LEMMA SeqIsRow == ASSUME NEW S, NEW row \in Seq(S) PROVE IsRow(row)
<1>1. /\ Len(row) \in Nat /\ row \in [1..Len(row) -> S] /\ DOMAIN row = 1..Len(row)
  BY LenProperties
<1>2. row \in [1..Len(row) -> ToSet(row)]
  BY <1>1 DEF ToSet
<1> QED
  BY <1>1, <1>2, SeqDef DEF IsRow

LEMMA ShortRows == IsRow(<<>>) /\ \A key : IsRow(<<key>>)
<1>1. <<>> \in Seq({}) /\ \A key : <<key>> \in Seq({key})
  OBVIOUS
<1> QED
  BY <1>1, SeqIsRow

\* Taking the strings of a row gives a row, and leaves the keys it stands for.
LEMMA StringsOfRow ==
  ASSUME NEW row, row # Absent, IsRow(row)
  PROVE  IsRow(Strings(row)) /\ VksOf(Strings(row)) = VksOf(row)
<1> DEFINE S == ToSet(row)
           parts == [i \in DOMAIN row |-> IF row[i] = NotString THEN <<>> ELSE <<row[i]>>]
<1>1. Len(row) \in Nat /\ DOMAIN row = 1..Len(row) /\ \A i \in 1..Len(row) : row[i] \in S
  BY LenProperties DEF IsRow, ToSet
<1>2. \A i \in 1..Len(row) : parts[i] \in Seq(S)
  BY <1>1
<1>3. parts \in [1..Len(row) -> Seq(S)]
  BY <1>1, <1>2
<1>4. parts \in Seq(Seq(S)) /\ Len(parts) = Len(row)
  BY <1>1, <1>3, SeqDef
<1>5. \A i \in 1..Len(row) : ToSet(parts[i]) = {row[i]} \ {NotString}
  BY <1>1 DEF ToSet
<1>6. Strings(row) = FlattenSeq(parts)
  BY DEF Strings
<1> HIDE DEF parts
<1>7. IsRow(Strings(row))
  BY <1>4, <1>6, FlattenType, SeqIsRow
<1>8. \A x : x \in ToSet(Strings(row)) <=> \E i \in 1..Len(row) : x \in ToSet(parts[i])
  BY <1>4, <1>6, FlattenElements
<1>9. ToSet(Strings(row)) = ToSet(row) \ {NotString}
  <2>1. \A x : x \in ToSet(Strings(row)) <=> \E i \in 1..Len(row) : x = row[i] /\ x # NotString
    <3>1. \A i \in 1..Len(row) : \A x : x \in ToSet(parts[i]) <=> x = row[i] /\ x # NotString
      BY <1>5
    <3> QED
      BY <1>8, <3>1
  <2>2. \A x : x \in ToSet(row) <=> \E i \in 1..Len(row) : x = row[i]
    BY <1>1 DEF ToSet
  <2> HIDE DEF S
  <2> QED
    BY <2>1, <2>2
<1>10. NotString \notin DOMAIN KeyNameToVk
  BY DEF NotString, KeyNameToVk
<1>11. ToSet(Strings(row)) \cap DOMAIN KeyNameToVk = ToSet(row) \cap DOMAIN KeyNameToVk
  BY <1>9, <1>10
<1> QED
  BY <1>7, <1>11 DEF VksOf

\* The rows the window works on, and those of the file, are rows.
KeyRows == /\ \A f \in KeyFields : IsRow(working[f])
           /\ file # Absent => RowsOfKeys(file)

LEMMA DefaultRows == \A f \in KeyFields : IsRow(DefaultSettings[f])
<1>1. /\ DefaultSettings["triggerKeys"] = <<"Tab">>
      /\ DefaultSettings["modeToggleKeys"] = <<"Kanji">>
      /\ DefaultSettings["conversionOnKeys"] = <<>> /\ DefaultSettings["directOnKeys"] = <<>>
  BY DEF DefaultSettings
<1> QED
  BY <1>1, ShortRows DEF KeyFields

LEMMA ParsedRows ==
  ASSUME NEW d, RowsOfKeys(d), NEW f \in KeyFields
  PROVE  IsRow(ParseSettings(d)[f])
<1>1. ParseSettings(d)[f] \in {DefaultSettings[f], Strings(d[f])}
  BY DEF ParseSettings, KeyFields, TextFields
<1>2. CASE d[f] = Absent
  <2>1. Strings(d[f]) = <<>>
    BY <1>2 DEF Strings
  <2> QED
    BY <1>1, <2>1, DefaultRows, ShortRows
<1>3. CASE d[f] # Absent
  <2>1. IsRow(d[f])
    BY <1>3 DEF RowsOfKeys, IsRow
  <2> QED
    BY <1>1, <1>3, <2>1, StringsOfRow, DefaultRows
<1> QED
  BY <1>2, <1>3

LEMMA KeyRowsStep == IInv /\ KeyRows /\ [Next]_vars => KeyRows'
<1> SUFFICES ASSUME IInv, KeyRows, [Next]_vars PROVE KeyRows'
  OBVIOUS
<1>1. CASE Show
  <2>1. UNCHANGED file /\ working' \in {DefaultSettings, ParseSettings(file)}
        /\ (working' = ParseSettings(file) \/ file = Absent)
    BY <1>1 DEF Show
  <2>2. CASE file = Absent
    BY <1>1, <2>1, <2>2, DefaultRows DEF Show, KeyRows
  <2>3. CASE file # Absent
    BY <2>1, <2>3, ParsedRows DEF KeyRows
  <2> QED
    BY <2>2, <2>3
<1>2. ASSUME NEW row \in Rows, Record(row) \/ Clear(row) PROVE KeyRows'
  <2>1. /\ UNCHANGED file
        /\ working' = working \/ working' = [working EXCEPT ![row] = <<>>]
    BY <1>2 DEF Record, Clear
  <2>2. IsRow(<<>>)
    BY ShortRows
  <2>3. \A f \in KeyFields : working'[f] \in {working[f], <<>>}
    BY <2>1, FieldNames DEF IInv, Working, WholeSettings, Fields
  <2> QED
    BY <2>1, <2>2, <2>3 DEF KeyRows
<1>3. ASSUME NEW vk \in Presses, KeyDown(vk) PROVE KeyRows'
  <2> DEFINE new == <<VkToTrayName(vk)>>
  <2>1. IsRow(new)
    BY ShortRows
  <2> HIDE DEF new
  <2>2. UNCHANGED file /\ (working' = working \/ working' = [working EXCEPT ![recording] = new])
    BY <1>3 DEF KeyDown, new
  <2>3. \A f \in KeyFields : working'[f] \in {working[f], new}
    BY <2>2, FieldNames DEF IInv, Working, WholeSettings, Fields
  <2> QED
    BY <2>1, <2>2, <2>3 DEF KeyRows
<1>4. ASSUME NEW backend, PickBackend(backend) PROVE KeyRows'
  <2>1. UNCHANGED file /\ \A f \in KeyFields : working'[f] = working[f]
    BY <1>4, FieldNames DEF PickBackend, IInv, Working, WholeSettings, Fields, KeyFields
  <2> QED
    BY <2>1 DEF KeyRows
<1>5. ASSUME NEW ok, Apply(ok) PROVE KeyRows'
  <2>1. UNCHANGED file /\ \A f \in KeyFields : working'[f] = working[f]
    BY <1>5, FieldNames DEF Apply, OpenTmp, HarvestForm, IInv, Working, WholeSettings, Fields, KeyFields
  <2> QED
    BY <2>1 DEF KeyRows
<1>6. CASE Rename
  <2>1. UNCHANGED working /\ file' = SerializeSettings(working)
    BY <1>6 DEF Rename, IInv, Saving
  <2>2. \A f \in KeyFields : file'[f] = working[f]
    BY <2>1 DEF SerializeSettings
  <2> QED
    BY <2>1, <2>2 DEF KeyRows, RowsOfKeys, IsRow
<1>7. CASE HandEdit
  BY <1>7, DocumentsAssumption DEF HandEdit, KeyRows
<1>8. CASE UNCHANGED <<working, file>>
  BY <1>8 DEF KeyRows
<1>9. ASSUME NEW value, PickModel(value) \/ PickEffort(value) PROVE UNCHANGED <<working, file>>
  BY <1>9 DEF PickModel, PickEffort
<1>10. ASSUME KillFocus \/ Cancel \/ OpenJson \/ WriteTmp \/ RenameFails \/ Crash \/ UNCHANGED vars
       PROVE  UNCHANGED <<working, file>>
  BY <1>10 DEF KillFocus, Cancel, OpenJson, OpenTmp, WriteTmp, RenameFails, Crash, vars
<1> QED
  BY <1>1, <1>2, <1>3, <1>4, <1>5, <1>6, <1>7, <1>8, <1>9, <1>10 DEF Next

\* What is written is read back as it was meant.
LEMMA RoundTrip ==
  ASSUME NEW s, WholeSettings(s), \A f \in KeyFields : IsRow(s[f]) /\ s[f] # Absent
  PROVE  InEffect(ParseSettings(SerializeSettings(s))) = InEffect(s)
<1> DEFINE d == SerializeSettings(s)
           p == ParseSettings(d)
<1>1. \A f \in KeyFields : d[f] = s[f]
  BY DEF SerializeSettings
<1>2. /\ d["backend"] = s["backend"] /\ d["model"] = s["model"]
      /\ d["reasoningEffort"] = s["reasoningEffort"]
  BY FieldNames DEF SerializeSettings, Fields
<1> HIDE DEF d
<1>3. \A f \in KeyFields : VksOf(Strings(d[f])) = VksOf(s[f])
  BY <1>1, StringsOfRow
<1>4. /\ p["conversionOnKeys"] = Strings(d["conversionOnKeys"])
      /\ p["directOnKeys"] = Strings(d["directOnKeys"])
  BY DEF ParseSettings, KeyFields, TextFields
<1>5. /\ LoadConversionOnVKs(p) = LoadConversionOnVKs(s)
      /\ LoadDirectOnVKs(p) = LoadDirectOnVKs(s)
  BY <1>3, <1>4 DEF LoadConversionOnVKs, LoadDirectOnVKs, KeyFields
<1>6. \A f \in {"triggerKeys", "modeToggleKeys"} :
        p[f] = IF Strings(d[f]) = <<>> THEN DefaultSettings[f] ELSE Strings(d[f])
  BY DEF ParseSettings, KeyFields, TextFields
<1>7. VksOf(<<>>) = {} /\ VksOf(<<"Tab">>) = {"VK_TAB"} /\ VksOf(<<"Kanji">>) = {"VK_KANJI"}
  BY DEF VksOf, ToSet, KeyNameToVk
<1>8. LoadTriggerVKs(p) = LoadTriggerVKs(s)
  BY <1>3, <1>6, <1>7 DEF LoadTriggerVKs, KeyFields, DefaultSettings
<1>9. LoadModeToggleVKs(p) = LoadModeToggleVKs(s)
  BY <1>3, <1>6, <1>7 DEF LoadModeToggleVKs, KeyFields, DefaultSettings
<1>10. \A f \in TextFields : p[f] = IF d[f] \in {Absent, ""} THEN DefaultSettings[f] ELSE d[f]
  BY DEF ParseSettings, KeyFields, TextFields
<1>11. p["backend"] = s["backend"] /\ p["model"] = s["model"]
       /\ p["reasoningEffort"] = s["reasoningEffort"]
  <2>1. DefaultSettings["model"] = ""
    BY DEF DefaultSettings
  <2> QED
    BY <1>2, <1>10, <2>1, FieldNames DEF WholeSettings
<1>12. CreateConverter(p) = CreateConverter(s)
  BY <1>11 DEF CreateConverter
<1> HIDE DEF p
<1> QED
  BY <1>5, <1>8, <1>9, <1>12 DEF InEffect, p, d

\* What the form was working on when it was saved is what the next activation
\* puts into effect, an emptied trigger or toggle row included
\* (SettingsWindow.cpp:424, Settings.cpp:18).  That nothing usable is a text
\* or an array is what Absent stands for.
THEOREM SaveTakesEffect ==
  ASSUME \A s : SerializeSettings(s) # Absent, \A S : Absent \notin Seq(S)
  PROVE  Spec => SavedIsInEffect
<1>1. Init => KeyRows
  BY DefaultRows, DocumentsAssumption DEF Init, KeyRows
<1>2. Spec => []KeyRows
  BY <1>1, KeyRowsStep, Invariance, PTL DEF Spec
<1>3. IInv /\ KeyRows /\ [Next]_vars =>
        [Saved => InEffect(LoadSettings(file', Absent)) = InEffect(working)]_vars
  <2> SUFFICES ASSUME IInv, KeyRows, Saved
               PROVE  InEffect(LoadSettings(file', Absent)) = InEffect(working)
    OBVIOUS
  <2>1. file' = SerializeSettings(working) /\ file' # Absent
    BY DEF Saved, IInv, Saving
  <2>2. LoadSettings(file', Absent) = ParseSettings(file')
    BY <2>1 DEF LoadSettings
  <2>3. WholeSettings(working) /\ \A f \in KeyFields : IsRow(working[f]) /\ working[f] # Absent
    BY DEF IInv, Working, KeyRows, IsRow
  <2> QED
    BY <2>1, <2>2, <2>3, RoundTrip
<1> QED
  BY <1>2, <1>3, Invariance, PTL DEF Spec, SavedIsInEffect
=============================================================================
