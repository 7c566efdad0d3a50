--------------------------- MODULE SettingsWindow ---------------------------
(***************************************************************************)
(* tray/SettingsWindow.cpp: the form of the settings, the copy it works    *)
(* on, and settings.json.  The user may edit or delete that file with an   *)
(* editor while the window is open, and the tray may die at any moment;    *)
(* an activation of the text service reads the file whenever it comes.     *)
(*                                                                         *)
(* A click anywhere takes the focus from the field that records a key,     *)
(* which ends the recording before the click itself is handled.            *)
(***************************************************************************)
EXTENDS Settings, Naturals

CONSTANTS Partial,    \* a file some of which has been written
          Rows,       \* rows of the Keymap tab the user edits
          Presses,    \* keys the user presses while recording
          Documents,  \* what an editor may leave in settings.json
          MaxEdits    \* bound: what the user does to the form, and editors to the file

ASSUME RowsAssumption    == Rows \subseteq KeyFields
ASSUME PressesAssumption == Presses \subseteq VirtualKeys \cup {"VK_ESCAPE"}
ASSUME EditsAssumption   == MaxEdits \in Nat

NoRow == "none"

VARIABLES
  isOpen,     \* g_state: the window exists
  working,    \* g_state->working
  recording,  \* the row with kmRecording set
  shown,      \* the text in each row's EDIT
  radio,      \* the backend whose button is checked
  comboModel, \* the value the model combo box has selected
  comboEffort,\* the value the effort combo box has selected
  saving,     \* how far WriteAtomic is: "no", "writing", "renaming"
  closing,    \* it was OK that started it
  file,       \* settings.json
  tmp,        \* settings.json.tmp
  loaded,     \* history: working when the window opened
  touched,    \* history: fields the user has changed since
  pressed,    \* history: the key recorded for each row since
  edits       \* edits so far

form  == <<shown, radio, comboModel, comboEffort>>
disk  == <<file, tmp>>
past  == <<loaded, touched, pressed>>
vars  == <<isOpen, working, recording, form, saving, closing, disk, past, edits>>

----------------------------------------------------------------------------
\* The choices of the combo boxes, first one first.
ModelsFor(backend) ==
  IF backend = "ollama" THEN <<"", "gemma4:e2b-it-qat", "gemma4:e4b-it-qat">>
                        ELSE <<"", "gpt-5.4-nano", "gpt-5.4-mini", "gpt-5.4">>
Efforts == <<"none", "low", "medium", "high", "xhigh">>

\* A text by hand has arrays for rows of keys, if it has the rows.
RowsOfKeys(d) == \A f \in KeyFields : d[f] = Absent \/ d[f] \in Seq(ToSet(d[f]))

ASSUME FilesAssumption     == /\ Absent \notin {Partial, "openai", "ollama"}
                              /\ Absent \notin ToSet(Efforts)
                              /\ \A b \in {"openai", "ollama"} : Absent \notin ToSet(ModelsFor(b))
ASSUME DocumentsAssumption == Partial \notin Documents /\ \A d \in Documents : RowsOfKeys(d)

\* Mutant: the selection is not carried over.
ComboFillFirst(items, value) == items[1]

\* ComboFill: the value if it is listed, the first choice if it is not.
ComboFill(items, value) == IF value \in ToSet(items) THEN value ELSE items[1]

\* The tray's mirror of VkToKeyName, entry for entry.
VkToTrayName(vk) == VkToKeyName(vk)

\* RefreshKmRow: the first key of the row, nothing when there is none.
FirstKey(s, row) == IF s[row] = <<>> THEN "" ELSE s[row][1]

\* ApplyBackendToUI: buttons and boxes from the settings s.
ApplyBackendToUI(s) ==
  /\ radio' = IF s.backend = "ollama" THEN "ollama" ELSE "openai"
  /\ comboModel' = ComboFill(ModelsFor(s.backend), s.model)
  /\ comboEffort' = ComboFill(Efforts, s.reasoningEffort)

----------------------------------------------------------------------------
\* Clicks.
Click == isOpen /\ saving = "no" /\ edits < MaxEdits /\ edits' = edits + 1

\* Show and LoadIntoForm.
Show ==
  /\ ~isOpen /\ saving = "no"
  /\ isOpen' = TRUE
  /\ working' = IF file = Absent THEN DefaultSettings ELSE ParseSettings(file)
  /\ shown' = [row \in KeyFields |-> FirstKey(working', row)]
  /\ ApplyBackendToUI(working')
  /\ recording' = NoRow
  /\ loaded' = working' /\ touched' = {} /\ pressed' = [row \in KeyFields |-> NoName]
  /\ UNCHANGED <<saving, closing, disk, edits>>

\* A row's record button: a recording elsewhere is taken back, the EDIT is
\* emptied and waits for a key.
Record(row) ==
  /\ Click
  /\ recording' = row
  /\ shown' = [r \in KeyFields |-> CASE r = row       -> ""
                                    [] r # row /\ r = recording -> FirstKey(working, r)
                                    [] OTHER -> shown[r]]
  /\ UNCHANGED <<isOpen, working, radio, comboModel, comboEffort, saving, closing, disk, past>>

\* WM_KILLFOCUS in the EDIT.
KillFocus ==
  /\ isOpen /\ recording # NoRow
  /\ recording' = NoRow
  /\ UNCHANGED <<isOpen, working, form, saving, closing, disk, past, edits>>

\* WM_KEYDOWN in the EDIT that records: Esc takes the recording back, a key
\* with a name replaces the row's keys, any other ends the recording.
KeyDown(vk) ==
  /\ isOpen /\ recording # NoRow
  /\ recording' = NoRow
  /\ IF vk # "VK_ESCAPE" /\ VkToTrayName(vk) # NoName
       THEN /\ working' = [working EXCEPT ![recording] = <<VkToTrayName(vk)>>]
            /\ shown' = [shown EXCEPT ![recording] = VkToTrayName(vk)]
            /\ touched' = touched \cup {recording}
            /\ pressed' = [pressed EXCEPT ![recording] = vk]
       ELSE /\ shown' = IF vk = "VK_ESCAPE"
                          THEN [shown EXCEPT ![recording] = FirstKey(working, recording)]
                          ELSE shown
            /\ UNCHANGED <<working, touched, pressed>>
  /\ UNCHANGED <<isOpen, radio, comboModel, comboEffort, saving, closing, disk, loaded, edits>>

\* A row's clear button.
Clear(row) ==
  /\ Click /\ recording' = NoRow
  /\ working' = [working EXCEPT ![row] = <<>>]
  /\ shown' = [shown EXCEPT ![row] = ""]
  /\ touched' = touched \cup {row} /\ pressed' = [pressed EXCEPT ![row] = NoName]
  /\ UNCHANGED <<isOpen, radio, comboModel, comboEffort, saving, closing, disk, loaded>>

\* Mutant: the model of the other backend is left in place.
PickBackendKeepsModel(backend) ==
  /\ Click /\ recording' = NoRow
  /\ working' = [working EXCEPT !.backend = backend]
  /\ ApplyBackendToUI(working')
  /\ touched' = touched \cup {"backend", "model"}
  /\ UNCHANGED <<isOpen, shown, saving, closing, disk, loaded, pressed>>

\* A backend button: its default model, and the boxes filled anew.  An effort
\* chosen and not applied yet is replaced by the one in working.
PickBackend(backend) ==
  /\ Click /\ recording' = NoRow
  /\ working' = [working EXCEPT !.backend = backend, !.model = ""]
  /\ ApplyBackendToUI(working')
  /\ touched' = touched \cup {"backend", "model"}
  /\ UNCHANGED <<isOpen, shown, saving, closing, disk, loaded, pressed>>

\* The combo boxes change nothing but themselves.
PickModel(model) ==
  /\ Click /\ recording' = NoRow
  /\ model \in ToSet(ModelsFor(radio)) /\ comboModel' = model
  /\ touched' = touched \cup {"model"}
  /\ UNCHANGED <<isOpen, working, shown, radio, comboEffort, saving, closing, disk, loaded,
                 pressed>>

PickEffort(effort) ==
  /\ Click /\ recording' = NoRow
  /\ radio = "openai" /\ comboEffort' = effort
  /\ touched' = touched \cup {"reasoningEffort"}
  /\ UNCHANGED <<isOpen, working, shown, radio, comboModel, saving, closing, disk, loaded,
                 pressed>>

----------------------------------------------------------------------------
\* Saving.

\* HarvestForm: backend, model and effort from the controls.
HarvestForm ==
  [working EXCEPT !.backend = radio, !.model = comboModel, !.reasoningEffort = comboEffort]

\* Mutant: settings.json itself is opened for writing.
OpenInPlace == /\ saving' = "writing" /\ file' = Partial /\ UNCHANGED tmp

\* WriteAtomic, up to the temporary file being open; it may not open.
OpenTmp == \/ saving' = "writing" /\ tmp' = Partial /\ UNCHANGED file
           \/ saving' = "no" /\ UNCHANGED disk

\* Apply and OK.  OK closes the window when the saving is over, well or not.
Apply(ok) ==
  /\ Click /\ recording' = NoRow
  /\ working' = HarvestForm
  /\ ApplyBackendToUI(working')
  /\ OpenTmp
  /\ closing' = (ok /\ saving' = "writing")
  /\ isOpen' = ~(ok /\ saving' = "no")
  /\ UNCHANGED <<shown, past>>

\* The JSON button: a file that is not there is made, from working as it is.
OpenJson ==
  /\ Click /\ recording' = NoRow
  /\ IF file = Absent THEN OpenTmp ELSE saving' = "no" /\ UNCHANGED disk
  /\ UNCHANGED <<isOpen, working, form, closing, past>>

\* The text is in the temporary file, or could not all be written.
WriteTmp ==
  /\ saving = "writing"
  /\ \/ saving' = "renaming" /\ tmp' = SerializeSettings(working)
        /\ UNCHANGED <<isOpen, closing>>
     \/ saving' = "no" /\ tmp' = Absent
        /\ isOpen' = ~closing /\ closing' = FALSE
  /\ UNCHANGED <<working, recording, form, file, past, edits>>

\* MoveFileEx puts it in place of settings.json, or fails.
Rename ==
  /\ saving = "renaming"
  /\ file' = tmp
  /\ tmp' = Absent
  /\ saving' = "no" /\ isOpen' = ~closing /\ closing' = FALSE
  /\ UNCHANGED <<working, recording, form, past, edits>>

RenameFails ==
  /\ saving = "renaming"
  /\ tmp' = Absent
  /\ saving' = "no" /\ isOpen' = ~closing /\ closing' = FALSE
  /\ UNCHANGED <<working, recording, form, file, past, edits>>

\* Cancel, and the window's close box.
Cancel ==
  /\ isOpen /\ saving = "no"
  /\ isOpen' = FALSE
  /\ UNCHANGED <<working, recording, form, saving, closing, disk, past, edits>>

----------------------------------------------------------------------------
\* Others.

\* An editor leaves another text, or none.
HandEdit ==
  /\ edits < MaxEdits /\ edits' = edits + 1
  /\ file' \in Documents \cup {Absent}
  /\ UNCHANGED <<isOpen, working, recording, form, saving, closing, tmp, past>>

\* The tray dies.  What it was writing stays behind.
Crash ==
  /\ isOpen
  /\ isOpen' = FALSE /\ saving' = "no" /\ closing' = FALSE
  /\ UNCHANGED <<working, recording, form, disk, past, edits>>

Init ==
  /\ isOpen = FALSE /\ working = DefaultSettings /\ recording = NoRow
  /\ shown = [row \in KeyFields |-> ""]
  /\ radio = "openai" /\ comboModel = "" /\ comboEffort = "low"
  /\ saving = "no" /\ closing = FALSE
  /\ file \in Documents \cup {Absent} /\ tmp = Absent
  /\ loaded = DefaultSettings /\ touched = {} /\ pressed = [row \in KeyFields |-> NoName]
  /\ edits = 0

Next ==
  \/ Show \/ KillFocus \/ Cancel
  \/ \E row \in Rows : Record(row) \/ Clear(row)
  \/ \E vk \in Presses : KeyDown(vk)
  \/ \E backend \in {"openai", "ollama"} : PickBackend(backend)
  \/ \E model \in ToSet(ModelsFor(radio)) : PickModel(model)
  \/ \E effort \in {"low", "high"} : PickEffort(effort)
  \/ \E ok \in BOOLEAN : Apply(ok)
  \/ OpenJson \/ WriteTmp \/ Rename \/ RenameFails
  \/ HandEdit \/ Crash

Spec == Init /\ [][Next]_vars

----------------------------------------------------------------------------
\* Whatever happens in between, settings.json is a whole text: an activation
\* never reads half of one (SettingsWindow.h:9).
FileIsWhole == file # Partial

\* What the form was working on when it was saved is what the next activation
\* puts into effect, an emptied trigger or toggle row included.
Saved == saving = "renaming" /\ saving' = "no" /\ file' = tmp
SavedIsInEffect ==
  [][Saved => InEffect(LoadSettings(file', Absent)) = InEffect(working)]_vars

\* The window brings no model under a backend that does not have it, in
\* whatever order backends and models are picked, the file deleted and written
\* again: what it saves fits, or stood so in the text it was opened on
\* (SettingsWindow.cpp:708).
ModelBelongsToBackend ==
  [][Saved => \/ file'["model"] \in ToSet(ModelsFor(file'["backend"]))
              \/ \A f \in {"backend", "model"} : file'[f] = loaded[f]]_vars

\* What the form can show of the settings s, and what it shows instead.
Shows(s, f) == CASE f = "backend"         -> s[f] \in {"openai", "ollama"}
                 [] f = "model"           -> s[f] \in ToSet(ModelsFor(s["backend"]))
                 [] f = "reasoningEffort" -> s[f] \in ToSet(Efforts)
                 [] f \in KeyFields       -> TRUE
FirstChoice == [backend |-> "openai", model |-> "", reasoningEffort |-> "none"]

\* Saving leaves what the user did not change as it was loaded; only a text by
\* hand that no button and no box has becomes their first choice, and only in
\* the field it is in (SettingsWindow.cpp:289, 424).
OnlyTouchedFieldsChange ==
  [][Saved => \A f \in (KeyFields \cup TextFields) \ touched :
                \/ file'[f] = loaded[f]
                \/ ~Shows(loaded, f) /\ file'[f] = FirstChoice[f]]_vars

\* A key recorded for a one-way mode change is one the service will know by
\* the code it was recorded with (KeyMap.cpp:12).
RecordedKeyWorks ==
  isOpen => /\ pressed["conversionOnKeys"] # NoName =>
                 pressed["conversionOnKeys"] \in LoadConversionOnVKs(working)
            /\ pressed["directOnKeys"] # NoName =>
                 pressed["directOnKeys"] \in LoadDirectOnVKs(working)

WholeSettings(s) ==
  /\ DOMAIN s = KeyFields \cup TextFields
  /\ s["backend"] \notin {Absent, ""} /\ s["model"] # Absent
  /\ s["reasoningEffort"] \notin {Absent, ""}
TypeOK ==
  /\ isOpen \in BOOLEAN /\ closing \in BOOLEAN /\ edits \in 0..MaxEdits
  /\ WholeSettings(working) /\ WholeSettings(loaded)
  /\ recording \in KeyFields \cup {NoRow}
  /\ DOMAIN shown = KeyFields /\ radio \in {"openai", "ollama"}
  /\ comboModel \in ToSet(ModelsFor(radio)) /\ comboEffort \in ToSet(Efforts)
  /\ saving \in {"no", "writing", "renaming"} /\ (saving = "renaming" => WholeSettings(tmp))
  /\ touched \subseteq KeyFields \cup TextFields
=============================================================================
