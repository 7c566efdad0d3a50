------------------------------ MODULE Settings ------------------------------
(***************************************************************************)
(* The settings and what the programs make of them, as pure operators:     *)
(* core/application/Settings.cpp, tsf/KeyMap.cpp and the Load functions of *)
(* CTextService.                                                           *)
(*                                                                         *)
(* A settings.json is the record of its fields.  A field that is missing,  *)
(* or not of the type wanted, is Absent; a text that is not JSON has all   *)
(* of its fields absent.                                                   *)
(***************************************************************************)
EXTENDS Sequences, SequencesExt

CONSTANT Absent           \* a field with nothing usable in it; no file

NotString == "notString"  \* an array element that is not a string

KeyFields  == {"triggerKeys", "modeToggleKeys", "conversionOnKeys", "directOnKeys"}
TextFields == {"backend", "model", "reasoningEffort"}

\* struct Settings, with the values of its initializers.
DefaultSettings ==
  [triggerKeys |-> <<"Tab">>, modeToggleKeys |-> <<"Kanji">>,
   conversionOnKeys |-> <<>>, directOnKeys |-> <<>>,
   backend |-> "openai", model |-> "", reasoningEffort |-> "low"]

\* Of an array, the elements that are strings, in its order.
Strings(field) ==
  IF field = Absent THEN <<>>
  ELSE FlattenSeq([i \in DOMAIN field |-> IF field[i] = NotString THEN <<>> ELSE <<field[i]>>])

\* ParseSettings: the keys every user needs fall back to the default when
\* there are none, the others may be none; an empty text means unspecified.
ParseSettings(doc) ==
  [f \in KeyFields \cup TextFields |->
     IF f \in TextFields
       THEN IF doc[f] \in {Absent, ""} THEN DefaultSettings[f] ELSE doc[f]
     ELSE IF f \in {"triggerKeys", "modeToggleKeys"} /\ Strings(doc[f]) = <<>>
       THEN DefaultSettings[f]
     ELSE Strings(doc[f])]

\* Mutant: the field added last is not written.
SerializeForgets(s) ==
  [f \in KeyFields \cup TextFields |-> IF f = "directOnKeys" THEN Absent ELSE s[f]]

\* SerializeSettings writes every field as it is.
SerializeSettings(s) == [f \in KeyFields \cup TextFields |-> s[f]]

----------------------------------------------------------------------------
\* Keys.  A virtual key has the name of its code.
VirtualKeys == {"VK_SPACE", "VK_OEM_PERIOD", "VK_OEM_COMMA", "VK_TAB", "VK_RETURN",
                "VK_KANJI", "VK_OEM_AUTO", "VK_OEM_ENLW", "VK_NONCONVERT", "VK_CONVERT",
                "VK_CAPITAL", "VK_SHIFT"}

NoName == "nullopt"

\* VkToKeyName.
VkToKeyName(vk) ==
  CASE vk = "VK_SPACE"      -> "Space"
    [] vk = "VK_OEM_PERIOD" -> "Period"
    [] vk = "VK_OEM_COMMA"  -> "Comma"
    [] vk = "VK_TAB"        -> "Tab"
    [] vk = "VK_RETURN"     -> "Enter"
    [] vk \in {"VK_KANJI", "VK_OEM_AUTO", "VK_OEM_ENLW"} -> "Kanji"
    [] vk = "VK_NONCONVERT" -> "NonConvert"
    [] vk = "VK_CONVERT"    -> "Convert"
    [] vk = "VK_CAPITAL"    -> "Capital"
    [] OTHER                -> NoName

\* KeyNameToVk, of the names it knows.
KeyNameToVk ==
  [Space |-> "VK_SPACE", Period |-> "VK_OEM_PERIOD", Comma |-> "VK_OEM_COMMA",
   Tab |-> "VK_TAB", Enter |-> "VK_RETURN", Kanji |-> "VK_KANJI",
   NonConvert |-> "VK_NONCONVERT", Convert |-> "VK_CONVERT", Capital |-> "VK_CAPITAL"]

VksOf(names) == {KeyNameToVk[n] : n \in ToSet(names) \cap DOMAIN KeyNameToVk}

\* LoadTriggerVKs: the blank separates words and Enter confirms as typed, so
\* neither triggers; Tab does when nothing else is left.
LoadTriggerVKs(s) ==
  LET vks == VksOf(s.triggerKeys) \ {"VK_SPACE", "VK_RETURN"}
  IN  IF vks = {} THEN {"VK_TAB"} ELSE vks

\* LoadModeToggleVKs: the half-width/full-width key by default, under each of
\* the codes it may come with.
LoadModeToggleVKs(s) ==
  LET vks   == VksOf(s.modeToggleKeys)
      known == IF vks = {} THEN {"VK_KANJI"} ELSE vks
  IN  known \cup (IF "VK_KANJI" \in known THEN {"VK_OEM_AUTO", "VK_OEM_ENLW"} ELSE {})

LoadConversionOnVKs(s) == VksOf(s.conversionOnKeys)
LoadDirectOnVKs(s)     == VksOf(s.directOnKeys)

\* CreateConverter: the backend, its model and, for OpenAI, the effort.
CreateConverter(s) ==
  IF s.backend = "ollama"
    THEN <<"ollama", IF s.model = "" THEN "gemma4:e4b-it-qat" ELSE s.model>>
    ELSE <<"openai", IF s.model = "" THEN "gpt-5.4-mini" ELSE s.model, s.reasoningEffort>>

\* What an activation with these settings makes of them.
InEffect(s) ==
  [trigger |-> LoadTriggerVKs(s), toggle |-> LoadModeToggleVKs(s),
   conversionOn |-> LoadConversionOnVKs(s), directOn |-> LoadDirectOnVKs(s),
   converter |-> CreateConverter(s)]

\* LoadSettings: the file of the tray, else the one beside the DLL, else the
\* defaults; an empty file counts as none.
LoadSettings(appData, dllSide) ==
  IF appData # Absent THEN ParseSettings(appData)
  ELSE IF dllSide # Absent THEN ParseSettings(dllSide) ELSE DefaultSettings
=============================================================================
