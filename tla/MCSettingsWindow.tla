-------------------------- MODULE MCSettingsWindow --------------------------
(* Instances of SettingsWindow for TLC.                                     *)
EXTENDS SettingsWindow

Empty == [f \in KeyFields \cup TextFields |-> Absent]
\* A text of an older version, one with keys only, one for a local model, and two
\* with a model, a backend and an effort that no box offers.
MCDocuments ==
  {Empty,
   [Empty EXCEPT !["triggerKeys"] = <<"Period", NotString, "Comma">>,
                 !["modeToggleKeys"] = <<>>],
   [Empty EXCEPT !["directOnKeys"] = <<"Capital">>, !["backend"] = "ollama",
                 !["model"] = "gemma4:e2b-it-qat", !["reasoningEffort"] = ""],
   [Empty EXCEPT !["backend"] = "ollama", !["model"] = "gpt-5.4"],
   [Empty EXCEPT !["backend"] = "azure", !["reasoningEffort"] = "minimal"]}

OneWayRows == {"conversionOnKeys", "directOnKeys"}
MCRows     == {"triggerKeys", "directOnKeys"}
MCPresses  == {"VK_SPACE", "VK_SHIFT", "VK_ESCAPE"}
AliasPresses == {"VK_OEM_AUTO", "VK_NONCONVERT"}
=============================================================================
