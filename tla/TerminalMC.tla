----------------------------- MODULE TerminalMC -----------------------------
(* One keyboard for each thing that can go wrong between a packet and a line. *)
EXTENDS CommandLine

Keyboard(keys, max, prompts) == [keys |-> keys, max |-> max, prompts |-> prompts]

SomeKeyboards == {
  Keyboard({"x", "nl", "nul", "iac", "will", "sb", "se"}, 5, 0),
  Keyboard({"x", "nl", "esc", "[", "A", "B"}, 6, 0),
  Keyboard({"x", "y", "nl", "bs", "^C", "^U", "^D"}, 5, 0),
  Keyboard({"x", "nl", "nul", "bs", "esc"}, 6, 1),
  Keyboard({"x", "'", "\"", "\\", " ", "|", ";", "&"}, 5, 0),
  Keyboard({"x", ">", "<", ";", "&"}, 6, 0) }
=============================================================================
