----------------------------- MODULE MCChatLoop -----------------------------
(***************************************************************************)
(* Small instances of ChatLoop: a checkpoint after two rounds, a ceiling   *)
(* of two rounds, one nudge.                                               *)
(***************************************************************************)
EXTENDS ChatLoop
=============================================================================
