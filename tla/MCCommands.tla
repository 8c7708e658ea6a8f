----------------------------- MODULE MCCommands -----------------------------
(* All wrappers, all answers of the catalogue; only their lists are bounded. *)
EXTENDS Commands
=============================================================================
