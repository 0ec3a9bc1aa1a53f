----------------------------- MODULE MCCodexTurn -----------------------------
(* The instance that TLC checks: the values are in the configuration. *)
EXTENDS CodexTurn
=============================================================================
