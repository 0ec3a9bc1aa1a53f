--------------------------- MODULE MCCodexRelease ---------------------------
(* The instance that TLC checks: two required checks stand for the six.      *)
EXTENDS CodexRelease
=============================================================================
