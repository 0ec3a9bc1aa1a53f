----------------------- MODULE MCDeliveryReconciler -----------------------
(* Instances of DeliveryReconciler.                                        *)
EXTENDS DeliveryReconciler, TLC

CONSTANTS g1, g2, g3, c1, c2

\* The first scan of an empty state, or one after a quiet, completed scan.
NoPast == << >>
QuietPast == <<[guid |-> g1, at |-> 1, ok |-> TRUE]>>

\* The past names g1: the other GUIDs are alike.
SymPast == Permutations({g2, g3}) \union Permutations({c1, c2})
=============================================================================
