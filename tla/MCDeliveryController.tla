----------------------- MODULE MCDeliveryController -----------------------
\* Small instances of DeliveryController: few events, limits that are reached,
\* three trees (the base, a candidate and another one) and an issue of
\* three facts.
EXTENDS DeliveryController, TLC

CONSTANTS d1, d2

TwoDispatches == {d1, d2}
OneComment == {2}
Sym == Permutations({d1, d2})
=============================================================================
