-------------------------- MODULE MCDispatchClaim --------------------------
EXTENDS DispatchClaim, TLC

\* Requests are interchangeable.
Sym == Permutations(Request)
=============================================================================
