-------------------------- MODULE MCRouterDispatch --------------------------
(* Instances of RouterDispatch for TLC. *)
EXTENDS RouterDispatch, TLC

\* Requests and accounts are interchangeable.
Symmetry == Permutations(Requests) \cup Permutations(Accounts)
=============================================================================
