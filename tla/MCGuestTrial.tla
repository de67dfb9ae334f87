---------------------------- MODULE MCGuestTrial ----------------------------
(* Instances of GuestTrial for TLC. *)
EXTENDS GuestTrial, TLC

Symmetry == Permutations(Jobs) \cup Permutations(Calls)
            \cup Permutations(Users) \cup Permutations(Guests)
=============================================================================
