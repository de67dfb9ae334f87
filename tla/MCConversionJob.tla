-------------------------- MODULE MCConversionJob --------------------------
(* Instances of ConversionJob for TLC. *)
EXTENDS ConversionJob, TLC

\* Workers and request slots are interchangeable (safety runs only).
Symmetry == Permutations(Workers) \cup Permutations(Calls)
=============================================================================
