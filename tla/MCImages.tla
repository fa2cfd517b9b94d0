------------------------------ MODULE MCImages ------------------------------
(* Model checking the signature images: symmetry of the identities. *)
EXTENDS ImageProperties, TLC

\* Calls are told apart by nothing but their pc and ctx, and no property of
\* the run names one.
CallSymmetry == Permutations(Call)
=============================================================================
