------------------------------ MODULE MCSettled ------------------------------
(* Model checking overlapping calls against settled facts. *)
EXTENDS Settled, TLC

\* Calls are told apart by nothing but their pc and ctx, and no property of
\* the run names one.
CallSymmetry == Permutations(Call)
=============================================================================
