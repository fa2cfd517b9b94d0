------------------------------ MODULE MCService ------------------------------
(* Model checking the service: symmetry of the identities. *)
EXTENDS ServiceProperties, TLC

\* Calls are told apart by nothing but their pc and ctx, and no property of a
\* run that uses the symmetry names one.
CallSymmetry == Permutations(Call)

\* The same of users, where the sets of users among the constants are all of
\* User or empty.
FullSymmetry == Permutations(Call) \cup Permutations(User)
=============================================================================
