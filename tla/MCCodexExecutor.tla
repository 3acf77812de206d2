--------------------------- MODULE MCCodexExecutor ---------------------------
(* Two mutation units: one job continued, or two jobs competing. *)
EXTENDS CodexExecutor, TLC

CONSTANTS j1, j2, u1, u2, c1, c2

TwoJobs == {j1, j2}
OneJob == {j1}
MCUnits == {u1, u2}
OneCaller == {c1}
TwoCallers == {c1, c2}
EitherAccess == Jobs \X BOOLEAN
WritersOnly == Jobs \X {TRUE}
Symmetry == Permutations(Jobs) \cup Permutations(Units) \cup Permutations(Callers)
=============================================================================
