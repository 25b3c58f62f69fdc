-------------------------- MODULE MC_ClaimProtocol --------------------------
(* Model values and symmetry for checking ClaimProtocol. Drivers are       *)
(* interchangeable; the liveness runs do not use symmetry.                 *)
EXTENDS ClaimProtocol, TLC

WorkerSymmetry == Permutations(Worker)
=============================================================================
