------------------------------ MODULE MCProbes ------------------------------
(* Probes for the model checker. *)
EXTENDS Probes, TLC

\* No definition tells the threads apart.
ThreadSymmetry == Permutations(Threads)
=============================================================================
