-------------------------------- MODULE MCTc --------------------------------
(* Tc for the model checker. *)
EXTENDS Tc, TLC

\* No definition tells the programs apart.
ProgramSymmetry == Permutations(Programs)

\* Bound: while a search by name runs, one program is loaded and no TCX link exists, so
\* that the search meets one program's operations and those of other processes.
SearchBound ==
  finder.step \in {"dump", "delete"} =>
    /\ Cardinality({p \in Programs : loaded[p]}) <= 1
    /\ \A n \in 1 .. MaxTcx : tcx[n] = Nobody
=============================================================================
