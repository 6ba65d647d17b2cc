---------------------------- MODULE MCPinnedMaps ----------------------------
(* PinnedMaps for the model checker. *)
EXTENDS PinnedMaps, TLC

\* Loaders differ only in what they write; no definition tells them apart.
LoaderSymmetry == Permutations(Loaders)
=============================================================================
