------------------------------ MODULE MCAssets ------------------------------
(* Three requests on two assets, beside servers of an older version and a   *)
(* changed public base.                                                     *)
EXTENDS Assets, TLC

\* Everything is interchangeable but the bases, for OldBase.
Symmetry == Permutations(AssetIds) \cup Permutations(Requests)
============================================================================
