---------------------------- MODULE MCPublishing ----------------------------
(* One HTTP request beside the reconciler, on two versions.                 *)
EXTENDS Publishing, TLC

\* The identifiers are interchangeable; the reconciler is one of a kind.
Symmetry == Permutations(VersionIds) \cup Permutations(Contents)
            \cup Permutations(Keys) \cup Permutations(Requests)
============================================================================
