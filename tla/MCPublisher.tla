----------------------------- MODULE MCPublisher -----------------------------
(* Two servers, possibly of different configurations, and one administrator.  *)
EXTENDS Publisher, TLC

\* Servers, builds and configurations are interchangeable.
Symmetry == Permutations(Keys) \cup Permutations(Targets) \cup Permutations(Workers)
============================================================================
