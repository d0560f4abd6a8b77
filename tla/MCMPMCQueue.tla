----------------------------- MODULE MCMPMCQueue -----------------------------
(* Instances of MPMCQueue for TLC. *)
EXTENDS MPMCQueue, TLC

\* Threads of one role and the values are interchangeable.
Symmetry == Permutations(Producer) \cup Permutations(Consumer)
              \cup Permutations(Value)
=============================================================================
