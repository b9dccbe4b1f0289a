--------------------------- MODULE MCMemoryDreaming ---------------------------
(* Instances of MemoryDreaming for TLC. *)
EXTENDS MemoryDreamingInv, TLC

MCSymmetry == Permutations(Calls) \cup Permutations(Staging) \cup Permutations(Proposals)
              \cup Permutations(Jobs)
=============================================================================
