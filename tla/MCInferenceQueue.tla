-------------------------- MODULE MCInferenceQueue --------------------------
(* Instances of the inference queue for TLC. *)
EXTENDS InferenceQueueInv, TLC

CONSTANTS c1, c2, w1, w2

\* With a fallback, with a gateway that may not be used as one, and, for the
\* calls that never touch Redis, without a queue.
AllInvokers ==
  {[queue |-> TRUE, direct |-> TRUE, fallback |-> TRUE],
   [queue |-> TRUE, direct |-> TRUE, fallback |-> FALSE],
   [queue |-> FALSE, direct |-> TRUE, fallback |-> FALSE],
   [queue |-> FALSE, direct |-> FALSE, fallback |-> TRUE]}
=============================================================================
