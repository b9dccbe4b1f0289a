---------------------------- MODULE RequestLife ----------------------------
(***************************************************************************)
(* What a queued inference request goes through, seen from outside:        *)
(* it is queued, taken by one worker, and answered once; or the worker     *)
(* goes away with it and it is lost for good.  A request that was taken is *)
(* never taken a second time.                                              *)
(***************************************************************************)
CONSTANT Request
VARIABLE stage     \* where each request is

Stages == {"none", "queued", "working", "answered", "lost"}

Init == stage = [r \in Request |-> "none"]

Moves(r, from, to) ==
  /\ stage[r] = from
  /\ stage' = [stage EXCEPT ![r] = to]

Enqueue(r) == Moves(r, "none", "queued")
Take(r) == Moves(r, "queued", "working")
Answer(r) == Moves(r, "working", "answered")
Lose(r) == Moves(r, "working", "lost")

Next == \E r \in Request : Enqueue(r) \/ Take(r) \/ Answer(r) \/ Lose(r)
Spec == Init /\ [][Next]_stage
=============================================================================
