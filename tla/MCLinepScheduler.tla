-------------------------- MODULE MCLinepScheduler --------------------------
(***************************************************************************)
(* Small instances of LinepScheduler for TLC.  One unit of time is 5 s: a  *)
(* heartbeat is good for one unit, the cooldown ramp is 1, 6, 24 units.    *)
(***************************************************************************)
EXTENDS LinepSchedulerInv

CONSTANTS c1, c2, s1, s2, s3, instruct

MCCooldown == <<1, 6, 24>>
\* s1 and s3 are two slots of one worker.
MCWorkerOf == [s \in Slot |-> IF s = s2 THEN "w2" ELSE "w1"]

Frame(ready, busy, load) ==
  [alive |-> TRUE, ready |-> ready, busy |-> busy, degraded |-> FALSE,
   error |-> FALSE, thermal |-> FALSE, loading |-> FALSE, load |-> load,
   queue |-> 0]

Healthy == {Frame(TRUE, FALSE, 0)}
=============================================================================
