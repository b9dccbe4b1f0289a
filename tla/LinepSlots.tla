----------------------------- MODULE LinepSlots -----------------------------
(***************************************************************************)
(* The slot table of the LiNeP scheduler and the functions that read it:   *)
(* slot_registry.hpp (what one slot remembers, how a heartbeat and an      *)
(* expiry change it) and score_engine.cpp (which slots may be chosen and   *)
(* which are chosen).  A slot is identified by (worker_id, slot_id); the   *)
(* model takes the pairs as a set Slot and the worker of each as WorkerOf. *)
(*                                                                         *)
(* Time is counted in units of HeartbeatTimeout's unit; instant 0 is the   *)
(* default time_point{} of the code, "never".  The fields avg_latency_ms   *)
(* and error_count, which nothing in the program ever writes, and          *)
(* success_count and seq, which nothing ever reads, are left out.          *)
(***************************************************************************)
EXTENDS Integers, FiniteSets, SequencesExt

CONSTANTS
  Slot,              \* the (worker_id, slot_id) pairs that can appear
  WorkerOf,          \* the worker_id of each slot
  TaskType,          \* linep::TaskType
  InstructType,      \* TASK_INSTRUCT, the type of a slot nobody registered
  HeartbeatTimeout,  \* HEARTBEAT_TIMEOUT, 5 s
  Cooldown           \* the three steps of the cooldown ramp: 5 s, 30 s, 120 s

ASSUME SlotAssumption ==
  /\ IsFiniteSet(Slot)
  /\ InstructType \in TaskType
  /\ HeartbeatTimeout \in Nat
  /\ Cooldown \in [1..3 -> Nat]
  /\ Cooldown[1] <= Cooldown[2] /\ Cooldown[2] <= Cooldown[3]

NEVER == 0          \* std::chrono::steady_clock::time_point{}
LOAD_OFFLINE == 250
MAX_LOAD == 90
MAX_QUEUE == 8

\* What one heartbeat frame says of a slot: the flag byte, load and queue depth.
HeartbeatFrame ==
  [alive : BOOLEAN, ready : BOOLEAN, busy : BOOLEAN, degraded : BOOLEAN,
   error : BOOLEAN, thermal : BOOLEAN, loading : BOOLEAN,
   load : 0..255, queue : 0..255]

SlotState ==
  [type : TaskType, endpoint : BOOLEAN,
   alive : BOOLEAN, ready : BOOLEAN, busy : BOOLEAN, degraded : BOOLEAN,
   error : BOOLEAN, thermal : BOOLEAN, loading : BOOLEAN,
   load : 0..255, queue : 0..255, timeouts : Nat,
   lastHeartbeat : Nat, lastUsed : Nat, cooldownUntil : Nat]

\* A default-constructed SlotState.  slots_[key] creates one on first use;
\* until a heartbeat arrives it is never eligible, so an absent key and a
\* default entry cannot be told apart.
FreshSlot ==
  [type |-> InstructType, endpoint |-> FALSE,
   alive |-> FALSE, ready |-> FALSE, busy |-> FALSE, degraded |-> FALSE,
   error |-> FALSE, thermal |-> FALSE, loading |-> FALSE,
   load |-> 0, queue |-> 0, timeouts |-> 0,
   lastHeartbeat |-> NEVER, lastUsed |-> NEVER, cooldownUntil |-> NEVER]

-----------------------------------------------------------------------------
(* slot_registry.hpp *)

\* Mutated form of HeartbeatApplied: a heartbeat also lifts the cooldown.
HeartbeatApplied_EndsCooldown(slot, hb, now) ==
  [slot EXCEPT !.alive = hb.alive, !.ready = hb.ready, !.busy = hb.busy,
               !.degraded = hb.degraded, !.error = hb.error,
               !.thermal = hb.thermal, !.loading = hb.loading,
               !.load = hb.load, !.queue = hb.queue, !.lastHeartbeat = now,
               !.cooldownUntil = now]

\* Every status field is overwritten; the frame's sequence number is not looked
\* at, so a late or duplicated frame counts as much as a new one.
HeartbeatApplied(slot, hb, now) ==
  [slot EXCEPT !.alive = hb.alive, !.ready = hb.ready, !.busy = hb.busy,
               !.degraded = hb.degraded, !.error = hb.error,
               !.thermal = hb.thermal, !.loading = hb.loading,
               !.load = hb.load, !.queue = hb.queue, !.lastHeartbeat = now]

SlotExpired(slot) ==
  [slot EXCEPT !.alive = FALSE, !.ready = FALSE, !.busy = FALSE,
               !.load = LOAD_OFFLINE]

IsStale(slot, now) ==
  slot.lastHeartbeat # NEVER /\ now > slot.lastHeartbeat + HeartbeatTimeout

-----------------------------------------------------------------------------
(* score_engine.cpp *)

IsEligible(slot, now) ==
  /\ slot.alive /\ slot.ready
  /\ ~slot.error /\ ~slot.loading /\ ~slot.thermal
  /\ slot.load < MAX_LOAD
  /\ slot.queue < MAX_QUEUE
  /\ slot.lastHeartbeat # NEVER
  /\ ~IsStale(slot, now)
  /\ now >= slot.cooldownUntil

Penalty(flag, points) == IF flag THEN points ELSE 0

ScoreSlot(slot) ==
  slot.load + 10 * slot.queue
    + Penalty(slot.busy, 20) + Penalty(slot.degraded, 50)
    + Penalty(slot.thermal, 100) + 15 * slot.timeouts

IsBetterTie(a, b) ==
  \/ a.queue < b.queue
  \/ a.queue = b.queue /\ a.lastUsed < b.lastUsed

\* The comparator std::sort is given.
SortsBefore(a, b) ==
  \/ ScoreSlot(a) < ScoreSlot(b)
  \/ ScoreSlot(a) = ScoreSlot(b) /\ IsBetterTie(a, b)

CooldownFor(failures) ==
  Cooldown[IF failures <= 1 THEN 1 ELSE IF failures = 2 THEN 2 ELSE 3]

Candidates(slots, type, now) ==
  {s \in Slot : slots[s].type = type /\ IsEligible(slots[s], now)}

\* The orders std::sort may leave the candidates in: it is not stable, so equal
\* candidates come in any order.
SortedOrders(slots, C) ==
  {o \in SetToSeqs(C) :
     \A i, j \in DOMAIN o : i < j => ~SortsBefore(slots[o[j]], slots[o[i]])}

\* The places of an order that carry a worker not met before.
NewWorkerAt(order) ==
  {i \in DOMAIN order :
     \A j \in 1..(i - 1) : WorkerOf[order[j]] # WorkerOf[order[i]]}

\* Mutated form of FirstPicks: the count is compared after the pick.
FirstPicks_OneMore(order, k) ==
  {order[i] : i \in {n \in NewWorkerAt(order) :
                       Cardinality({m \in NewWorkerAt(order) : m < n}) <= k}}

\* The walk along one order: skip a worker already used, stop after k picks.
FirstPicks(order, k) ==
  {order[i] : i \in {n \in NewWorkerAt(order) :
                       Cardinality({m \in NewWorkerAt(order) : m < n}) < k}}

\* Every set of slots select_best_slots can return.
SelectBestSlots(slots, type, now, k) ==
  {FirstPicks(o, k) : o \in SortedOrders(slots, Candidates(slots, type, now))}
=============================================================================
