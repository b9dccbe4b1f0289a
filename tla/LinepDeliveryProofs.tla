------------------------- MODULE LinepDeliveryProofs -------------------------
(***************************************************************************)
(* More proofs about LinepScheduler, on top of IInv: a cooldown is never   *)
(* cut short and always honoured, the scheduler implements TaskDelivery,   *)
(* and it forgets a task only by erasing a retry at the end of a pass.     *)
(***************************************************************************)
EXTENDS LinepSchedulerProofs

-----------------------------------------------------------------------------
(* Cooldowns *)

\* The ramp never goes down.
LEMMA CooldownGrows ==
  ASSUME NEW n \in Nat
  PROVE  /\ CooldownFor(n) \in Nat /\ CooldownFor(n + 1) \in Nat
         /\ CooldownFor(n) <= CooldownFor(n + 1)
<1>1. /\ Cooldown[1] \in Nat /\ Cooldown[2] \in Nat /\ Cooldown[3] \in Nat
      /\ Cooldown[1] <= Cooldown[2] /\ Cooldown[2] <= Cooldown[3]
  BY SlotAssumption
<1>2. CASE n <= 1
  <2>1. CooldownFor(n) = Cooldown[1]
    BY <1>2 DEF CooldownFor
  <2>2. CooldownFor(n + 1) = Cooldown[1] \/ CooldownFor(n + 1) = Cooldown[2]
    BY <1>2 DEF CooldownFor
  <2>3. QED
    BY <1>1, <2>1, <2>2
<1>3. CASE n > 1
  <2>1. CooldownFor(n + 1) = Cooldown[3]
    BY <1>3 DEF CooldownFor
  <2>2. CooldownFor(n) = Cooldown[2] \/ CooldownFor(n) = Cooldown[3]
    BY <1>3 DEF CooldownFor
  <2>3. QED
    BY <1>1, <2>1, <2>2
<1>4. QED
  BY <1>2, <1>3

\* Only a slot that may be chosen is chosen.
LEMMA SelectionEligible ==
  ASSUME NEW tbl, NEW type, NEW n, NEW k,
         NEW S \in SelectBestSlots(tbl, type, n, k), NEW s \in S
  PROVE  s \in Slot /\ IsEligible(tbl[s], n)
<1>1. PICK o \in SortedOrders(tbl, Candidates(tbl, type, n)) : S = FirstPicks(o, k)
  BY DEF SelectBestSlots
<1>2. o \in [DOMAIN o -> Candidates(tbl, type, n)]
  BY <1>1 DEF SortedOrders, SetToSeqs
<1>3. QED
  BY <1>1, <1>2 DEF FirstPicks, NewWorkerAt, Candidates

\* Of the fields the cooldown is about, no step but a failure changes any.
SameRamp(x, y) == x.cooldownUntil = y.cooldownUntil /\ x.timeouts = y.timeouts

\* What the slot functions leave of the ramp.
LEMMA RampKept ==
  ASSUME NEW slot \in SlotState
  PROVE  /\ \A type : SameRamp([slot EXCEPT !.type = type, !.endpoint = TRUE], slot)
         /\ \A hb, n : SameRamp(HeartbeatApplied(slot, hb, n), slot)
         /\ SameRamp(SlotExpired(slot), slot)
         /\ \A n : SameRamp([slot EXCEPT !.busy = TRUE, !.lastUsed = n], slot)
         /\ SameRamp([slot EXCEPT !.busy = FALSE], slot)
<1>1. \A type : SameRamp([slot EXCEPT !.type = type, !.endpoint = TRUE], slot)
  BY DEF SameRamp, SlotState
<1>2. \A hb, n : SameRamp(HeartbeatApplied(slot, hb, n), slot)
  BY DEF SameRamp, SlotState, HeartbeatApplied
<1>3. SameRamp(SlotExpired(slot), slot)
  BY DEF SameRamp, SlotState, SlotExpired
<1>4. \A n : SameRamp([slot EXCEPT !.busy = TRUE, !.lastUsed = n], slot)
  BY DEF SameRamp, SlotState
<1>5. SameRamp([slot EXCEPT !.busy = FALSE], slot)
  BY DEF SameRamp, SlotState
<1>6. QED
  BY <1>1, <1>2, <1>3, <1>4, <1>5

\* A failure begins the cooldown of one failure more.
LEMMA RampAfterFailure ==
  ASSUME NEW slot \in SlotState, clock \in Nat
  PROVE  /\ SlotFailed(slot).timeouts = slot.timeouts + 1
         /\ SlotFailed(slot).cooldownUntil = clock + CooldownFor(slot.timeouts + 1)
BY DEF SlotFailed, SlotState

\* One step either leaves the ramp of every slot alone, or is the failure of one.
LEMMA RampStep ==
  ASSUME TypeOK, [Next]_vars
  PROVE  \A s \in Slot :
           \/ SameRamp(slots'[s], slots[s])
           \/ /\ slots'[s].timeouts = slots[s].timeouts + 1
              /\ slots'[s].cooldownUntil = clock + CooldownFor(slots[s].timeouts + 1)
              /\ clock' = clock
<1> USE DEF TypeOK
<1>1. \A s \in Slot : slots[s] \in SlotState
  OBVIOUS
<1>2. CASE UNCHANGED slots
  BY <1>2 DEF SameRamp
<1>3. ASSUME NEW s \in Slot, NEW type \in TaskType, RegisterSlot(s, type)
      PROVE  \A z \in Slot : SameRamp(slots'[z], slots[z])
  <2>1. slots' = [slots EXCEPT ![s] = [slots[s] EXCEPT !.type = type, !.endpoint = TRUE]]
    BY <1>3 DEF RegisterSlot
  <2>2. SameRamp([slots[s] EXCEPT !.type = type, !.endpoint = TRUE], slots[s])
    BY <1>1, RampKept
  <2>3. QED
    BY <2>1, <2>2 DEF SameRamp
<1>4. ASSUME NEW s \in Slot, NEW hb \in Heartbeats, ApplyHeartbeat(s, hb)
      PROVE  \A z \in Slot : SameRamp(slots'[z], slots[z])
  <2>1. slots' = [slots EXCEPT ![s] = HeartbeatApplied(slots[s], hb, clock)]
    BY <1>4 DEF ApplyHeartbeat
  <2>2. SameRamp(HeartbeatApplied(slots[s], hb, clock), slots[s])
    BY <1>1, RampKept
  <2>3. QED
    BY <2>1, <2>2 DEF SameRamp
<1>5. ASSUME LoopTop PROVE \A z \in Slot : SameRamp(slots'[z], slots[z])
  <2>1. \A z \in Slot : slots'[z] = slots[z] \/ slots'[z] = SlotExpired(slots[z])
    BY <1>5 DEF LoopTop
  <2>2. \A z \in Slot : SameRamp(SlotExpired(slots[z]), slots[z])
    BY <1>1, RampKept
  <2>3. QED
    BY <2>1, <2>2 DEF SameRamp
<1>6. ASSUME NEW e \in work, DispatchTask(e)
      PROVE  \A z \in Slot : SameRamp(slots'[z], slots[z])
  <2>1. \A z \in Slot : \/ slots'[z] = slots[z]
                        \/ slots'[z] = [slots[z] EXCEPT !.busy = TRUE, !.lastUsed = now]
    BY <1>6 DEF DispatchTask, RejectTask, LaunchThreads
  <2>2. \A z \in Slot : SameRamp([slots[z] EXCEPT !.busy = TRUE, !.lastUsed = now], slots[z])
    BY <1>1, RampKept
  <2>3. QED
    BY <2>1, <2>2 DEF SameRamp
<1>7. ASSUME NEW t \in Thread, NEW st \in WorkerStatus, ExchangeSucceeds(t, st)
      PROVE  \A z \in Slot : SameRamp(slots'[z], slots[z])
  <2>1. t[2] \in Slot
    BY ThreadParts
  <2>2. slots' = [slots EXCEPT ![t[2]] = [slots[t[2]] EXCEPT !.busy = FALSE]]
    BY <1>7 DEF ExchangeSucceeds
  <2>3. SameRamp([slots[t[2]] EXCEPT !.busy = FALSE], slots[t[2]])
    BY <1>1, <2>1, RampKept
  <2>4. QED
    BY <2>1, <2>2, <2>3 DEF SameRamp
<1>8. ASSUME NEW t \in Thread, ExchangeFails(t)
      PROVE  \A z \in Slot :
               \/ slots'[z] = slots[z]
               \/ /\ slots'[z].timeouts = slots[z].timeouts + 1
                  /\ slots'[z].cooldownUntil = clock + CooldownFor(slots[z].timeouts + 1)
                  /\ clock' = clock
  <2>1. t[2] \in Slot
    BY ThreadParts
  <2>2. slots' = [slots EXCEPT ![t[2]] = SlotFailed(slots[t[2]])] /\ clock' = clock
    BY <1>8 DEF ExchangeFails
  <2>3. /\ SlotFailed(slots[t[2]]).timeouts = slots[t[2]].timeouts + 1
        /\ SlotFailed(slots[t[2]]).cooldownUntil
             = clock + CooldownFor(slots[t[2]].timeouts + 1)
    BY <1>1, <2>1, RampAfterFailure
  <2>4. QED
    BY <2>1, <2>2, <2>3
<1>9. \/ UNCHANGED slots
      \/ \E s \in Slot, type \in TaskType : RegisterSlot(s, type)
      \/ \E s \in Slot, hb \in Heartbeats : ApplyHeartbeat(s, hb)
      \/ LoopTop
      \/ \E e \in work : DispatchTask(e)
      \/ \E t \in Thread : ExchangeFails(t) \/ \E st \in WorkerStatus : ExchangeSucceeds(t, st)
  BY DEF Next, Environment, OwnerStep, LoopStep, Exchange, ThreadStep, Submit, Tick, Start,
         StopRequest, StopJoin, StopDrain, Snapshot, EraseDispatched, RecordResult,
         OkCallback, LastCallback, RunCallback, Finish, Exit, slotVars, vars
<1>10. QED
  BY <1>2, <1>3, <1>4, <1>5, <1>6, <1>7, <1>8, <1>9 DEF SameRamp

\* Time goes forward, and a pass reads the clock.
LEMMA ClockStep ==
  ASSUME TypeOK, [Next]_vars
  PROVE  clock' \in Nat /\ clock' >= clock /\ (now' = now \/ now' = clock)
<1>1. clock \in Nat
  BY DEF TypeOK
<1>2. CASE Tick
  BY <1>1, <1>2 DEF Tick, loopVars
<1>3. CASE LoopTop
  BY <1>1, <1>3 DEF LoopTop
<1>4. CASE ~Tick /\ ~LoopTop
  <2>1. UNCHANGED <<clock, now>>
    BY <1>4 DEF Next, Environment, OwnerStep, LoopStep, Exchange, ThreadStep, Submit,
       RegisterSlot, ApplyHeartbeat, Start, StopRequest, StopJoin, StopDrain, Snapshot,
       DispatchTask, EraseDispatched, ExchangeFails, ExchangeSucceeds, RecordResult,
       OkCallback, LastCallback, RunCallback, Finish, Exit, slotVars, loopVars, vars
  <2>2. QED
    BY <1>1, <2>1
<1>5. QED
  BY <1>2, <1>3, <1>4

\* CooldownBounded is inductive, given the types.
LEMMA CooldownInduction ==
  /\ Init => CooldownBounded
  /\ TypeOK /\ CooldownBounded /\ [Next]_vars => CooldownBounded'
<1>1. Init => CooldownBounded
  <2> SUFFICES ASSUME Init PROVE CooldownBounded
    OBVIOUS
  <2>1. clock = 1 /\ now = 0
    BY DEF Init, NEVER
  <2>2. \A s \in Slot : slots[s].cooldownUntil = 0 /\ slots[s].timeouts = 0
    BY DEF Init, FreshSlot, NEVER
  <2>3. CooldownFor(0) \in Nat
    BY CooldownGrows
  <2>4. QED
    BY <2>1, <2>2, <2>3 DEF CooldownBounded
<1>2. ASSUME TypeOK, CooldownBounded, [Next]_vars PROVE CooldownBounded'
  <2>1. clock \in Nat /\ clock' \in Nat /\ clock' >= clock /\ now \in Nat /\ now' <= clock'
    <3>1. clock \in Nat /\ now \in Nat
      BY <1>2 DEF TypeOK
    <3>2. clock' \in Nat /\ clock' >= clock /\ (now' = now \/ now' = clock)
      BY <1>2, ClockStep
    <3>3. QED
      BY <1>2, <3>1, <3>2 DEF CooldownBounded
  <2>2. ASSUME NEW s \in Slot
        PROVE  slots'[s].cooldownUntil <= clock' + CooldownFor(slots'[s].timeouts)
    <3>1. slots[s].timeouts \in Nat /\ slots[s].cooldownUntil \in Nat
      BY <1>2 DEF TypeOK, SlotState
    <3>2. CooldownFor(slots[s].timeouts) \in Nat /\ CooldownFor(slots[s].timeouts + 1) \in Nat
      BY <3>1, CooldownGrows
    <3>3. slots[s].cooldownUntil <= clock + CooldownFor(slots[s].timeouts)
      BY <1>2 DEF CooldownBounded
    <3>4. CASE SameRamp(slots'[s], slots[s])
      BY <2>1, <3>1, <3>2, <3>3, <3>4 DEF SameRamp
    <3>5. CASE ~SameRamp(slots'[s], slots[s])
      <4>1. /\ slots'[s].timeouts = slots[s].timeouts + 1
            /\ slots'[s].cooldownUntil = clock + CooldownFor(slots[s].timeouts + 1)
            /\ clock' = clock
        BY <1>2, <3>5, RampStep
      <4>2. QED
        BY <2>1, <3>2, <4>1
    <3>6. QED
      BY <3>4, <3>5
  <2>3. QED
    BY <2>1, <2>2 DEF CooldownBounded
<1>3. QED
  BY <1>1, <1>2

\* Only a launch starts threads, and it starts them for eligible slots.
LEMMA LaunchIsEligible ==
  ASSUME TypeOK, [Next]_vars, NEW s \in Slot, Launched(s)
  PROVE  IsEligible(slots[s], now) /\ UNCHANGED clock
<1>1. PICK t \in Thread : t[2] = s /\ thread[t] = "none" /\ thread'[t] = "exchange"
  BY DEF Launched
<1>2. thread[t] # thread'[t]
  BY <1>1
<1>3. ASSUME NEW u \in Thread, NEW to, to # "exchange", thread' = [thread EXCEPT ![u] = to]
      PROVE  FALSE
  <2>1. thread'[t] = thread[t] \/ thread'[t] = to
    BY <1>3 DEF TypeOK
  <2>2. QED
    BY <1>1, <1>3, <2>1
<1>4. ~(\E u \in Thread : Exchange(u) \/ ThreadStep(u))
  BY <1>3 DEF Exchange, ThreadStep, ExchangeFails, ExchangeSucceeds, RecordResult, OkCallback,
              LastCallback, RunCallback, Finish, Exit, Move
<1>5. PICK e \in work : DispatchTask(e)
  BY <1>2, <1>4 DEF Next, Environment, OwnerStep, LoopStep, Submit, RegisterSlot,
     ApplyHeartbeat, Tick, Start, StopRequest, StopJoin, StopDrain, LoopTop, Snapshot,
     EraseDispatched, taskVars, vars
<1>6. PICK selected \in SelectBestSlots(slots, request[e.corr].type, now, Fanout) :
        LaunchThreads(e, selected)
  BY <1>2, <1>5 DEF DispatchTask, RejectTask
<1>7. t \in {<<e.corr, e.attempts + 1>>} \X selected
  BY <1>1, <1>6 DEF LaunchThreads
<1>8. s \in selected
  BY <1>1, <1>7
<1>9. IsEligible(slots[s], now)
  BY <1>6, <1>8, SelectionEligible
<1>10. QED
  BY <1>5, <1>9 DEF DispatchTask

\* However failures, heartbeats, expiries and passes interleave, nothing cuts a
\* cooldown short, and a slot is handed work only after its cooldown: the pass's
\* stale reading of the clock can only be too careful.
THEOREM CooldownsHonoured == Spec => CooldownHonoured
<1>1. Spec => []CooldownBounded
  <2>1. Init => CooldownBounded
    BY CooldownInduction
  <2>2. TypeOK /\ CooldownBounded /\ [Next]_vars => CooldownBounded'
    BY CooldownInduction
  <2>3. QED
    BY <2>1, <2>2, TypeCorrect, PTL DEF Spec
<1>2. TypeOK /\ CooldownBounded /\ [Next]_vars =>
        [\A s \in Slot : /\ slots'[s].cooldownUntil >= slots[s].cooldownUntil
                         /\ Launched(s) => clock >= slots[s].cooldownUntil]_vars
  <2> SUFFICES ASSUME TypeOK, CooldownBounded, [Next]_vars, NEW s \in Slot
               PROVE  /\ slots'[s].cooldownUntil >= slots[s].cooldownUntil
                      /\ Launched(s) => clock >= slots[s].cooldownUntil
    OBVIOUS
  <2>1. /\ slots[s].timeouts \in Nat /\ slots[s].cooldownUntil \in Nat
        /\ clock \in Nat /\ now \in Nat /\ now <= clock
        /\ slots[s].cooldownUntil <= clock + CooldownFor(slots[s].timeouts)
    BY DEF TypeOK, SlotState, CooldownBounded
  <2>2. slots'[s].cooldownUntil >= slots[s].cooldownUntil
    <3>1. CASE SameRamp(slots'[s], slots[s])
      BY <2>1, <3>1 DEF SameRamp
    <3>2. CASE ~SameRamp(slots'[s], slots[s])
      <4>1. slots'[s].cooldownUntil = clock + CooldownFor(slots[s].timeouts + 1)
        BY <3>2, RampStep
      <4>2. /\ CooldownFor(slots[s].timeouts) \in Nat
            /\ CooldownFor(slots[s].timeouts + 1) \in Nat
            /\ CooldownFor(slots[s].timeouts) <= CooldownFor(slots[s].timeouts + 1)
        BY <2>1, CooldownGrows
      <4>3. QED
        BY <2>1, <4>1, <4>2
    <3>3. QED
      BY <3>1, <3>2
  <2>3. Launched(s) => clock >= slots[s].cooldownUntil
    BY <2>1, LaunchIsEligible DEF IsEligible
  <2>4. QED
    BY <2>2, <2>3
<1>3. QED
  BY <1>1, <1>2, TypeCorrect, PTL DEF Spec, CooldownHonoured

-----------------------------------------------------------------------------
(* Delivery: the invariant, task by task *)

\* DeliveryInv for one task.
TaskDelivers(c) ==
  /\ c \notin submitted => replies[c] = {}
  /\ \A e \in pending : e.corr = c /\ c \notin dispatched => replies[c] = {}
  /\ \A t \in Threads(c) :
       /\ thread[t] \in Unfinished =>
            /\ replies[c] = ToSet(share[t[1]].results) \cup Held(c)
            /\ answers[c] \in {<<>>, <<OK>>}
       /\ thread[t] = "callback" => got[t] = OK /\ OK \in replies[c]
       /\ thread[t] = "report" => /\ Delivery!Reportable(c, got[t])
                                  /\ \A u \in Threads(c) : thread[u] \notin Unfinished

\* The invariant is that of every task.
LEMMA DeliveryByTask ==
  ASSUME TypeOK
  PROVE  DeliveryInv <=> \A c \in Corr : TaskDelivers(c)
<1>1. \A e \in pending : e.corr \in Corr
  BY DEF TypeOK, Entry
<1>2. \A t \in Thread : t[1][1] \in Corr /\ t \in Threads(t[1][1])
  BY ThreadParts DEF Threads
<1>3. \A c \in Corr : \A t \in Threads(c) : t \in Thread /\ t[1][1] = c
  BY DEF Threads
<1>4. QueueUnanswered <=> \A c \in Corr :
        /\ c \notin submitted => replies[c] = {}
        /\ \A e \in pending : e.corr = c /\ c \notin dispatched => replies[c] = {}
  BY <1>1 DEF QueueUnanswered
<1>5. RepliesRecorded <=> \A c \in Corr : \A t \in Threads(c) :
        thread[t] \in Unfinished =>
          /\ replies[c] = ToSet(share[t[1]].results) \cup Held(c)
          /\ answers[c] \in {<<>>, <<OK>>}
  BY <1>2, <1>3 DEF RepliesRecorded
<1>6. ClaimReportable <=> \A c \in Corr : \A t \in Threads(c) :
        /\ thread[t] = "callback" => got[t] = OK /\ OK \in replies[c]
        /\ thread[t] = "report" => /\ Delivery!Reportable(c, got[t])
                                   /\ \A u \in Threads(c) : thread[u] \notin Unfinished
  BY <1>2, <1>3 DEF ClaimReportable
<1>7. QED
  BY <1>4, <1>5, <1>6 DEF DeliveryInv, TaskDelivers

\* A step that has nothing to do with a task.
Elsewhere(c) ==
  /\ answers'[c] = answers[c] /\ replies'[c] = replies[c]
  /\ c \in submitted => c \in submitted'
  /\ \A e \in pending' : e.corr = c /\ c \notin dispatched' =>
       e \in pending /\ c \notin dispatched
  /\ \A t \in Threads(c) : /\ thread'[t] = thread[t] /\ got'[t] = got[t]
                           /\ share'[t[1]].results = share[t[1]].results

\* What threads hold does not change unless a recording thread does.
LEMMA HeldKept ==
  ASSUME NEW c \in Corr,
         \A u \in Threads(c) : thread'[u] = "record" <=> thread[u] = "record",
         \A u \in Threads(c) : thread[u] = "record" => got'[u] = got[u]
  PROVE  Held(c)' = Held(c)
BY DEF Held, Threads

\* Such a step keeps what the invariant says of the task.
LEMMA ElsewhereKeeps ==
  ASSUME NEW c \in Corr, TaskDelivers(c), Elsewhere(c)
  PROVE  TaskDelivers(c)'
<1>1. Held(c)' = Held(c)
  BY HeldKept DEF Elsewhere
<1>2. /\ c \notin submitted' => replies'[c] = {}
      /\ \A e \in pending' : e.corr = c /\ c \notin dispatched' => replies'[c] = {}
  BY DEF TaskDelivers, Elsewhere
<1>3. Threads(c)' = Threads(c)
  BY DEF Threads
<1>4. ASSUME NEW t \in Threads(c)
      PROVE  /\ thread'[t] \in Unfinished =>
                  /\ replies'[c] = ToSet(share'[t[1]].results) \cup Held(c)'
                  /\ answers'[c] \in {<<>>, <<OK>>}
             /\ thread'[t] = "callback" => got'[t] = OK /\ OK \in replies'[c]
  BY <1>1 DEF TaskDelivers, Elsewhere
<1>5. ASSUME NEW t \in Threads(c), thread'[t] = "report"
      PROVE  /\ Delivery!Reportable(c, got[t])'
             /\ \A u \in Threads(c) : thread'[u] \notin Unfinished
  <2>1. Delivery!Reportable(c, got[t])
    BY <1>5 DEF TaskDelivers, Elsewhere
  <2>2. Delivery!Reportable(c, got[t])'
    BY <1>5, <2>1 DEF Delivery!Reportable, Elsewhere
  <2>3. QED
    BY <1>5, <2>2 DEF TaskDelivers, Elsewhere
<1>6. QED
  BY <1>2, <1>3, <1>4, <1>5 DEF TaskDelivers

-----------------------------------------------------------------------------
(* Delivery: the steps *)

\* Every step that touches neither queue nor threads is elsewhere for every task.
LEMMA QuietStepElsewhere ==
  ASSUME NEW c \in Corr,
         \/ \E s \in Slot, type \in TaskType : RegisterSlot(s, type)
         \/ \E s \in Slot, hb \in Heartbeats : ApplyHeartbeat(s, hb)
         \/ Tick \/ OwnerStep \/ LoopTop \/ Snapshot \/ UNCHANGED vars
  PROVE  Elsewhere(c)
<1>1. UNCHANGED <<submitted, pending, dispatched, share, thread, got, answers, replies>>
  BY DEF RegisterSlot, ApplyHeartbeat, Tick, OwnerStep, Start, StopRequest, StopJoin,
         StopDrain, LoopTop, Snapshot, queueVars, loopVars, taskVars, vars
<1>2. QED
  BY <1>1 DEF Elsewhere

\* At the end of a pass the entries left are those that were not looked at.
LEMMA EraseElsewhere ==
  ASSUME NEW c \in Corr, EraseDispatched
  PROVE  Elsewhere(c)
BY DEF EraseDispatched, KeptEntries, taskVars, Elsewhere

\* submit() of a task no worker has heard of.
LEMMA SubmitDelivers ==
  ASSUME IInv, NEW c \in Corr, NEW d \in Corr, Submit(d), TaskDelivers(c)
  PROVE  TaskDelivers(c)'
<1>1. /\ d \notin submitted /\ submitted' = submitted \cup {d}
      /\ pending' = pending \cup {[corr |-> d, attempts |-> 0]}
      /\ UNCHANGED <<dispatched, share, thread, got, answers, replies>>
  BY DEF Submit, loopVars, taskVars
<1>2. CASE c # d
  BY <1>1, <1>2, ElsewhereKeeps DEF Elsewhere
<1>3. CASE c = d
  <2>1. replies[c] = {} /\ \A t \in Threads(c) : thread[t] = "none"
    BY <1>1, <1>3 DEF IInv, NothingBeforeSubmit, TaskDelivers
  <2>2. Threads(c)' = Threads(c)
    BY DEF Threads
  <2>3. QED
    BY <1>1, <2>1, <2>2 DEF TaskDelivers, Unfinished, InAttempt
<1>4. QED
  BY <1>2, <1>3

\* The loop takes a task no worker has answered: it is rejected, or it begins an
\* attempt with an empty list of results.
LEMMA DispatchDelivers ==
  ASSUME IInv, NEW c \in Corr, NEW e \in work, DispatchTask(e), TaskDelivers(c)
  PROVE  TaskDelivers(c)'
<1> DEFINE a == <<e.corr, e.attempts + 1>>
<1>1. /\ e \in pending /\ e.corr \notin dispatched /\ Quiet(e.corr) /\ a \in Attempt
      /\ dispatched' = dispatched \cup {e.corr}
      /\ UNCHANGED <<submitted, pending, got, replies>>
  BY EntryInHand, DispatchFrame
<1>2. PICK selected \in SelectBestSlots(slots, request[e.corr].type, now, Fanout) :
        RejectTask(e) \/ LaunchThreads(e, selected)
  BY DEF DispatchTask
<1>3. selected \subseteq Slot
  BY <1>2, SelectionOfSlots
<1>4. /\ \A t \in Thread :
           \/ thread'[t] = thread[t]
           \/ /\ t[1] = a /\ thread'[t] = "exchange"
              /\ share'[a].results = <<>> /\ answers' = answers
      /\ \A b \in Attempt : b # a => share'[b] = share[b]
      /\ \A d \in Corr : d # e.corr => answers'[d] = answers[d]
  <2>1. CASE RejectTask(e)
    BY <2>1 DEF RejectTask, IInv, TypeOK
  <2>2. CASE LaunchThreads(e, selected)
    <3>1. /\ \A t \in Thread :
               \/ thread'[t] = thread[t]
               \/ t[1] = a /\ thread'[t] = "exchange"
          /\ answers' = answers
      BY <2>2 DEF LaunchThreads
    <3>2. /\ share'[a].results = <<>>
          /\ \A b \in Attempt : b # a => share'[b] = share[b]
      BY <1>1, <2>2 DEF LaunchThreads, IInv, TypeOK
    <3>3. QED
      BY <3>1, <3>2
  <2>3. QED
    BY <1>2, <2>1, <2>2
<1>5. \A t \in Threads(c) : t \in Thread /\ t[1] \in Attempt /\ t[1][1] = c
  BY ThreadParts DEF Threads
<1>6. CASE c # e.corr
  <2>1. \A t \in Threads(c) : t[1] # a
    BY <1>5, <1>6
  <2>2. Elsewhere(c)
    BY <1>1, <1>4, <1>5, <1>6, <2>1 DEF Elsewhere
  <2>3. QED
    BY <2>2, ElsewhereKeeps
<1>7. CASE c = e.corr
  <2>1. answers[c] = <<>> /\ \A t \in Threads(c) : thread[t] \notin Unfinished \cup Claiming
    BY <1>1, <1>7 DEF Quiet
  <2>2. replies[c] = {} /\ c \in submitted
    BY <1>1, <1>7 DEF TaskDelivers, IInv, QueueOwns
  <2>3. \A t \in Threads(c) : thread'[t] \in Unfinished =>
          t[1] = a /\ thread'[t] = "exchange" /\ share'[a].results = <<>> /\ answers'[c] = <<>>
    BY <1>4, <1>5, <2>1
  <2>4. \A t \in Threads(c) : thread'[t] \notin Claiming
    BY <1>4, <1>5, <2>1 DEF Claiming
  <2>5. Held(c)' = {}
    <3>1. \A t \in Threads(c)' : thread'[t] # "record"
      BY <2>3 DEF Threads, Unfinished, InAttempt
    <3>2. QED
      BY <3>1 DEF Held
  <2>6. Threads(c)' = Threads(c)
    BY DEF Threads
  <2>7. ToSet(<<>>) = {}
    BY DEF ToSet
  <2>8. ASSUME NEW t \in Threads(c), thread'[t] \in Unfinished
        PROVE  /\ replies'[c] = ToSet(share'[t[1]].results) \cup Held(c)'
               /\ answers'[c] \in {<<>>, <<OK>>}
    BY <1>1, <2>2, <2>3, <2>5, <2>7, <2>8
  <2>9. \A t \in Threads(c) : thread'[t] # "callback" /\ thread'[t] # "report"
    BY <2>4 DEF Claiming
  <2>10. QED
    BY <1>1, <2>2, <2>6, <2>8, <2>9 DEF TaskDelivers
<1>8. QED
  BY <1>6, <1>7

\* What is known of the task a dispatch thread is about to take a step for.
LEMMA ThreadAtWork ==
  ASSUME IInv, NEW t \in Thread, thread[t] \in Unfinished \cup Claiming
  PROVE  /\ t[1] \in Attempt /\ t[1][1] \in Corr /\ t \in Threads(t[1][1])
         /\ t[1][1] \in submitted
         /\ \A e \in pending : e.corr # t[1][1] \/ t[1][1] \in dispatched
         /\ thread[t] \in Unfinished => \A u \in Threads(t[1][1]) :
              thread[u] \in Unfinished => u[1] = t[1]
         /\ thread[t] \in Claiming =>
              /\ answers[t[1][1]] = <<>>
              /\ \A u \in Threads(t[1][1]) : thread[u] \in Claiming => u = t
<1>1. t[1] \in Attempt /\ t[1][1] \in Corr /\ t \in Threads(t[1][1])
  BY ThreadParts DEF Threads
<1>2. thread[t] # "none"
  BY DEF Unfinished, InAttempt, Claiming
<1>3. t[1][1] \in submitted
  BY <1>1, <1>2 DEF IInv, NothingBeforeSubmit
<1>4. \A e \in pending : e.corr # t[1][1] \/ t[1][1] \in dispatched
  BY <1>1 DEF IInv, QueueOwns, Quiet
<1>5. thread[t] \in Unfinished => \A u \in Threads(t[1][1]) :
        thread[u] \in Unfinished => u[1] = t[1]
  BY DEF IInv, AttemptOwns
<1>6. thread[t] \in Claiming =>
        /\ answers[t[1][1]] = <<>>
        /\ \A u \in Threads(t[1][1]) : thread[u] \in Claiming => u = t
  BY DEF IInv, ClaimOwns
<1>7. QED
  BY <1>1, <1>3, <1>4, <1>5, <1>6

\* A step of one thread has nothing to do with the other tasks.
LEMMA ThreadStepElsewhere ==
  ASSUME TypeOK, NEW t \in Thread, Exchange(t) \/ ThreadStep(t),
         NEW c \in Corr, c # t[1][1]
  PROVE  Elsewhere(c)
<1>1. t[1] \in Attempt /\ t[1][1] \in Corr
  BY ThreadParts
<1>2. /\ UNCHANGED <<submitted, dispatched>>
      /\ \A u \in Thread : u # t => thread'[u] = thread[u] /\ got'[u] = got[u]
      /\ \A d \in Corr : d # t[1][1] => answers'[d] = answers[d] /\ replies'[d] = replies[d]
      /\ \A e \in pending' : e.corr # t[1][1] => e \in pending
      /\ \A b \in Attempt : b # t[1] => share'[b] = share[b]
  <2> USE DEF TypeOK
  <2>1. CASE ExchangeFails(t)
    BY <2>1 DEF ExchangeFails, Move, queueVars, loopVars
  <2>2. ASSUME NEW st \in WorkerStatus, ExchangeSucceeds(t, st)
        PROVE  /\ UNCHANGED <<submitted, dispatched, pending, share, answers>>
               /\ thread' = [thread EXCEPT ![t] = "record"]
               /\ got' = [got EXCEPT ![t] = st]
               /\ replies' = [replies EXCEPT ![t[1][1]] = @ \cup {st}]
    BY <2>2 DEF ExchangeSucceeds, Move, queueVars, loopVars
  <2>3. CASE RecordResult(t)
    BY <2>3 DEF RecordResult, Move, queueVars, loopVars
  <2>4. CASE OkCallback(t) \/ LastCallback(t)
    BY <2>4 DEF OkCallback, LastCallback, RunCallback, Move, queueVars, loopVars
  <2>5. CASE Finish(t)
    BY <2>5 DEF Finish, loopVars
  <2>6. CASE Exit(t)
    BY <2>6 DEF Exit, Move, queueVars, loopVars
  <2>7. QED
    BY <2>1, <2>2, <2>3, <2>4, <2>5, <2>6 DEF Exchange, ThreadStep
<1>3. \A u \in Threads(c) : u \in Thread /\ u # t /\ u[1] # t[1] /\ u[1] \in Attempt
  BY ThreadParts DEF Threads
<1>4. QED
  BY <1>2, <1>3 DEF Elsewhere

\* What changes for a task when one of its threads takes a step before it counts
\* itself out: replies come in only together with what threads hold and have
\* recorded, and nobody reports while a thread is at work.
LEMMA WorkDelivers ==
  ASSUME IInv, NEW t \in Thread, NEW c \in Corr, c = t[1][1], TaskDelivers(c),
         thread[t] \in Unfinished,
         UNCHANGED <<submitted, pending, dispatched>>,
         \A u \in Threads(c) : u # t => thread'[u] = thread[u] /\ got'[u] = got[u],
         thread'[t] \in Unfinished,
         thread'[t] = "callback" => got'[t] = OK /\ OK \in replies'[c],
         replies[c] \subseteq replies'[c],
         replies'[c] = ToSet(share'[t[1]].results) \cup Held(c)',
         answers'[c] \in {<<>>, <<OK>>}
  PROVE  TaskDelivers(c)'
<1>1. /\ c \in submitted /\ t \in Threads(c)
      /\ \A e \in pending : e.corr # c \/ c \in dispatched
      /\ \A u \in Threads(c) : thread[u] \in Unfinished => u[1] = t[1]
  BY ThreadAtWork
<1>2. \A u \in Threads(c) : thread[u] # "report"
  BY <1>1 DEF TaskDelivers
<1>3. thread'[t] # "report"
  BY DEF Unfinished, InAttempt
<1>4. Threads(c)' = Threads(c)
  BY DEF Threads
<1>5. ASSUME NEW u \in Threads(c)
      PROVE  /\ thread'[u] \in Unfinished =>
                  /\ replies'[c] = ToSet(share'[u[1]].results) \cup Held(c)'
                  /\ answers'[c] \in {<<>>, <<OK>>}
             /\ thread'[u] = "callback" => got'[u] = OK /\ OK \in replies'[c]
             /\ thread'[u] # "report"
  <2>1. CASE u = t
    BY <1>3, <2>1
  <2>2. CASE u # t
    <3>1. thread'[u] = thread[u] /\ got'[u] = got[u]
      BY <2>2
    <3>2. thread[u] \in Unfinished => u[1] = t[1]
      BY <1>1
    <3>3. thread[u] = "callback" => got[u] = OK /\ OK \in replies[c]
      BY DEF TaskDelivers
    <3>4. QED
      BY <1>2, <3>1, <3>2, <3>3
  <2>3. QED
    BY <2>1, <2>2
<1>6. QED
  BY <1>1, <1>4, <1>5 DEF TaskDelivers

\* A worker's answer is held by the thread that got it; a failure is no answer.
LEMMA ExchangeDelivers ==
  ASSUME IInv, NEW t \in Thread, NEW c \in Corr, c = t[1][1], TaskDelivers(c), Exchange(t)
  PROVE  TaskDelivers(c)'
<1>1. thread[t] = "exchange" /\ thread[t] \in Unfinished
  BY DEF Exchange, ExchangeFails, ExchangeSucceeds, Move, Unfinished, InAttempt
<1>2. t \in Threads(c) /\ \A u \in Threads(c) : u \in Thread
  BY ThreadParts DEF Threads
<1>3. replies[c] = ToSet(share[t[1]].results) \cup Held(c) /\ answers[c] \in {<<>>, <<OK>>}
  BY <1>1, <1>2 DEF TaskDelivers
<1>4. CASE ExchangeFails(t)
  <2>1. /\ UNCHANGED <<submitted, pending, dispatched, share, got, answers, replies>>
        /\ thread' = [thread EXCEPT ![t] = "finish"]
    BY <1>4 DEF ExchangeFails, Move, queueVars, loopVars
  <2>2. thread'[t] = "finish" /\ \A u \in Threads(c) : u # t => thread'[u] = thread[u]
    BY <1>2, <2>1 DEF IInv, TypeOK
  <2>3. Held(c)' = Held(c)
    BY <1>1, <2>1, <2>2, HeldKept
  <2>4. thread'[t] \in Unfinished /\ thread'[t] # "callback"
    BY <2>2 DEF Unfinished
  <2>5. replies'[c] = ToSet(share'[t[1]].results) \cup Held(c)'
    BY <1>3, <2>1, <2>3
  <2>6. QED
    BY <1>1, <1>3, <2>1, <2>2, <2>4, <2>5, WorkDelivers
<1>5. ASSUME NEW st \in WorkerStatus, ExchangeSucceeds(t, st)
      PROVE  TaskDelivers(c)'
  <2>1. /\ UNCHANGED <<submitted, pending, dispatched, share, answers>>
        /\ thread' = [thread EXCEPT ![t] = "record"]
        /\ got' = [got EXCEPT ![t] = st]
        /\ replies' = [replies EXCEPT ![c] = replies[c] \cup {st}]
    BY <1>5 DEF ExchangeSucceeds, Move, queueVars, loopVars
  <2>2. /\ thread'[t] = "record" /\ got'[t] = st /\ replies'[c] = replies[c] \cup {st}
        /\ \A u \in Threads(c) : u # t => thread'[u] = thread[u] /\ got'[u] = got[u]
    BY <1>2, <2>1 DEF IInv, TypeOK
  <2>3. Held(c)' = Held(c) \cup {st}
    <3>1. Held(c)' = {got'[u] : u \in {v \in Threads(c) : thread'[v] = "record"}}
      BY DEF Held, Threads
    <3>2. {v \in Threads(c) : thread'[v] = "record"}
            = {v \in Threads(c) : thread[v] = "record"} \cup {t}
      BY <1>1, <1>2, <2>2
    <3>3. \A v \in Threads(c) : thread[v] = "record" => got'[v] = got[v]
      BY <1>1, <2>2
    <3>4. QED
      BY <2>2, <3>1, <3>2, <3>3 DEF Held
  <2>4. thread'[t] \in Unfinished /\ thread'[t] # "callback"
    BY <2>2 DEF Unfinished, InAttempt
  <2>5. replies'[c] = ToSet(share'[t[1]].results) \cup Held(c)'
    BY <1>3, <2>1, <2>2, <2>3
  <2>6. replies[c] \subseteq replies'[c] /\ answers'[c] \in {<<>>, <<OK>>}
    BY <1>3, <2>1, <2>2
  <2>7. QED
    BY <1>1, <2>1, <2>2, <2>4, <2>5, <2>6, WorkDelivers
<1>6. QED
  BY <1>4, <1>5 DEF Exchange

\* The elements of a sequence with one more.
LEMMA ToSetAppend ==
  ASSUME NEW S, NEW q \in Seq(S), NEW x
  PROVE  ToSet(Append(q, x)) = ToSet(q) \cup {x}
<1>1. /\ DOMAIN q = 1..Len(q) /\ Len(q) \in Nat
      /\ DOMAIN Append(q, x) = 1..(Len(q) + 1)
      /\ \A i \in 1..Len(q) : Append(q, x)[i] = q[i]
      /\ Append(q, x)[Len(q) + 1] = x
  OBVIOUS
<1>2. 1..(Len(q) + 1) = (1..Len(q)) \cup {Len(q) + 1}
  BY <1>1
<1>3. QED
  BY <1>1, <1>2 DEF ToSet

\* What a thread held joins the list of the attempt.
LEMMA RecordDelivers ==
  ASSUME IInv, NEW t \in Thread, NEW c \in Corr, c = t[1][1], TaskDelivers(c),
         RecordResult(t)
  PROVE  TaskDelivers(c)'
<1> DEFINE a == t[1]
<1>1. /\ thread[t] = "record" /\ thread[t] \in Unfinished
      /\ UNCHANGED <<submitted, pending, dispatched, got, answers, replies>>
      /\ share' = [share EXCEPT ![a].results = Append(@, got[t]),
                                ![a].done = @ \/ ClaimsCallback(t)]
  BY DEF RecordResult, Move, queueVars, loopVars, Unfinished, InAttempt
<1>2. a \in Attempt /\ t \in Threads(c) /\ \A u \in Threads(c) : u \in Thread
  BY ThreadParts DEF Threads
<1>3. replies[c] = ToSet(share[a].results) \cup Held(c) /\ answers[c] \in {<<>>, <<OK>>}
  BY <1>1, <1>2 DEF TaskDelivers
<1>4. got[t] \in Held(c)
  BY <1>1, <1>2 DEF Held
<1>5. /\ thread'[t] \in {"callback", "finish"}
      /\ thread'[t] = "callback" => got[t] = OK
      /\ \A u \in Threads(c) : u # t => thread'[u] = thread[u]
  BY <1>2 DEF RecordResult, Move, ClaimsCallback, IInv, TypeOK
<1>6. ToSet(share'[a].results) = ToSet(share[a].results) \cup {got[t]}
  <2>1. share[a].results \in Seq(WorkerStatus)
    BY <1>2 DEF IInv, TypeOK
  <2>2. share'[a].results = Append(share[a].results, got[t])
    BY <1>1, <1>2 DEF IInv, TypeOK
  <2>3. QED
    BY <2>1, <2>2, ToSetAppend
<1>7. Held(c) = Held(c)' \cup {got[t]}
  <2>1. Held(c)' = {got[u] : u \in {v \in Threads(c) : thread'[v] = "record"}}
    BY <1>1 DEF Held, Threads
  <2>2. {v \in Threads(c) : thread[v] = "record"}
          = {v \in Threads(c) : thread'[v] = "record"} \cup {t}
    BY <1>1, <1>2, <1>5
  <2>3. Held(c) = {got[u] : u \in {v \in Threads(c) : thread[v] = "record"}}
    BY DEF Held
  <2>4. \A A : {got[u] : u \in A \cup {t}} = {got[u] : u \in A} \cup {got[t]}
    OBVIOUS
  <2>5. QED
    BY <2>1, <2>2, <2>3, <2>4
<1>8. replies'[c] = ToSet(share'[a].results) \cup Held(c)'
  BY <1>1, <1>3, <1>6, <1>7
<1>9. thread'[t] \in Unfinished
  BY <1>5 DEF Unfinished, InAttempt
<1>10. thread'[t] = "callback" => got'[t] = OK /\ OK \in replies'[c]
  BY <1>1, <1>3, <1>4, <1>5
<1>11. QED
  BY <1>1, <1>3, <1>5, <1>8, <1>9, <1>10, WorkDelivers

\* The first OK is reported; the thread has still to count itself out.
LEMMA OkDelivers ==
  ASSUME IInv, NEW t \in Thread, NEW c \in Corr, c = t[1][1], TaskDelivers(c),
         OkCallback(t)
  PROVE  TaskDelivers(c)' /\ got[t] = OK /\ OK \in replies[c]
<1>1. /\ thread[t] = "callback" /\ thread[t] \in Unfinished \cap Claiming
      /\ thread' = [thread EXCEPT ![t] = "finish"]
      /\ answers' = [answers EXCEPT ![c] = Append(answers[c], got[t])]
      /\ UNCHANGED <<submitted, pending, dispatched, share, got, replies>>
  BY DEF OkCallback, RunCallback, Move, queueVars, loopVars, Unfinished, InAttempt, Claiming
<1>2. t \in Threads(c) /\ \A u \in Threads(c) : u \in Thread
  BY ThreadParts DEF Threads
<1>3. /\ replies[c] = ToSet(share[t[1]].results) \cup Held(c)
      /\ got[t] = OK /\ OK \in replies[c]
  BY <1>1, <1>2 DEF TaskDelivers
<1>4. answers'[c] = <<OK>>
  <2>1. answers[c] = <<>>
    BY <1>1, ThreadAtWork
  <2>2. answers'[c] = Append(<<>>, OK)
    BY <1>1, <1>3, <2>1 DEF IInv, TypeOK
  <2>3. QED
    BY <2>2
<1>5. thread'[t] = "finish" /\ \A u \in Threads(c) : u # t => thread'[u] = thread[u]
  BY <1>1, <1>2 DEF IInv, TypeOK
<1>6. Held(c)' = Held(c)
  BY <1>1, <1>5, HeldKept
<1>7. replies'[c] = ToSet(share'[t[1]].results) \cup Held(c)'
  BY <1>1, <1>3, <1>6
<1>8. thread'[t] \in Unfinished /\ thread'[t] # "callback"
  BY <1>5 DEF Unfinished
<1>9. TaskDelivers(c)'
  BY <1>1, <1>4, <1>5, <1>7, <1>8, WorkDelivers
<1>10. QED
  BY <1>3, <1>9

\* A thread that leaves its attempt takes nothing along: what others rely on stays.
LEMMA LeaveDelivers ==
  ASSUME TypeOK, NEW t \in Thread, NEW c \in Corr, c = t[1][1], TaskDelivers(c),
         thread[t] # "record",
         thread'[t] \notin Unfinished \cup Claiming,
         \A u \in Threads(c) : u # t => thread'[u] = thread[u] /\ got'[u] = got[u],
         \A u \in Threads(c) : share'[u[1]].results = share[u[1]].results,
         replies' = replies,
         submitted' = submitted,
         \A e \in pending' : e.corr = c /\ c \notin dispatched' => replies[c] = {},
         \/ answers'[c] = answers[c]
         \/ \A u \in Threads(c) : thread[u] \notin Unfinished
  PROVE  TaskDelivers(c)'
<1>1. t \in Threads(c) /\ Threads(c)' = Threads(c)
  BY ThreadParts DEF Threads
<1>2. thread'[t] # "record" /\ thread'[t] # "callback" /\ thread'[t] # "report"
  BY DEF Unfinished, InAttempt, Claiming
<1>3. Held(c)' = Held(c)
  <2>1. \A u \in Threads(c) : thread'[u] = "record" <=> thread[u] = "record"
    BY <1>2
  <2>2. \A u \in Threads(c) : thread[u] = "record" => got'[u] = got[u]
    OBVIOUS
  <2>3. QED
    BY <2>1, <2>2, HeldKept
<1>4. ASSUME NEW u \in Threads(c)
      PROVE  /\ thread'[u] \in Unfinished =>
                  /\ replies'[c] = ToSet(share'[u[1]].results) \cup Held(c)'
                  /\ answers'[c] \in {<<>>, <<OK>>}
             /\ thread'[u] = "callback" => got'[u] = OK /\ OK \in replies'[c]
  <2>1. CASE u = t
    BY <1>2, <2>1
  <2>2. CASE u # t
    <3>1. thread'[u] = thread[u] /\ got'[u] = got[u]
      BY <2>2
    <3>2. thread[u] \in Unfinished =>
            /\ replies[c] = ToSet(share[u[1]].results) \cup Held(c)
            /\ answers[c] \in {<<>>, <<OK>>}
      BY DEF TaskDelivers
    <3>3. thread[u] = "callback" => got[u] = OK /\ OK \in replies[c]
      BY DEF TaskDelivers
    <3>4. QED
      BY <1>3, <3>1, <3>2, <3>3
  <2>3. QED
    BY <2>1, <2>2
<1>5. ASSUME NEW u \in Threads(c), thread'[u] = "report"
      PROVE  /\ Delivery!Reportable(c, got[u])'
             /\ \A v \in Threads(c) : thread'[v] \notin Unfinished
  <2>1. u # t /\ thread[u] = "report" /\ got'[u] = got[u]
    BY <1>2, <1>5
  <2>2. /\ Delivery!Reportable(c, got[u])
        /\ \A v \in Threads(c) : thread[v] \notin Unfinished
    BY <2>1 DEF TaskDelivers
  <2>3. Delivery!Reportable(c, got[u])'
    BY <2>1, <2>2 DEF Delivery!Reportable
  <2>4. QED
    BY <2>2, <2>3
<1>6. c \notin submitted' => replies'[c] = {}
  BY DEF TaskDelivers
<1>7. QED
  BY <1>1, <1>4, <1>5, <1>6 DEF TaskDelivers

\* The last thread of an attempt reports what it chose.
LEMMA LastDelivers ==
  ASSUME IInv, NEW t \in Thread, NEW c \in Corr, c = t[1][1], TaskDelivers(c),
         LastCallback(t)
  PROVE  TaskDelivers(c)' /\ Delivery!Reportable(c, got[t])
<1>1. /\ thread[t] = "report" /\ thread[t] \in Claiming
      /\ thread' = [thread EXCEPT ![t] = "exit"]
      /\ UNCHANGED <<submitted, pending, dispatched, share, got, replies>>
  BY DEF LastCallback, RunCallback, Move, queueVars, loopVars, Claiming
<1>2. t \in Threads(c) /\ \A u \in Threads(c) : u \in Thread
  BY ThreadParts DEF Threads
<1>3. /\ Delivery!Reportable(c, got[t])
      /\ \A u \in Threads(c) : thread[u] \notin Unfinished
  BY <1>1, <1>2 DEF TaskDelivers
<1>4. \A e \in pending : e.corr = c /\ c \notin dispatched => replies[c] = {}
  BY DEF TaskDelivers
<1>5. thread'[t] = "exit" /\ \A u \in Threads(c) : u # t => thread'[u] = thread[u]
  BY <1>1, <1>2 DEF IInv, TypeOK
<1>6. thread'[t] \notin Unfinished \cup Claiming
  BY <1>5 DEF Unfinished, InAttempt, Claiming
<1>7. TaskDelivers(c)'
  BY <1>1, <1>3, <1>4, <1>5, <1>6, LeaveDelivers DEF IInv
<1>8. QED
  BY <1>3, <1>7

\* A thread ends.
LEMMA ExitDelivers ==
  ASSUME IInv, NEW t \in Thread, NEW c \in Corr, c = t[1][1], TaskDelivers(c), Exit(t)
  PROVE  TaskDelivers(c)'
<1>1. /\ thread[t] = "exit" /\ thread' = [thread EXCEPT ![t] = "none"]
      /\ got' = [got EXCEPT ![t] = NoStatus]
      /\ UNCHANGED <<submitted, pending, dispatched, share, answers, replies>>
  BY DEF Exit, Move, queueVars, loopVars
<1>2. t \in Threads(c) /\ \A u \in Threads(c) : u \in Thread
  BY ThreadParts DEF Threads
<1>3. \A e \in pending : e.corr = c /\ c \notin dispatched => replies[c] = {}
  BY DEF TaskDelivers
<1>4. /\ thread'[t] = "none"
      /\ \A u \in Threads(c) : u # t => thread'[u] = thread[u] /\ got'[u] = got[u]
  BY <1>1, <1>2 DEF IInv, TypeOK
<1>5. thread'[t] \notin Unfinished \cup Claiming
  BY <1>4 DEF Unfinished, InAttempt, Claiming
<1>6. QED
  BY <1>1, <1>3, <1>4, <1>5, LeaveDelivers DEF IInv

\* What the last thread chooses from a list that holds all the replies is the best
\* report there is.
LEMMA ChosenIsBest ==
  ASSUME NEW c \in Corr, NEW q \in Seq(WorkerStatus), q # <<>>, replies[c] = ToSet(q)
  PROVE  Delivery!Reportable(c, Chosen(q))
<1>1. CASE OK \in ToSet(q)
  BY <1>1 DEF Chosen, Delivery!Reportable
<1>2. CASE OK \notin ToSet(q)
  <2>1. 1 \in DOMAIN q /\ Head(q) = q[1]
    OBVIOUS
  <2>2. Chosen(q) = Head(q) /\ Head(q) \in ToSet(q)
    BY <1>2, <2>1 DEF Chosen, ToSet
  <2>3. QED
    BY <1>2, <2>2 DEF Delivery!Reportable
<1>3. QED
  BY <1>1, <1>2

\* When the last thread counts itself out everything workers answered is in its
\* list: with an empty list the task may wait again as if for the first time.
LEMMA FinishDelivers ==
  ASSUME IInv, NEW t \in Thread, NEW c \in Corr, c = t[1][1], TaskDelivers(c), Finish(t)
  PROVE  TaskDelivers(c)'
<1> DEFINE a == t[1]
           results == share[a].results
           open == LastOfAttempt(a) /\ ~share[a].done
<1>1. /\ thread[t] = "finish" /\ thread[t] \in Unfinished
      /\ UNCHANGED <<submitted, dispatched, answers, replies>>
  BY DEF Finish, loopVars, Unfinished
<1>2. /\ a \in Attempt /\ t \in Threads(c)
      /\ \A u \in Threads(c) : u \in Thread /\ u[1] \in Attempt
  BY ThreadParts DEF Threads
<1>3. replies[c] = ToSet(results) \cup Held(c)
  BY <1>1, <1>2 DEF TaskDelivers
<1>4. LastOfAttempt(a) => /\ \A u \in Threads(c) : thread[u] \in Unfinished => u = t
                          /\ replies[c] = ToSet(results)
  <2> SUFFICES ASSUME LastOfAttempt(a)
               PROVE  /\ \A u \in Threads(c) : thread[u] \in Unfinished => u = t
                      /\ replies[c] = ToSet(results)
    OBVIOUS
  <2>1. InFlight(a) = {t}
    BY FinishCounts
  <2>2. \A u \in Threads(c) : thread[u] \in Unfinished => u = t
    BY <1>1, <1>2, <2>1, ThreadAtWork, InFlightDef
  <2>3. \A u \in Threads(c) : thread[u] # "record"
    BY <1>1, <2>2 DEF Unfinished, InAttempt
  <2>4. Held(c) = {}
    BY <2>3 DEF Held
  <2>5. QED
    BY <1>3, <2>2, <2>4
<1>5. \A u \in Threads(c) : share'[u[1]].results = share[u[1]].results
  <2>1. \/ share' = [share EXCEPT ![a].remaining = @ - 1]
        \/ share' = [share EXCEPT ![a].remaining = @ - 1, ![a].done = TRUE]
    BY DEF Finish
  <2>2. share \in [Attempt -> [done : BOOLEAN, remaining : Nat, results : Seq(WorkerStatus)]]
    BY DEF IInv, TypeOK
  <2>3. share'[a].results = share[a].results
    BY <1>2, <2>1, <2>2
  <2>4. \A b \in Attempt : b # a => share'[b] = share[b]
    BY <1>2, <2>1, <2>2
  <2>5. QED
    BY <1>2, <2>3, <2>4
<1>6. /\ \A u \in Threads(c) : u # t => thread'[u] = thread[u] /\ got'[u] = got[u]
      /\ thread'[t] \in {"exit", "report"}
  BY <1>2 DEF Finish, IInv, TypeOK
<1>7. \A e \in pending : e.corr = c /\ c \notin dispatched => replies[c] = {}
  BY DEF TaskDelivers
<1>8. CASE thread'[t] = "exit"
  <2>1. thread'[t] \notin Unfinished \cup Claiming
    BY <1>8 DEF Unfinished, InAttempt, Claiming
  <2>2. \A e \in pending' : e.corr = c /\ c \notin dispatched' => replies[c] = {}
    <3>1. CASE pending' = pending
      BY <1>1, <1>7, <3>1
    <3>2. CASE open /\ results = <<>>
      <4>1. replies[c] = {}
        BY <1>4, <3>2 DEF ToSet
      <4>2. QED
        BY <4>1
    <3>3. QED
      BY <3>1, <3>2 DEF Finish
  <2>3. QED
    BY <1>1, <1>5, <1>6, <2>1, <2>2, LeaveDelivers DEF IInv
<1>9. CASE thread'[t] = "report"
  <2>1. /\ open /\ pending' = pending
        /\ got' = [got EXCEPT ![t] = IF results = <<>> THEN TIMEOUT ELSE Chosen(results)]
    BY <1>2, <1>9 DEF Finish, IInv, TypeOK
  <2>2. results \in Seq(WorkerStatus) /\ replies[c] = ToSet(results)
    BY <1>2, <1>4, <2>1 DEF IInv, TypeOK
  <2>3. Delivery!Reportable(c, got'[t])
    <3>1. CASE results = <<>>
      <4>1. got'[t] = TIMEOUT
        BY <2>1, <3>1 DEF IInv, TypeOK
      <4>2. replies[c] = {}
        BY <2>2, <3>1 DEF ToSet
      <4>3. QED
        BY <4>1, <4>2 DEF Delivery!Reportable
    <3>2. CASE results # <<>>
      <4>1. got'[t] = Chosen(results)
        BY <2>1, <3>2 DEF IInv, TypeOK
      <4>2. QED
        BY <2>2, <3>2, <4>1, ChosenIsBest
    <3>3. QED
      BY <3>1, <3>2
  <2>4. Delivery!Reportable(c, got[t])'
    BY <1>1, <2>3 DEF Delivery!Reportable
  <2>5. \A u \in Threads(c) : thread'[u] \notin Unfinished
    <3>1. "report" \notin Unfinished
      BY DEF Unfinished, InAttempt
    <3>2. QED
      BY <1>4, <1>6, <1>9, <2>1, <3>1
  <2>6. \A u \in Threads(c) : u # t => thread'[u] # "report"
    <3>1. \A u \in Threads(c) : thread[u] # "report"
      BY <1>1, <1>2 DEF TaskDelivers
    <3>2. QED
      BY <1>6, <3>1
  <2>7. Threads(c)' = Threads(c)
    BY DEF Threads
  <2>8. \A u \in Threads(c) : thread'[u] # "callback"
    BY <2>5 DEF Unfinished, InAttempt
  <2>9. c \notin submitted' => replies'[c] = {}
    BY <1>1 DEF TaskDelivers
  <2>10. \A e \in pending' : e.corr = c /\ c \notin dispatched' => replies'[c] = {}
    BY <1>1, <1>7, <2>1
  <2>11. QED
    BY <2>4, <2>5, <2>6, <2>7, <2>8, <2>9, <2>10 DEF TaskDelivers
<1>10. QED
  BY <1>6, <1>8, <1>9

-----------------------------------------------------------------------------
(* Delivery: the refinement *)

\* DeliveryByTask after a step.
LEMMA DeliveryByTaskNext ==
  (TypeOK => (DeliveryInv <=> \A c \in Corr : TaskDelivers(c)))'
<1>1. TypeOK => (DeliveryInv <=> \A c \in Corr : TaskDelivers(c))
  BY DeliveryByTask
<1>2. QED
  BY <1>1, PTL

\* Initially nothing was answered.
LEMMA InitDelivers == Init => DeliveryInv
<1> SUFFICES ASSUME Init PROVE DeliveryInv
  OBVIOUS
<1>1. \A t \in Thread : thread[t] = "none"
  BY DEF Init
<1>2. QueueUnanswered
  BY DEF Init, QueueUnanswered
<1>3. RepliesRecorded /\ ClaimReportable
  BY <1>1 DEF RepliesRecorded, ClaimReportable, Unfinished, InAttempt
<1>4. QED
  BY <1>2, <1>3 DEF DeliveryInv

\* Every step of the scheduler keeps the invariant.
LEMMA NextDelivers == IInv /\ DeliveryInv /\ [Next]_vars => DeliveryInv'
<1> SUFFICES ASSUME IInv, DeliveryInv, [Next]_vars PROVE DeliveryInv'
  OBVIOUS
<1>1. TypeOK /\ TypeOK'
  BY NextIInv DEF IInv
<1>2. ASSUME NEW c \in Corr PROVE TaskDelivers(c)'
  <2>1. TaskDelivers(c)
    BY <1>1, DeliveryByTask
  <2>2. CASE \/ \E s \in Slot, type \in TaskType : RegisterSlot(s, type)
             \/ \E s \in Slot, hb \in Heartbeats : ApplyHeartbeat(s, hb)
             \/ Tick \/ OwnerStep \/ LoopTop \/ Snapshot \/ UNCHANGED vars
    <3>1. Elsewhere(c)
      BY <2>2, QuietStepElsewhere
    <3>2. QED
      BY <2>1, <3>1, ElsewhereKeeps
  <2>3. CASE EraseDispatched
    BY <2>1, <2>3, EraseElsewhere, ElsewhereKeeps
  <2>4. ASSUME NEW d \in Corr, Submit(d) PROVE TaskDelivers(c)'
    BY <2>1, <2>4, SubmitDelivers
  <2>5. ASSUME NEW e \in work, DispatchTask(e) PROVE TaskDelivers(c)'
    BY <2>1, <2>5, DispatchDelivers
  <2>6. ASSUME NEW t \in Thread, Exchange(t) \/ ThreadStep(t) PROVE TaskDelivers(c)'
    <3>1. CASE c # t[1][1]
      BY <1>1, <2>1, <2>6, <3>1, ThreadStepElsewhere, ElsewhereKeeps
    <3>2. CASE c = t[1][1]
      BY <2>1, <2>6, <3>2, ExchangeDelivers, RecordDelivers, OkDelivers, FinishDelivers,
         LastDelivers, ExitDelivers DEF ThreadStep
    <3>3. QED
      BY <3>1, <3>2
  <2>7. QED
    BY <2>2, <2>3, <2>4, <2>5, <2>6 DEF Next, Environment, LoopStep
<1>3. QED
  BY <1>1, <1>2, DeliveryByTaskNext

\* The steps that the caller cannot see.
LEMMA UnseenSteps ==
  ASSUME \/ \E s \in Slot, type \in TaskType : RegisterSlot(s, type)
         \/ \E s \in Slot, hb \in Heartbeats : ApplyHeartbeat(s, hb)
         \/ Tick \/ OwnerStep \/ LoopTop \/ Snapshot \/ EraseDispatched
         \/ \E t \in Thread : ExchangeFails(t) \/ RecordResult(t) \/ Finish(t) \/ Exit(t)
         \/ UNCHANGED vars
  PROVE  UNCHANGED Delivery!vars
BY DEF Delivery!vars, RegisterSlot, ApplyHeartbeat, Tick, OwnerStep, Start, StopRequest,
       StopJoin, StopDrain, LoopTop, Snapshot, EraseDispatched, ExchangeFails, RecordResult,
       Finish, Exit, queueVars, taskVars, vars

\* A callback is a report: with what the thread holds, to a caller who has none.
LEMMA CallbackReports ==
  ASSUME IInv, DeliveryInv, NEW t \in Thread, OkCallback(t) \/ LastCallback(t)
  PROVE  Delivery!Next
<1> DEFINE c == t[1][1]
<1>1. thread[t] \in Claiming
  BY DEF OkCallback, LastCallback, RunCallback, Move, Claiming
<1>2. c \in Corr /\ c \in submitted /\ answers[c] = <<>>
  BY <1>1, ThreadAtWork
<1>3. TaskDelivers(c)
  BY <1>2, DeliveryByTask DEF IInv
<1>4. Delivery!Reportable(c, got[t])
  <2>1. CASE OkCallback(t)
    <3>1. got[t] = OK /\ OK \in replies[c]
      BY <1>2, <1>3, <2>1, OkDelivers
    <3>2. QED
      BY <3>1 DEF Delivery!Reportable
  <2>2. CASE LastCallback(t)
    BY <1>2, <1>3, <2>2, LastDelivers
  <2>3. QED
    BY <2>1, <2>2
<1>5. got[t] \in WorkerStatus \cup {REJECTED, TIMEOUT}
  BY <1>2, <1>4 DEF Delivery!Reportable, IInv, TypeOK
<1>6. /\ answers' = [answers EXCEPT ![c] = Append(answers[c], got[t])]
      /\ UNCHANGED <<submitted, replies>>
  BY DEF OkCallback, LastCallback, RunCallback, queueVars
<1>7. answers' = [answers EXCEPT ![c] = <<got[t]>>]
  <2>1. Append(answers[c], got[t]) = <<got[t]>>
    BY <1>2
  <2>2. QED
    BY <1>6, <2>1
<1>8. Delivery!Report(c, got[t])
  BY <1>2, <1>4, <1>6, <1>7 DEF Delivery!Report
<1>9. QED
  BY <1>2, <1>5, <1>8 DEF Delivery!Next

\* So is a rejection, of a task no worker has answered.
LEMMA RejectReports ==
  ASSUME IInv, DeliveryInv, NEW e \in work, DispatchTask(e)
  PROVE  Delivery!Next \/ UNCHANGED Delivery!vars
<1> DEFINE c == e.corr
<1>1. /\ c \in Corr /\ c \in submitted /\ answers[c] = <<>> /\ e \in pending
      /\ c \notin dispatched
  BY EntryInHand DEF Quiet
<1>2. replies[c] = {}
  BY <1>1 DEF DeliveryInv, QueueUnanswered
<1>3. UNCHANGED <<submitted, replies>>
  BY DispatchFrame
<1>4. CASE RejectTask(e)
  <2>1. Append(answers[c], REJECTED) = <<REJECTED>>
    BY <1>1
  <2>2. answers' = [answers EXCEPT ![c] = <<REJECTED>>]
    BY <1>4, <2>1 DEF RejectTask
  <2>3. Delivery!Reportable(c, REJECTED)
    BY <1>2 DEF Delivery!Reportable
  <2>4. Delivery!Report(c, REJECTED)
    BY <1>1, <1>3, <2>2, <2>3 DEF Delivery!Report
  <2>5. QED
    BY <1>1, <2>4 DEF Delivery!Next
<1>5. CASE ~RejectTask(e)
  <2>1. UNCHANGED answers
    BY <1>5 DEF DispatchTask, LaunchThreads
  <2>2. QED
    BY <1>3, <2>1 DEF Delivery!vars
<1>6. QED
  BY <1>4, <1>5

\* Every step of the scheduler is a step of TaskDelivery or one it cannot see.
LEMMA StepsDeliver ==
  IInv /\ DeliveryInv /\ [Next]_vars => [Delivery!Next]_Delivery!vars
<1> SUFFICES ASSUME IInv, DeliveryInv, [Next]_vars
             PROVE  Delivery!Next \/ UNCHANGED Delivery!vars
  OBVIOUS
<1>1. ASSUME NEW c \in Corr, Submit(c) PROVE Delivery!Next
  <2>1. Delivery!Submit(c)
    BY <1>1 DEF Submit, Delivery!Submit, taskVars
  <2>2. QED
    BY <2>1 DEF Delivery!Next
<1>2. ASSUME NEW t \in Thread, NEW st \in WorkerStatus, ExchangeSucceeds(t, st)
      PROVE  Delivery!Next
  <2> DEFINE c == t[1][1]
  <2>1. thread[t] = "exchange" /\ thread[t] \in Unfinished
    BY <1>2 DEF ExchangeSucceeds, Move, Unfinished, InAttempt
  <2>2. c \in Corr /\ c \in submitted
    BY <2>1, ThreadAtWork
  <2>3. answers[c] \in {<<>>, <<OK>>}
    BY <2>1 DEF DeliveryInv, RepliesRecorded
  <2>4. Delivery!WorkerReplies(c, st)
    BY <1>2, <2>2, <2>3 DEF ExchangeSucceeds, Delivery!WorkerReplies, queueVars
  <2>5. QED
    BY <2>2, <2>4 DEF Delivery!Next
<1>3. ASSUME NEW e \in work, DispatchTask(e)
      PROVE  Delivery!Next \/ UNCHANGED Delivery!vars
  BY <1>3, RejectReports
<1>4. ASSUME NEW t \in Thread, OkCallback(t) \/ LastCallback(t) PROVE Delivery!Next
  BY <1>4, CallbackReports
<1>5. \/ \E c \in Corr : Submit(c)
      \/ \E e \in work : DispatchTask(e)
      \/ \E t \in Thread, st \in WorkerStatus : ExchangeSucceeds(t, st)
      \/ \E t \in Thread : OkCallback(t) \/ LastCallback(t)
      \/ UNCHANGED Delivery!vars
  BY UnseenSteps DEF Next, Environment, LoopStep, Exchange, ThreadStep
<1>6. QED
  BY <1>1, <1>2, <1>3, <1>4, <1>5

\* The invariant of the delivery holds of every execution.
LEMMA DeliveryInvariance == Spec => []DeliveryInv
<1>1. Init => DeliveryInv
  BY InitDelivers
<1>2. IInv /\ DeliveryInv /\ [Next]_vars => DeliveryInv'
  BY NextDelivers
<1>3. QED
  BY <1>1, <1>2, Invariance, PTL DEF Spec

\* The scheduler, with all its queues, attempts and threads, implements
\* TaskDelivery: whatever the workers answer and however late, the caller is told
\* at most once, and the best that can have reached the thread that tells.
THEOREM DeliversTasks == Spec => DeliverySpec
<1>1. Init => Delivery!Init
  BY DEF Init, Delivery!Init
<1>2. IInv /\ DeliveryInv /\ [Next]_vars => [Delivery!Next]_Delivery!vars
  BY StepsDeliver
<1>3. QED
  BY <1>1, <1>2, Invariance, DeliveryInvariance, PTL DEF Spec, DeliverySpec, Delivery!Spec

-----------------------------------------------------------------------------
(* No task is forgotten, but for the retry that its own pass erases *)

\* TasksOwned for one task.
TaskOwned(c) ==
  /\ c \in dispatched => c \in submitted
  /\ c \in submitted => Owned(c)
  /\ \A a \in Attempt : a[1] = c /\ share[a].done =>
       answers[c] # <<>> \/ \E t \in Threads(c) : thread[t] \in Claiming
  /\ \A t \in Threads(c) : thread[t] \in Unfinished =>
       \A e \in pending : e.corr = c => e.attempts < t[1][2]

\* The invariant is that of every task.
LEMMA OwnedByTask ==
  ASSUME TypeOK
  PROVE  TasksOwned <=> \A c \in Corr : TaskOwned(c)
<1>1. submitted \subseteq Corr /\ dispatched \subseteq Corr
  BY DEF TypeOK
<1>2. \A t \in Thread : t[1][1] \in Corr /\ t \in Threads(t[1][1])
  BY ThreadParts DEF Threads
<1>3. \A c \in Corr : \A t \in Threads(c) : t \in Thread /\ t[1][1] = c
  BY DEF Threads
<1>4. \A a \in Attempt : a[1] \in Corr
  BY DEF Attempt
<1>5. /\ dispatched \subseteq submitted <=> \A c \in Corr : c \in dispatched => c \in submitted
      /\ (\A c \in submitted : Owned(c)) <=> (\A c \in Corr : c \in submitted => Owned(c))
  BY <1>1
<1>6. (\A a \in Attempt : share[a].done =>
         answers[a[1]] # <<>> \/ \E t \in Threads(a[1]) : thread[t] \in Claiming)
      <=> \A c \in Corr : \A a \in Attempt : a[1] = c /\ share[a].done =>
            answers[c] # <<>> \/ \E t \in Threads(c) : thread[t] \in Claiming
  BY <1>4
<1>7. (\A t \in Thread : thread[t] \in Unfinished =>
         \A e \in pending : e.corr = t[1][1] => e.attempts < t[1][2])
      <=> \A c \in Corr : \A t \in Threads(c) : thread[t] \in Unfinished =>
            \A e \in pending : e.corr = c => e.attempts < t[1][2]
  BY <1>2, <1>3
<1>8. QED
  BY <1>5, <1>6, <1>7 DEF TasksOwned, TaskOwned

\* OwnedByTask after a step.
LEMMA OwnedByTaskNext ==
  (TypeOK => (TasksOwned <=> \A c \in Corr : TaskOwned(c)))'
<1>1. TypeOK => (TasksOwned <=> \A c \in Corr : TaskOwned(c))
  BY OwnedByTask
<1>2. QED
  BY <1>1, PTL

\* A step that takes a task from nobody.
Untouched(c) ==
  /\ answers'[c] = answers[c]
  /\ c \in submitted' <=> c \in submitted
  /\ c \in dispatched' => c \in dispatched
  /\ \A e \in pending' : e.corr = c => e \in pending
  /\ \A e \in pending : e.corr = c /\ c \notin dispatched => e \in pending'
  /\ \A t \in Threads(c) : thread'[t] = thread[t]
  /\ \A a \in Attempt : a[1] = c /\ share'[a].done => share[a].done

\* Such a step keeps what the invariant says of the task.
LEMMA UntouchedKeeps ==
  ASSUME NEW c \in Corr, TaskOwned(c), Untouched(c)
  PROVE  TaskOwned(c)'
<1>1. Threads(c)' = Threads(c)
  BY DEF Threads
<1>2. Owned(c) => Owned(c)'
  BY <1>1 DEF Owned, Untouched
<1>3. ASSUME NEW a \in Attempt, a[1] = c, share'[a].done
      PROVE  answers'[c] # <<>> \/ \E t \in Threads(c) : thread'[t] \in Claiming
  BY <1>3 DEF TaskOwned, Untouched
<1>4. ASSUME NEW t \in Threads(c), thread'[t] \in Unfinished, NEW e \in pending', e.corr = c
      PROVE  e.attempts < t[1][2]
  BY <1>4 DEF TaskOwned, Untouched
<1>5. QED
  BY <1>1, <1>2, <1>3, <1>4 DEF TaskOwned, Untouched

\* The steps that touch no task, and the end of a pass: what it erases was looked
\* at, and is in other hands by then.
LEMMA QuietStepUntouched ==
  ASSUME NEW c \in Corr,
         \/ \E s \in Slot, type \in TaskType : RegisterSlot(s, type)
         \/ \E s \in Slot, hb \in Heartbeats : ApplyHeartbeat(s, hb)
         \/ Tick \/ OwnerStep \/ LoopTop \/ Snapshot \/ EraseDispatched \/ UNCHANGED vars
  PROVE  Untouched(c)
<1>1. CASE EraseDispatched
  BY <1>1 DEF EraseDispatched, KeptEntries, taskVars, Untouched
<1>2. CASE ~EraseDispatched
  <2>1. UNCHANGED <<submitted, pending, dispatched, share, thread, answers>>
    BY <1>2 DEF RegisterSlot, ApplyHeartbeat, Tick, OwnerStep, Start, StopRequest, StopJoin,
           StopDrain, LoopTop, Snapshot, queueVars, loopVars, taskVars, vars
  <2>2. QED
    BY <2>1 DEF Untouched
<1>3. QED
  BY <1>1, <1>2

\* A new task waits in the queue.
LEMMA SubmitOwned ==
  ASSUME IInv, NEW c \in Corr, NEW d \in Corr, Submit(d), TaskOwned(c)
  PROVE  TaskOwned(c)'
<1> DEFINE e == [corr |-> d, attempts |-> 0]
<1>1. /\ d \notin submitted /\ submitted' = submitted \cup {d}
      /\ pending' = pending \cup {e} /\ e.corr = d
      /\ UNCHANGED <<dispatched, share, thread, answers>>
  BY DEF Submit, loopVars, taskVars
<1>2. CASE c # d
  BY <1>1, <1>2, UntouchedKeeps DEF Untouched
<1>3. CASE c = d
  <2>1. c \notin dispatched /\ \A t \in Threads(c) : thread[t] = "none"
    BY <1>1, <1>3 DEF IInv, NothingBeforeSubmit, TaskOwned
  <2>2. Threads(c)' = Threads(c)
    BY DEF Threads
  <2>3. Owned(c)'
    BY <1>1, <1>3, <2>1 DEF Owned
  <2>4. \A t \in Threads(c) : thread'[t] \notin Unfinished
    BY <1>1, <2>1 DEF Unfinished, InAttempt
  <2>5. QED
    BY <1>1, <1>3, <2>1, <2>2, <2>3, <2>4 DEF TaskOwned
<1>4. QED
  BY <1>2, <1>3

\* The loop either answers a task or hands it to an attempt with a thread.
LEMMA DispatchOwned ==
  ASSUME IInv, NEW c \in Corr, NEW e \in work, DispatchTask(e), TaskOwned(c)
  PROVE  TaskOwned(c)'
<1> DEFINE a == <<e.corr, e.attempts + 1>>
<1>1. /\ e \in pending /\ e \in Entry /\ e.corr \in Corr /\ e.corr \in submitted
      /\ e.corr \notin dispatched /\ Quiet(e.corr) /\ a \in Attempt
      /\ dispatched' = dispatched \cup {e.corr}
      /\ UNCHANGED <<submitted, pending>>
  BY EntryInHand, DispatchFrame
<1>2. PICK selected \in SelectBestSlots(slots, request[e.corr].type, now, Fanout) :
        \/ RejectTask(e)
        \/ selected # {} /\ LaunchThreads(e, selected)
  BY DEF DispatchTask
<1>3. selected \subseteq Slot
  BY <1>2, SelectionOfSlots
<1>4. \A t \in Threads(c) : t \in Thread /\ t[1] \in Attempt /\ t[1][1] = c
  BY ThreadParts DEF Threads
<1>5. Threads(c)' = Threads(c)
  BY DEF Threads
<1>6. \A b \in Attempt : b # a => share'[b] = share[b]
  BY <1>1, <1>2 DEF RejectTask, LaunchThreads, IInv, TypeOK
<1>7. CASE c # e.corr
  <2>1. \A t \in Threads(c) : thread'[t] = thread[t]
    <3>1. \A t \in Threads(c) : t \notin {a} \X selected
      BY <1>4, <1>7
    <3>2. QED
      BY <1>2, <1>4, <3>1 DEF RejectTask, LaunchThreads
  <2>2. answers'[c] = answers[c]
    BY <1>2, <1>7 DEF RejectTask, LaunchThreads, IInv, TypeOK
  <2>3. Untouched(c)
    BY <1>1, <1>6, <1>7, <2>1, <2>2 DEF Untouched
  <2>4. QED
    BY <2>3, UntouchedKeeps
<1>8. CASE c = e.corr
  <2>1. answers[c] = <<>> /\ \A t \in Threads(c) : thread[t] \notin Unfinished \cup Claiming
    BY <1>1, <1>8 DEF Quiet
  <2>2. \A b \in Attempt : b[1] = c => ~share[b].done
    BY <2>1 DEF TaskOwned
  <2>3. CASE RejectTask(e)
    <3>1. answers'[c] = Append(<<>>, REJECTED) /\ thread' = thread
      BY <1>8, <2>1, <2>3 DEF RejectTask, IInv, TypeOK
    <3>2. answers'[c] # <<>>
      BY <3>1
    <3>3. \A t \in Threads(c) : thread'[t] \notin Unfinished
      BY <2>1, <3>1
    <3>4. QED
      BY <1>1, <1>5, <1>8, <3>2, <3>3 DEF TaskOwned, Owned
  <2>4. CASE selected # {} /\ LaunchThreads(e, selected)
    <3>1. PICK s \in selected : s \in Slot
      BY <1>3, <2>4
    <3>2. <<a, s>> \in Threads(c) /\ thread'[<<a, s>>] = "exchange"
      BY <1>1, <1>8, <2>4, <3>1 DEF LaunchThreads, Thread, Threads
    <3>3. Owned(c)'
      BY <1>5, <3>2 DEF Owned, Unfinished, InAttempt
    <3>4. ~share'[a].done
      BY <1>1, <2>4 DEF LaunchThreads, IInv, TypeOK
    <3>5. \A b \in Attempt : b[1] = c => ~share'[b].done
      BY <1>6, <2>2, <3>4
    <3>6. \A t \in Threads(c) : thread'[t] \in Unfinished => t[1] = a
      BY <1>4, <2>1, <2>4 DEF LaunchThreads
    <3>7. \A f \in pending : f.corr = c => f = e
      BY <1>1, <1>8 DEF IInv, QueueOwns
    <3>8. a[2] = e.attempts + 1 /\ e.attempts \in Nat
      BY <1>1 DEF Entry
    <3>9. \A t \in Threads(c) : thread'[t] \in Unfinished =>
            \A f \in pending' : f.corr = c => f.attempts < t[1][2]
      BY <1>1, <3>6, <3>7, <3>8
    <3>10. QED
      BY <1>1, <1>5, <1>8, <3>3, <3>5, <3>9 DEF TaskOwned
  <2>5. QED
    BY <1>2, <2>3, <2>4
<1>9. QED
  BY <1>7, <1>8

\* A step of one thread takes no other task from anybody.
LEMMA ThreadStepUntouched ==
  ASSUME TypeOK, NEW t \in Thread, Exchange(t) \/ ThreadStep(t),
         NEW c \in Corr, c # t[1][1]
  PROVE  Untouched(c)
<1>1. t[1] \in Attempt /\ t[1][1] \in Corr
  BY ThreadParts
<1>2. Elsewhere(c)
  BY ThreadStepElsewhere
<1>3. /\ UNCHANGED <<submitted, dispatched>>
      /\ \A e \in pending' : e.corr # t[1][1] => e \in pending
      /\ pending \subseteq pending'
      /\ \A b \in Attempt : b # t[1] => share'[b] = share[b]
  BY <1>1 DEF TypeOK, Exchange, ThreadStep, ExchangeFails, ExchangeSucceeds, RecordResult,
              OkCallback, LastCallback, RunCallback, Finish, Exit, queueVars, loopVars
<1>4. QED
  BY <1>2, <1>3 DEF Elsewhere, Untouched

\* What one of its own threads has to see to when it takes a step.
LEMMA OwnStepOwned ==
  ASSUME NEW t \in Thread, NEW c \in Corr, c = t[1][1], TaskOwned(c),
         UNCHANGED <<submitted, dispatched>>,
         \A e \in pending' : e.corr = c => e \in pending,
         \A u \in Threads(c) : u # t => thread'[u] = thread[u],
         thread'[t] \in Unfinished => thread[t] \in Unfinished,
         Owned(c)',
         \A b \in Attempt : b[1] = c /\ share'[b].done =>
           answers'[c] # <<>> \/ \E u \in Threads(c) : thread'[u] \in Claiming
  PROVE  TaskOwned(c)'
<1>1. Threads(c)' = Threads(c)
  BY DEF Threads
<1>2. \A u \in Threads(c) : thread'[u] \in Unfinished => thread[u] \in Unfinished
  OBVIOUS
<1>3. QED
  BY <1>1, <1>2 DEF TaskOwned

\* A thread still in its attempt owns the task, and who had claimed the callback
\* still has.
LEMMA WorkOwned ==
  ASSUME IInv, NEW t \in Thread, NEW c \in Corr, c = t[1][1], TaskOwned(c),
         thread[t] \in {"exchange", "record"}, Exchange(t) \/ RecordResult(t)
  PROVE  TaskOwned(c)'
<1>1. t[1] \in Attempt /\ t \in Threads(c) /\ \A u \in Threads(c) : u \in Thread
  BY ThreadParts DEF Threads
<1>2. /\ UNCHANGED <<submitted, dispatched, pending, answers>>
      /\ thread'[t] \in {"record", "finish", "callback"}
      /\ \A u \in Threads(c) : u # t => thread'[u] = thread[u]
  BY <1>1 DEF Exchange, ExchangeFails, ExchangeSucceeds, RecordResult, Move, queueVars,
              loopVars, IInv, TypeOK
<1>3. thread'[t] \in Unfinished /\ thread[t] \in Unfinished
  BY <1>2 DEF Unfinished, InAttempt
<1>4. Owned(c)'
  BY <1>1, <1>3 DEF Owned, Threads
<1>5. \A b \in Attempt : b[1] = c /\ share'[b].done =>
        share[b].done \/ thread'[t] = "callback"
  <2>1. CASE Exchange(t)
    BY <2>1 DEF Exchange, ExchangeFails, ExchangeSucceeds
  <2>2. CASE RecordResult(t)
    <3>1. CASE ClaimsCallback(t)
      BY <1>1, <2>2, <3>1 DEF RecordResult, Move, IInv, TypeOK
    <3>2. CASE ~ClaimsCallback(t)
      <4>1. \A b \in Attempt : b # t[1] => share'[b] = share[b]
        BY <1>1, <2>2 DEF RecordResult, IInv, TypeOK
      <4>2. share' = [share EXCEPT ![t[1]].results = Append(@, got[t]),
                                   ![t[1]].done = @ \/ FALSE]
        BY <2>2, <3>2 DEF RecordResult
      <4>3. share'[t[1]].done => share[t[1]].done
        BY <1>1, <4>2 DEF IInv, TypeOK
      <4>4. QED
        BY <1>1, <4>1, <4>3
    <3>3. QED
      BY <3>1, <3>2
  <2>3. QED
    BY <2>1, <2>2
<1>6. thread[t] \notin Claiming
  BY DEF Claiming
<1>7. ASSUME NEW b \in Attempt, b[1] = c, share'[b].done
      PROVE  answers'[c] # <<>> \/ \E u \in Threads(c) : thread'[u] \in Claiming
  <2>1. CASE thread'[t] = "callback"
    BY <1>1, <2>1 DEF Claiming
  <2>2. CASE share[b].done
    <3>1. answers[c] # <<>> \/ \E u \in Threads(c) : thread[u] \in Claiming
      BY <1>7, <2>2 DEF TaskOwned
    <3>2. QED
      BY <1>2, <1>6, <3>1
  <2>3. QED
    BY <1>5, <1>7, <2>1, <2>2
<1>8. QED
  BY <1>2, <1>3, <1>4, <1>7, OwnStepOwned

\* A callback is an answer, and an exit concerns nobody.
LEMMA AnswerOwned ==
  ASSUME IInv, NEW t \in Thread, NEW c \in Corr, c = t[1][1], TaskOwned(c),
         OkCallback(t) \/ LastCallback(t) \/ Exit(t)
  PROVE  TaskOwned(c)'
<1>1. t \in Threads(c) /\ \A u \in Threads(c) : u \in Thread
  BY ThreadParts DEF Threads
<1>2. CASE OkCallback(t) \/ LastCallback(t)
  <2>1. /\ UNCHANGED <<submitted, dispatched, pending, share>>
        /\ thread'[t] \in Unfinished => thread[t] \in Unfinished
        /\ \A u \in Threads(c) : u # t => thread'[u] = thread[u]
    BY <1>1, <1>2 DEF OkCallback, LastCallback, RunCallback, Move, queueVars, loopVars, IInv,
                TypeOK, Unfinished, InAttempt
  <2>2. answers'[c] # <<>>
    <3>1. answers'[c] = Append(answers[c], got[t]) /\ answers[c] \in Seq(Status)
      BY <1>2 DEF OkCallback, LastCallback, RunCallback, IInv, TypeOK
    <3>2. QED
      BY <3>1
  <2>3. Owned(c)'
    BY <2>2 DEF Owned
  <2>4. QED
    BY <2>1, <2>2, <2>3, OwnStepOwned
<1>3. CASE Exit(t)
  <2>1. /\ UNCHANGED <<submitted, dispatched, pending, share, answers>>
        /\ thread[t] = "exit" /\ thread'[t] = "none"
        /\ \A u \in Threads(c) : u # t => thread'[u] = thread[u]
    BY <1>1, <1>3 DEF Exit, Move, queueVars, loopVars, IInv, TypeOK
  <2>2. Threads(c)' = Threads(c)
    BY DEF Threads
  <2>3. "none" \notin Unfinished \cup Claiming /\ "exit" \notin Unfinished \cup Claiming
    BY DEF Unfinished, InAttempt, Claiming
  <2>4. c \in submitted' => Owned(c)'
    BY <2>1, <2>2, <2>3 DEF TaskOwned, Owned
  <2>5. \A u \in Threads(c) : thread'[u] \in Unfinished => thread[u] \in Unfinished
    BY <2>1, <2>3
  <2>6. ASSUME NEW b \in Attempt, b[1] = c, share'[b].done
        PROVE  answers'[c] # <<>> \/ \E u \in Threads(c) : thread'[u] \in Claiming
    BY <2>1, <2>3, <2>6 DEF TaskOwned
  <2>7. QED
    BY <2>1, <2>2, <2>4, <2>5, <2>6 DEF TaskOwned
<1>4. QED
  BY <1>2, <1>3

\* A thread that counts itself out leaves the task to another of its attempt, to
\* whoever claimed the callback, to the queue, or reports it.
LEMMA FinishOwned ==
  ASSUME IInv, NEW t \in Thread, NEW c \in Corr, c = t[1][1], TaskOwned(c), Finish(t),
         QueuesAfterPass
  PROVE  TaskOwned(c)'
<1> DEFINE a == t[1]
           n == t[1][2]
           open == LastOfAttempt(a) /\ ~share[a].done
           retry == [corr |-> c, attempts |-> n]
<1>1. /\ thread[t] = "finish" /\ thread[t] \in Unfinished /\ thread[t] \notin Claiming
      /\ UNCHANGED <<submitted, dispatched, answers>>
  BY DEF Finish, loopVars, Unfinished, Claiming
<1>2. /\ a \in Attempt /\ t \in Threads(c) /\ n \in 1..MaxAttempts
      /\ \A u \in Threads(c) : u \in Thread
      /\ Threads(c)' = Threads(c)
  BY ThreadParts DEF Threads
<1>3. /\ \A u \in Threads(c) : u # t => thread'[u] = thread[u]
      /\ thread'[t] \in {"exit", "report"}
      /\ thread'[t] \notin Unfinished
  BY <1>2 DEF Finish, IInv, TypeOK, Unfinished, InAttempt
<1>4. c \in submitted
  BY <1>1, ThreadAtWork
<1>5. \A b \in Attempt : share'[b].done => share[b].done \/ thread'[t] = "report"
  <2>1. \A b \in Attempt : b # a => share'[b] = share[b]
    BY <1>2 DEF Finish, IInv, TypeOK
  <2>2. CASE thread' = [thread EXCEPT ![t] = "report"]
    BY <2>2 DEF IInv, TypeOK
  <2>3. CASE share' = [share EXCEPT ![a].remaining = @ - 1]
    <3>1. share'[a].done => share[a].done
      BY <1>2, <2>3 DEF IInv, TypeOK
    <3>2. QED
      BY <2>1, <3>1
  <2>4. QED
    BY <2>2, <2>3 DEF Finish
<1>6. ASSUME NEW b \in Attempt, b[1] = c, share'[b].done
      PROVE  answers'[c] # <<>> \/ \E u \in Threads(c) : thread'[u] \in Claiming
  <2>1. CASE thread'[t] = "report"
    BY <1>2, <2>1 DEF Claiming
  <2>2. CASE share[b].done
    <3>1. answers[c] # <<>> \/ \E u \in Threads(c) : thread[u] \in Claiming
      BY <1>6, <2>2 DEF TaskOwned
    <3>2. QED
      BY <1>1, <1>3, <3>1
  <2>3. QED
    BY <1>5, <1>6, <2>1, <2>2
<1>7. CASE thread'[t] = "report"
  <2>1. pending' = pending
    BY <1>7 DEF Finish, IInv, TypeOK
  <2>2. Owned(c)'
    BY <1>2, <1>7 DEF Owned
  <2>3. QED
    BY <1>1, <1>3, <1>6, <2>1, <2>2, OwnStepOwned
<1>8. CASE open /\ pending' = pending \cup {retry}
  <2>1. retry \notin pending
    <3>1. \A e \in pending : e.corr = c => e.attempts < n
      BY <1>1, <1>2 DEF TaskOwned
    <3>2. retry.corr = c /\ retry.attempts = n /\ ~(n < n)
      BY <1>2
    <3>3. QED
      BY <3>1, <3>2
  <2>2. c \notin dispatched
    BY <1>8, <2>1 DEF QueuesAfterPass
  <2>3. Owned(c)'
    <3>1. retry \in pending' /\ retry.corr = c /\ c \notin dispatched'
      BY <1>1, <1>8, <2>2
    <3>2. \E e \in pending' : e.corr = c /\ c \notin dispatched'
      BY <3>1
    <3>3. QED
      BY <3>2 DEF Owned
  <2>4. \A u \in Threads(c) : thread'[u] \notin Unfinished
    <3>1. InFlight(a) = {t}
      BY <1>8, FinishCounts
    <3>2. \A u \in Threads(c) : thread[u] \in Unfinished => u = t
      BY <1>1, <1>2, <3>1, ThreadAtWork, InFlightDef
    <3>3. QED
      BY <1>3, <3>2
  <2>5. QED
    BY <1>1, <1>2, <1>4, <1>6, <2>2, <2>3, <2>4 DEF TaskOwned
<1>9. CASE ~open /\ pending' = pending
  <2>1. \/ answers[c] # <<>>
        \/ \E u \in Threads(c) : u # t /\ thread[u] \in Unfinished \cup {"report"}
    <3>1. CASE share[a].done
      <4>1. answers[c] # <<>> \/ \E u \in Threads(c) : thread[u] \in Claiming
        BY <1>2, <3>1 DEF TaskOwned
      <4>2. QED
        BY <1>1, <4>1 DEF Claiming, Unfinished, InAttempt
    <3>2. CASE ~LastOfAttempt(a)
      <4>1. Cardinality(InFlight(a)) # 1
        BY <1>2, <3>2 DEF LastOfAttempt, IInv, CountersExact
      <4>2. InFlight(a) # {t}
        BY <4>1, FS_Singleton
      <4>3. t \in InFlight(a)
        BY <1>1, <1>2, InFlightDef
      <4>4. PICK u \in InFlight(a) : u # t
        BY <4>2, <4>3
      <4>5. u \in Threads(c) /\ thread[u] \in Unfinished
        BY <1>2, <4>4, InFlightDef DEF Threads
      <4>6. QED
        BY <4>4, <4>5
    <3>3. QED
      BY <1>9, <3>1, <3>2
  <2>2. Owned(c)'
    BY <1>1, <1>2, <1>3, <2>1 DEF Owned
  <2>3. QED
    BY <1>1, <1>3, <1>6, <1>9, <2>2, OwnStepOwned
<1>10. \/ thread'[t] = "report"
       \/ open /\ pending' = pending \cup {retry}
       \/ ~open /\ pending' = pending
  BY DEF Finish, IInv, TypeOK
<1>11. QED
  BY <1>7, <1>8, <1>9, <1>10

\* TasksOwned holds at first, and every step that queues nothing its own pass will
\* erase keeps it.
LEMMA OwnershipInduction ==
  /\ Init => TasksOwned
  /\ IInv /\ TasksOwned /\ [Next]_vars /\ [QueuesAfterPass]_vars => TasksOwned'
<1>1. ASSUME Init PROVE TasksOwned
  <2>1. /\ dispatched = {} /\ submitted = {}
        /\ \A a \in Attempt : share[a].done = FALSE
        /\ \A t \in Thread : thread[t] \notin Unfinished
    BY <1>1 DEF Init, Unfinished, InAttempt
  <2>2. QED
    BY <2>1 DEF TasksOwned
<1>2. ASSUME IInv, TasksOwned, [Next]_vars, [QueuesAfterPass]_vars PROVE TasksOwned'
  <2>1. TypeOK /\ TypeOK'
    BY <1>2, NextIInv DEF IInv
  <2>2. ASSUME NEW c \in Corr PROVE TaskOwned(c)'
    <3>1. TaskOwned(c)
      BY <1>2, <2>1, OwnedByTask
    <3>2. CASE \/ \E s \in Slot, type \in TaskType : RegisterSlot(s, type)
               \/ \E s \in Slot, hb \in Heartbeats : ApplyHeartbeat(s, hb)
               \/ Tick \/ OwnerStep \/ LoopTop \/ Snapshot \/ EraseDispatched
               \/ UNCHANGED vars
      <4>1. Untouched(c)
        BY <3>2, QuietStepUntouched
      <4>2. QED
        BY <3>1, <4>1, UntouchedKeeps
    <3>3. ASSUME NEW d \in Corr, Submit(d) PROVE TaskOwned(c)'
      BY <1>2, <3>1, <3>3, SubmitOwned
    <3>4. ASSUME NEW e \in work, DispatchTask(e) PROVE TaskOwned(c)'
      BY <1>2, <3>1, <3>4, DispatchOwned
    <3>5. ASSUME NEW t \in Thread, Exchange(t) \/ ThreadStep(t) PROVE TaskOwned(c)'
      <4>1. CASE c # t[1][1]
        BY <2>1, <3>1, <3>5, <4>1, ThreadStepUntouched, UntouchedKeeps
      <4>2. CASE c = t[1][1] /\ (Exchange(t) \/ RecordResult(t))
        <5>1. thread[t] \in {"exchange", "record"}
          BY <4>2 DEF Exchange, ExchangeFails, ExchangeSucceeds, RecordResult, Move
        <5>2. QED
          BY <1>2, <3>1, <4>2, <5>1, WorkOwned
      <4>3. CASE c = t[1][1] /\ (OkCallback(t) \/ LastCallback(t) \/ Exit(t))
        BY <1>2, <3>1, <4>3, AnswerOwned
      <4>4. CASE c = t[1][1] /\ Finish(t)
        <5>1. thread'[t] # thread[t]
          BY <2>1, <4>4 DEF Finish, TypeOK
        <5>2. QueuesAfterPass
          BY <1>2, <5>1 DEF vars, taskVars
        <5>3. QED
          BY <1>2, <3>1, <4>4, <5>2, FinishOwned
      <4>5. QED
        BY <3>5, <4>1, <4>2, <4>3, <4>4 DEF ThreadStep
    <3>6. QED
      BY <1>2, <3>2, <3>3, <3>4, <3>5 DEF Next, Environment, LoopStep
  <2>3. QED
    BY <2>1, <2>2, OwnedByTaskNext
<1>3. QED
  BY <1>1, <1>2

\* Who owns a task is one of those NoTaskForgotten names.
LEMMA OwnedNotForgotten == IInv /\ TasksOwned => NoTaskForgotten
<1> SUFFICES ASSUME IInv, TasksOwned, NEW c \in submitted
             PROVE  \/ answers[c] # <<>>
                    \/ \E e \in pending : e.corr = c
                    \/ \E t \in Thread : t[1][1] = c /\ thread[t] \in Unfinished \cup {"report"}
  BY DEF NoTaskForgotten
<1>1. Owned(c)
  BY DEF TasksOwned
<1>2. QED
  BY <1>1 DEF Owned, Threads

\* The scheduler forgets a task in one way only: an attempt all of whose workers
\* fail before the pass that launched it is over queues its retry too early, and
\* the pass erases it.  An execution without such a retry forgets none, whatever
\* else is interleaved and for every number of attempts.
THEOREM ForgetsOnlyEarlyRetries ==
  Spec /\ [][QueuesAfterPass]_vars => []NoTaskForgotten
<1>1. Init => TasksOwned
  BY OwnershipInduction
<1>2. IInv /\ TasksOwned /\ [Next]_vars /\ [QueuesAfterPass]_vars => TasksOwned'
  BY OwnershipInduction
<1>3. IInv /\ TasksOwned => NoTaskForgotten
  BY OwnedNotForgotten
<1>4. QED
  BY <1>1, <1>2, <1>3, Invariance, PTL DEF Spec

\* When no caller asks for more than one attempt nothing is ever queued again.
LEMMA SingleAttemptsQueueOnce ==
  ASSUME MaxAttempts = 1
  PROVE  IInv /\ TasksOwned /\ [Next]_vars => [QueuesAfterPass]_vars
<1> SUFFICES ASSUME IInv, TasksOwned, Next PROVE QueuesAfterPass
  OBVIOUS
<1>1. ASSUME NEW c \in Corr, Submit(c) PROVE QueuesAfterPass
  <2>1. c \notin dispatched
    BY <1>1 DEF Submit, TasksOwned
  <2>2. pending' = pending \cup {[corr |-> c, attempts |-> 0]}
    BY <1>1 DEF Submit
  <2>3. \A e \in pending' \ pending : e.corr = c
    BY <2>2
  <2>4. QED
    BY <2>1, <2>3 DEF QueuesAfterPass
<1>2. ASSUME NEW t \in Thread, Finish(t) PROVE pending' = pending
  <2>1. t[1][1] \in Corr /\ t[1][2] \in 1..MaxAttempts
    BY ThreadParts
  <2>2. request[t[1][1]].maxAttempts \in 0..MaxAttempts
    BY <2>1 DEF IInv, TypeOK
  <2>3. ~(t[1][2] < request[t[1][1]].maxAttempts)
    BY <2>1, <2>2
  <2>4. QED
    BY <1>2, <2>3 DEF Finish
<1>3. CASE ~\E c \in Corr : Submit(c)
  <2>1. pending' \subseteq pending
    BY <1>2, <1>3 DEF Next, Environment, OwnerStep, LoopStep, Exchange, ThreadStep,
       RegisterSlot, ApplyHeartbeat, Tick, Start, StopRequest, StopJoin, StopDrain, LoopTop,
       Snapshot, DispatchTask, EraseDispatched, KeptEntries, ExchangeFails, ExchangeSucceeds,
       RecordResult, OkCallback, LastCallback, RunCallback, Exit, queueVars
  <2>2. QED
    BY <2>1 DEF QueuesAfterPass
<1>4. QED
  BY <1>1, <1>3

\* So when no caller asks for more than one attempt, no task is ever forgotten.
THEOREM NoneForgotten ==
  ASSUME MaxAttempts = 1
  PROVE  Spec => []NoTaskForgotten
<1>1. Init => TasksOwned
  BY OwnershipInduction
<1>2. IInv /\ TasksOwned /\ [Next]_vars => TasksOwned'
  BY OwnershipInduction, SingleAttemptsQueueOnce
<1>3. IInv /\ TasksOwned => NoTaskForgotten
  BY OwnedNotForgotten
<1>4. QED
  BY <1>1, <1>2, <1>3, Invariance, PTL DEF Spec
=============================================================================
