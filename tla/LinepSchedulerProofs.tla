------------------------ MODULE LinepSchedulerProofs ------------------------
(***************************************************************************)
(* Proofs about LinepScheduler: IInv of LinepSchedulerInv is inductive,    *)
(* and implies type correctness, at most one callback per task, one        *)
(* attempt at a time and a stop() that leaves nothing running.             *)
(***************************************************************************)
EXTENDS LinepSchedulerInv, FiniteSetTheorems, TLAPS

-----------------------------------------------------------------------------
(* Threads, attempts and finite sets of them *)

\* A dispatch thread is a pair of an attempt and a slot.
LEMMA ThreadParts ==
  ASSUME NEW t \in Thread
  PROVE  /\ t[1] \in Attempt /\ t[1][1] \in Corr /\ t[1][2] \in 1..MaxAttempts
         /\ t[2] \in Slot
         /\ t \in ThreadsOf(t[1])
BY DEF Thread, Attempt, ThreadsOf

\* The threads of an attempt are those whose first part it is.
LEMMA ThreadsOfAttempt ==
  ASSUME NEW a \in Attempt
  PROVE  ThreadsOf(a) = {t \in Thread : t[1] = a}
BY DEF Thread, ThreadsOf

\* There are finitely many threads.
LEMMA FiniteThreads == IsFiniteSet(Thread)
<1>1. IsFiniteSet(1..MaxAttempts)
  BY SchedulerAssumption, FS_Interval
<1>2. IsFiniteSet(Attempt)
  BY <1>1, SchedulerAssumption, FS_Product DEF Attempt
<1>3. QED
  BY <1>2, SlotAssumption, FS_Product DEF Thread

\* Hence finitely many of any kind.
LEMMA FiniteSomeThreads ==
  ASSUME NEW S, S \subseteq Thread
  PROVE  IsFiniteSet(S) /\ Cardinality(S) \in Nat
<1>1. IsFiniteSet(S)
  BY FiniteThreads, FS_Subset
<1>2. QED
  BY <1>1, FS_CardinalityType

\* The threads of an attempt that are in flight, said with the thread table.
LEMMA InFlightDef ==
  ASSUME NEW a \in Attempt
  PROVE  /\ InFlight(a) = {t \in Thread : t[1] = a /\ thread[t] \in Unfinished}
         /\ InFlight(a)' = {t \in Thread : t[1] = a /\ thread'[t] \in Unfinished}
BY ThreadsOfAttempt DEF InFlight

\* A selection is a set of slots.
LEMMA SelectionOfSlots ==
  ASSUME NEW tbl, NEW type, NEW n, NEW k,
         NEW S \in SelectBestSlots(tbl, type, n, k)
  PROVE  S \subseteq Slot
<1>1. PICK o \in SortedOrders(tbl, Candidates(tbl, type, n)) : S = FirstPicks(o, k)
  BY DEF SelectBestSlots
<1>2. o \in [DOMAIN o -> Slot]
  BY <1>1 DEF SortedOrders, SetToSeqs, Candidates
<1>3. QED
  BY <1>1, <1>2 DEF FirstPicks, NewWorkerAt

\* The threads one dispatch launches are as many as the slots selected.
LEMMA LaunchedThreads ==
  ASSUME NEW a \in Attempt, NEW S, S \subseteq Slot
  PROVE  /\ {a} \X S \subseteq Thread
         /\ Cardinality({a} \X S) = Cardinality(S)
         /\ Cardinality(S) \in Nat
<1>1. IsFiniteSet(S) /\ Cardinality(S) \in Nat
  BY SlotAssumption, FS_Subset, FS_CardinalityType
<1>2. IsFiniteSet({a}) /\ Cardinality({a}) = 1
  BY FS_Singleton
<1>3. Cardinality({a} \X S) = Cardinality({a}) * Cardinality(S)
  BY <1>1, <1>2, FS_Product
<1>4. QED
  BY <1>1, <1>2, <1>3 DEF Thread
-----------------------------------------------------------------------------
(* What the slot functions return *)

\* A cooldown is a number of time units.
LEMMA CooldownType ==
  ASSUME NEW n \in Nat
  PROVE  CooldownFor(n) \in Nat
BY SlotAssumption DEF CooldownFor

\* A heartbeat keeps a slot well formed.
LEMMA HeartbeatType ==
  ASSUME NEW slot \in SlotState, NEW hb \in HeartbeatFrame, NEW n \in Nat
  PROVE  HeartbeatApplied(slot, hb, n) \in SlotState
BY DEF SlotState, HeartbeatFrame, HeartbeatApplied

\* So does an expiry.
LEMMA ExpiredType ==
  ASSUME NEW slot \in SlotState
  PROVE  SlotExpired(slot) \in SlotState
<1>1. ASSUME NEW b \in BOOLEAN, NEW l \in 0..255
      PROVE  [slot EXCEPT !.alive = b, !.ready = b, !.busy = b, !.load = l] \in SlotState
  BY DEF SlotState
<1>2. FALSE \in BOOLEAN /\ LOAD_OFFLINE \in 0..255
  BY DEF LOAD_OFFLINE
<1>3. QED
  BY <1>1, <1>2 DEF SlotExpired

\* Being chosen, released, registered or failed keeps a slot well formed.
LEMMA MarkedType ==
  ASSUME NEW slot \in SlotState, NEW n \in Nat
  PROVE  /\ [slot EXCEPT !.busy = TRUE, !.lastUsed = n] \in SlotState
         /\ [slot EXCEPT !.busy = FALSE] \in SlotState
         /\ \A type \in TaskType : [slot EXCEPT !.type = type, !.endpoint = TRUE] \in SlotState
         /\ clock \in Nat => SlotFailed(slot) \in SlotState
<1>1. [slot EXCEPT !.busy = TRUE, !.lastUsed = n] \in SlotState
  BY DEF SlotState
<1>2. [slot EXCEPT !.busy = FALSE] \in SlotState
  BY DEF SlotState
<1>3. ASSUME NEW type \in TaskType
      PROVE  [slot EXCEPT !.type = type, !.endpoint = TRUE] \in SlotState
  BY DEF SlotState
<1>4. ASSUME clock \in Nat
      PROVE  SlotFailed(slot) \in SlotState
  <2>1. slot.timeouts + 1 \in Nat
    BY DEF SlotState
  <2>2. clock + CooldownFor(slot.timeouts + 1) \in Nat
    BY <1>4, <2>1, CooldownType
  <2>3. ASSUME NEW m \in Nat, NEW u \in Nat
        PROVE  [slot EXCEPT !.busy = FALSE, !.timeouts = m, !.cooldownUntil = u] \in SlotState
    BY DEF SlotState
  <2>4. QED
    BY <2>1, <2>2, <2>3 DEF SlotFailed
<1>5. QED
  BY <1>1, <1>2, <1>3, <1>4
-----------------------------------------------------------------------------
(* The invariant holds initially *)

\* The slot a first mention of a key creates is well formed.
LEMMA FreshSlotType == FreshSlot \in SlotState
<1>1. InstructType \in TaskType
  BY SlotAssumption
<1>2. 0 \in 0..255 /\ 0 \in Nat /\ FALSE \in BOOLEAN
  OBVIOUS
<1>3. QED
  BY <1>1, <1>2 DEF FreshSlot, SlotState, NEVER

\* Before anything happens no task is owned by anyone.
LEMMA InitIInv == Init => IInv
<1> SUFFICES ASSUME Init PROVE IInv
  OBVIOUS
<1>1. TypeOK
  <2>1. /\ slots \in [Slot -> SlotState] /\ clock \in Nat /\ now \in Nat
    BY FreshSlotType DEF Init, NEVER
  <2>2. /\ request \in [Corr -> [type : TaskType, maxAttempts : 0..MaxAttempts]]
        /\ submitted \subseteq Corr /\ pending \subseteq Entry /\ work \subseteq Entry
        /\ dispatched \subseteq Corr
    BY DEF Init
  <2>3. /\ running \in BOOLEAN /\ active \in Nat
        /\ owner \in {"stopped", "started", "joining", "draining"}
        /\ loop \in {"off", "top", "snapshot", "dispatch", "ended"}
    BY DEF Init
  <2>4. share \in [Attempt -> [done : BOOLEAN, remaining : Nat, results : Seq(WorkerStatus)]]
    BY DEF Init
  <2>5. /\ thread \in [Thread -> ThreadState]
        /\ got \in [Thread -> Status \cup {NoStatus}]
    BY DEF Init, ThreadState
  <2>6. /\ answers \in [Corr -> Seq(Status)]
        /\ replies \in [Corr -> SUBSET WorkerStatus]
    BY DEF Init
  <2>7. QED
    BY <2>1, <2>2, <2>3, <2>4, <2>5, <2>6 DEF TypeOK
<1>2. CountersExact
  <2>1. ASSUME NEW a \in Attempt PROVE share[a].remaining = Cardinality(InFlight(a))
    <3>1. InFlight(a) = {}
      BY InFlightDef DEF Init, Unfinished, InAttempt
    <3>2. QED
      BY <3>1, FS_EmptySet DEF Init
  <2>2. {t \in Thread : thread[t] # "none"} = {}
    BY DEF Init
  <2>3. QED
    BY <2>1, <2>2, FS_EmptySet DEF Init, CountersExact
<1>3. /\ PassShape /\ StopShape /\ QueueOwns /\ AttemptOwns /\ OpenMeansUnclaimed
      /\ ClaimOwns /\ GotShape
  BY DEF Init, PassShape, StopShape, QueueOwns, AttemptOwns, OpenMeansUnclaimed,
         ClaimOwns, GotShape, Unfinished, InAttempt, Claiming
<1>4. NothingBeforeSubmit /\ AtMostOneCallback
  BY DEF Init, NothingBeforeSubmit, AtMostOneCallback, Threads
<1>5. QED
  BY <1>1, <1>2, <1>3, <1>4 DEF IInv
-----------------------------------------------------------------------------
(* Steps that leave the tasks alone *)

\* The part of the invariant that speaks of tasks, attempts and threads.
TaskInv ==
  /\ CountersExact /\ QueueOwns /\ AttemptOwns /\ OpenMeansUnclaimed /\ ClaimOwns
  /\ GotShape /\ NothingBeforeSubmit /\ AtMostOneCallback

\* It is kept by every step that changes neither the queue nor a dispatch thread.
LEMMA TasksUntouched ==
  ASSUME TaskInv,
         UNCHANGED <<submitted, pending, dispatched, share, thread, got, active, answers>>
  PROVE  TaskInv'
<1>1. CountersExact' /\ GotShape' /\ AtMostOneCallback'
  BY DEF TaskInv, CountersExact, GotShape, AtMostOneCallback, InFlight
<1>2. QueueOwns' /\ NothingBeforeSubmit'
  BY DEF TaskInv, QueueOwns, NothingBeforeSubmit, Quiet, Threads
<1>3. AttemptOwns' /\ OpenMeansUnclaimed' /\ ClaimOwns'
  BY DEF TaskInv, AttemptOwns, OpenMeansUnclaimed, ClaimOwns, Threads
<1>4. QED
  BY <1>1, <1>2, <1>3 DEF TaskInv

\* Registration, heartbeats and time only touch the slots and the clock.
LEMMA SlotStep ==
  ASSUME IInv,
         \/ \E s \in Slot, type \in TaskType : RegisterSlot(s, type)
         \/ \E s \in Slot, hb \in Heartbeats : ApplyHeartbeat(s, hb)
         \/ Tick
  PROVE  IInv'
<1>1. UNCHANGED <<request, queueVars, ownerVars, loopVars, taskVars>>
  BY DEF RegisterSlot, ApplyHeartbeat, Tick
<1>2. TaskInv'
  BY <1>1, TasksUntouched DEF IInv, TaskInv, queueVars, loopVars, taskVars
<1>3. PassShape' /\ StopShape'
  BY <1>1 DEF IInv, PassShape, StopShape, queueVars, loopVars, taskVars, ownerVars
<1>4. slots' \in [Slot -> SlotState] /\ clock' \in Nat
  <2> USE DEF IInv, TypeOK
  <2>1. ASSUME NEW s \in Slot, NEW type \in TaskType, RegisterSlot(s, type)
        PROVE  slots' \in [Slot -> SlotState] /\ clock' \in Nat
    <3>1. [slots[s] EXCEPT !.type = type, !.endpoint = TRUE] \in SlotState
      BY MarkedType, 0 \in Nat
    <3>2. slots' = [slots EXCEPT ![s] = [slots[s] EXCEPT !.type = type, !.endpoint = TRUE]]
      BY <2>1 DEF RegisterSlot
    <3>3. QED
      BY <2>1, <3>1, <3>2 DEF RegisterSlot
  <2>2. CASE \E s \in Slot, hb \in Heartbeats : ApplyHeartbeat(s, hb)
    BY <2>2, SchedulerAssumption, HeartbeatType DEF ApplyHeartbeat
  <2>3. CASE Tick
    BY <2>3 DEF Tick
  <2>4. QED
    BY <2>1, <2>2, <2>3
<1>5. TypeOK'
  BY <1>1, <1>4 DEF IInv, TypeOK, queueVars, loopVars, taskVars, ownerVars
<1>6. QED
  BY <1>2, <1>3, <1>5 DEF IInv, TaskInv

\* start(), the three parts of stop(), and the loop's top and snapshot.
LEMMA ControlStep ==
  ASSUME IInv, OwnerStep \/ LoopTop \/ Snapshot \/ UNCHANGED vars
  PROVE  IInv'
<1> USE DEF IInv
<1>1. TaskInv'
  <2>1. UNCHANGED <<submitted, pending, dispatched, share, thread, got, active, answers>>
    BY DEF OwnerStep, Start, StopRequest, StopJoin, StopDrain, LoopTop, Snapshot,
           queueVars, loopVars, taskVars, vars
  <2>2. QED
    BY <2>1, TasksUntouched DEF TaskInv
<1>2. PassShape'
  BY DEF PassShape, OwnerStep, Start, StopRequest, StopJoin, StopDrain, LoopTop,
         Snapshot, StopShape, queueVars, loopVars, taskVars, vars
<1>3. StopShape'
  BY DEF StopShape, OwnerStep, Start, StopRequest, StopJoin, StopDrain, Drained, LoopTop,
         Snapshot, queueVars, loopVars, taskVars, ownerVars, vars
<1>4. slots' \in [Slot -> SlotState] /\ clock' \in Nat /\ now' \in Nat
  <2>1. CASE LoopTop
    BY <2>1, ExpiredType DEF LoopTop, TypeOK
  <2>2. CASE ~LoopTop
    BY <2>2 DEF OwnerStep, Start, StopRequest, StopJoin, StopDrain, Snapshot, TypeOK,
                slotVars, loopVars, vars
  <2>3. QED
    BY <2>1, <2>2
<1>5. TypeOK'
  BY <1>4 DEF TypeOK, OwnerStep, Start, StopRequest, StopJoin, StopDrain, LoopTop,
              Snapshot, queueVars, loopVars, taskVars, ownerVars, slotVars, vars
<1>6. QED
  BY <1>1, <1>2, <1>3, <1>5 DEF TaskInv
-----------------------------------------------------------------------------
(* Steps of the queue *)

\* submit() makes the one entry of a task nobody has heard of.
LEMMA SubmitStep ==
  ASSUME IInv, NEW c \in Corr, Submit(c)
  PROVE  IInv'
<1> DEFINE e == [corr |-> c, attempts |-> 0]
<1> USE DEF IInv
<1>1. /\ c \notin submitted /\ submitted' = submitted \cup {c}
      /\ pending' = pending \cup {e} /\ e \in Entry /\ e.corr = c
      /\ UNCHANGED <<request, slots, clock, running, owner, loop, now, work, dispatched,
                     share, thread, got, active, answers, replies>>
  BY SchedulerAssumption
     DEF Submit, Entry, slotVars, ownerVars, loopVars, taskVars
<1>2. Quiet(c) /\ \A t \in Threads(c) : thread[t] = "none"
  BY <1>1 DEF NothingBeforeSubmit, Quiet, Unfinished, InAttempt, Claiming
<1>3. \A f \in pending : f.corr # c
  BY <1>1 DEF QueueOwns
<1>4. TypeOK' /\ PassShape' /\ StopShape' /\ NothingBeforeSubmit' /\ AtMostOneCallback'
  <2>1. TypeOK'
    BY <1>1 DEF TypeOK
  <2>2. PassShape' /\ StopShape'
    BY <1>1 DEF PassShape, StopShape
  <2>3. NothingBeforeSubmit' /\ AtMostOneCallback'
    BY <1>1 DEF NothingBeforeSubmit, AtMostOneCallback, Threads
  <2>4. QED
    BY <2>1, <2>2, <2>3
<1>5. QueueOwns'
  BY <1>1, <1>2, <1>3 DEF QueueOwns, Quiet, Threads
<1>6. /\ CountersExact' /\ AttemptOwns' /\ OpenMeansUnclaimed' /\ ClaimOwns' /\ GotShape'
  BY <1>1 DEF CountersExact, InFlight, AttemptOwns, OpenMeansUnclaimed, ClaimOwns,
              GotShape, Threads
<1>7. QED
  BY <1>4, <1>5, <1>6

\* The pass drops the entries it looked at; the ones left own their tasks still.
LEMMA EraseStep ==
  ASSUME IInv, EraseDispatched
  PROVE  IInv'
<1> USE DEF IInv
<1>1. /\ work = {} /\ pending' = {e \in pending : e.corr \notin dispatched}
      /\ dispatched' = {} /\ loop = "dispatch" /\ loop' = "top"
      /\ UNCHANGED <<request, submitted, slots, clock, running, owner, now, work,
                     share, thread, got, active, answers, replies>>
  BY DEF EraseDispatched, KeptEntries, slotVars, ownerVars, taskVars
<1>2. TypeOK'
  BY <1>1 DEF TypeOK
<1>3. PassShape' /\ StopShape' /\ NothingBeforeSubmit' /\ AtMostOneCallback'
  BY <1>1 DEF PassShape, StopShape, NothingBeforeSubmit, AtMostOneCallback, Threads
<1>4. QueueOwns'
  BY <1>1 DEF QueueOwns, Quiet, Threads
<1>5. /\ CountersExact' /\ AttemptOwns' /\ OpenMeansUnclaimed' /\ ClaimOwns' /\ GotShape'
  BY <1>1 DEF CountersExact, InFlight, AttemptOwns, OpenMeansUnclaimed, ClaimOwns,
              GotShape, Threads
<1>6. QED
  BY <1>2, <1>3, <1>4, <1>5

\* What the loop knows of the entry it is about to dispatch.
LEMMA EntryInHand ==
  ASSUME IInv, NEW e \in work, DispatchTask(e)
  PROVE  /\ e \in pending /\ e \in Entry /\ e.corr \in Corr /\ e.corr \in submitted
         /\ e.corr \notin dispatched
         /\ Quiet(e.corr)
         /\ \A t \in Threads(e.corr) : t[1][2] > e.attempts => thread[t] = "none"
         /\ loop = "dispatch" /\ owner \notin {"stopped", "draining"}
         /\ <<e.corr, e.attempts + 1>> \in Attempt
<1>1. e \in pending /\ e.corr \notin dispatched
  BY DEF IInv, PassShape
<1>2. e \in Entry
  BY <1>1 DEF IInv, TypeOK
<1>3. e.corr \in Corr /\ e.attempts + 1 \in 1..MaxAttempts
  BY <1>2, SchedulerAssumption DEF Entry
<1>4. <<e.corr, e.attempts + 1>> \in Attempt
  BY <1>3 DEF Attempt
<1>5. QED
  BY <1>1, <1>2, <1>3, <1>4 DEF IInv, QueueOwns, DispatchTask, StopShape

\* What stays whichever way the task goes.
LEMMA DispatchFrame ==
  ASSUME IInv, NEW e \in work, DispatchTask(e)
  PROVE  /\ work' = work \ {e} /\ dispatched' = dispatched \cup {e.corr}
         /\ UNCHANGED <<request, submitted, pending, clock, running, owner, loop, now, got,
                        replies>>
         /\ PassShape'
<1>1. /\ work' = work \ {e} /\ dispatched' = dispatched \cup {e.corr}
      /\ UNCHANGED <<request, submitted, pending, clock, running, owner, loop, now, got,
                     replies>>
  BY DEF DispatchTask, RejectTask, LaunchThreads, queueVars, ownerVars
<1>2. \A f \in work : f.corr = e.corr => f = e
  BY EntryInHand DEF IInv, PassShape, QueueOwns
<1>3. PassShape'
  BY <1>1, <1>2, EntryInHand DEF IInv, PassShape
<1>4. QED
  BY <1>1, <1>3

\* A rejection is the one callback of its task.
LEMMA RejectStep ==
  ASSUME IInv, NEW e \in work, DispatchTask(e), RejectTask(e)
  PROVE  IInv'
<1> DEFINE c == e.corr
<1> USE DEF IInv
<1>1. /\ work' = work \ {e} /\ dispatched' = dispatched \cup {c}
      /\ answers' = [answers EXCEPT ![c] = Append(answers[c], REJECTED)]
      /\ UNCHANGED <<request, submitted, pending, slots, clock, running, owner, loop, now,
                     share, thread, got, active, replies>>
  BY DispatchFrame DEF RejectTask
<1>2. /\ c \in Corr /\ c \in submitted /\ Quiet(c) /\ answers[c] = <<>>
  BY EntryInHand DEF Quiet
<1>3. answers' \in [Corr -> Seq(Status)] /\ answers'[c] = <<REJECTED>>
  BY <1>1, <1>2 DEF TypeOK, Status
<1>4. TypeOK'
  BY <1>1, <1>2, <1>3 DEF TypeOK
<1>5. StopShape' /\ NothingBeforeSubmit' /\ GotShape' /\ AttemptOwns'
  <2>1. StopShape' /\ GotShape'
    BY <1>1 DEF StopShape, GotShape
  <2>2. NothingBeforeSubmit'
    BY <1>1, <1>2 DEF NothingBeforeSubmit, Threads, TypeOK
  <2>3. AttemptOwns'
    BY <1>1 DEF AttemptOwns, Threads
  <2>4. QED
    BY <2>1, <2>2, <2>3
<1>6. CountersExact'
  BY <1>1 DEF CountersExact, InFlight
<1>7. AtMostOneCallback'
  <2>1. Len(answers'[c]) <= 1
    BY <1>3
  <2>2. \A d \in Corr : d # c => answers'[d] = answers[d]
    BY <1>1 DEF TypeOK
  <2>3. QED
    BY <2>1, <2>2 DEF AtMostOneCallback
<1>8. QueueOwns'
  BY <1>1, <1>2 DEF QueueOwns, Quiet, Threads, TypeOK, Entry
<1>9. OpenMeansUnclaimed' /\ ClaimOwns'
  <2>1. \A t \in Threads(c) : thread[t] \notin Unfinished \cup Claiming
    BY <1>2 DEF Quiet
  <2>2. \A t \in Thread : thread[t] \in Unfinished \cup Claiming =>
          t[1][1] # c /\ answers'[t[1][1]] = answers[t[1][1]]
    BY <1>1, <2>1, ThreadParts DEF Threads, TypeOK
  <2>3. QED
    BY <1>1, <2>2 DEF OpenMeansUnclaimed, ClaimOwns, Threads
<1>10. QED
  BY <1>4, <1>5, <1>6, <1>7, <1>8, <1>9, DispatchFrame

\* A launch hands the task from the queue to one new attempt.
LEMMA LaunchStep ==
  ASSUME IInv, NEW e \in work, DispatchTask(e),
         NEW selected, selected \subseteq Slot, LaunchThreads(e, selected)
  PROVE  IInv'
<1> DEFINE c == e.corr
           a == <<e.corr, e.attempts + 1>>
           new == {a} \X selected
<1> USE DEF IInv
<1>1. /\ work' = work \ {e} /\ dispatched' = dispatched \cup {c}
      /\ thread' = [t \in Thread |-> IF t \in new THEN "exchange" ELSE thread[t]]
      /\ share' = [share EXCEPT ![a] = [done |-> FALSE, results |-> <<>>,
                                        remaining |-> Cardinality(selected)]]
      /\ active' = active + Cardinality(selected)
      /\ UNCHANGED <<request, submitted, pending, clock, running, owner, loop, now,
                     got, answers, replies>>
  BY DispatchFrame DEF LaunchThreads, Launching
<1>2. /\ c \in Corr /\ c \in submitted /\ Quiet(c) /\ a \in Attempt
      /\ a[1] = c /\ a[2] = e.attempts + 1 /\ e.attempts \in Int
      /\ \A t \in Threads(c) : t[1][2] > e.attempts => thread[t] = "none"
      /\ owner \notin {"stopped", "draining"}
  BY EntryInHand DEF Entry
<1>3. new \subseteq Thread /\ Cardinality(new) = Cardinality(selected)
      /\ Cardinality(selected) \in Nat
  BY <1>2, LaunchedThreads
<1>4. \A t \in new : t[1] = a /\ t \in Threads(c)
  BY <1>2, <1>3 DEF Threads
<1>5. \A t \in new : thread[t] = "none"
  BY <1>2, <1>4
<1>6. \A t \in Thread : t[1] = a => thread[t] = "none" /\ t \in Threads(c)
  BY <1>2, ThreadParts DEF Threads
<1> HIDE DEF new
<1>7. TypeOK'
  <2>1. slots' \in [Slot -> SlotState]
    BY MarkedType DEF LaunchThreads, TypeOK
  <2>2. share' \in [Attempt -> [done : BOOLEAN, remaining : Nat, results : Seq(WorkerStatus)]]
    BY <1>1, <1>2, <1>3 DEF TypeOK
  <2>3. thread' \in [Thread -> ThreadState]
    BY <1>1 DEF TypeOK, ThreadState, InAttempt
  <2>4. active' \in Nat /\ work' \subseteq Entry /\ dispatched' \subseteq Corr
    BY <1>1, <1>2, <1>3 DEF TypeOK
  <2>5. QED
    BY <1>1, <2>1, <2>2, <2>3, <2>4 DEF TypeOK
<1>8. CountersExact'
  <2>1. ASSUME NEW b \in Attempt PROVE share'[b].remaining = Cardinality(InFlight(b)')
    <3>1. CASE b = a
      <4>1. InFlight(b)' = new
        BY <1>1, <1>3, <1>4, <1>6, <3>1, InFlightDef DEF Unfinished, InAttempt
      <4>2. share'[a].remaining = Cardinality(selected)
        BY <1>1, <1>2 DEF TypeOK
      <4>3. QED
        BY <1>3, <3>1, <4>1, <4>2
    <3>2. CASE b # a
      <4>1. \A t \in Thread : t[1] = b => thread'[t] = thread[t]
        BY <1>1, <1>4, <3>2
      <4>2. InFlight(b)' = InFlight(b)
        BY <4>1, InFlightDef
      <4>3. QED
        BY <1>1, <3>2, <4>2 DEF TypeOK, CountersExact
    <3>3. QED
      BY <3>1, <3>2
  <2>2. active' = Cardinality({t \in Thread : thread'[t] # "none"})
    <3> DEFINE old == {t \in Thread : thread[t] # "none"}
    <3>1. {t \in Thread : thread'[t] # "none"} = old \cup new
      BY <1>1, <1>3
    <3>2. old \cap new = {}
      BY <1>5
    <3>3. IsFiniteSet(old) /\ IsFiniteSet(new) /\ Cardinality(old) \in Nat
      BY <1>3, FiniteSomeThreads
    <3>4. Cardinality(old \cup new) = Cardinality(old) + Cardinality(new)
      BY <1>3, <3>2, <3>3, FS_Union, FS_EmptySet
    <3>5. QED
      BY <1>1, <1>3, <3>1, <3>4 DEF CountersExact
  <2>3. QED
    BY <2>1, <2>2 DEF CountersExact
<1>9. StopShape' /\ AtMostOneCallback'
  BY <1>1, <1>2 DEF StopShape, AtMostOneCallback
<1>10. NothingBeforeSubmit' /\ GotShape'
  BY <1>1, <1>2, <1>4 DEF NothingBeforeSubmit, GotShape, Threads, Claiming
<1>11. QueueOwns'
  <2>1. ASSUME NEW f \in pending, f.corr # c
        PROVE  \A t \in Threads(f.corr) : thread'[t] = thread[t]
    BY <1>1, <1>4, <2>1 DEF Threads
  <2>2. QED
    BY <1>1, <1>2, <2>1 DEF QueueOwns, Quiet, Threads
<1>12. AttemptOwns'
  <2>1. \A t \in Threads(c) : thread'[t] \in Unfinished => t \in new
    BY <1>1, <1>2 DEF Quiet, Threads
  <2>2. \A t \in Threads(c) : t[1][2] > a[2] => thread'[t] = "none"
    BY <1>1, <1>2, <1>4, ThreadParts DEF Threads
  <2>3. \A t \in Thread : t \notin Threads(c) => thread'[t] = thread[t]
    BY <1>1, <1>4
  <2>4. ASSUME NEW t \in Thread, thread'[t] \in Unfinished
        PROVE  \A u \in Threads(t[1][1]) :
                 /\ u[1][2] > t[1][2] => thread'[u] = "none"
                 /\ thread'[u] \in Unfinished => u[1] = t[1]
    <3>1. CASE t \in Threads(c)
      BY <1>2, <1>4, <2>1, <2>2, <2>4, <3>1 DEF Threads
    <3>2. CASE t \notin Threads(c)
      BY <2>3, <2>4, <3>2 DEF AttemptOwns, Threads
    <3>3. QED
      BY <3>1, <3>2
  <2>5. QED
    BY <2>4 DEF AttemptOwns, Threads
<1>13. OpenMeansUnclaimed' /\ ClaimOwns'
  <2>1. \A t \in Thread : thread'[t] \in Claiming => thread[t] \in Claiming /\ t \notin Threads(c)
    BY <1>1, <1>2 DEF Quiet, Claiming
  <2>2. \A t \in Thread : thread'[t] \in Unfinished =>
          IF t \in Threads(c) THEN answers[c] = <<>>
          ELSE thread[t] \in Unfinished /\ share'[t[1]] = share[t[1]]
    BY <1>1, <1>2, <1>4, ThreadParts DEF Quiet, Threads, TypeOK
  <2>3. OpenMeansUnclaimed'
    BY <1>1, <2>1, <2>2 DEF OpenMeansUnclaimed, Threads
  <2>4. ClaimOwns'
    BY <1>1, <2>1 DEF ClaimOwns, Threads
  <2>5. QED
    BY <2>3, <2>4
<1>14. QED
  BY <1>7, <1>8, <1>9, <1>10, <1>11, <1>12, <1>13, DispatchFrame
-----------------------------------------------------------------------------
(* Steps of a dispatch thread *)

\* A thread on whose count nothing depends may move on: between two states
\* before it counts itself out, or between two after it.
LEMMA MoveWithin ==
  ASSUME IInv, NEW t \in Thread, NEW to,
         thread[t] \in Unfinished \cup Claiming, to # "none",
         thread[t] \in Unfinished <=> to \in Unfinished,
         thread' = [thread EXCEPT ![t] = to],
         UNCHANGED <<submitted, pending, dispatched, active>>,
         \A a \in Attempt : share'[a].remaining = share[a].remaining,
         \A c \in Corr : c # t[1][1] => answers'[c] = answers[c]
  PROVE  CountersExact' /\ QueueOwns' /\ AttemptOwns' /\ NothingBeforeSubmit'
<1> USE DEF IInv
<1>1. /\ thread[t] # "none"
      /\ \A u \in Thread : /\ thread'[u] \in Unfinished <=> thread[u] \in Unfinished
                           /\ thread'[u] = "none" <=> thread[u] = "none"
                           /\ u # t => thread'[u] = thread[u]
  BY DEF TypeOK, Unfinished, InAttempt, Claiming
<1>2. CountersExact'
  <2>1. \A a \in Attempt : InFlight(a)' = InFlight(a)
    BY <1>1, InFlightDef
  <2>2. {u \in Thread : thread'[u] # "none"} = {u \in Thread : thread[u] # "none"}
    BY <1>1
  <2>3. QED
    BY <2>1, <2>2 DEF CountersExact
<1>3. t[1][1] \in Corr /\ t \in Threads(t[1][1]) /\ t[1][1] \in submitted
  BY <1>1, ThreadParts DEF Threads, NothingBeforeSubmit
<1>4. QueueOwns'
  <2>1. \A e \in pending : e.corr = t[1][1] => e.corr \in dispatched
    BY <1>3 DEF QueueOwns, Quiet
  <2>2. ASSUME NEW e \in pending, e.corr \notin dispatched
        PROVE  /\ answers'[e.corr] = answers[e.corr]
               /\ \A u \in Threads(e.corr) : thread'[u] = thread[u]
    BY <1>1, <2>1, <2>2 DEF Threads, TypeOK, Entry
  <2>3. QED
    BY <2>2 DEF QueueOwns, Quiet, Threads
<1>5. AttemptOwns'
  BY <1>1 DEF AttemptOwns, Threads
<1>6. NothingBeforeSubmit'
  BY <1>1, <1>3 DEF NothingBeforeSubmit, Threads
<1>7. QED
  BY <1>2, <1>4, <1>5, <1>6

\* An exchange ends, well or badly.
LEMMA ExchangeStep ==
  ASSUME IInv, NEW t \in Thread, Exchange(t)
  PROVE  IInv'
<1> USE DEF IInv
<1>1. PICK to \in {"finish", "record"} :
        /\ thread[t] = "exchange" /\ thread' = [thread EXCEPT ![t] = to]
        /\ slots' \in [Slot -> SlotState]
        /\ got' \in [Thread -> Status \cup {NoStatus}]
        /\ to = "record" => got'[t] \in WorkerStatus
        /\ \A u \in Thread : u # t => got'[u] = got[u]
        /\ replies' \in [Corr -> SUBSET WorkerStatus]
        /\ UNCHANGED <<request, submitted, pending, clock, running, owner, loop, now,
                       work, dispatched, share, active, answers>>
  <2>1. CASE ExchangeFails(t)
    <3>1. slots' \in [Slot -> SlotState]
      BY <2>1, ThreadParts, MarkedType, 0 \in Nat DEF ExchangeFails, TypeOK
    <3>2. QED
      BY <2>1, <3>1 DEF ExchangeFails, Move, TypeOK, queueVars, ownerVars, loopVars
  <2>2. ASSUME NEW st \in WorkerStatus, ExchangeSucceeds(t, st)
        PROVE  /\ thread[t] = "exchange" /\ thread' = [thread EXCEPT ![t] = "record"]
               /\ slots' \in [Slot -> SlotState]
               /\ got' \in [Thread -> Status \cup {NoStatus}]
               /\ got'[t] \in WorkerStatus
               /\ \A u \in Thread : u # t => got'[u] = got[u]
               /\ replies' \in [Corr -> SUBSET WorkerStatus]
               /\ UNCHANGED <<request, submitted, pending, clock, running, owner, loop,
                              now, work, dispatched, share, active, answers>>
    <3>1. slots' \in [Slot -> SlotState]
      BY <2>2, ThreadParts, MarkedType, 0 \in Nat DEF ExchangeSucceeds, TypeOK
    <3>2. /\ got' \in [Thread -> Status \cup {NoStatus}] /\ got'[t] \in WorkerStatus
          /\ \A u \in Thread : u # t => got'[u] = got[u]
      BY <2>2 DEF ExchangeSucceeds, TypeOK, Status
    <3>3. replies' \in [Corr -> SUBSET WorkerStatus]
      BY <2>2, ThreadParts DEF ExchangeSucceeds, TypeOK
    <3>4. QED
      BY <2>2, <3>1, <3>2, <3>3 DEF ExchangeSucceeds, Move, queueVars, ownerVars, loopVars
  <2>3. QED
    BY <2>1, <2>2 DEF Exchange
<1>2. \A u \in Thread : /\ thread'[u] \in Unfinished <=> thread[u] \in Unfinished
                        /\ thread'[u] \in Claiming <=> thread[u] \in Claiming
                        /\ u # t => thread'[u] = thread[u]
  BY <1>1 DEF TypeOK, Unfinished, InAttempt, Claiming
<1>3. TypeOK'
  <2>1. thread' \in [Thread -> ThreadState]
    BY <1>1 DEF TypeOK, ThreadState, InAttempt
  <2>2. QED
    BY <1>1, <2>1 DEF TypeOK
<1>4. CountersExact' /\ QueueOwns' /\ AttemptOwns' /\ NothingBeforeSubmit'
  BY <1>1, MoveWithin DEF Unfinished, InAttempt
<1>5. PassShape' /\ StopShape' /\ AtMostOneCallback'
  BY <1>1 DEF PassShape, StopShape, AtMostOneCallback
<1>6. OpenMeansUnclaimed' /\ ClaimOwns'
  BY <1>1, <1>2 DEF OpenMeansUnclaimed, ClaimOwns, Threads
<1>7. GotShape'
  BY <1>1, <1>2 DEF GotShape, TypeOK, Claiming
<1>8. QED
  BY <1>3, <1>4, <1>5, <1>6, <1>7

\* The first OK of an attempt claims the callback: while the attempt was open
\* nobody had.
LEMMA RecordStep ==
  ASSUME IInv, NEW t \in Thread, RecordResult(t)
  PROVE  IInv'
<1> DEFINE a == t[1]
           c == t[1][1]
           first == ClaimsCallback(t)
           to == IF first THEN "callback" ELSE "finish"
           mine == [share[a] EXCEPT !.results = Append(share[a].results, got[t]),
                                    !.done = share[a].done \/ first]
<1> USE DEF IInv
<1>1. /\ thread[t] = "record" /\ thread' = [thread EXCEPT ![t] = to]
      /\ share' = [share EXCEPT ![a] = mine]
      /\ UNCHANGED <<request, submitted, pending, slots, clock, running, owner, loop, now,
                     work, dispatched, got, active, answers, replies>>
  BY DEF RecordResult, Move, queueVars, slotVars, ownerVars, loopVars
<1>2. a \in Attempt /\ c \in Corr /\ t \in Threads(c) /\ got[t] \in WorkerStatus
  BY <1>1, ThreadParts DEF Threads, GotShape
<1>3. first => ~share[a].done
  BY DEF ClaimsCallback
<1>4. first \in BOOLEAN
  BY DEF ClaimsCallback
<1> HIDE DEF first
<1>5. /\ share[a] \in [done : BOOLEAN, remaining : Nat, results : Seq(WorkerStatus)]
      /\ Append(share[a].results, got[t]) \in Seq(WorkerStatus)
      /\ (share[a].done \/ first) \in BOOLEAN
  BY <1>2, <1>4 DEF TypeOK
<1>6. /\ mine \in [done : BOOLEAN, remaining : Nat, results : Seq(WorkerStatus)]
      /\ mine.remaining = share[a].remaining /\ mine.done = (share[a].done \/ first)
  <2>1. ASSUME NEW r \in [done : BOOLEAN, remaining : Nat, results : Seq(WorkerStatus)],
               NEW q \in Seq(WorkerStatus), NEW d \in BOOLEAN
        PROVE  /\ [r EXCEPT !.results = q, !.done = d]
                     \in [done : BOOLEAN, remaining : Nat, results : Seq(WorkerStatus)]
               /\ [r EXCEPT !.results = q, !.done = d].remaining = r.remaining
               /\ [r EXCEPT !.results = q, !.done = d].done = d
    OBVIOUS
  <2>2. QED
    BY <1>5, <2>1
<1> HIDE DEF mine
<1>7. /\ share' \in [Attempt -> [done : BOOLEAN, remaining : Nat, results : Seq(WorkerStatus)]]
      /\ share'[a].done = (share[a].done \/ first)
      /\ \A b \in Attempt : /\ share'[b].remaining = share[b].remaining
                            /\ b # a => share'[b] = share[b]
  BY <1>1, <1>2, <1>6 DEF TypeOK
<1>8. \A u \in Thread : /\ thread'[u] \in Unfinished <=> thread[u] \in Unfinished
                        /\ u # t => thread'[u] = thread[u]
                        /\ thread'[t] = to
  BY <1>1 DEF TypeOK, Unfinished, InAttempt
<1>9. TypeOK'
  <2>1. thread' \in [Thread -> ThreadState]
    BY <1>1 DEF TypeOK, ThreadState, InAttempt
  <2>2. QED
    BY <1>1, <1>7, <2>1 DEF TypeOK
<1>10. CountersExact' /\ QueueOwns' /\ AttemptOwns' /\ NothingBeforeSubmit'
  BY <1>1, <1>7, MoveWithin DEF Unfinished, InAttempt
<1>11. PassShape' /\ StopShape' /\ AtMostOneCallback'
  BY <1>1 DEF PassShape, StopShape, AtMostOneCallback
<1>12. GotShape'
  BY <1>1, <1>2, <1>8 DEF GotShape, Claiming, Status
<1>13. first => answers[c] = <<>> /\ \A u \in Threads(c) : thread[u] \notin Claiming
  BY <1>1, <1>2, <1>3 DEF OpenMeansUnclaimed, Unfinished, InAttempt
<1>14. ClaimOwns'
  BY <1>1, <1>2, <1>8, <1>13 DEF ClaimOwns, Threads, Claiming
<1>15. OpenMeansUnclaimed'
  <2>1. ASSUME NEW u \in Thread, thread'[u] \in Unfinished, ~share'[u[1]].done
        PROVE  answers[u[1][1]] = <<>> /\ \A v \in Threads(u[1][1]) : thread'[v] \notin Claiming
    <3>1. u[1] \in Attempt /\ ~share[u[1]].done /\ (u[1] = a => ~first)
      BY <1>7, <2>1, ThreadParts DEF TypeOK
    <3>2. u[1] # a => u[1][1] # c
      BY <1>1, <1>2, <1>8, <2>1 DEF AttemptOwns, Threads, Unfinished, InAttempt
    <3>3. answers[u[1][1]] = <<>> /\ \A v \in Threads(u[1][1]) : thread[v] \notin Claiming
      BY <1>8, <2>1, <3>1 DEF OpenMeansUnclaimed
    <3>4. QED
      BY <1>8, <3>1, <3>2, <3>3 DEF Threads, Claiming
  <2>2. QED
    BY <1>1, <2>1 DEF OpenMeansUnclaimed, Threads
<1>16. QED
  BY <1>9, <1>10, <1>11, <1>12, <1>14, <1>15

\* A callback is run by the one thread that claimed it.
LEMMA CallbackStep ==
  ASSUME IInv, NEW t \in Thread, OkCallback(t) \/ LastCallback(t)
  PROVE  IInv'
<1> DEFINE c == t[1][1]
<1> USE DEF IInv
<1>1. PICK to \in {"finish", "exit"} :
        /\ thread[t] \in Claiming /\ thread' = [thread EXCEPT ![t] = to]
        /\ thread[t] \in Unfinished <=> to \in Unfinished
        /\ answers' = [answers EXCEPT ![c] = Append(answers[c], got[t])]
        /\ UNCHANGED <<request, submitted, pending, slots, clock, running, owner, loop, now,
                       work, dispatched, share, got, active, replies>>
  BY DEF OkCallback, LastCallback, RunCallback, Move, Claiming, Unfinished, InAttempt,
         queueVars, slotVars, ownerVars, loopVars
<1>2. c \in Corr /\ t \in Threads(c) /\ got[t] \in Status
  BY <1>1, ThreadParts DEF Threads, GotShape
<1>3. answers[c] = <<>> /\ \A u \in Threads(c) : thread[u] \in Claiming => u = t
  BY <1>1 DEF ClaimOwns
<1>4. /\ answers' \in [Corr -> Seq(Status)] /\ answers'[c] = <<got[t]>>
      /\ \A d \in Corr : d # c => answers'[d] = answers[d]
  BY <1>1, <1>2, <1>3 DEF TypeOK
<1>5. \A u \in Thread : /\ thread'[u] \in Unfinished <=> thread[u] \in Unfinished
                        /\ u # t => thread'[u] = thread[u]
                        /\ thread'[t] = to
  BY <1>1 DEF TypeOK
<1>6. TypeOK'
  <2>1. thread' \in [Thread -> ThreadState]
    BY <1>1 DEF TypeOK, ThreadState, InAttempt
  <2>2. QED
    BY <1>1, <1>4, <2>1 DEF TypeOK
<1>7. CountersExact' /\ QueueOwns' /\ AttemptOwns' /\ NothingBeforeSubmit'
  BY <1>1, <1>4, MoveWithin
<1>8. PassShape' /\ StopShape'
  BY <1>1 DEF PassShape, StopShape
<1>9. AtMostOneCallback'
  <2>1. Len(answers'[c]) <= 1
    BY <1>4
  <2>2. QED
    BY <1>4, <2>1 DEF AtMostOneCallback
<1>10. GotShape'
  BY <1>1, <1>5 DEF GotShape, Claiming
<1>11. ClaimOwns'
  BY <1>2, <1>3, <1>4, <1>5, ThreadParts DEF ClaimOwns, Threads, Claiming
<1>12. OpenMeansUnclaimed'
  <2>1. \A u \in Thread : thread[u] \in Unfinished /\ ~share[u[1]].done => u[1][1] # c
    BY <1>1, <1>2 DEF OpenMeansUnclaimed
  <2>2. QED
    BY <1>1, <1>4, <1>5, <2>1, ThreadParts DEF OpenMeansUnclaimed, Threads, Claiming
<1>13. QED
  BY <1>6, <1>7, <1>8, <1>9, <1>10, <1>11, <1>12

\* Counting out takes one from the counter and one from the threads in flight.
LEMMA FinishCounts ==
  ASSUME IInv, NEW t \in Thread, Finish(t)
  PROVE  /\ thread[t] = "finish"
         /\ \E to \in {"exit", "report"} : thread' = [thread EXCEPT ![t] = to]
         /\ share' \in [Attempt -> [done : BOOLEAN, remaining : Nat, results : Seq(WorkerStatus)]]
         /\ \A b \in Attempt : b # t[1] => share'[b].done = share[b].done
         /\ share[t[1]].done => share'[t[1]].done
         /\ CountersExact'
         /\ LastOfAttempt(t[1]) => InFlight(t[1]) = {t}
<1> DEFINE a == t[1]
           Share == [done : BOOLEAN, remaining : Nat, results : Seq(WorkerStatus)]
<1> USE DEF IInv
<1>1. /\ thread[t] = "finish" /\ UNCHANGED active
      /\ \E to \in {"exit", "report"} : thread' = [thread EXCEPT ![t] = to]
  BY DEF Finish
<1>2. a \in Attempt /\ t \in InFlight(a) /\ InFlight(a) \subseteq Thread
  BY <1>1, ThreadParts, InFlightDef DEF Unfinished
<1>3. IsFiniteSet(InFlight(a)) /\ Cardinality(InFlight(a)) \in Nat
  BY <1>2, FiniteSomeThreads
<1>4. /\ Cardinality(InFlight(a) \ {t}) = Cardinality(InFlight(a)) - 1
      /\ IsFiniteSet(InFlight(a) \ {t}) /\ Cardinality(InFlight(a) \ {t}) \in Nat
  BY <1>2, <1>3, FS_RemoveElement, FiniteSomeThreads
<1>5. share[a].remaining = Cardinality(InFlight(a)) /\ share[a].remaining - 1 \in Nat
  BY <1>2, <1>3, <1>4 DEF CountersExact
<1>6. PICK d \in BOOLEAN :
        /\ share' = [share EXCEPT ![a] = [share[a] EXCEPT !.remaining = share[a].remaining - 1,
                                                          !.done = d]]
        /\ share[a].done => d
  <2>1. share[a] \in Share
    BY <1>2 DEF TypeOK
  <2>2. ASSUME NEW r \in Share, NEW m
        PROVE  /\ [r EXCEPT !.remaining = m] = [r EXCEPT !.remaining = m, !.done = r.done]
               /\ r.done \in BOOLEAN
    OBVIOUS
  <2>3. CASE share' = [share EXCEPT ![a].remaining = @ - 1]
    BY <2>1, <2>2, <2>3
  <2>4. CASE share' = [share EXCEPT ![a].remaining = @ - 1, ![a].done = TRUE]
    <3>1. share' = [share EXCEPT ![a] = [share[a] EXCEPT !.remaining = share[a].remaining - 1,
                                                         !.done = TRUE]]
      BY <1>2, <2>4 DEF TypeOK
    <3>2. QED
      BY <3>1
  <2>5. QED
    BY <2>3, <2>4 DEF Finish
<1>7. /\ share' \in [Attempt -> Share]
      /\ share'[a].remaining = share[a].remaining - 1 /\ share'[a].done = d
      /\ \A b \in Attempt : b # a => share'[b] = share[b]
  <2>1. ASSUME NEW r \in Share, NEW m \in Nat
        PROVE  /\ [r EXCEPT !.remaining = m, !.done = d] \in Share
               /\ [r EXCEPT !.remaining = m, !.done = d].remaining = m
               /\ [r EXCEPT !.remaining = m, !.done = d].done = d
    OBVIOUS
  <2>2. share \in [Attempt -> Share] /\ share[a] \in Share
    BY <1>2 DEF TypeOK
  <2> HIDE DEF Share
  <2>3. [share[a] EXCEPT !.remaining = share[a].remaining - 1, !.done = d] \in Share
    BY <1>5, <2>1, <2>2
  <2>4. QED
    BY <1>2, <1>5, <1>6, <2>1, <2>2, <2>3
<1>8. \A u \in Thread : /\ u # t => thread'[u] = thread[u]
                        /\ thread'[t] \in {"exit", "report"}
  BY <1>1 DEF TypeOK
<1>9. CountersExact'
  <2>1. ASSUME NEW b \in Attempt PROVE share'[b].remaining = Cardinality(InFlight(b)')
    <3>1. CASE b = a
      <4>1. InFlight(b)' = InFlight(a) \ {t}
        BY <1>2, <1>8, <3>1, InFlightDef DEF Unfinished, InAttempt
      <4>2. QED
        BY <1>4, <1>5, <1>7, <3>1, <4>1
    <3>2. CASE b # a
      <4>1. InFlight(b)' = InFlight(b)
        BY <1>8, <3>2, InFlightDef
      <4>2. QED
        BY <1>7, <3>2, <4>1 DEF CountersExact
    <3>3. QED
      BY <3>1, <3>2
  <2>2. {u \in Thread : thread'[u] # "none"} = {u \in Thread : thread[u] # "none"}
    BY <1>1, <1>8
  <2>3. QED
    BY <1>1, <2>1, <2>2 DEF CountersExact
<1>10. LastOfAttempt(a) => InFlight(a) = {t}
  <2>1. ASSUME LastOfAttempt(a) PROVE InFlight(a) \ {t} = {}
    <3>1. Cardinality(InFlight(a) \ {t}) = 0
      BY <1>4, <1>5, <2>1 DEF LastOfAttempt
    <3>2. QED
      BY <1>4, <3>1, FS_EmptySet
  <2>2. QED
    BY <1>2, <2>1
<1>11. QED
  BY <1>1, <1>6, <1>7, <1>9, <1>10

\* The last thread of an attempt reports, or hands the task back to the queue,
\* only when nobody else is working on it.
LEMMA FinishStep ==
  ASSUME IInv, NEW t \in Thread, Finish(t)
  PROVE  IInv'
<1> DEFINE a == t[1]
           c == t[1][1]
           n == t[1][2]
           open == LastOfAttempt(a) /\ ~share[a].done
           results == share[a].results
           retry == [corr |-> c, attempts |-> n]
<1> USE DEF IInv
<1>1. /\ thread[t] = "finish" /\ t \in Threads(c) /\ a \in Attempt /\ c \in Corr
      /\ n \in 1..MaxAttempts
  BY ThreadParts, FinishCounts DEF Threads
<1>2. /\ UNCHANGED <<request, submitted, slots, clock, running, owner, loop, now, work,
                     dispatched, active, answers, replies>>
  BY DEF Finish, slotVars, ownerVars, loopVars
<1>3. PICK to \in {"exit", "report"} : thread' = [thread EXCEPT ![t] = to]
  BY FinishCounts
<1>4. /\ thread'[t] = to /\ thread' \in [Thread -> ThreadState]
      /\ \A u \in Thread : /\ u # t => thread'[u] = thread[u]
                           /\ thread'[u] \in Unfinished => thread[u] \in Unfinished /\ u # t
                           /\ thread'[u] = "none" <=> thread[u] = "none"
  BY <1>1, <1>3 DEF TypeOK, ThreadState, Unfinished, InAttempt
<1>5. c \in submitted
  BY <1>1 DEF NothingBeforeSubmit
<1>6. \A f \in pending : f.corr = c => c \in dispatched
  BY <1>1 DEF QueueOwns, Quiet, Unfinished
<1>7. open => /\ answers[c] = <<>>
              /\ \A u \in Threads(c) : /\ thread[u] \notin Claiming
                                       /\ thread[u] \in Unfinished => u = t
  <2>1. ASSUME open
        PROVE  answers[c] = <<>> /\ \A u \in Threads(c) : thread[u] \notin Claiming
    BY <1>1, <2>1 DEF OpenMeansUnclaimed, Unfinished
  <2>2. ASSUME open, NEW u \in Threads(c), thread[u] \in Unfinished
        PROVE  u = t
    <3>1. u[1] = a
      BY <1>1, <2>2 DEF AttemptOwns, Unfinished
    <3>2. u \in InFlight(a)
      BY <1>1, <2>2, <3>1, InFlightDef DEF Threads
    <3>3. InFlight(a) = {t}
      BY <2>2, FinishCounts
    <3>4. QED
      BY <3>2, <3>3
  <2>3. QED
    BY <2>1, <2>2
<1>8. /\ \/ to = "exit" /\ UNCHANGED <<pending, got>>
         \/ /\ to = "exit" /\ open /\ n < request[c].maxAttempts
            /\ pending' = pending \cup {retry} /\ UNCHANGED got
         \/ /\ to = "report" /\ open /\ UNCHANGED pending /\ share'[a].done
            /\ got' = [got EXCEPT ![t] = IF results = <<>> THEN TIMEOUT ELSE Chosen(results)]
  <2>1. CASE ~open
    <3>1. thread' = [thread EXCEPT ![t] = "exit"] /\ UNCHANGED <<pending, got>>
      BY <2>1 DEF Finish
    <3>2. to = "exit"
      BY <1>4, <3>1 DEF TypeOK
    <3>3. QED
      BY <3>1, <3>2
  <2>2. CASE open /\ results = <<>> /\ n < request[c].maxAttempts
    <3>1. /\ thread' = [thread EXCEPT ![t] = "exit"]
          /\ pending' = pending \cup {retry} /\ UNCHANGED got
      BY <1>1, <2>2 DEF Finish, TypeOK
    <3>2. to = "exit"
      BY <1>4, <3>1 DEF TypeOK
    <3>3. QED
      BY <2>2, <3>1, <3>2
  <2>3. CASE open /\ (results # <<>> \/ n >= request[c].maxAttempts)
    <3>1. ~(results = <<>> /\ n < request[c].maxAttempts)
      BY <1>1, <2>3 DEF TypeOK
    <3>2. /\ thread' = [thread EXCEPT ![t] = "report"] /\ UNCHANGED pending
          /\ share' = [share EXCEPT ![a].remaining = @ - 1, ![a].done = TRUE]
          /\ got' = [got EXCEPT ![t] = IF results = <<>> THEN TIMEOUT ELSE Chosen(results)]
      BY <2>3, <3>1 DEF Finish
    <3>3. to = "report"
      BY <1>3, <1>4, <3>2 DEF TypeOK
    <3>4. share'[a].done
      BY <1>1, <3>2 DEF TypeOK
    <3>5. QED
      BY <2>3, <3>2, <3>3, <3>4
  <2>4. QED
    BY <2>1, <2>2, <2>3 DEF Finish
<1> HIDE DEF open
<1>9. /\ got' \in [Thread -> Status \cup {NoStatus}]
      /\ to = "report" => got'[t] \in Status
      /\ \A u \in Thread : u # t => got'[u] = got[u]
  <2>1. results \in Seq(WorkerStatus)
    BY <1>1 DEF TypeOK
  <2>2. results # <<>> => Chosen(results) \in Status
    BY <2>1 DEF Chosen, Status
  <2>3. QED
    BY <1>8, <2>2 DEF TypeOK, Status
<1>10. pending \subseteq pending' /\ pending' \subseteq pending \cup {retry}
  BY <1>8
<1>11. TypeOK'
  <2>1. n < request[c].maxAttempts => retry \in Entry
    BY <1>1, SchedulerAssumption DEF TypeOK, Entry
  <2>2. pending' \subseteq Entry
    BY <1>8, <2>1 DEF TypeOK
  <2>3. QED
    BY <1>2, <1>4, <1>9, <2>2, FinishCounts DEF TypeOK
<1>12. PassShape' /\ StopShape' /\ AtMostOneCallback' /\ NothingBeforeSubmit'
  <2>1. PassShape' /\ StopShape'
    BY <1>2, <1>10 DEF PassShape, StopShape
  <2>2. AtMostOneCallback' /\ NothingBeforeSubmit'
    BY <1>2, <1>4 DEF AtMostOneCallback, NothingBeforeSubmit, Threads
  <2>3. QED
    BY <2>1, <2>2
<1>13. GotShape'
  BY <1>4, <1>9 DEF GotShape, Claiming
<1>14. AttemptOwns'
  BY <1>4 DEF AttemptOwns, Threads
<1>15. QueueOwns'
  <2>1. ASSUME NEW e \in pending, e.corr \notin dispatched
        PROVE  /\ Quiet(e.corr)'
               /\ \A f \in pending' : f.corr = e.corr => f = e
               /\ \A u \in Threads(e.corr) : u[1][2] > e.attempts => thread'[u] = "none"
    <3>1. e.corr # c
      BY <1>6, <2>1
    <3>2. \A u \in Threads(e.corr) : thread'[u] = thread[u]
      BY <1>4, <3>1 DEF Threads
    <3>3. QED
      BY <1>2, <1>10, <2>1, <3>1, <3>2 DEF QueueOwns, Quiet, Threads
  <2>2. CASE UNCHANGED pending
    BY <1>2, <2>1, <2>2 DEF QueueOwns, Threads
  <2>3. CASE to = "exit" /\ open /\ pending' = pending \cup {retry}
    <3>1. Quiet(c)'
      BY <1>2, <1>4, <1>7, <2>3 DEF Quiet, Threads, Claiming
    <3>2. \A u \in Threads(c) : u[1][2] > n => thread'[u] = "none"
      BY <1>1, <1>4 DEF AttemptOwns, Threads, Unfinished
    <3>3. c \notin dispatched => \A f \in pending' : f.corr = c => f = retry
      BY <1>6, <2>3
    <3>4. QED
      BY <1>2, <1>5, <2>1, <2>3, <3>1, <3>2, <3>3 DEF QueueOwns, Threads
  <2>4. QED
    BY <1>8, <2>2, <2>3
<1>16. OpenMeansUnclaimed'
  <2>1. ASSUME NEW u \in Thread, thread'[u] \in Unfinished, ~share'[u[1]].done
        PROVE  answers[u[1][1]] = <<>> /\ \A v \in Threads(u[1][1]) : thread'[v] \notin Claiming
    <3>1. thread[u] \in Unfinished /\ ~share[u[1]].done /\ u # t
      BY <1>4, <2>1, ThreadParts, FinishCounts DEF TypeOK
    <3>2. answers[u[1][1]] = <<>> /\ \A v \in Threads(u[1][1]) : thread[v] \notin Claiming
      BY <3>1 DEF OpenMeansUnclaimed
    <3>3. open => u[1][1] # c
      BY <1>7, <3>1 DEF Threads
    <3>4. to = "report" => open
      BY <1>8
    <3>5. QED
      BY <1>4, <3>2, <3>3, <3>4 DEF Threads, Claiming
  <2>2. QED
    BY <1>2, <2>1 DEF OpenMeansUnclaimed, Threads
<1>17. ClaimOwns'
  <2>1. to = "report" => open
    BY <1>8
  <2>2. QED
    BY <1>1, <1>2, <1>4, <1>7, <2>1 DEF ClaimOwns, Threads, Claiming
<1>18. QED
  BY <1>11, <1>12, <1>13, <1>14, <1>15, <1>16, <1>17, FinishCounts

\* A thread leaves: one less is running.
LEMMA ExitStep ==
  ASSUME IInv, NEW t \in Thread, Exit(t)
  PROVE  IInv'
<1> DEFINE live == {u \in Thread : thread[u] # "none"}
<1> USE DEF IInv
<1>1. /\ thread[t] = "exit" /\ thread' = [thread EXCEPT ![t] = "none"]
      /\ got' = [got EXCEPT ![t] = NoStatus] /\ active' = active - 1
      /\ UNCHANGED <<request, submitted, pending, slots, clock, running, owner, loop, now,
                     work, dispatched, share, answers, replies>>
  BY DEF Exit, Move, queueVars, slotVars, ownerVars, loopVars
<1>2. \A u \in Thread : /\ u # t => thread'[u] = thread[u]
                        /\ thread'[u] \in Unfinished <=> thread[u] \in Unfinished
                        /\ thread'[u] \in Claiming <=> thread[u] \in Claiming
                        /\ thread[u] = "none" => thread'[u] = "none"
                        /\ thread'[u] = "record" <=> thread[u] = "record"
                        /\ thread'[u] \in Claiming \cup {"record"} => u # t
  BY <1>1 DEF TypeOK, Unfinished, InAttempt, Claiming
<1>3. /\ {u \in Thread : thread'[u] # "none"} = live \ {t}
      /\ active = Cardinality(live)
      /\ Cardinality(live \ {t}) = Cardinality(live) - 1 /\ Cardinality(live \ {t}) \in Nat
  <2>1. t \in live /\ IsFiniteSet(live)
    BY <1>1, FiniteSomeThreads
  <2>2. Cardinality(live \ {t}) = Cardinality(live) - 1 /\ Cardinality(live \ {t}) \in Nat
    BY <2>1, FS_RemoveElement, FiniteSomeThreads
  <2>3. {u \in Thread : thread'[u] # "none"} = live \ {t}
    BY <1>1, <1>2 DEF TypeOK
  <2>4. QED
    BY <2>2, <2>3 DEF CountersExact
<1>4. active' \in Nat /\ active # 0
  BY <1>1, <1>3 DEF TypeOK
<1>5. TypeOK'
  <2>1. thread' \in [Thread -> ThreadState] /\ got' \in [Thread -> Status \cup {NoStatus}]
    BY <1>1 DEF TypeOK, ThreadState
  <2>2. QED
    BY <1>1, <1>4, <2>1 DEF TypeOK
<1>6. CountersExact'
  <2>1. \A a \in Attempt : InFlight(a)' = InFlight(a)
    BY <1>2, InFlightDef
  <2>2. QED
    BY <1>1, <1>3, <2>1 DEF CountersExact
<1>7. PassShape' /\ StopShape' /\ AtMostOneCallback'
  BY <1>1, <1>4 DEF PassShape, StopShape, AtMostOneCallback
<1>8. QueueOwns' /\ NothingBeforeSubmit'
  BY <1>1, <1>2 DEF QueueOwns, Quiet, NothingBeforeSubmit, Threads
<1>9. AttemptOwns' /\ OpenMeansUnclaimed' /\ ClaimOwns'
  BY <1>1, <1>2 DEF AttemptOwns, OpenMeansUnclaimed, ClaimOwns, Threads
<1>10. GotShape'
  BY <1>1, <1>2 DEF GotShape, TypeOK
<1>11. QED
  BY <1>5, <1>6, <1>7, <1>8, <1>9, <1>10
-----------------------------------------------------------------------------
(* The theorems *)

\* Every step of the scheduler keeps the invariant.
LEMMA NextIInv == IInv /\ [Next]_vars => IInv'
<1> SUFFICES ASSUME IInv, [Next]_vars PROVE IInv'
  OBVIOUS
<1>1. CASE Environment
  BY <1>1, SubmitStep, SlotStep DEF Environment
<1>2. CASE OwnerStep \/ LoopTop \/ Snapshot \/ UNCHANGED vars
  BY <1>2, ControlStep
<1>3. ASSUME NEW e \in work, DispatchTask(e)
      PROVE  IInv'
  BY <1>3, RejectStep, LaunchStep, SelectionOfSlots DEF DispatchTask
<1>4. CASE EraseDispatched
  BY <1>4, EraseStep
<1>5. ASSUME NEW t \in Thread, Exchange(t) \/ ThreadStep(t)
      PROVE  IInv'
  BY <1>5, ExchangeStep, RecordStep, CallbackStep, FinishStep, ExitStep DEF ThreadStep
<1>6. QED
  BY <1>1, <1>2, <1>3, <1>4, <1>5 DEF Next, LoopStep

\* The invariant holds of every execution, for every number of tasks, slots,
\* attempts and worker statuses and every set of heartbeats.
THEOREM Invariance == Spec => []IInv
<1>1. Init => IInv
  BY InitIInv
<1>2. IInv /\ [Next]_vars => IInv'
  BY NextIInv
<1>3. QED
  BY <1>1, <1>2, PTL DEF Spec

\* Every variable keeps its type: the counters never go below zero, and no
\* entry is queued with all its attempts made.
THEOREM TypeCorrect == Spec => []TypeOK
<1>1. IInv => TypeOK
  BY DEF IInv
<1>2. QED
  BY <1>1, Invariance, PTL

\* The callback of a task is run at most once.
THEOREM OneCallback == Spec => []AtMostOneCallback
<1>1. IInv => AtMostOneCallback
  BY DEF IInv
<1>2. QED
  BY <1>1, Invariance, PTL

\* Two attempts of a task are never in flight together, and a queued task has
\* none in flight.
THEOREM OneAttempt == Spec => []OneAttemptAtATime
<1>1. IInv => OneAttemptAtATime
  <2> SUFFICES ASSUME IInv, NEW c \in Corr
               PROVE  /\ \A m, n \in 1..MaxAttempts :
                           m # n => InFlight(<<c, m>>) = {} \/ InFlight(<<c, n>>) = {}
                      /\ \A e \in pending : e.corr = c /\ c \notin dispatched =>
                           /\ answers[c] = <<>>
                           /\ \A n \in 1..MaxAttempts : InFlight(<<c, n>>) = {}
    BY DEF OneAttemptAtATime
  <2>1. \A n \in 1..MaxAttempts : <<c, n>> \in Attempt
    BY DEF Attempt
  <2>2. \A n \in 1..MaxAttempts : \A t \in InFlight(<<c, n>>) :
          t \in Threads(c) /\ t[1] = <<c, n>> /\ thread[t] \in Unfinished
    BY <2>1, InFlightDef DEF Threads
  <2>3. \A m, n \in 1..MaxAttempts :
          m # n => InFlight(<<c, m>>) = {} \/ InFlight(<<c, n>>) = {}
    BY <2>2 DEF IInv, AttemptOwns, Threads
  <2>4. \A e \in pending : e.corr = c /\ c \notin dispatched =>
          answers[c] = <<>> /\ \A n \in 1..MaxAttempts : InFlight(<<c, n>>) = {}
    BY <2>2 DEF IInv, QueueOwns, Quiet
  <2>5. QED
    BY <2>3, <2>4
<1>2. QED
  BY <1>1, Invariance, PTL

\* After stop() has returned no loop and no dispatch thread is left.
THEOREM StopLeavesNothing == Spec => []StopIsFinal
<1>1. IInv => StopIsFinal
  <2> SUFFICES ASSUME IInv, owner = "stopped"
               PROVE  loop = "off" /\ \A t \in Thread : thread[t] = "none"
    BY DEF StopIsFinal
  <2> DEFINE live == {t \in Thread : thread[t] # "none"}
  <2>1. loop = "off" /\ Cardinality(live) = 0
    BY DEF IInv, StopShape, CountersExact
  <2>2. live = {}
    BY <2>1, FiniteSomeThreads, FS_EmptySet
  <2>3. QED
    BY <2>1, <2>2
<1>2. QED
  BY <1>1, Invariance, PTL
=============================================================================
