--------------------------- MODULE LinepScheduler ---------------------------
(***************************************************************************)
(* The LiNeP task scheduler, SchedulerImpl of scheduler.cpp: callers       *)
(* submit tasks; one loop thread hands each pending task to up to three    *)
(* slots on distinct workers; one detached thread per chosen slot talks to *)
(* that worker over TCP; the first OK answer, or the last thread of the    *)
(* attempt, runs the caller's callback; an attempt in which no worker      *)
(* answered is queued again.  Heartbeats, start() and stop() run at the    *)
(* same time.                                                              *)
(*                                                                         *)
(* Each action is one critical section of the code (slots_mu_, pending_mu_,*)
(* result_lock) or one atomic operation, with the private computation next *)
(* to it.  The order of the deque is not modelled: the loop takes the      *)
(* entries of its snapshot in any order.                                   *)
(***************************************************************************)
EXTENDS LinepSlots

CONSTANTS
  Corr,          \* correlation ids corr_gen_ hands out (no 2^32 wrap-around)
  MaxAttempts,   \* bound on the max_attempts a caller passes to submit()
  WorkerStatus,  \* status bytes a worker's answer can carry
  Heartbeats,    \* heartbeat frames the workers send
  MaxClock       \* bound on the clock

NoStatus == "none"
OK == "RESULT_OK"
REJECTED == "RESULT_REJECTED"
TIMEOUT == "RESULT_TIMEOUT"
Status == {OK, REJECTED, TIMEOUT} \cup WorkerStatus

ASSUME SchedulerAssumption ==
  /\ IsFiniteSet(Corr)
  /\ MaxAttempts \in Nat \ {0}
  /\ MaxClock \in Nat \ {0}
  /\ Heartbeats \subseteq HeartbeatFrame
  /\ NoStatus \notin Status

Fanout == 3
Attempt == Corr \X (1..MaxAttempts)
Thread == Attempt \X Slot
ThreadsOf(a) == {a} \X Slot

VARIABLES
  request,     \* what the caller of submit() passes for each correlation id
  submitted,   \* correlation ids already handed out
  pending,     \* pending_: entries with the attempts made so far
  slots,       \* slots_
  clock,       \* steady_clock
  running,     \* running_
  owner,       \* the thread that calls start() and stop()
  loop,        \* where the loop thread is
  now,         \* the loop's now, read once per pass
  work,        \* the part of the snapshot this pass has not looked at yet
  dispatched,  \* the correlation ids this pass has looked at
  share,       \* the SharedDispatchState of each attempt
  thread,      \* where each dispatch thread is
  got,         \* the status a dispatch thread holds
  active,      \* active_dispatch_count_
  answers,     \* history: the callback calls of each task
  replies      \* history: the statuses workers returned for each task

loopVars  == <<loop, now, work, dispatched>>
queueVars == <<submitted, pending>>
slotVars  == <<slots, clock>>
ownerVars == <<running, owner>>
taskVars  == <<share, thread, got, active, answers, replies>>
vars == <<request, queueVars, slotVars, ownerVars, loopVars, taskVars>>

\* An entry is queued with fewer attempts made than its task may have.
Entry == [corr : Corr, attempts : 0..(MaxAttempts - 1)]

\* A dispatch thread that has not yet counted itself out of its attempt.
InAttempt == {"exchange", "record", "callback"}
ThreadState == {"none", "finish", "report", "exit"} \cup InAttempt
Unfinished == InAttempt \cup {"finish"}

Init ==
  /\ request \in [Corr -> [type : TaskType, maxAttempts : 0..MaxAttempts]]
  /\ submitted = {}
  /\ pending = {}
  /\ slots = [s \in Slot |-> FreshSlot]
  /\ clock = 1
  /\ running = FALSE
  /\ owner = "stopped"
  /\ loop = "off"
  /\ now = NEVER
  /\ work = {}
  /\ dispatched = {}
  /\ share = [a \in Attempt |-> [done |-> FALSE, remaining |-> 0, results |-> <<>>]]
  /\ thread = [t \in Thread |-> "none"]
  /\ got = [t \in Thread |-> NoStatus]
  /\ active = 0
  /\ answers = [c \in Corr |-> <<>>]
  /\ replies = [c \in Corr |-> {}]

-----------------------------------------------------------------------------
(* Calls from outside *)

Submit(c) ==
  /\ c \notin submitted
  /\ submitted' = submitted \cup {c}
  /\ pending' = pending \cup {[corr |-> c, attempts |-> 0]}
  /\ UNCHANGED <<request, slotVars, ownerVars, loopVars, taskVars>>

RegisterSlot(s, type) ==
  /\ slots' = [slots EXCEPT ![s].type = type, ![s].endpoint = TRUE]
  /\ UNCHANGED <<request, queueVars, clock, ownerVars, loopVars, taskVars>>

ApplyHeartbeat(s, hb) ==
  /\ slots' = [slots EXCEPT ![s] = HeartbeatApplied(@, hb, clock)]
  /\ UNCHANGED <<request, queueVars, clock, ownerVars, loopVars, taskVars>>

Tick ==
  /\ clock < MaxClock
  /\ clock' = clock + 1
  /\ UNCHANGED <<request, queueVars, slots, ownerVars, loopVars, taskVars>>

Start ==
  /\ owner = "stopped"
  /\ owner' = "started"
  /\ running' = TRUE
  /\ loop' = "top"
  /\ UNCHANGED <<request, queueVars, slotVars, now, work, dispatched, taskVars>>

StopRequest ==
  /\ owner = "started"
  /\ owner' = "joining"
  /\ running' = FALSE
  /\ UNCHANGED <<request, queueVars, slotVars, loopVars, taskVars>>

StopJoin ==
  /\ owner = "joining"
  /\ loop = "ended"
  /\ owner' = "draining"
  /\ loop' = "off"
  /\ UNCHANGED <<request, queueVars, slotVars, running, now, work, dispatched, taskVars>>

\* Mutated form of Drained: stop() does not wait for the dispatch threads.
Drained_AtOnce == TRUE

\* Mutated form of Drained: while (count >= 0).
Drained_OffByOne == active < 0

\* The spin loop of stop() ends.
Drained == active = 0

StopDrain ==
  /\ owner = "draining"
  /\ Drained
  /\ owner' = "stopped"
  /\ UNCHANGED <<request, queueVars, slotVars, running, loopVars, taskVars>>

-----------------------------------------------------------------------------
(* The loop thread *)

\* One turn of the loop begins: leave if stop() was called, otherwise read the
\* clock and expire the slots not heard of.
LoopTop ==
  /\ loop = "top"
  /\ \/ /\ running
        /\ loop' = "snapshot"
        /\ now' = clock
        /\ slots' = [s \in Slot |-> IF IsStale(slots[s], clock)
                                    THEN SlotExpired(slots[s]) ELSE slots[s]]
     \/ /\ ~running
        /\ loop' = "ended"
        /\ UNCHANGED <<now, slots>>
  /\ UNCHANGED <<request, queueVars, clock, ownerVars, work, dispatched, taskVars>>

\* The snapshot under pending_mu_.  With nothing pending the loop waits, at most
\* 10 ms, and begins again.
Snapshot ==
  /\ loop = "snapshot"
  /\ work' = pending
  /\ loop' = IF pending = {} THEN "top" ELSE "dispatch"
  /\ UNCHANGED <<request, queueVars, slotVars, ownerVars, now, dispatched, taskVars>>

\* No slot: the callback runs at once, on the loop thread.
RejectTask(e) ==
  /\ answers' = [answers EXCEPT ![e.corr] = Append(@, REJECTED)]
  /\ UNCHANGED <<slots, share, thread, got, active, replies>>

\* Mutated form of Launching: counted once per task.
Launching_PerTask(selected) == active + 1

\* active_dispatch_count_ goes up once per thread, before the thread exists.
Launching(selected) == active + Cardinality(selected)

\* One detached thread per selected slot, all sharing the attempt's state.
LaunchThreads(e, selected) ==
  LET a == <<e.corr, e.attempts + 1>> IN
  /\ slots' = [s \in Slot |-> IF s \in selected
                 THEN [slots[s] EXCEPT !.busy = TRUE, !.lastUsed = now]
                 ELSE slots[s]]
  /\ share' = [share EXCEPT ![a] = [done |-> FALSE, results |-> <<>>,
                                    remaining |-> Cardinality(selected)]]
  /\ thread' = [t \in Thread |-> IF t \in {a} \X selected THEN "exchange"
                                                          ELSE thread[t]]
  /\ active' = Launching(selected)
  /\ UNCHANGED <<got, answers, replies>>

DispatchTask(e) ==
  /\ loop = "dispatch"
  /\ e \in work
  /\ work' = work \ {e}
  /\ dispatched' = dispatched \cup {e.corr}
  /\ \E selected \in SelectBestSlots(slots, request[e.corr].type, now, Fanout) :
       \/ selected = {} /\ RejectTask(e)
       \/ selected # {} /\ LaunchThreads(e, selected)
  /\ UNCHANGED <<request, queueVars, clock, ownerVars, loop, now>>

\* Mutated form of KeptEntries: the queue is cleared after the pass.
KeptEntries_None == {}

KeptEntries == {e \in pending : e.corr \notin dispatched}

\* The pass ends: every entry with a dispatched id leaves pending_, whether it
\* was in the snapshot or not.
EraseDispatched ==
  /\ loop = "dispatch"
  /\ work = {}
  /\ pending' = KeptEntries
  /\ dispatched' = {}
  /\ loop' = "top"
  /\ UNCHANGED <<request, submitted, slotVars, ownerVars, now, work, taskVars>>

-----------------------------------------------------------------------------
(* A dispatch thread t = <<<<correlation id, attempt>>, slot>> *)

Move(t, from, to) ==
  /\ thread[t] = from
  /\ thread' = [thread EXCEPT ![t] = to]

\* on_slot_transport_failure
SlotFailed(slot) ==
  LET failures == slot.timeouts + 1 IN
  [slot EXCEPT !.busy = FALSE, !.timeouts = failures,
               !.cooldownUntil = clock + CooldownFor(failures)]

\* Connecting, sending or receiving fails, or the reply header is not valid.
ExchangeFails(t) ==
  /\ Move(t, "exchange", "finish")
  /\ slots' = [slots EXCEPT ![t[2]] = SlotFailed(@)]
  /\ UNCHANGED <<request, queueVars, clock, ownerVars, loopVars,
                 share, got, active, answers, replies>>

\* The worker answers with status st; a slot without an endpoint has port 0 and
\* never does.
ExchangeSucceeds(t, st) ==
  LET c == t[1][1]  s == t[2] IN
  /\ slots[s].endpoint
  /\ Move(t, "exchange", "record")
  /\ slots' = [slots EXCEPT ![s].busy = FALSE]
  /\ got' = [got EXCEPT ![t] = st]
  /\ replies' = [replies EXCEPT ![c] = @ \cup {st}]
  /\ UNCHANGED <<request, queueVars, clock, ownerVars, loopVars, share, active, answers>>

\* Mutated form of ClaimsCallback: done is not looked at.
ClaimsCallback_EveryOk(t) == got[t] = OK

\* The compare-exchange on done: only the first OK of an attempt wins it.
ClaimsCallback(t) == got[t] = OK /\ ~share[t[1]].done

\* The result joins the attempt's list; the first OK claims the callback.
RecordResult(t) ==
  LET a == t[1]  first == ClaimsCallback(t) IN
  /\ Move(t, "record", IF first THEN "callback" ELSE "finish")
  /\ share' = [share EXCEPT ![a].results = Append(@, got[t]),
                            ![a].done = @ \/ first]
  /\ UNCHANGED <<request, queueVars, slotVars, ownerVars, loopVars,
                 got, active, answers, replies>>

RunCallback(t, from, to) ==
  LET c == t[1][1] IN
  /\ Move(t, from, to)
  /\ answers' = [answers EXCEPT ![c] = Append(@, got[t])]
  /\ UNCHANGED <<request, queueVars, slotVars, ownerVars, loopVars,
                 share, got, active, replies>>

OkCallback(t) == RunCallback(t, "callback", "finish")
LastCallback(t) == RunCallback(t, "report", "exit")

\* The result the last thread reports: the first OK, else the first one.
Chosen(results) == IF OK \in ToSet(results) THEN OK ELSE Head(results)

\* Mutated form of LastOfAttempt: the value after the subtraction is compared.
LastOfAttempt_OneEarly(a) == share[a].remaining = 2

\* remaining.fetch_sub(1) == 1
LastOfAttempt(a) == share[a].remaining = 1

\* The thread counts itself out; the last one of an attempt nobody completed
\* reports a result, queues the task again, or gives up.
Finish(t) ==
  LET a == t[1]  c == a[1]  n == a[2]
      open == LastOfAttempt(a) /\ ~share[a].done
      results == share[a].results
  IN
  /\ thread[t] = "finish"
  /\ \/ /\ ~open
        /\ thread' = [thread EXCEPT ![t] = "exit"]
        /\ share' = [share EXCEPT ![a].remaining = @ - 1]
        /\ UNCHANGED <<pending, got>>
     \/ /\ open /\ results = <<>> /\ n < request[c].maxAttempts
        /\ thread' = [thread EXCEPT ![t] = "exit"]
        /\ share' = [share EXCEPT ![a].remaining = @ - 1]
        /\ pending' = pending \cup {[corr |-> c, attempts |-> n]}
        /\ UNCHANGED got
     \/ /\ open /\ (results # <<>> \/ n >= request[c].maxAttempts)
        /\ thread' = [thread EXCEPT ![t] = "report"]
        /\ share' = [share EXCEPT ![a].remaining = @ - 1, ![a].done = TRUE]
        /\ got' = [got EXCEPT ![t] = IF results = <<>> THEN TIMEOUT
                                                       ELSE Chosen(results)]
        /\ UNCHANGED pending
  /\ UNCHANGED <<request, submitted, slotVars, ownerVars, loopVars,
                 active, answers, replies>>

Exit(t) ==
  /\ Move(t, "exit", "none")
  /\ got' = [got EXCEPT ![t] = NoStatus]
  /\ active' = active - 1
  /\ UNCHANGED <<request, queueVars, slotVars, ownerVars, loopVars,
                 share, answers, replies>>

-----------------------------------------------------------------------------
Exchange(t) == ExchangeFails(t) \/ \E st \in WorkerStatus : ExchangeSucceeds(t, st)

\* The steps of a dispatch thread that wait for nobody.
ThreadStep(t) ==
  RecordResult(t) \/ OkCallback(t) \/ Finish(t) \/ LastCallback(t) \/ Exit(t)

LoopStep ==
  LoopTop \/ Snapshot \/ (\E e \in work : DispatchTask(e)) \/ EraseDispatched

OwnerStep == Start \/ StopRequest \/ StopJoin \/ StopDrain

Environment ==
  \/ \E c \in Corr : Submit(c)
  \/ \E s \in Slot, type \in TaskType : RegisterSlot(s, type)
  \/ \E s \in Slot, hb \in Heartbeats : ApplyHeartbeat(s, hb)
  \/ Tick

Next ==
  \/ Environment
  \/ OwnerStep
  \/ LoopStep
  \/ \E t \in Thread : Exchange(t) \/ ThreadStep(t)

Spec == Init /\ [][Next]_vars

\* The operating system runs every thread that can run; stop() waits.
SchedulingFairness ==
  /\ WF_vars(LoopStep)
  /\ WF_vars(StopJoin) /\ WF_vars(StopDrain)
  /\ \A t \in Thread : WF_vars(ThreadStep(t))

\* Every worker eventually answers or closes the connection.
WorkersAnswer == \A t \in Thread : WF_vars(Exchange(t))

FairSpec == Spec /\ SchedulingFairness /\ WorkersAnswer

-----------------------------------------------------------------------------
(* Properties *)

TypeOK ==
  /\ request \in [Corr -> [type : TaskType, maxAttempts : 0..MaxAttempts]]
  /\ submitted \subseteq Corr
  /\ pending \subseteq Entry
  /\ slots \in [Slot -> SlotState]
  /\ clock \in Nat
  /\ running \in BOOLEAN
  /\ owner \in {"stopped", "started", "joining", "draining"}
  /\ loop \in {"off", "top", "snapshot", "dispatch", "ended"}
  /\ now \in Nat
  /\ work \subseteq Entry
  /\ dispatched \subseteq Corr
  /\ share \in [Attempt -> [done : BOOLEAN, remaining : Nat, results : Seq(WorkerStatus)]]
  /\ thread \in [Thread -> ThreadState]
  /\ got \in [Thread -> Status \cup {NoStatus}]
  /\ active \in Nat
  /\ answers \in [Corr -> Seq(Status)]
  /\ replies \in [Corr -> SUBSET WorkerStatus]

\* The threads of an attempt that have not counted themselves out.
InFlight(a) == {t \in ThreadsOf(a) : thread[t] \in Unfinished}

\* However the answers, failures and retries of a task interleave, the callback
\* given to submit() (scheduler.hpp:28) is never run a second time.
AtMostOneCallback == \A c \in Corr : Len(answers[c]) <= 1

\* A task is never worked on by two attempts at once: it waits for its next
\* attempt only when every thread of the last one has counted itself out and
\* nothing was reported (the remaining counter of dispatch_one_slot).
OneAttemptAtATime ==
  \A c \in Corr :
    /\ \A m, n \in 1..MaxAttempts :
         m # n => InFlight(<<c, m>>) = {} \/ InFlight(<<c, n>>) = {}
    /\ \A e \in pending : e.corr = c /\ c \notin dispatched =>
         answers[c] = <<>> /\ \A n \in 1..MaxAttempts : InFlight(<<c, n>>) = {}

\* When stop() has returned nothing of the scheduler is left running, so no
\* callback can come after it, also after start() was called again.
StopIsFinal ==
  owner = "stopped" => loop = "off" /\ \A t \in Thread : thread[t] = "none"

Launched(s) ==
  \E t \in Thread : t[2] = s /\ thread[t] = "none" /\ thread'[t] = "exchange"

\* A slot that failed is left alone until its cooldown is over by the clock,
\* though the pass that chooses it reads the clock only once, and nothing (a
\* heartbeat, an expiry, a success, a later failure) cuts a cooldown short.
CooldownHonoured ==
  [][\A s \in Slot : /\ slots'[s].cooldownUntil >= slots[s].cooldownUntil
                     /\ Launched(s) => clock >= slots[s].cooldownUntil]_vars

\* Every submitted task was reported, waits in the queue, or has a dispatch
\* thread that will report it or queue it again.
NoTaskForgotten ==
  \A c \in submitted :
    \/ answers[c] # <<>>
    \/ \E e \in pending : e.corr = c
    \/ \E t \in Thread : t[1][1] = c /\ thread[t] \in Unfinished \cup {"report"}

\* Unless stop() is called, the callback of every submitted task is run.
EveryTaskAnswered ==
  \A c \in Corr : c \in submitted /\ running ~> answers[c] # <<>> \/ ~running

\* stop() returns.
StopReturns == owner = "joining" ~> owner = "stopped"

\* The promise to the caller: at most one report, and the best one.
Delivery == INSTANCE TaskDelivery WITH NoAnswer <- {REJECTED, TIMEOUT}
DeliverySpec == Delivery!Spec
=============================================================================
