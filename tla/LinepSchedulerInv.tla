------------------------- MODULE LinepSchedulerInv -------------------------
(***************************************************************************)
(* What a selection of slots must be, and the inductive invariant of       *)
(* LinepScheduler.  TLC checks it on the small instances,                  *)
(* LinepSchedulerProofs proves it for all of them.                         *)
(*                                                                         *)
(* The idea: a task that was submitted is owned by exactly one place, a    *)
(* queue entry no pass has looked at, the one attempt in flight, or the    *)
(* one thread that claimed the callback, and ownership moves only through  *)
(* EraseDispatched, DispatchTask, RecordResult and Finish.                 *)
(***************************************************************************)
EXTENDS LinepScheduler

\* README 8.4: a slot that is failed, loading, overloaded, full, unheard of,
\* stale or cooling down at the pass's clock may not be used.
Fit(slot) ==
  /\ slot.alive /\ slot.ready /\ ~slot.error /\ ~slot.loading /\ ~slot.thermal
  /\ slot.load \in 0..89 /\ slot.queue \in 0..7
  /\ slot.lastHeartbeat # NEVER
  /\ now - slot.lastHeartbeat <= HeartbeatTimeout
  /\ ~(now < slot.cooldownUntil)

Usable(type) == {s \in Slot : slots[s].type = type /\ Fit(slots[s])}

\* A selection by what it must be, without sorting: at most one slot per worker,
\* as many as there are workers to use, no slot of a chosen worker better than
\* the chosen one, and no slot of a worker left out better than any chosen one.
IsSelection(S, type, k) ==
  /\ S \subseteq Usable(type)
  /\ \A a, b \in S : a # b => WorkerOf[a] # WorkerOf[b]
  /\ LET workers == {WorkerOf[s] : s \in Usable(type)} IN
       Cardinality(S) = IF Cardinality(workers) < k THEN Cardinality(workers) ELSE k
  /\ \A a \in S, b \in Usable(type) :
       (WorkerOf[b] = WorkerOf[a] \/ \A d \in S : WorkerOf[d] # WorkerOf[b])
         => ~SortsBefore(slots[b], slots[a])

\* The sort-and-walk of select_best_slots returns exactly the selections allowed
\* by that reading, on every table the scheduler comes to hold and for every k
\* up to the one it asks for: it neither misses a worker nor prefers a worse
\* slot because of a tie, and never uses an unfit one.
SelectionIsExact ==
  \A type \in TaskType, k \in 1..Fanout :
    SelectBestSlots(slots, type, now, k) = {S \in SUBSET Slot : IsSelection(S, type, k)}

-----------------------------------------------------------------------------
(* The inductive invariant *)

Threads(c) == {t \in Thread : t[1][1] = c}

\* A thread that has claimed the callback of its task and not yet run it.
Claiming == {"callback", "report"}

Quiet(c) ==
  /\ answers[c] = <<>>
  /\ \A t \in Threads(c) : thread[t] \notin Unfinished \cup Claiming

\* The two atomic counters count what they are meant to count.
CountersExact ==
  /\ \A a \in Attempt : share[a].remaining = Cardinality(InFlight(a))
  /\ active = Cardinality({t \in Thread : thread[t] # "none"})

\* The loop's private variables, while it is and while it is not in a pass.
PassShape ==
  /\ work \subseteq pending
  /\ \A e \in work : e.corr \notin dispatched
  /\ loop # "dispatch" => work = {} /\ dispatched = {}

\* stop() joins the loop before it waits for the threads.
StopShape ==
  /\ (running <=> owner = "started")
  /\ owner \in {"draining", "stopped"} => loop = "off"
  /\ owner = "stopped" => active = 0

\* A queue entry no pass has looked at owns its task: it is the only one, no
\* thread is working on the task, and no later attempt was ever begun.
QueueOwns ==
  \A e \in pending :
    /\ e.corr \in submitted
    /\ e.corr \notin dispatched =>
         /\ Quiet(e.corr)
         /\ \A f \in pending : f.corr = e.corr => f = e
         /\ \A t \in Threads(e.corr) : t[1][2] > e.attempts => thread[t] = "none"

\* Only the newest attempt of a task can be in flight.
AttemptOwns ==
  \A t \in Thread : thread[t] \in Unfinished =>
    \A u \in Threads(t[1][1]) :
      /\ u[1][2] > t[1][2] => thread[u] = "none"
      /\ thread[u] \in Unfinished => u[1] = t[1]

\* While an attempt in flight is not done, nobody has claimed the callback.
OpenMeansUnclaimed ==
  \A t \in Thread : thread[t] \in Unfinished /\ ~share[t[1]].done =>
    /\ answers[t[1][1]] = <<>>
    /\ \A u \in Threads(t[1][1]) : thread[u] \notin Claiming

\* A claim is unique and comes before the callback.
ClaimOwns ==
  \A t \in Thread : thread[t] \in Claiming =>
    /\ answers[t[1][1]] = <<>>
    /\ \A u \in Threads(t[1][1]) : thread[u] \in Claiming => u = t

\* What a thread holds when it records or reports.
GotShape ==
  \A t \in Thread :
    /\ thread[t] = "record" => got[t] \in WorkerStatus
    /\ thread[t] \in Claiming => got[t] \in Status

NothingBeforeSubmit ==
  \A c \in Corr \ submitted :
    answers[c] = <<>> /\ \A t \in Threads(c) : thread[t] = "none"

IInv ==
  /\ TypeOK /\ CountersExact /\ PassShape /\ StopShape
  /\ QueueOwns /\ AttemptOwns /\ OpenMeansUnclaimed /\ ClaimOwns
  /\ GotShape /\ NothingBeforeSubmit /\ AtMostOneCallback

-----------------------------------------------------------------------------
(* Three further invariants, each inductive together with IInv *)

\* The pass's clock is never ahead, and no cooldown reaches further than one
\* that began now with the failures the slot has had: the next one ends later.
CooldownBounded ==
  /\ now <= clock
  /\ \A s \in Slot :
       slots[s].cooldownUntil <= clock + CooldownFor(slots[s].timeouts)

\* The statuses of c that dispatch threads hold and have not recorded.
Held(c) == {got[t] : t \in {u \in Threads(c) : thread[u] = "record"}}

\* A task that waits for an attempt was answered by no worker so far.
QueueUnanswered ==
  /\ \A c \in Corr \ submitted : replies[c] = {}
  /\ \A e \in pending : e.corr \notin dispatched => replies[e.corr] = {}

\* Everything workers answered of a task is in the list of the attempt in
\* flight, or in the hands of a thread that will put it there; and while an
\* attempt is in flight nothing but OK was reported.
RepliesRecorded ==
  \A t \in Thread : thread[t] \in Unfinished =>
    /\ replies[t[1][1]] = ToSet(share[t[1]].results) \cup Held(t[1][1])
    /\ answers[t[1][1]] \in {<<>>, <<OK>>}

\* A claim made while others of the attempt go on is an OK some worker sent; a
\* claim made by the last one is the best there is, and stays it.
ClaimReportable ==
  \A t \in Thread :
    /\ thread[t] = "callback" => got[t] = OK /\ OK \in replies[t[1][1]]
    /\ thread[t] = "report" =>
         /\ Delivery!Reportable(t[1][1], got[t])
         /\ \A u \in Threads(t[1][1]) : thread[u] \notin Unfinished

DeliveryInv == QueueUnanswered /\ RepliesRecorded /\ ClaimReportable

\* NoTaskForgotten, with the entries that the pass under way will erase left out.
Owned(c) ==
  \/ answers[c] # <<>>
  \/ \E e \in pending : e.corr = c /\ c \notin dispatched
  \/ \E t \in Threads(c) : thread[t] \in Unfinished \cup {"report"}

\* What it takes: an attempt is done only when somebody claimed the callback, so
\* that the last thread may leave it at that; and the entries a pass has yet to
\* erase are of earlier attempts than the one in flight, so that a retry is new.
TasksOwned ==
  /\ dispatched \subseteq submitted
  /\ \A c \in submitted : Owned(c)
  /\ \A a \in Attempt : share[a].done =>
       answers[a[1]] # <<>> \/ \E t \in Threads(a[1]) : thread[t] \in Claiming
  /\ \A t \in Thread : thread[t] \in Unfinished =>
       \A e \in pending : e.corr = t[1][1] => e.attempts < t[1][2]

\* A step that queues an entry does so for a task the pass under way has not
\* looked at.  The code does not see to this: a retry queued during the pass that
\* dispatched its task is erased at the end of that pass.
QueuesAfterPass == \A e \in pending' \ pending : e.corr \notin dispatched
=============================================================================
