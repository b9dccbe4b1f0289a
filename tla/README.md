# LIARA: specifications, model checking and proofs

Paths are relative to the repository; `linep/` stands for
`src/src/emeddingserver/linep/`, other Python and C++ paths for those under
`src/`.

## 1. The system

LIARA is an orchestration platform around language models. A FastAPI
application and some twenty Python services (`services/`) plan, call tools,
remember and validate; C++ programs under `src/emeddingserver/` serve
embeddings and distribute inference tasks over a protocol of their own, LiNeP.
`src/llama.cpp` is vendored. The parts that carry state of their own:

| Component | State | Operations | Hard behaviour |
|---|---|---|---|
| LiNeP scheduler (`linep/src/scheduler`) | task queue, slot table, one shared record per attempt, running flag, count of dispatch threads | submit, register_slot, apply_heartbeat, start, stop; loop; dispatch thread per slot | a loop and any number of detached threads share the queue, the slots and the attempts; retries; shutdown |
| LiNeP TCP exchange (`linep/src/tcp`, `core`, `pal`) | listening socket, handler threads, one connection per task | send_task; accept, receive, call back, answer | no receive timeout on the caller's side, silent loss, header extensions, shutdown joins handlers |
| LiNeP UDP heartbeat (`linep/src/udp`) | three status bytes, sequence byte, two threads | set_status, send every interval, receive, validate, call back | lost, repeated, reordered frames; a status read while it is written |
| Embedding endpoint (`embedding_linep.cpp`) | queue depth, heartbeat sender, detached handlers | start, stop, handle_client, update_heartbeat | handlers race on what is published and with stop |
| Embedding engine (`embedding_engine.cpp`) | model, ready/degraded flags under a mutex | load, embed | one mutex, numeric code |
| Inference queue (`services/inference/queue.py`, `invocation.py`) | Redis stream, consumer group with its pending list, one reply stream per request; attempts and errors of each call | infer, enqueue, wait_for_result; process_next, serve_forever | crash between read, reply and acknowledge; deadlines; late replies |
| Inference gateway (`services/inference/gateway.py`) | a circuit breaker per provider | infer: one provider, a chain of fallbacks, a race of two | half-open probes that are cancelled or answered late; fallback order |
| Governance (`services/api/storage/governance_repository.py`, `services/api/services/governance_service.py`, `routers/governance.py`, `routers/tools.py`) | proposals, operations, invocation counts and checkpoints in Postgres | create, decide, resume, invoke, apply, roll back, recover stale operations | compare-and-set and row-lock races between requests on several processes; requests that die between transactions |
| Memory dreaming (`services/memory/stores/backed.py`, `quality_signals.py`) | staged items, proposals, index rows, validator jobs: rows of a key-value table | stage, discard, run, attach assurance, decide, clean up | every row is read and written on its own, with awaits between; requests interleave and die |
| Workspace agent (`services/orchestrator/workspace_agent.py`) | step loop, pending approval | run, resume after a decision | an action executed twice or never around a governance decision |

How they interact: heartbeats published by endpoints reach the scheduler as UDP
frames (`apply_heartbeat`), the scheduler talks to workers over one TCP
connection per slot and task, callers receive their result through a callback.
The Python side talks to inference either directly through the gateway or
through the queue, and changes to itself through governance; the workspace agent
leaves a checkpoint proposal behind and is resumed by its decision. Proposals
about memory are a store of their own, assured by validator jobs.

What makes each part correct:

- the scheduler: a caller's callback runs once and with the best answer there
  was; a task is worked on by one attempt at a time; a slot is not used while it
  is unfit or cooling down; stop() returns and leaves nothing running;
- the exchange: the worker runs a task at most once and only if it arrived whole,
  the caller gets the worker's own answer or an error, and stop() leaves no
  handler behind;
- the inference queue: a call returns whatever happens, with a worker's answer
  or after all its attempts; a request is taken by one worker once; a crash
  costs at most the request the worker held, and Redis still knows that request;
  no reply stream survives the call that received its answer;
- the gateway: a request fails only after every provider of its mode was asked
  or refused; a provider that is down is probed once per cooldown, and its
  breaker always finds its way back;
- governance: a proposal is decided once, nothing runs without approval, apply
  runs once and invocations as often as allowed, whatever is retried, lost or
  recovered; rows say what really ran;
- memory dreaming: a verdict rests on a validator job, only rejected proposals
  are cleaned up, items of other proposals are spared, a decision stays, and what
  was stored can be found.

## 2. The modules

| Module | Content |
|---|---|
| `LinepSlots` | one slot's record, what heartbeat and expiry do to it (`slot_registry.hpp`), eligibility, score, tie-break, cooldown ramp and `select_best_slots` (`score_engine.cpp`) |
| `LinepScheduler` | `SchedulerImpl` of `scheduler.cpp`, with its properties |
| `TaskDelivery` | abstract: what the caller of submit() is promised |
| `LinepSchedulerInv` | the inductive invariant, and what it is extended by for deliveries and ownership |
| `LinepSchedulerProofs`, `LinepDeliveryProofs`, `LinepSlotsProofs` | theorems and proofs: invariant and callbacks; cooldowns, delivery, ownership; slot selection |
| `InferenceQueue` | `QueueReadyInferenceInvoker.infer`, the Redis client and worker of `queue.py`, the streams they share, and the properties |
| `RequestLife` | abstract: what a request goes through, seen from outside |
| `InferenceQueueInv`, `InferenceQueueProofs` | the inductive invariant; the theorems and their proofs |
| `LinepExchange` | task sender, the scheduler's own transport and the task receiver, over TCP connections that break with or without anybody being told |
| `TaskCall` | abstract: what a task sent to a worker amounts to |
| `LinepExchangeInv`, `LinepExchangeProofs` | properties and inductive invariant; the theorems and their proofs |
| `InferenceGateway` | `InferenceGateway` with its routing, races and breakers |
| `Governance` | repository, service and routers of governance, and tool invocation by proposal |
| `ApprovedAction` | abstract: what an approval promises about the action it approves |
| `GovernanceInv`, `GovernanceProofs` | properties and inductive invariant; the theorems and their proofs |
| `MemoryDreaming` | staging, dreaming runs, assurance, decisions, cleanup |
| `MemoryDreamingInv`, `MemoryDreamingProofs` | properties and inductive invariant; the theorems and their proofs |
| `InferenceGatewayInv`, `InferenceGatewayProofs` | properties and inductive invariant; the theorems and their proofs |
| `MC...` | the instances for TLC |

A module says what the code does; operators with a suffix (`Current_Always`)
are variants of the operator above them with a plausible bug, and nothing uses
them except the check that each property notices its bug (`PROJECT.json`,
"mutants").

### LinepScheduler: one action per critical section or atomic operation

| Code | Action |
|---|---|
| submit, register_slot, apply_heartbeat | `Submit`, `RegisterSlot`, `ApplyHeartbeat` |
| steady_clock | `Tick` |
| start; stop: exchange of running_, join, spin on the counter | `Start`; `StopRequest`, `StopJoin`, `StopDrain` |
| run_loop: test of running_, clock, expire_stale | `LoopTop` |
| dispatch_pending: snapshot; one task; erase | `Snapshot`; `DispatchTask` (`RejectTask` or `LaunchThreads`); `EraseDispatched` |
| dispatch_transport with on_slot_transport_failure | `ExchangeFails`, `ExchangeSucceeds` |
| dispatch_one_slot: result appended and `done` claimed; callback; counter and decision; last line | `RecordResult`; `OkCallback`; `Finish`, `LastCallback`; `Exit` |

Steps of the code that are put into one action are those between which no other
thread can see or disturb anything: choosing slots and marking them is one
critical section, and starting the threads after it touches only what the loop
owns; appending a result and the compare-exchange on `done` commute with what
the other threads of the attempt do between them; after its `fetch_sub` returned
one, a thread is the only one left on its attempt, so the moment of the
decision that follows is the moment of its effect (the push into the queue).

Left out of the data: payloads, latencies (nobody writes `avg_latency_ms` and
`error_count`), log lines, the order of the queue (the loop takes the entries
of its snapshot in any order) and the bytes on the wire. A status is one of a
set the configuration gives. Two history variables, `answers` and `replies`,
record callback calls and workers' statuses.

### InferenceQueue: one action per Redis command

That is where a coroutine can be suspended, cancelled or fail.

| Code | Action |
|---|---|
| infer: choice of the way; direct gateway | `StartCall`; `Direct` |
| enqueue (XADD); wait_for_result: XREAD finds the reply; DEL and return | `Enqueue`; `Receive`; `Return` |
| a command raises; asyncio.wait_for cancels the round trip | `RedisError`; `Deadline`, both with `AttemptFails` |
| \_ensure_group (XGROUP CREATE, BUSYGROUP) | `EnsureGroup` |
| process_next: XREADGROUP; inference and XADD of the reply; XACK | `Read`; `Reply`; `Ack` |
| serve_forever left by an exception, or a killed process; a new worker | `Crash`; `Restart` |

Redis is external and its data are taken to survive: a stream is a sequence of
ids, the group a cursor into it and the set of delivered and unacknowledged ids,
a reply stream its length. A command whose caller sees an error or is cancelled
either took effect by then or never does (`Effect`). The pause before a retry
is part of the step to that retry, since nothing of the call happens in it. An
id is a pair of a call and an attempt, which stands for the fresh UUID of the
code. Prompts and results are left out; a failed result is returned like a
successful one. `answered` is a history variable. The embedding worker
(`workers/embedding-worker/worker.py:295-361`) speaks the same protocol and
restarts itself; it is not part of this model.

### LinepExchange: one connection per task

| Code | Action |
|---|---|
| send_task / dispatch_transport: connect; the sends; the header; the rest and the status | `Connect`; `SendTask`; `ReceiveHeader`; `ReceivePayload` |
| accept_loop: listen; receive timeout; test of running_; accept; accept without a connection; leaving the loop | `Listen`; `SetTimeout`; `LoopTop`; `Accept`; `WakeUp`; `EndAccept` |
| handle_connection: the task frame; giving up; the callback; the reply | `ReadTask`; `GiveUpReading`; `RunCallback`; `SendResult` |
| start; stop: running_, join of the accept thread, join of the handlers | `Start`; `StopRequest`, `StopJoinAccept`, `StopReturn` |
| the network: a connection is cut; a side is told of it | `Break`; `Tell` |

A stream is a sequence of units. A header is one unit, since every reader starts
with it; the six bytes of the header extension are two (the first, and the
rest), because one reader takes the first of them for the status; the status and
the bodies are bytes. Sends that follow one another are one step: nobody answers
before a frame is whole, and `Break` may cut it anywhere. Checksum, magic, correlation
and sequence numbers are left out, since a connection carries one task and TCP
neither alters nor reorders its bytes.

`Break` stands for a reset as well as for a cable that is pulled or a host that
vanishes: nothing gets through any more, what the reader has not read may be
lost in part, and each side is told of it at once, later or never (`Tell`).
A side that is never told waits in recv for good, since nothing sets a timeout on
the caller's socket (`tcp.cpp:150`, `scheduler.cpp:308`). On the worker's side
accepted sockets inherit the 500 ms receive timeout of the listening socket on
the usual systems (`timed`), so `GiveUpReading` may end a handler whose caller is
merely slow; a connection the system queued between listen and the call that sets
the timeout (`tcp.cpp:249-255`) inherits none and is given up only when the
handler is told that the rest is lost. That the same timeout brings accept() back
is the constant `AcceptWakes`: on POSIX systems it does, on Windows
(`socket_win.cpp:114`, a plain ::accept) it does not.

Both clients talk to a `TcpTaskReceiver`, which always sends the header extension
(`tcp.cpp:349-366`) and is the only code here that answers a TASK. A failed
dispatch of the scheduler is shown as TIMEOUT, which is what its caller is told;
RESULT_INVALID_INPUT behaves like the other errors and is left out, as is the
branch for MSG_ERROR, which TcpTaskReceiver never sends.

### InferenceGateway: from one await to the next

| Code | Action |
|---|---|
| infer with one provider or a chain; \_infer_hybrid up to its first wait | `Infer`; `InferHybrid` |
| a provider's call ends: breaker, next leg or answer | `Answer` |
| \_infer_hybrid: first success, no success, 120 s | `HybridWins`, `HybridFails`, `HybridTimesOut` |
| time.time() | `Tick` |

Everything runs on one event loop, so a step lasts until the coroutine waits;
legs that are refused by an open breaker, and the two tasks of a race up to their
first await, are part of the step. Breakers are enabled, as by default; providers
answer anything at any time (an answer whose stop_reason is "error" is one more
failure of the call); callers never cancel. A cancelled call leaves its
breaker alone, except that the OpenVINO provider turns the cancellation into an
error, which counts as a failure (`ReportsCancel`). `HybridTimesOut` is not tied
to the clock. The lock that serialises OpenVINO's generation lies inside the
provider and is not modelled. `probed` is a history variable.

### Governance: one action per database transaction or tool run

| Code | Action |
|---|---|
| POST /proposals | `CreateProposal` |
| create_checkpoint_proposal: lookup; insert; lookup after a conflict | `FindCheckpoint`; `InsertCheckpoint`; `RefindCheckpoint` |
| POST decision: read; compare-and-set; resumed agent; update_handoff | `ReadToDecide`; `Decide`; `Resume`; `StoreResume` |
| POST /tools/sys/invoke: read; claim_invocation; tool; complete_invocation | `ReadToInvoke`; `ClaimInvocation`; `Invoke`; `CompleteInvocation` |
| POST /actions apply: claim_operation; snapshot and tool; complete_operation | `ClaimApply`; `Apply`; `CompleteApply` |
| POST /actions rollback: the same | `ClaimRollback`; `Rollback`; `CompleteRollback` |
| recover_stale_operations; a request that dies | `RecoverStaleOperation`; `Die` |

Several API processes share the database, so requests interleave at every
transaction. Reads of a request that follow one another without anything
depending on the first (pre_proposal and the service's own read; the read in
complete_invocation) are merged: the write after them is conditional on the
revision, so an older first read adds no behaviour but a conflict. Log rows are left out: they are
written with the change they describe, and nothing reads them back. The
in-memory branch of the repository, which production refuses, is not modelled.
A handoff over 4 KB is cut when it is stored and may lose its checkpoint while the
row keeps its key (`Bounded`, `governance_repository.py:36-82`). Whether the SYS
enforcement stops a run is decided by the row (`guarded`), because
`_governance_authorized` may be among the parameters a client stored with the
proposal. An approval grants two budgets in the code, one apply and
`max_invocations` invocations, and `ApprovedAction` states these two; that the
documents grant one attempt in all is `OneAttemptPerApproval`, which is violated
(section 5). `runs` is a history variable.

### MemoryDreaming: one action per row read or written

| Code | Action |
|---|---|
| stage; discard | `Stage`; `Discard` |
| \_append_id: read; write, for the session's index and then that of all | `ReadToAppend`, `AppendId` |
| one record is deleted; \_remove_ids: read; write | `Delete`; `ReadToRemove`, `Remove` |
| a dreaming run: index; item; proposal | `Run`; `Select`; `Propose` |
| validator jobs | `Submit`, `EndJob` |
| attach_assurance: proposal; job; write. decide: proposal; write | `AttachAssurance`, `Assess`; `Decide`; `WriteBack` |
| cleanup: index; each proposal; staged items; each of them | `Cleanup`; `Scan`; `ListStaging`; `Probe` |
| an error of the database, or the end of the service | `Die` |

There is one session with its indices beside those over all sessions, each index
row with a read and a write of its own: the session's is written first
(`backed.py:550-551`, 807-811). A cleanup deletes one record, takes every doomed
id out of the session's index, deletes the next record, and turns to the index of
all when the last one is gone (`backed.py:1176-1188`); a discard deletes all its
records first. Staged items go before proposals.

A run's metadata and a decision's go into the proposal's row
(`backed.py:743-744`, 1027): the run's may carry a verdict, the decision's may
overwrite the verdict and the requirement. `Propose` and `Decide` take these flags
as inputs, and `history.claimed` records whose flags a caller set.

Left out: access counts (touch), proposals made from the session's history (they
have no staged item), the human gate for verified memories, dry_run and the
in-memory store. A run makes one proposal; a run over several items is several
runs. Of a job's verdict only whether it passed is kept. `history` serves the
properties: the ids created, those reported as stored (`told`), `claimed`, the
proposals two requests held a copy of at once (`contested`), and the number of
requests, which `MaxRequests` bounds; jobs are bounded by their ids.

## 3. The runs

| Run | Instance | Shows |
|---|---|---|
| `sched_attempts` | one task, two slots on two workers, max_attempts 0 to 2, clock up to 2, statuses OK and MODEL_ERROR | `TypeOK`, `AtMostOneCallback`, `OneAttemptAtATime`, `SelectionIsExact`, `CooldownHonoured`, and that the scheduler implements `TaskDelivery` (`DeliverySpec`) |
| `sched_tasks` | two tasks on one slot, one attempt each, with fairness | `NoTaskForgotten`, `StopIsFinal`, `EveryTaskAnswered`, `StopReturns` |
| `queue_live` | one call with up to three attempts, two workers, two crashes, all kinds of invoker, with fairness | `NothingLostSilently`, `CrashCostsOne`, `NoReplyLeftBehind`, `CallReturns`, `EveryRequestServed`, and that the queue implements `RequestLife` (`TakenOnce`) |
| `exch` | one task of `TcpTaskSender`, one of the scheduler, one connection that is cut, bodies of up to one byte, no room in the sender's result buffer, accept() that wakes up, with fairness | `TaskWhole`, `StopLeavesNothing`, `StatusMisread`, `CallReturns`, `StopReturns`, and that the sender implements `TaskCall` (`ExactAnswer`) |
| `gate` | a race or a chain, another race and a plain call; breakers that open at the first failure, cooldown one unit, clock up to 3, with fairness | `BreakerConsistent`, `RoutedFully`, `ProbesApart`, `RequestsEnd` |
| `gov` | two proposals, plain or of one checkpoint key, three requests of any kind, enforcement by risk, one invocation per approval, with fairness | `OperationCoupled`, `VersionIdentifiesRow`, `OneInvocationAtATime`, `OnePendingPerKey`, `StateTellsRuns`, `OutcomeFinal`, `ClaimSettled`, `ResumeEnds`, and that governance implements `ApprovedAction` (`ApprovalHonoured`) |
| `mem_dreaming` | two requests at a time and four in all beside one job's, two staged items, two proposals, one proposal whose flags a caller sets | `AssuredOrClaimed`, `OnlyRejectedRemoved`, `ProtectedKept`, `Findable`, `DecisionFinal` |
| `sched_lost_retry` | as `sched_attempts` | `NoTaskForgotten` is violated (section 5) |
| `gov_budget` | one proposal with one invocation, three requests | `OneAttemptPerApproval` is violated (section 5) |
| `gov_rollback` | one proposal, four requests | `RollbackRuns` is violated (section 5) |
| `gate_stuck` | a race and a plain call, with fairness | `ProbeResolved` is violated (section 5) |
| `mem_assured` | one request at a time and three in all, one item, proposal and job | `ApprovedWasAssured` is violated (section 5) |

### Bounds, and why they are enough

Scheduler. Two slots give every race between a thread that answers, one that
fails and the last one to finish; a third thread adds only more of the same
between them. Two attempts are one retry, and a retry is the only thing an
attempt does to a later one. Two tasks put an entry into the queue during a
pass. One unit of time is 5 s, so heartbeats are good for one unit and the first
cooldown lasts one: with a clock of two a slot can fail, cool down and be chosen
again, or go stale; where nothing depends on time more than that, a longer clock
only repeats it. One kind of heartbeat, a healthy one, is enough because the
unfit kinds only add to what `is_eligible` refuses. `SelectionIsExact` is checked
on the tables that come about in `sched_attempts` (slots that are stale, cooling
down, tied or busy, on two workers) and proved for every table (section 4).
max_attempts 0 is among the inputs because submit() does not exclude it.

Queue. An abandoned attempt goes on living in the stream, so one call with three
attempts and two workers has as much in flight as three calls would, and two
crashes can hit both workers, or one worker twice. `MaxCrashes` bounds `Crash`
only.

Exchange. Tasks share the accept thread, running_ and stop(), which two tasks
can be on either side of; a body of one byte can be lost, and a buffer of none is
too small for it. Connections do not touch one another, so one that is cut, at any
point and with any notice, beside one that is whole shows what a cut can do.

Gateway. Ollama is the provider that a race, a chain and a plain call share, so
three requests put two calls beside a probe, and one of them late; `MaxTime` lets
a breaker open, be probed, fail and be probed again.

Governance. A proposal meets other proposals only in its checkpoint key, so two
proposals, plain or of one key, are every such meeting. Three requests are a race
of two, for a decision, an apply, an invocation or an insert, and the recovery or
the request of another kind that disturbs both; the races of `gov_rollback` need a
fourth to get there.

Dreaming. Two requests at a time are every pair of a read and a write that
disagree; a request that ended gives its place to the next. Four requests are
enough to stage and propose an item, assure or decide it and have the next request,
a cleanup among them, race with that, or to stage two items before: a cleanup dooms two staged items, so it can die between its
two deletions, and one index has been written for both by then. Two proposals are
what cleanup has to tell apart. One proposal with flags set by its caller leaves
one beside it whose verdict has to be earned. What goes beyond four requests is in
the proofs, which have no bound.

Deadlock is checked in the scheduler's runs with threads. In the others the
system may stop: when every call has returned, there is nothing left to do.

### Fairness, and why the code justifies it

- Scheduler (`FairSpec`): the operating system runs each thread that can run
  (the loop, each dispatch thread, and the thread in stop() when what it waits
  for has come), and every exchange with a worker ends. The last one is an
  assumption about workers, not about the scheduler: the code awaits the reply
  without a timeout, and with a silent worker neither `EveryTaskAnswered` nor
  `StopReturns` holds. Nobody is assumed to submit, to send a heartbeat or to
  call stop().
- Exchange: threads run, and callbacks return (`CallbackFairness`, an assumption
  about the embedding program, which `CallReturns` and `StopReturns` need). Nobody
  need be told of a break: `CallReturns` excuses the call whose connection is cut
  and whose caller is never told (`Unaware`), and nothing else; `StopReturns`
  excuses the handler that reads from such a connection if it has no timeout
  (`Stuck`), and is stated where the timeout ends accept() (`AcceptWakes`).
- Queue: a deadline passes if nothing happens before (asyncio.wait_for around
  every attempt), the direct gateway returns, a live worker runs its next
  command, and a worker that is down is started again. The last is an assumption
  about operations: serve_forever ends at the first error of Redis, and nothing
  in the repository starts it again. `EveryRequestServed` needs it, `CallReturns`
  does not. Redis is not assumed to answer a call's commands.
- Gateway: provider calls end, and the event loop wakes a race whose tasks have
  ended. The HTTP providers have timeouts; the OpenVINO provider waits for its
  thread without one (`openvino.py:58-90`), so for it this is an assumption about
  the library. Nobody has to ask.
- Governance: a request handler goes on (`Continue`) unless it dies, which it may
  do at any time. Nobody decides, applies or recovers by obligation.
- Dreaming: none; its properties are about safety.

## 4. The proofs

TLC checks small instances. The theorems hold for every value of the constants;
each follows from an inductive invariant, proved by one lemma per action (or
group of actions) and put together with PTL.

`LinepSchedulerProofs`, for every finite set of tasks and slots, every number of
attempts, every set of statuses and heartbeats and without a bound on the number
of passes: `TypeCorrect` (`TypeOK`), `OneCallback` (`AtMostOneCallback`),
`OneAttempt` (`OneAttemptAtATime`), `StopLeavesNothing` (`StopIsFinal`).
All follow from `Invariance`, `Spec => []IInv`. The assumptions are
`SlotAssumption` and `SchedulerAssumption`: finite sets of slots and ids,
at least one attempt, a cooldown ramp that does not fall, and well-formed
heartbeat frames. Why an invariant is needed: that the callback runs once does
not follow from the compare-exchange on `done` alone, since each attempt has a
`done` of its own. `IInv` says that a submitted task has one owner: an entry of
the queue that the current pass has not looked at (`QueueOwns`), the newest
attempt, the only one with threads in flight (`AttemptOwns`), or one thread that
claimed the callback (`ClaimOwns`); as long as the attempt in flight is open
nobody claimed anything (`OpenMeansUnclaimed`). Ownership changes hands in four
places, and each needs a fact about the others: a launch (the queue knew the
task was quiet), a claim (the attempt was open), a retry and a last report (the
counter being one means that the thread is alone, `CountersExact`, shown with
the cardinality theorems). `StopShape` and `CountersExact` together give
`StopIsFinal`: a counter that is exactly the number of live threads is zero only
when none is left.

`LinepDeliveryProofs` extends it, under the same assumptions. `CooldownsHonoured`
(`CooldownHonoured`): `CooldownBounded` bounds the cooldown of a slot by what its
failures so far can have set; the pass chooses with a clock it read earlier, and
since the clock only advances, "eligible then" implies "cooled down now".
`DeliversTasks` (`DeliverySpec`, the refinement of `TaskDelivery`) needs
`DeliveryInv`: all that workers answered is in the list of the attempt in flight,
or in the hands of a thread that will put it there (`RepliesRecorded`), a task
that waits in the queue has no answer yet, since an attempt with any answer ends
in a report (`QueueUnanswered`), and a thread that claimed the callback holds a report that `TaskDelivery` allows, until it is made
(`ClaimReportable`), although other threads go on answering meanwhile.
`NoTaskForgotten` is false of the code (section 5). `ForgetsOnlyEarlyRetries`
says that the defect is the only cause: of an execution in which no entry is
queued for a task the pass under way has looked at (`QueuesAfterPass`), it holds,
for any number of attempts. The hypothesis is about the execution, not about the
constants, and `NoneForgotten` meets it with `MaxAttempts = 1`, where nothing is
queued again. The invariant is `TasksOwned`, the other half of `IInv`: there is
not only at most one owner of a task but at least one.

`LinepSlotsProofs`, for every finite set of slots, spread over workers in any way (assumption
`SlotAssumption`): `SelectsTheBest`, about `select_best_slots` for every table,
type, clock and k, and from it `SelectionExact` (`SelectionIsExact`).
`ComparatorIsOrder` shows what std::sort requires of the comparator. That what is
returned is a best selection (`WalkIsBest`) rests on where the walk first meets a
worker; that every best selection can be returned (`BestIsWalked`) on an order
that prefers its slots among equals, which exists because how many come before
each member numbers a finite set (`Ranks`, which stands in for the induction a
sort would be proved with).

`InferenceQueueProofs`, for every finite set of calls and workers, every number
of retries and crashes and every configuration of the invoker:
`TakenOnceForAll` (`TakenOnce`, the refinement of `RequestLife`), `CrashCost`,
`NothingLost`, `RepliesCleared`, `AllAttemptsMade`, `QueueTypes` (`CrashCostsOne`,
`NothingLostSilently`, `NoReplyLeftBehind`, `GivesUpLast`, `TypeOK`). They follow
from `QueueInvariance`, `Spec => []QInv`. The chain of `QInv`: a call enqueues an
id at its turn and then moves on (`CallShape`, `Sent`), so the stream holds no id
twice (`StreamShape`); the cursor never goes back (`GroupShape`: it stays at zero
until the group is there, so a second XGROUP CREATE cannot move it), so a read
finds an id nobody has read; so at most one worker holds an unanswered request
and an answer is written once (`WorkerShape`); so a deleted reply stream stays
deleted (`ReplyShape`). The set of lost requests grows only in `Crash`, by what
the worker held, which with the cardinality theorems gives `CrashCostsOne`. In
the refinement each step moves one request to its next stage (`StageMoved`) or
none (`StageKept`).

`GovernanceProofs`, for every set of proposals, requests and keys, every mode
and every number of invocations (assumption `GovernanceAssumption`):
`LifeImplemented` (`ApprovalHonoured`, the refinement of `ApprovedAction`),
`OperationsCoupled`, `VersionsIdentify`, `InvocationsExclusive`, `PendingUnique`,
`StateHonest`, `OutcomesFinal`, `GovernanceTypes`. They follow from
`GovernanceInvariant`, `Spec => []IInv`. What a request read is the row or an
older revision of it (`Fresh`), which is why the compare-and-set on the revision
alone is enough; a request that invokes has marked the row and counted the run
it is about to make (`MarkedBy`), so a second claim finds the mark or a later
revision, and the number of runs stays within the count (`RowsSound`); an
operation belongs to the request that claimed it and one at most of a proposal
is started (`OwnedBy`, `OperationsApart`), so the completion that overwrites the
proposal's state overwrites its own (`OperationCoupled`); how far an apply got
can be told from the proposal's state and its request (`ToldBy`), which gives
`StateTellsRuns` and the single run of apply. The proof describes each action once
by what it does to the rows it touches (the lemmas named `...Does`),
reduces `Next` to about a dozen such steps (`StepCases`), shows each part of the
invariant with a lemma over these steps, and the refinement with `LifeStep`.

`MemoryDreamingProofs`, for every set of requests, items, proposals and jobs and any
number of requests, one after the other or overlapping (assumptions `IdsDiffer`
and `BoundsAssumption`): `VerdictsBacked` (`AssuredOrClaimed`), `RemovalsRejected`
(`OnlyRejectedRemoved`), `DecisionsFinal` (`DecisionFinal`), `ItemsSpared`
(`ProtectedKept`), `StoredIsFound` (`Findable`), `DreamingTypes`. They follow from
`DreamingInvariant`, `Spec => []IInv`, in two parts. A verdict in a row, and in
every copy some request will write over a row, rests on a job or was set by a
caller (`RowsBacked`, `CopiesBacked`). Copies are part of it because requests write
back what they read awaits ago: whichever copy wins was justified by itself.
`Orderly` says what requests may rely on although others go on meanwhile: rows and
indices hold created ids only (`RowsKnown`); a copy is the only one, and of a
proposal still pending (`OneWriter`, `Current`); a cleanup has kept the items of the
proposals it has looked at (`Spares`); what is doomed was rejected, and an id leaves
the index of all after its record (`DeletesFirst`), so a death at any step leaves
records without an entry or the reverse, but no report that turns untrue. Overlap
is not excluded: the properties leave out only what the code really loses by it,
namely proposals that two requests held a copy of at once (`contested`) and ids of
an index of all whose changes one request wrote over another's (`told`).

`InferenceGatewayProofs`, for every set of requests, every choice of modes, every
threshold and every cooldown (assumptions `GatewayAssumption` and
`ModesAssumption`): `BreakersConsistent` (`BreakerConsistent`),
`ProbesAlwaysApart` (`ProbesApart`), `RequestsRoutedFully` (`RoutedFully`),
`GatewayTypes`. They follow from `GatewayInvariant`, `Spec => []IInv`. To one
provider every step does one of three things: it leaves its breaker alone, begins
a probe, or records the end of a call (`ProviderStep`). A probe is begun only
when the cooldown of the breaker is over, so it is enough that a breaker which
reopened stays open for a cooldown from the beginning of the last probe, whichever
call it was whose failure opened it (`ProbesSpaced`); that makes late failures of
ordinary calls harmless. A chain has come to one leg, nobody answered before it
and nobody was asked after it (`CameTo`); a race has begun both of its legs
(`InRace`).

`LinepExchangeProofs`, for any number of tasks, every size of task and result and
every buffer, every number of broken connections and with or without `AcceptWakes`
(assumption `ExchangeAssumption`): `TasksWhole` (`TaskWhole`), `StopIsComplete`
(`StopLeavesNothing`), `ExchangeTypes`, `AnswersExact` (`ExactAnswer`: the tasks of
TcpTaskSender implement `TaskCall`) and `SchedulerMisreads` (`StatusMisread`, the
defect of section 5, for every run and every worker). They follow from
`ExchangeInvariant`, `Spec => []IInv`: what lies in a stream is what is left of the
one frame that was sent on it, from the first unit not yet taken to where the
connection broke (`RestOf`, `TaskUnderWay`, `ResultUnderWay`). A reader that got as
much as the header announces therefore has the whole of it, which is `TaskRead` on
the worker's side and `PayloadRead` on the caller's: after the extension is skipped
the first unit is the worker's status, and where it is not skipped it is the first
byte of the extension, "year".

The invariants were checked by TLC on instances like those of section 3 before
they were proved.

Every safety property that a passing run checks is proved. Only model-checked is
all liveness (`EveryTaskAnswered`, `CallReturns`, `EveryRequestServed`,
`StopReturns`, `RequestsEnd`, `ClaimSettled`, `ResumeEnds`), which the proof system
does not reach. `GivesUpLast`, and `TypeOK` of the queue, the exchange, the gateway, governance and
dreaming, are proved and not run again.

## 5. Findings

`sched_lost_retry`: a pass remembers the correlation ids it looked at and, at its
end, erases every queue entry with one of them (`scheduler.cpp:213-223`). A
dispatch thread the same pass started can have failed by then, for example on a
refused connection, and have queued the task again under the same id
(`scheduler.cpp:397-400`). The retry is erased, nobody works on the task, and
its callback is never run, although `scheduler.hpp:28` says "callback is invoked
(from the scheduler's dispatch thread) when done." The trace has one task, one
healthy slot and a pass that is slower than one failed exchange.

`gov_budget`: claim_apply looks at the proposal's state
(`services/api/services/governance_service.py:405-423`), claim_invocation at its
attempts (530-557), and neither writes what the other looks at. An approval with
one invocation can therefore be applied and invoked, although
`docs/02_services/liara-api.md:80-88` lets it authorise one started attempt and
has `apply` consume the single-use invocation. What the code does grant, one apply
and `max_invocations` invocations, is what `ApprovalHonoured` shows.

`gov_rollback`: the compensating proposal of a rollback is filed and approved in
the legacy JSON store (`services/api/routers/governance.py:926-952`) and handed
to invoke_tool, which looks proposals up in Postgres
(`services/api/routers/tools.py:138`) and answers 404. Every rollback ends
rollback_failed and restores nothing, although
`docs/02_services/liara-api.md:90` says that it executes the snapshot exactly
once as a compensation proposal of its own.

`gate_stuck`: when a race ends, the losing Ollama call is cancelled
(`gateway.py:495-499`). asyncio.CancelledError is no Exception, so
\_call_with_breaker (`gateway.py:192`) neither records a failure nor takes the
probe flag back. If that call was the half-open probe, every later call of the
provider is refused until the process restarts, in every mode that uses it,
although `docs/INFERENCE_ROUTING_MATRIX.md:104` promises a breaker with cooldown
and half-open probe.

`mem_assured`: dreaming_run merges the caller's metadata into the new proposal
(`services/memory/stores/backed.py:743`) and writes only assurance_required after
it, and `_proposal_assurance_blocks_approval` trusts the stored verdict
(`quality_signals.py:321`). A run with `assurance_verdict: "passed"` in its metadata
makes a proposal that needs assurance and is approved with no validator job,
although `docs/02_services/liara-dreaming.md:145-147` gives that verdict to finished
strict runs only. A decision's metadata can do the same to the row it writes
(`backed.py:1027`). What remains true is `AssuredOrClaimed`: no interleaving of
reports, decisions and stale copies makes a verdict nobody gave.

Stated as it is: `StatusMisread` says of the code that the scheduler never gets a
worker's status through, because dispatch_transport takes the first byte of the
header extension for it (`scheduler.cpp:333`), which every TcpTaskReceiver sends.
`linep/README.md:81-107` puts those six bytes between header and payload, to be
skipped by who does not know them. Nothing in the repository runs the two
together, and the scheduler's own models take an exchange to end with a status the
worker gave.

Seen while modelling, in the models but stated by no violation run:

- Exchange: timeout_ms does not bound the wait for the answer, although `tcp.hpp:24`
  promises RESULT_TIMEOUT within it (`tcp.cpp:150`): a caller whose connection is cut
  without notice waits for good, the scheduler's dispatch thread and so its stop()
  as well (`scheduler.cpp:308`); with Winsock's accept() (`socket_win.cpp:114`) the
  receiver's stop() waits for one more connection; a connection queued before the
  timeout is set (`tcp.cpp:249-255`) may hold stop() too; start() returns true
  before the port is bound (`tcp.hpp:82`, `tcp.cpp:226`).
- Gateway: losing a race counts as a failure of OpenVINO (`openvino.py:85`); a
  late failure of an ordinary call clears the probe flag while the probe is
  under way (`gateway.py:147`).
- Governance: a handoff over 4 KB can lose its checkpoint, after which the
  checkpoint's proposal can be applied like a plain one (`governance_repository.py:36`);
  the result of an invocation is lost when an apply raises the revision in between
  (`tools.py:279`); under enforcement the coordinator refuses an approved apply
  (`routers/governance.py:797`); recover_stale_operations has no caller
  (`governance_service.py:384`); a request that dies while it resumes leaves its
  checkpoint resuming for good.
- Dreaming, when requests overlap: decide and attach_assurance overwrite each other
  with stale copies, in spite of the error proposal_decision_immutable
  (`backed.py:980`, 1032, 1074), so a decision can be undone, a cleanup can delete
  the staged item of a proposal that is pending again, and an approved proposal can
  be removed, all three against `liara-dreaming.md:255` and 259; two requests that
  change one index lose an id (`backed.py:1399`). `DecisionFinal`, `ProtectedKept` and
  `OnlyRejectedRemoved` therefore leave out proposals that two requests held a copy
  of at once, and `Findable` what was reported before an index lost a change.
- Dreaming, without overlap, when a request dies: a run that dies between its two
  index writes (`backed.py:807-811`) leaves a pending proposal in the session's index
  only, and a cleanup of all sessions, which does not see it, deletes its staged
  item, against `liara-dreaming.md:255`: `ProtectedKept` speaks of the proposals a
  cleanup found in its index. A cleanup that dies after its first record
  (`backed.py:1176-1188`) has taken records that still exist out of the session's
  index: `Findable` speaks of the index of all.

## 6. What is not modelled

Hazards noticed and covered by no property: the busy mark that a late heartbeat
overwrites (it only adds to a score); a correlation id that wraps after 2^32
tasks; threads without limit in the scheduler and thread objects kept until
stop() in the receiver; a callback that calls stop(); the three bytes of a
heartbeat, which are written one by one, and its sequence number, which nobody
compares; the embedding endpoint's handlers, which publish the queue depth out of
order and outlive stop(); streams of Redis that grow without limit.

Not modelled, or in part:

- the sending and receiving threads of the UDP heartbeat: what their frames do
  to the scheduler, late, repeated or out of order, is in `LinepScheduler`, where
  any frame may arrive at any time;
- the embedding endpoint and its HTTP server: the endpoint answers EMBED_REQUEST and
  CONSENSUS_REQUEST with JSON and refuses a TASK with MSG_ERROR
  (`embedding_linep.cpp:259-274`), so its exchange is not that of `LinepExchange`; the
  rest is one mutex around numeric code, and the lifetime of C++ objects;
- the embedding worker: it repeats the protocol of `InferenceQueue`;
- the workspace agent: its loop lives in one request and is driven by a language
  model; its checkpoints, which outlive the request, are in `Governance`;
- of memory: context, facts, relations and their queries, the session's history
  as a source of proposals, the in-memory store, the outbox (only tests call
  its operations);
- tools, judge, validator, self observer, simulation, speech, vision, user
  interfaces, HTTP routing, SQL text, prompts and scoring rules: I/O or
  arithmetic with hardly any interleaving;
- `llama.cpp`, vendored: it holds most of the repository's lines, so the share
  of all lines the models cover stays small whatever is modelled of LIARA itself.

`PROJECT.json` lists every component with the reason.
