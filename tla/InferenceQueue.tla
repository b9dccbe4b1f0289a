--------------------------- MODULE InferenceQueue ---------------------------
(***************************************************************************)
(* Inference over Redis Streams: QueueReadyInferenceInvoker of             *)
(* invocation.py with the client and the worker of queue.py.  A call makes *)
(* up to MaxRetries + 1 attempts, each with a correlation id of its own:   *)
(* XADD to the request stream, XREAD of the attempt's reply stream, DEL of *)
(* that stream, all under one deadline; when they all fail it falls back   *)
(* to the in-process gateway.  Workers of one consumer group take entries  *)
(* with XREADGROUP, run the inference, XADD the reply and XACK.            *)
(*                                                                         *)
(* Redis is external: every command is one atomic step, its data survive,  *)
(* and a command whose caller sees an error or is cancelled either took    *)
(* effect by then or never does.  The worker has no handler for a Redis    *)
(* error, so an error ends it like a crash.  A result is not told from     *)
(* another: a failed one is returned like a successful one.                *)
(***************************************************************************)
EXTENDS Integers, Sequences, FiniteSets

CONSTANTS
  Call,         \* calls of infer()
  Worker,       \* consumers of the group
  MaxRetries,   \* max_retries
  Invokers,     \* configurations of the invoker that are looked at
  MaxCrashes    \* bound on the number of crashes of workers

InvokerConfig == [queue : BOOLEAN, direct : BOOLEAN, fallback : BOOLEAN]

ASSUME QueueAssumption ==
  /\ IsFiniteSet(Call) /\ IsFiniteSet(Worker)
  /\ MaxRetries \in Nat
  /\ MaxCrashes \in Nat
  /\ Invokers \subseteq InvokerConfig

\* One correlation id per attempt.
Id == Call \X (0..MaxRetries)

VARIABLES
  invoker,   \* queue_client is set, direct_gateway is set, enable_fallback
  stream,    \* the request stream; nothing ever trims it
  group,     \* does the consumer group exist
  cursor,    \* how many entries of the stream the group has delivered
  pel,       \* the group's pending list: delivered and not acknowledged
  reply,     \* the length of each id's reply stream; 0 when there is none
  worker,    \* each worker: where it is and the entry it holds
  call,      \* each call: where it is, its attempt, errors and outcome
  crashes,   \* how often a worker went away
  answered   \* history: the ids whose reply was written

redisVars == <<stream, group, cursor, pel, reply>>
vars == <<invoker, redisVars, worker, call, crashes, answered>>

NoId == <<>>
WorkerPc == {"down", "boot", "read", "infer", "ack"}
CallPc == {"idle", "enqueue", "wait", "delete", "direct", "done"}
Outcome == {"none", "queue", "direct", "timeout", "failed", "raised"}

Init ==
  /\ invoker \in Invokers
  /\ stream = <<>>
  /\ group = FALSE
  /\ cursor = 0
  /\ pel = {}
  /\ reply = [id \in Id |-> 0]
  /\ worker = [w \in Worker |-> [pc |-> "down", id |-> NoId]]
  /\ call = [c \in Call |-> [pc |-> "idle", attempt |-> 0, errors |-> 0,
                             timedOut |-> FALSE, outcome |-> "none"]]
  /\ crashes = 0
  /\ answered = {}

-----------------------------------------------------------------------------
(* A call of infer() *)

Ends(c, outcome) == call' = [call EXCEPT ![c].pc = "done", ![c].outcome = outcome]

\* infer() without a queue client goes straight to the direct gateway.
StartCall(c) ==
  /\ call[c].pc = "idle"
  /\ \/ /\ invoker.queue
        /\ call' = [call EXCEPT ![c].pc = "enqueue"]
     \/ /\ ~invoker.queue /\ invoker.direct
        /\ call' = [call EXCEPT ![c].pc = "direct"]
     \/ /\ ~invoker.queue /\ ~invoker.direct
        /\ Ends(c, "raised")
  /\ UNCHANGED <<invoker, redisVars, worker, crashes, answered>>

CurrentId(c) == <<c, call[c].attempt>>
OnQueue == {"enqueue", "wait", "delete"}

\* What the Redis command a call is at does: XADD of the request, XREAD of the
\* reply stream, DEL of the reply stream.
Effect(c) ==
  \/ /\ call[c].pc = "enqueue"
     /\ stream' = Append(stream, CurrentId(c))
     /\ UNCHANGED reply
  \/ /\ call[c].pc = "wait"
     /\ UNCHANGED <<stream, reply>>
  \/ /\ call[c].pc = "delete"
     /\ reply' = [reply EXCEPT ![CurrentId(c)] = 0]
     /\ UNCHANGED stream

Enqueue(c) ==
  /\ call[c].pc = "enqueue"
  /\ Effect(c)
  /\ call' = [call EXCEPT ![c].pc = "wait"]
  /\ UNCHANGED <<invoker, group, cursor, pel, worker, crashes, answered>>

\* XREAD finds the reply.  Without one it is repeated until the deadline.
Receive(c) ==
  /\ call[c].pc = "wait"
  /\ reply[CurrentId(c)] > 0
  /\ call' = [call EXCEPT ![c].pc = "delete"]
  /\ UNCHANGED <<invoker, redisVars, worker, crashes, answered>>

\* The finally clause deletes the reply stream, then the result is returned.
Return(c) ==
  /\ call[c].pc = "delete"
  /\ Effect(c)
  /\ Ends(c, "queue")
  /\ UNCHANGED <<invoker, group, cursor, pel, worker, crashes, answered>>

MoreAttempts(c) == call[c].attempt < MaxRetries

\* The attempt ends with an error, perhaps a timeout.  The next one follows after a
\* pause, under a fresh id; after the last one comes the direct gateway, or an
\* envelope that says timeout if any attempt timed out.
AttemptFails(c, timeout) ==
  LET failed == [call[c] EXCEPT !.errors = @ + 1, !.timedOut = @ \/ timeout]
      Becomes(state) == call' = [call EXCEPT ![c] = state]
  IN
  \/ /\ MoreAttempts(c)
     /\ Becomes([failed EXCEPT !.pc = "enqueue", !.attempt = @ + 1])
  \/ /\ ~MoreAttempts(c) /\ invoker.direct /\ invoker.fallback
     /\ Becomes([failed EXCEPT !.pc = "direct"])
  \/ /\ ~MoreAttempts(c) /\ ~(invoker.direct /\ invoker.fallback)
     /\ Becomes([failed EXCEPT !.pc = "done",
                   !.outcome = IF failed.timedOut THEN "timeout" ELSE "failed"])

\* A Redis command raises.
RedisError(c) ==
  /\ call[c].pc \in OnQueue
  /\ Effect(c) \/ UNCHANGED <<stream, reply>>
  /\ AttemptFails(c, FALSE)
  /\ UNCHANGED <<invoker, group, cursor, pel, worker, crashes, answered>>

\* Mutated form of UnderDeadline: the wait for the reply has no limit.
UnderDeadline_NotWaiting == OnQueue \ {"wait"}

\* asyncio.wait_for covers the whole round trip.
UnderDeadline == OnQueue

\* The deadline passes and the round trip is cancelled where it is, also after
\* the reply was received.
Deadline(c) ==
  /\ call[c].pc \in UnderDeadline
  /\ Effect(c) \/ UNCHANGED <<stream, reply>>
  /\ AttemptFails(c, TRUE)
  /\ UNCHANGED <<invoker, group, cursor, pel, worker, crashes, answered>>

\* The in-process gateway returns a result or raises.
Direct(c) ==
  /\ call[c].pc = "direct"
  /\ Ends(c, "direct") \/ Ends(c, "raised")
  /\ UNCHANGED <<invoker, redisVars, worker, crashes, answered>>

-----------------------------------------------------------------------------
(* A worker: serve_forever with process_next *)

Goes(w, pc) == worker' = [worker EXCEPT ![w].pc = pc]

\* Mutated form of DeliveredAtBoot: every start sets the group back to "0-0".
DeliveredAtBoot_Reset == 0

\* xgroup_create(..., id="0-0") changes nothing when the group exists.
DeliveredAtBoot == IF group THEN cursor ELSE 0

\* Mutated form of AfterBoot: BUSYGROUP is raised like any other error.
AfterBoot_BusyGroup == IF group THEN "down" ELSE "read"

\* BUSYGROUP is not an error.
AfterBoot == "read"

EnsureGroup(w) ==
  /\ worker[w].pc = "boot"
  /\ Goes(w, AfterBoot)
  /\ group' = TRUE
  /\ cursor' = DeliveredAtBoot
  /\ UNCHANGED <<invoker, stream, pel, reply, call, crashes, answered>>

\* Mutated form of Batch: count=2.
Batch_Two == {i \in {cursor + 1, cursor + 2} : i <= Len(stream)}

\* XREADGROUP with ">" and count=1: the next entry delivered to nobody.
Batch == {i \in {cursor + 1} : i <= Len(stream)}

\* Mutated form of Pending: noack=True.
Pending_NoAck(ids) == pel

\* What is delivered stays pending until it is acknowledged.
Pending(ids) == pel \cup ids

\* The entries read go to the pending list; process_next returns after the
\* first one, whatever else was read.
Read(w) ==
  /\ worker[w].pc = "read"
  /\ Batch # {}
  /\ worker' = [worker EXCEPT ![w].pc = "infer", ![w].id = stream[cursor + 1]]
  /\ cursor' = cursor + Cardinality(Batch)
  /\ pel' = Pending({stream[i] : i \in Batch})
  /\ UNCHANGED <<invoker, stream, group, reply, call, crashes, answered>>

\* The inference ends, with a result or with an exception that becomes a failed
\* result, and the reply is written, before the entry is acknowledged.
Reply(w) ==
  /\ worker[w].pc = "infer"
  /\ reply' = [reply EXCEPT ![worker[w].id] = @ + 1]
  /\ answered' = answered \cup {worker[w].id}
  /\ Goes(w, "ack")
  /\ UNCHANGED <<invoker, stream, group, cursor, pel, call, crashes>>

Ack(w) ==
  /\ worker[w].pc = "ack"
  /\ pel' = pel \ {worker[w].id}
  /\ worker' = [worker EXCEPT ![w].pc = "read", ![w].id = NoId]
  /\ UNCHANGED <<invoker, stream, group, cursor, reply, call, crashes, answered>>

\* A crash, or an error of a Redis command: before its effect here, after it in
\* the state the step leads to.
Crash(w) ==
  /\ worker[w].pc # "down"
  /\ crashes < MaxCrashes
  /\ crashes' = crashes + 1
  /\ worker' = [worker EXCEPT ![w].pc = "down", ![w].id = NoId]
  /\ UNCHANGED <<invoker, redisVars, call, answered>>

\* A new worker is made: its _group_ready is unset.
Restart(w) ==
  /\ worker[w].pc = "down"
  /\ Goes(w, "boot")
  /\ UNCHANGED <<invoker, redisVars, call, crashes, answered>>

-----------------------------------------------------------------------------
ClientStep(c) ==
  \/ StartCall(c) \/ Enqueue(c) \/ Receive(c) \/ Return(c)
  \/ RedisError(c) \/ Deadline(c) \/ Direct(c)

WorkerStep(w) == EnsureGroup(w) \/ Read(w) \/ Reply(w) \/ Ack(w)

Next ==
  \/ \E c \in Call : ClientStep(c)
  \/ \E w \in Worker : WorkerStep(w) \/ Crash(w) \/ Restart(w)

Spec == Init /\ [][Next]_vars

\* Deadlines pass and the direct gateway returns.  Workers run, and whoever
\* operates them starts one again when it is down.
FairSpec ==
  /\ Spec
  /\ \A c \in Call : WF_vars(Deadline(c)) /\ WF_vars(Direct(c))
  /\ \A w \in Worker : WF_vars(WorkerStep(w)) /\ WF_vars(Restart(w))

-----------------------------------------------------------------------------
(* Properties *)

TypeOK ==
  /\ invoker \in InvokerConfig
  /\ stream \in Seq(Id)
  /\ group \in BOOLEAN
  /\ cursor \in 0..Len(stream)
  /\ pel \subseteq Id
  /\ reply \in [Id -> Nat]
  /\ worker \in [Worker -> [pc : WorkerPc, id : Id \cup {NoId}]]
  /\ call \in [Call -> [pc : CallPc, attempt : 0..MaxRetries, errors : 0..(MaxRetries + 1),
                        timedOut : BOOLEAN, outcome : Outcome]]
  /\ crashes \in Nat
  /\ answered \subseteq Id

Enqueued == {stream[i] : i \in DOMAIN stream}
Delivered == {stream[i] : i \in 1..cursor}

\* The requests a live worker has taken and not answered.
Held == {worker[w].id : w \in {v \in Worker : worker[v].pc = "infer"}}

\* The requests that were delivered and that nobody will answer any more.
Lost == Delivered \ (answered \cup Held)

\* Wherever a worker stops (queue.py:236-245), Redis never forgets a request that
\* was delivered and has no reply: it stays in the pending list.
NothingLostSilently == Delivered \subseteq pel \cup answered

\* One crash costs at most one request: process_next (queue.py:200) never has
\* more than one entry delivered and unanswered, whatever is queued behind it.
CrashCostsOne == Cardinality(Lost) <= crashes

\* A call that returns a worker's answer leaves no reply stream of that attempt
\* behind (queue.py:119-122), although the worker, a restarted worker and the
\* group's other workers go on.
NoReplyLeftBehind ==
  \A c \in Call : call[c].outcome = "queue" => reply[CurrentId(c)] = 0

\* infer() turns to the direct gateway or to an error envelope only after every
\* attempt it may make has failed, and a queue answer counts the attempts that
\* failed before it (invocation.py:89-111).
GivesUpLast ==
  invoker.queue => \A c \in Call :
    /\ call[c].pc = "direct" \/ call[c].outcome \notin {"none", "queue"}
         => call[c].errors = MaxRetries + 1
    /\ call[c].outcome = "queue" => call[c].errors = call[c].attempt

\* From outside, a request is queued, taken once, and answered once or lost: no
\* crash, restart, retry or second worker makes it run again (queue.py:207).
Stage(id) ==
  CASE id \in Held -> "working"
    [] id \in answered \ Held -> "answered"
    [] id \in Lost -> "lost"
    [] id \in Enqueued \ (Delivered \cup Held \cup answered) -> "queued"
    [] OTHER -> "none"

StageOf == [id \in Id |-> Stage(id)]

Life == INSTANCE RequestLife WITH Request <- Id, stage <- StageOf
TakenOnce == Life!Spec

\* Every call of infer() returns, whatever workers and Redis do.
CallReturns == \A c \in Call : call[c].pc # "idle" ~> call[c].pc = "done"

\* Every request that reaches the stream, also one enqueued before the group was
\* made or while no worker ran, is answered, unless a worker goes away with it.
EveryRequestServed ==
  \A id \in Id : Stage(id) = "queued" ~> Stage(id) \in {"answered", "lost"}
=============================================================================
