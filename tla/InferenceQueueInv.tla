------------------------- MODULE InferenceQueueInv -------------------------
(***************************************************************************)
(* The inductive invariant of InferenceQueue.                              *)
(***************************************************************************)
EXTENDS InferenceQueue

CallState == [pc : CallPc, attempt : 0..MaxRetries, errors : 0..(MaxRetries + 1),
              timedOut : BOOLEAN, outcome : Outcome]

\* What the state of a call says of the attempts behind it.
CallConsistent(state) ==
  /\ state.pc = "idle" => state.attempt = 0 /\ state.errors = 0
  /\ state.pc \in OnQueue => invoker.queue /\ state.errors = state.attempt
  /\ state.pc # "done" => state.outcome = "none"
  /\ state.outcome = "queue" => state.errors = state.attempt
  /\ invoker.queue /\ (state.pc = "direct" \/ state.outcome \notin {"none", "queue"})
       => state.errors = MaxRetries + 1

CallShape == \A c \in Call : CallConsistent(call[c])

\* The call may have put its n-th attempt into the stream.
Sent(state, n) ==
  \/ n < state.attempt
  \/ n = state.attempt /\ state.pc \notin {"idle", "enqueue"}

\* Every attempt is enqueued once, and not before its turn.
StreamShape ==
  /\ \A i, j \in DOMAIN stream : stream[i] = stream[j] => i = j
  /\ \A i \in DOMAIN stream : Sent(call[stream[i][1]], stream[i][2])

\* Nothing is delivered and no worker reads before the group is made.
GroupShape ==
  /\ ~group => cursor = 0
  /\ \A w \in Worker : worker[w].pc \notin {"down", "boot"} => group

\* A worker that infers holds a delivered request nobody has answered and no
\* other worker holds; one that acknowledges has answered.
WorkerShape ==
  /\ answered \subseteq Delivered
  /\ \A w \in Worker :
       /\ worker[w].pc = "infer" => worker[w].id \in Delivered \ answered
       /\ worker[w].pc = "ack" => worker[w].id \in answered
  /\ \A v, w \in Worker :
       worker[v].pc = "infer" /\ worker[w].pc = "infer" /\ v # w
         => worker[v].id # worker[w].id

\* A reply was written once, and a call that received it knows it was.
ReplyShape ==
  /\ \A id \in Id : reply[id] > 0 => id \in answered
  /\ \A c \in Call : call[c].pc = "delete" \/ call[c].outcome = "queue"
                       => CurrentId(c) \in answered
  /\ NoReplyLeftBehind

QInv ==
  /\ TypeOK /\ CallShape /\ StreamShape
  /\ GroupShape /\ WorkerShape /\ ReplyShape
  /\ NothingLostSilently /\ CrashCostsOne
=============================================================================
