---------------------------- MODULE TaskDelivery ----------------------------
(***************************************************************************)
(* What the scheduler promises the caller of submit(), with no slots,      *)
(* threads or queues: workers may answer a submitted task with statuses,   *)
(* and the caller's callback runs at most once, with the best of the       *)
(* answers that could have reached it.  LinepScheduler implements this.    *)
(***************************************************************************)
EXTENDS Sequences, Naturals

CONSTANTS
  Corr,          \* tasks
  WorkerStatus,  \* statuses a worker's answer can carry
  OK,            \* the status of a useful answer
  NoAnswer       \* statuses reported when no worker answered: rejected, timeout

VARIABLES submitted, replies, answers

vars == <<submitted, replies, answers>>

Init ==
  /\ submitted = {}
  /\ replies = [c \in Corr |-> {}]
  /\ answers = [c \in Corr |-> <<>>]

Submit(c) ==
  /\ c \notin submitted
  /\ submitted' = submitted \cup {c}
  /\ UNCHANGED <<replies, answers>>

\* Answers still come in after the first OK was reported; after any other
\* report nothing more is asked of a worker for this task.
WorkerReplies(c, st) ==
  /\ c \in submitted
  /\ answers[c] \in {<<>>, <<OK>>}
  /\ replies' = [replies EXCEPT ![c] = @ \cup {st}]
  /\ UNCHANGED <<submitted, answers>>

\* A status no worker sent is reported only when no worker answered, and a
\* failure a worker sent only when no worker answered OK.
Reportable(c, st) ==
  \/ st = OK /\ OK \in replies[c]
  \/ st \in replies[c] /\ OK \notin replies[c]
  \/ st \in NoAnswer /\ replies[c] = {}

Report(c, st) ==
  /\ c \in submitted
  /\ answers[c] = <<>>
  /\ Reportable(c, st)
  /\ answers' = [answers EXCEPT ![c] = <<st>>]
  /\ UNCHANGED <<submitted, replies>>

Next ==
  \E c \in Corr :
    \/ Submit(c)
    \/ \E st \in WorkerStatus : WorkerReplies(c, st)
    \/ \E st \in WorkerStatus \cup NoAnswer : Report(c, st)

Spec == Init /\ [][Next]_vars
=============================================================================
