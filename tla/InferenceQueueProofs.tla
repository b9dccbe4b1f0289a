------------------------ MODULE InferenceQueueProofs ------------------------
(***************************************************************************)
(* Proofs about InferenceQueue: QInv of InferenceQueueInv is inductive;    *)
(* with it a request is taken once and lost only by a crash, and a call    *)
(* gives up last.                                                          *)
(***************************************************************************)
EXTENDS InferenceQueueInv, FiniteSetTheorems, TLAPS

-----------------------------------------------------------------------------
(* A step of a call *)

\* What every step of a call does, whichever it is: the call's state, the
\* request it may enqueue and the reply stream it may delete.
CallMoves(c, state) ==
  /\ call' = [call EXCEPT ![c] = state]
  /\ CallConsistent(state)
  /\ \A n \in 0..MaxRetries : Sent(call[c], n) => Sent(state, n)
  /\ \/ stream' = stream
     \/ /\ call[c].pc = "enqueue" /\ Sent(state, call[c].attempt)
        /\ stream' = Append(stream, CurrentId(c))
  /\ \/ reply' = reply
     \/ call[c].pc = "delete" /\ reply' = [reply EXCEPT ![CurrentId(c)] = 0]
  /\ state.pc = "delete" => /\ state.attempt = call[c].attempt
                            /\ reply[CurrentId(c)] > 0
                            /\ state.outcome = "none"
  /\ state.outcome = "queue" => /\ state.attempt = call[c].attempt
                                /\ call[c].pc = "delete"
                                /\ reply' = [reply EXCEPT ![CurrentId(c)] = 0]

\* The id of a call's current attempt.
LEMMA CurrentIdType ==
  ASSUME TypeOK, NEW c \in Call
  PROVE  /\ call[c] \in CallState
         /\ CurrentId(c) \in Id
BY DEF TypeOK, CallState, CurrentId, Id

\* The steps that touch no stream.
LEMMA LocalMoves ==
  ASSUME TypeOK, CallShape, NEW c \in Call, StartCall(c) \/ Receive(c) \/ Direct(c)
  PROVE  \E state \in CallState : CallMoves(c, state)
<1> USE CurrentIdType, QueueAssumption
<1>0. call[c] \in CallState /\ CallConsistent(call[c])
  BY DEF CallShape
<1> DEFINE Goes2(pc) == [call[c] EXCEPT !.pc = pc]
           Done(outcome) == [call[c] EXCEPT !.pc = "done", !.outcome = outcome]
<1>1. CASE StartCall(c)
  <2>1. CASE invoker.queue /\ call' = [call EXCEPT ![c].pc = "enqueue"]
    <3>1. Goes2("enqueue") \in CallState
      BY <1>0 DEF CallState, CallPc
    <3>2. CallMoves(c, Goes2("enqueue"))
      BY <1>0, <1>1, <2>1 DEF StartCall, CallMoves, CallConsistent, Sent, OnQueue, redisVars, CallState
    <3>3. QED
      BY <3>1, <3>2
  <2>2. CASE ~invoker.queue /\ call' = [call EXCEPT ![c].pc = "direct"]
    <3>1. Goes2("direct") \in CallState
      BY <1>0 DEF CallState, CallPc
    <3>2. CallMoves(c, Goes2("direct"))
      BY <1>0, <1>1, <2>2 DEF StartCall, CallMoves, CallConsistent, Sent, OnQueue, redisVars, CallState
    <3>3. QED
      BY <3>1, <3>2
  <2>3. CASE ~invoker.queue /\ Ends(c, "raised")
    <3>1. Done("raised") \in CallState
      BY <1>0 DEF CallState, CallPc, Outcome
    <3>2. CallMoves(c, Done("raised"))
      BY <1>0, <1>1, <2>3 DEF StartCall, CallMoves, CallConsistent, Sent, OnQueue, redisVars, CallState, Ends
    <3>3. QED
      BY <3>1, <3>2
  <2>4. QED
    BY <1>1, <2>1, <2>2, <2>3 DEF StartCall
<1>2. CASE Receive(c)
  <2>1. Goes2("delete") \in CallState
    BY <1>0 DEF CallState, CallPc
  <2>2. CallMoves(c, Goes2("delete"))
    BY <1>0, <1>2 DEF Receive, CallMoves, CallConsistent, Sent, OnQueue, redisVars, CallState
  <2>3. QED
    BY <2>1, <2>2
<1>3. CASE Direct(c)
  <2>1. PICK outcome \in {"direct", "raised"} : Ends(c, outcome)
    BY <1>3 DEF Direct
  <2>2. Done(outcome) \in CallState
    BY <1>0 DEF CallState, CallPc, Outcome
  <2>3. CallMoves(c, Done(outcome))
    BY <1>0, <1>3, <2>1 DEF Direct, CallMoves, CallConsistent, Sent, OnQueue, redisVars, CallState, Ends
  <2>4. QED
    BY <2>2, <2>3
<1>4. QED
  BY <1>1, <1>2, <1>3

\* A command that succeeds.
LEMMA CommandMoves ==
  ASSUME TypeOK, CallShape, NEW c \in Call, Enqueue(c) \/ Return(c)
  PROVE  \E state \in CallState : CallMoves(c, state)
<1> USE CurrentIdType, QueueAssumption
<1>0. call[c] \in CallState /\ CallConsistent(call[c])
  BY DEF CallShape
<1>1. CASE Enqueue(c)
  <2> DEFINE state == [call[c] EXCEPT !.pc = "wait"]
  <2>1. state \in CallState
    BY <1>0 DEF CallState, CallPc
  <2>2. CallMoves(c, state)
    BY <1>0, <1>1 DEF Enqueue, Effect, CallMoves, CallConsistent, Sent, OnQueue, CallState
  <2>3. QED
    BY <2>1, <2>2
<1>2. CASE Return(c)
  <2> DEFINE state == [call[c] EXCEPT !.pc = "done", !.outcome = "queue"]
  <2>1. state \in CallState
    BY <1>0 DEF CallState, CallPc, Outcome
  <2>2. CallMoves(c, state)
    BY <1>0, <1>2 DEF Return, Effect, CallMoves, CallConsistent, Sent, OnQueue, CallState, Ends
  <2>3. QED
    BY <2>1, <2>2
<1>3. QED
  BY <1>1, <1>2

\* An attempt that fails.
LEMMA FailureMoves ==
  ASSUME TypeOK, CallShape, NEW c \in Call, RedisError(c) \/ Deadline(c)
  PROVE  \E state \in CallState : CallMoves(c, state)
<1> USE CurrentIdType, QueueAssumption
<1>0. call[c] \in CallState /\ CallConsistent(call[c])
  BY DEF CallShape
<1>1. PICK timeout \in BOOLEAN : AttemptFails(c, timeout)
  BY DEF RedisError, Deadline
<1>2. /\ call[c].pc \in OnQueue
      /\ Effect(c) \/ UNCHANGED <<stream, reply>>
  BY DEF RedisError, Deadline, UnderDeadline
<1> DEFINE failed == [call[c] EXCEPT !.errors = @ + 1, !.timedOut = @ \/ timeout]
<1>3. /\ failed.errors = call[c].attempt + 1 /\ failed.attempt = call[c].attempt
      /\ failed.pc = call[c].pc
      /\ failed.outcome = "none" /\ invoker.queue
      /\ failed \in CallState
  <2>1. (call[c].timedOut \/ timeout) \in BOOLEAN
    OBVIOUS
  <2>2. /\ call[c].errors = call[c].attempt /\ call[c].errors + 1 \in 0..(MaxRetries + 1)
        /\ call[c].outcome = "none" /\ invoker.queue
    BY <1>0, <1>2 DEF CallState, CallConsistent, OnQueue
  <2> DEFINE late == call[c].timedOut \/ timeout
             e == call[c].errors + 1
  <2>3. failed = [call[c] EXCEPT !.errors = e, !.timedOut = late]
    OBVIOUS
  <2>4. late \in BOOLEAN /\ e \in 0..(MaxRetries + 1) /\ e = call[c].attempt + 1
    BY <2>1, <2>2
  <2> HIDE DEF late, failed, e
  <2>5. /\ failed \in CallState /\ failed.errors = e
        /\ failed.attempt = call[c].attempt /\ failed.pc = call[c].pc
        /\ failed.outcome = call[c].outcome
    BY <1>0, <2>3, <2>4 DEF CallState
  <2>6. QED
    BY <2>2, <2>4, <2>5
<1> HIDE DEF failed
<1>4. ASSUME NEW state \in CallState,
             call' = [call EXCEPT ![c] = state],
             CallConsistent(state),
             \/ state.attempt = call[c].attempt + 1
             \/ state.attempt = call[c].attempt /\ state.pc \in {"direct", "done"},
             state.pc # "delete", state.outcome # "queue"
      PROVE  CallMoves(c, state)
  <2>1. \A n \in 0..MaxRetries : Sent(call[c], n) => Sent(state, n)
    BY <1>0, <1>4 DEF Sent, CallState
  <2>2. Sent(state, call[c].attempt)
    BY <1>0, <1>4 DEF Sent, CallState
  <2>3. QED
    BY <1>2, <1>4, <2>1, <2>2 DEF CallMoves, Effect
<1>5. CASE MoreAttempts(c) /\ call' = [call EXCEPT ![c] =
              [failed EXCEPT !.pc = "enqueue", !.attempt = @ + 1]]
  <2> DEFINE state == [failed EXCEPT !.pc = "enqueue", !.attempt = @ + 1]
  <2>0. call[c].attempt + 1 \in 0..MaxRetries
    BY <1>0, <1>5 DEF CallState, MoreAttempts
  <2>1. state \in CallState /\ state.attempt = call[c].attempt + 1
    BY <1>3, <2>0 DEF CallState, CallPc
  <2>2. CallConsistent(state) /\ state.pc # "delete" /\ state.outcome # "queue"
    BY <1>0, <1>3, <1>5 DEF CallState, CallConsistent, OnQueue
  <2>3. QED
    BY <1>4, <1>5, <2>1, <2>2
<1>6. CASE ~MoreAttempts(c) /\ call' = [call EXCEPT ![c] = [failed EXCEPT !.pc = "direct"]]
  <2> DEFINE state == [failed EXCEPT !.pc = "direct"]
  <2>1. state \in CallState /\ state.attempt = call[c].attempt
    BY <1>0, <1>3, <1>6 DEF CallState, CallPc
  <2>2. failed.errors = MaxRetries + 1
    BY <1>0, <1>3, <1>6 DEF CallState, MoreAttempts
  <2>3. CallConsistent(state) /\ state.pc = "direct" /\ state.outcome # "queue"
    BY <1>0, <1>3, <2>2 DEF CallState, CallConsistent, OnQueue
  <2>4. QED
    BY <1>4, <1>6, <2>1, <2>3
<1>7. CASE ~MoreAttempts(c) /\ call' = [call EXCEPT ![c] =
              [failed EXCEPT !.pc = "done",
                             !.outcome = IF failed.timedOut THEN "timeout" ELSE "failed"]]
  <2> DEFINE state == [failed EXCEPT !.pc = "done",
                             !.outcome = IF failed.timedOut THEN "timeout" ELSE "failed"]
  <2>1. state \in CallState /\ state.attempt = call[c].attempt
    BY <1>0, <1>3, <1>7 DEF CallState, CallPc, Outcome
  <2>2. failed.errors = MaxRetries + 1
    BY <1>0, <1>3, <1>7 DEF CallState, MoreAttempts
  <2>3. CallConsistent(state) /\ state.pc = "done" /\ state.outcome # "queue"
    BY <1>0, <1>3, <2>2 DEF CallState, CallConsistent, OnQueue
  <2>4. QED
    BY <1>4, <1>7, <2>1, <2>3
<1>8. QED
  BY <1>1, <1>5, <1>6, <1>7 DEF AttemptFails, failed
\* Every step of a call is one of those, and leaves the workers alone.
LEMMA ClientMoves ==
  ASSUME TypeOK, CallShape, NEW c \in Call, ClientStep(c)
  PROVE  /\ \E state \in CallState : CallMoves(c, state)
         /\ UNCHANGED <<invoker, group, cursor, pel, worker, crashes, answered>>
<1>1. \E state \in CallState : CallMoves(c, state)
  BY LocalMoves, CommandMoves, FailureMoves DEF ClientStep
<1>2. UNCHANGED <<invoker, group, cursor, pel, worker, crashes, answered>>
  BY DEF ClientStep, StartCall, Enqueue, Receive, Return, RedisError, Deadline,
         Direct, redisVars
<1>3. QED
  BY <1>1, <1>2

\* Appending to the stream changes nothing that was delivered.
LEMMA AppendKeepsDelivered ==
  ASSUME TypeOK, NEW id \in Id, cursor' = cursor,
         stream' = stream \/ stream' = Append(stream, id)
  PROVE  /\ stream' \in Seq(Id) /\ cursor' \in 0..Len(stream')
         /\ DOMAIN stream \subseteq DOMAIN stream'
         /\ \A i \in DOMAIN stream : stream'[i] = stream[i]
         /\ Delivered' = Delivered
<1>1. stream \in Seq(Id) /\ cursor \in 0..Len(stream)
  BY DEF TypeOK
<1>2. /\ stream' \in Seq(Id) /\ Len(stream') \in {Len(stream), Len(stream) + 1}
      /\ \A i \in 1..Len(stream) : stream'[i] = stream[i]
  BY <1>1
<1>3. Delivered' = Delivered
  BY <1>1, <1>2 DEF Delivered
<1>4. QED
  BY <1>1, <1>2, <1>3

\* The steps of a call preserve the invariant.
LEMMA ClientInv ==
  ASSUME QInv, NEW c \in Call, ClientStep(c)
  PROVE  QInv'
<1> USE QueueAssumption
<1>0. TypeOK /\ CallShape /\ StreamShape /\ GroupShape /\ WorkerShape /\ ReplyShape
  BY DEF QInv
<1>1. /\ UNCHANGED <<invoker, group, cursor, pel, worker, crashes, answered>>
      /\ \E state \in CallState : CallMoves(c, state)
  BY <1>0, ClientMoves
<1>2. PICK state \in CallState : CallMoves(c, state)
  BY <1>1
<1>3. /\ call \in [Call -> CallState] /\ reply \in [Id -> Nat]
      /\ CurrentId(c) \in Id /\ CurrentId(c) = <<c, call[c].attempt>>
      /\ call[c].attempt \in 0..MaxRetries
  BY <1>0, CurrentIdType DEF TypeOK, CallState, CurrentId
<1>4. /\ call' \in [Call -> CallState] /\ call'[c] = state
      /\ \A d \in Call : d # c => call'[d] = call[d]
  BY <1>2, <1>3 DEF CallMoves
<1>5. /\ stream' \in Seq(Id) /\ cursor' \in 0..Len(stream')
      /\ DOMAIN stream \subseteq DOMAIN stream'
      /\ \A i \in DOMAIN stream : stream'[i] = stream[i]
      /\ Delivered' = Delivered
  BY <1>0, <1>1, <1>2, <1>3, AppendKeepsDelivered DEF CallMoves
<1>6. /\ reply' \in [Id -> Nat]
      /\ \A id \in Id : reply'[id] = reply[id] \/ reply'[id] = 0
  <2>1. reply' = reply \/ reply' = [reply EXCEPT ![CurrentId(c)] = 0]
    BY <1>2 DEF CallMoves
  <2>2. QED
    BY <1>3, <2>1
<1>7. Held' = Held
  BY <1>1 DEF Held
<1>8. TypeOK'
  BY <1>0, <1>1, <1>4, <1>5, <1>6 DEF TypeOK, CallState
<1>9. CallShape'
  BY <1>0, <1>1, <1>2, <1>4 DEF CallShape, CallMoves, CallConsistent
<1>10. StreamShape'
  <2>1. \A i \in DOMAIN stream : stream[i] = <<stream[i][1], stream[i][2]>>
          /\ stream[i][1] \in Call /\ stream[i][2] \in 0..MaxRetries
    <3>1. \A i \in DOMAIN stream : stream[i] \in Id
      BY <1>0 DEF TypeOK
    <3>2. \A id \in Id : id = <<id[1], id[2]>> /\ id[1] \in Call /\ id[2] \in 0..MaxRetries
      BY DEF Id
    <3>3. QED
      BY <3>1, <3>2
  <2>2. \A i \in DOMAIN stream : Sent(call[stream[i][1]], stream[i][2])
    BY <1>0 DEF StreamShape
  <2>3. \A i \in DOMAIN stream : Sent(call'[stream[i][1]], stream[i][2])
    BY <1>2, <1>4, <2>1, <2>2 DEF CallMoves
  <2>4. CASE stream' = stream
    BY <1>0, <2>3, <2>4 DEF StreamShape, Sent
  <2>5. CASE /\ call[c].pc = "enqueue" /\ Sent(state, call[c].attempt)
             /\ stream' = Append(stream, CurrentId(c))
    <3>1. ~Sent(call[c], call[c].attempt)
      BY <1>3, <2>5 DEF Sent
    <3>2. \A i \in DOMAIN stream : stream[i] # CurrentId(c)
      BY <1>3, <2>1, <2>2, <3>1
    <3>3. /\ DOMAIN stream' = DOMAIN stream \cup {Len(stream) + 1}
          /\ stream'[Len(stream) + 1] = CurrentId(c)
      BY <1>0, <1>3, <2>5 DEF TypeOK
    <3>4. \A i, j \in DOMAIN stream' : stream'[i] = stream'[j] => i = j
      BY <1>0, <1>5, <3>2, <3>3 DEF StreamShape
    <3>5. Sent(call'[c], call[c].attempt)
      BY <1>4, <2>5
    <3>6. \A i \in DOMAIN stream' : Sent(call'[stream'[i][1]], stream'[i][2])
      BY <1>3, <1>5, <2>3, <3>3, <3>5
    <3>7. QED
      BY <3>4, <3>6 DEF StreamShape, Sent
  <2>6. QED
    BY <1>2, <2>4, <2>5 DEF CallMoves
<1>11. GroupShape' /\ WorkerShape'
  BY <1>0, <1>1, <1>5 DEF GroupShape, WorkerShape
<1>12. ReplyShape'
  <2>1. \A id \in Id : reply'[id] > 0 => id \in answered'
    BY <1>0, <1>1, <1>3, <1>6 DEF ReplyShape
  <2>2. \A d \in Call : d # c => CurrentId(d)' = CurrentId(d) /\ CurrentId(d) \in Id
    BY <1>0, <1>4, CurrentIdType DEF CurrentId
  <2>3. \A d \in Call : d # c /\ call'[d].outcome = "queue" => reply'[CurrentId(d)] = 0
    BY <1>0, <1>3, <1>4, <1>6, <2>2 DEF ReplyShape, NoReplyLeftBehind
  <2>4. \A d \in Call : d # c /\ (call'[d].pc = "delete" \/ call'[d].outcome = "queue")
          => CurrentId(d) \in answered
    BY <1>0, <1>4 DEF ReplyShape
  <2>5. state.pc = "delete" \/ state.outcome = "queue"
          => CurrentId(c)' = CurrentId(c) /\ CurrentId(c) \in answered
    BY <1>0, <1>2, <1>3, <1>4 DEF CallMoves, ReplyShape, CurrentId
  <2>6. state.outcome = "queue" => reply'[CurrentId(c)] = 0
    BY <1>2, <1>3 DEF CallMoves
  <2>7. QED
    BY <1>1, <1>4, <2>1, <2>2, <2>3, <2>4, <2>5, <2>6 DEF ReplyShape, NoReplyLeftBehind
<1>13. NothingLostSilently' /\ CrashCostsOne'
  BY <1>1, <1>5, <1>7 DEF QInv, NothingLostSilently, CrashCostsOne, Lost
<1>14. QED
  BY <1>8, <1>9, <1>10, <1>11, <1>12, <1>13 DEF QInv

-----------------------------------------------------------------------------
(* A step of a worker *)

\* There are finitely many ids, and so finitely many lost ones.
LEMMA FiniteIds ==
  ASSUME NEW S, S \subseteq Id
  PROVE  IsFiniteSet(S) /\ Cardinality(S) \in Nat
<1>1. IsFiniteSet(0..MaxRetries)
  BY QueueAssumption, FS_Interval
<1>2. IsFiniteSet(Id)
  BY <1>1, QueueAssumption, FS_Product DEF Id
<1>3. IsFiniteSet(S)
  BY <1>2, FS_Subset
<1>4. QED
  BY <1>3, FS_CardinalityType

\* What was delivered are ids.
LEMMA DeliveredIds ==
  ASSUME TypeOK
  PROVE  Delivered \subseteq Enqueued /\ Enqueued \subseteq Id
<1>1. stream \in Seq(Id) /\ cursor \in 0..Len(stream)
  BY DEF TypeOK
<1>2. QED
  BY <1>1 DEF Delivered, Enqueued

\* A step that loses no request keeps the number of the lost below the crashes.
LEMMA NoneLost ==
  ASSUME TypeOK, CrashCostsOne, Lost' \subseteq Lost, crashes' = crashes
  PROVE  CrashCostsOne'
<1>1. Lost \subseteq Id
  BY DeliveredIds DEF Lost
<1>2. IsFiniteSet(Lost) /\ Cardinality(Lost) \in Nat
  BY <1>1, FiniteIds
<1>3. Cardinality(Lost') <= Cardinality(Lost)
  BY <1>2, FS_Subset
<1>4. Cardinality(Lost') \in Nat
  BY <1>1, FiniteIds
<1>5. crashes \in Nat
  BY DEF TypeOK
<1>6. QED
  BY <1>2, <1>3, <1>4, <1>5 DEF CrashCostsOne

\* A step of a worker changes no call.
LEMMA CallsUntouched ==
  ASSUME QInv, UNCHANGED <<invoker, call, stream>>
  PROVE  CallShape' /\ StreamShape'
BY DEF QInv, CallShape, StreamShape, CallConsistent

\* The states a worker can be in.
WorkerState == [pc : WorkerPc, id : Id \cup {NoId}]

\* Starting, the worker finds the group or makes it with nothing delivered.
LEMMA EnsureGroupInv ==
  ASSUME QInv, NEW w \in Worker, EnsureGroup(w) \/ Restart(w)
  PROVE  QInv'
<1>0. TypeOK /\ GroupShape /\ WorkerShape /\ ReplyShape /\ NothingLostSilently /\ CrashCostsOne
  BY DEF QInv
<1>1. /\ UNCHANGED <<invoker, stream, cursor, pel, reply, call, crashes, answered>>
      /\ worker[w].pc \in {"boot", "down"}
  BY <1>0 DEF EnsureGroup, Restart, DeliveredAtBoot, GroupShape, redisVars
<1>2. \/ group' = TRUE /\ worker' = [worker EXCEPT ![w].pc = "read"]
      \/ group' = group /\ worker' = [worker EXCEPT ![w].pc = "boot"]
  BY DEF EnsureGroup, Restart, Goes, AfterBoot, redisVars
<1>3. worker \in [Worker -> WorkerState]
  BY <1>0 DEF TypeOK, WorkerState
<1>4. /\ worker' \in [Worker -> WorkerState]
      /\ worker'[w].pc \in {"read", "boot"} /\ worker'[w].id = worker[w].id
      /\ \A v \in Worker : v # w => worker'[v] = worker[v]
  BY <1>2, <1>3 DEF WorkerState, WorkerPc
<1>5. Held' = Held /\ Delivered' = Delivered
  BY <1>1, <1>4 DEF Held, Delivered
<1>6. TypeOK'
  BY <1>0, <1>1, <1>2, <1>4 DEF TypeOK, WorkerState
<1>7. GroupShape' /\ WorkerShape'
  <2>1. GroupShape'
    BY <1>0, <1>1, <1>2, <1>3, <1>4 DEF GroupShape, WorkerState
  <2>2. \A v \in Worker : worker'[v].pc \in {"infer", "ack"} => worker'[v] = worker[v]
    BY <1>4
  <2>3. WorkerShape'
    BY <1>0, <1>1, <1>5, <2>2 DEF WorkerShape
  <2>4. QED
    BY <2>1, <2>3
<1>8. ReplyShape'
  BY <1>0, <1>1 DEF ReplyShape, NoReplyLeftBehind, CurrentId
<1>9. NothingLostSilently' /\ CrashCostsOne'
  BY <1>0, <1>1, <1>5 DEF NothingLostSilently, CrashCostsOne, Lost
<1>10. QED
  BY <1>1, <1>6, <1>7, <1>8, <1>9, CallsUntouched DEF QInv

\* The entry a read delivers is new.
LEMMA ReadTakesNew ==
  ASSUME QInv, NEW w \in Worker, Read(w)
  PROVE  LET id == stream[cursor + 1] IN
         /\ id \in Id /\ id \notin Delivered /\ id \in Enqueued
         /\ cursor + 1 \in 1..Len(stream)
         /\ cursor' = cursor + 1 /\ pel' = pel \cup {id}
         /\ Delivered' = Delivered \cup {id}
         /\ worker' = [worker EXCEPT ![w].pc = "infer", ![w].id = id]
         /\ worker[w].pc = "read"
         /\ UNCHANGED <<invoker, stream, group, reply, call, crashes, answered>>
<1>1. stream \in Seq(Id) /\ cursor \in 0..Len(stream)
  BY DEF QInv, TypeOK
<1>2. Batch = {cursor + 1} /\ cursor + 1 \in 1..Len(stream)
  BY <1>1 DEF Read, Batch
<1>3. Cardinality(Batch) = 1
  BY <1>2, FS_Singleton
<1>4. /\ cursor' = cursor + 1 /\ pel' = pel \cup {stream[cursor + 1]}
      /\ UNCHANGED <<invoker, stream, group, reply, call, crashes, answered>>
      /\ worker[w].pc = "read"
      /\ worker' = [worker EXCEPT ![w].pc = "infer", ![w].id = stream[cursor + 1]]
  BY <1>2, <1>3 DEF Read, Pending
<1>5. stream[cursor + 1] \in Id /\ stream[cursor + 1] \in Enqueued
  BY <1>1, <1>2 DEF Enqueued
<1>6. stream[cursor + 1] \notin Delivered
  BY <1>1, <1>2 DEF QInv, StreamShape, Delivered
<1>7. Delivered' = Delivered \cup {stream[cursor + 1]}
  <2>1. 1..(cursor + 1) = (1..cursor) \cup {cursor + 1}
    BY <1>1
  <2>2. QED
    BY <1>4, <2>1 DEF Delivered
<1>8. QED
  BY <1>2, <1>4, <1>5, <1>6, <1>7

LEMMA ReadInv ==
  ASSUME QInv, NEW w \in Worker, Read(w)
  PROVE  QInv'
<1> DEFINE id == stream[cursor + 1]
<1>0. TypeOK /\ GroupShape /\ WorkerShape /\ ReplyShape /\ NothingLostSilently /\ CrashCostsOne
  BY DEF QInv
<1>1. /\ id \in Id /\ id \notin Delivered
      /\ cursor + 1 \in 1..Len(stream)
      /\ cursor' = cursor + 1 /\ pel' = pel \cup {id}
      /\ Delivered' = Delivered \cup {id}
      /\ worker' = [worker EXCEPT ![w].pc = "infer", ![w].id = id]
      /\ worker[w].pc = "read"
      /\ UNCHANGED <<invoker, stream, group, reply, call, crashes, answered>>
  BY ReadTakesNew
<1> HIDE DEF id
<1>2. worker \in [Worker -> WorkerState]
  BY <1>0 DEF TypeOK, WorkerState
<1>3. /\ worker' \in [Worker -> WorkerState]
      /\ worker'[w].pc = "infer" /\ worker'[w].id = id
      /\ \A v \in Worker : v # w => worker'[v] = worker[v]
  BY <1>1, <1>2 DEF WorkerState, WorkerPc
<1>4. Held' = Held \cup {id}
  BY <1>1, <1>3 DEF Held
<1>5. TypeOK'
  BY <1>0, <1>1, <1>3 DEF TypeOK, WorkerState
<1>6. GroupShape' /\ WorkerShape'
  <2>1. GroupShape'
    BY <1>0, <1>1, <1>3 DEF GroupShape
  <2>2. answered' \subseteq Delivered'
    BY <1>0, <1>1 DEF WorkerShape
  <2>3. id \notin answered
    BY <1>0, <1>1 DEF WorkerShape
  <2>4. \A v \in Worker :
          /\ worker'[v].pc = "infer" => worker'[v].id \in Delivered' \ answered'
          /\ worker'[v].pc = "ack" => worker'[v].id \in answered'
    BY <1>0, <1>1, <1>3, <2>3 DEF WorkerShape
  <2>5. \A v \in Worker : v # w /\ worker[v].pc = "infer" => worker[v].id # id
    BY <1>0, <1>1 DEF WorkerShape
  <2>6. \A u, v \in Worker :
          worker'[u].pc = "infer" /\ worker'[v].pc = "infer" /\ u # v
            => worker'[u].id # worker'[v].id
    BY <1>0, <1>3, <2>5 DEF WorkerShape
  <2>7. QED
    BY <2>1, <2>2, <2>4, <2>6 DEF WorkerShape
<1>7. ReplyShape'
  BY <1>0, <1>1 DEF ReplyShape, NoReplyLeftBehind, CurrentId
<1>8. NothingLostSilently'
  BY <1>0, <1>1 DEF NothingLostSilently
<1>9. CrashCostsOne'
  BY <1>0, <1>1, <1>4, NoneLost DEF Lost
<1>10. QED
  BY <1>1, <1>5, <1>6, <1>7, <1>8, <1>9, CallsUntouched DEF QInv

\* A reply is written once: its writer is the only one to hold the request.
LEMMA ReplyInv ==
  ASSUME QInv, NEW w \in Worker, Reply(w)
  PROVE  QInv'
<1> DEFINE id == worker[w].id
<1>0. TypeOK /\ GroupShape /\ WorkerShape /\ ReplyShape /\ NothingLostSilently /\ CrashCostsOne
  BY DEF QInv
<1>1. worker \in [Worker -> WorkerState] /\ reply \in [Id -> Nat]
  BY <1>0 DEF TypeOK, WorkerState
<1>2. /\ worker[w].pc = "infer" /\ id \in Delivered /\ id \notin answered /\ id \in Id
  BY <1>0, DeliveredIds DEF Reply, WorkerShape
<1>3. /\ worker' = [worker EXCEPT ![w].pc = "ack"]
      /\ reply' = [reply EXCEPT ![id] = @ + 1]
      /\ answered' = answered \cup {id}
      /\ UNCHANGED <<invoker, stream, group, cursor, pel, call, crashes>>
  BY DEF Reply, Goes
<1>4. /\ worker' \in [Worker -> WorkerState]
      /\ worker'[w].pc = "ack" /\ worker'[w].id = id
      /\ \A v \in Worker : v # w => worker'[v] = worker[v]
  BY <1>1, <1>3 DEF WorkerState, WorkerPc
<1>5. /\ reply' \in [Id -> Nat]
      /\ \A other \in Id : other # id => reply'[other] = reply[other]
  BY <1>1, <1>2, <1>3
<1> HIDE DEF id
<1>6. Delivered' = Delivered
  BY <1>3 DEF Delivered
<1>7. Held \subseteq Held' \cup {id}
  BY <1>2, <1>4 DEF Held, id
<1>8. TypeOK'
  BY <1>0, <1>2, <1>3, <1>4, <1>5 DEF TypeOK, WorkerState
<1>9. GroupShape' /\ WorkerShape'
  <2>1. GroupShape'
    BY <1>0, <1>2, <1>3, <1>4 DEF GroupShape
  <2>2. answered' \subseteq Delivered'
    BY <1>0, <1>2, <1>3, <1>6 DEF WorkerShape
  <2>3. \A v \in Worker : worker'[v].pc = "infer" => v # w /\ worker[v].id # id
    BY <1>0, <1>2, <1>4 DEF WorkerShape, id
  <2>4. \A v \in Worker :
          /\ worker'[v].pc = "infer" => worker'[v].id \in Delivered' \ answered'
          /\ worker'[v].pc = "ack" => worker'[v].id \in answered'
    BY <1>0, <1>3, <1>4, <1>6, <2>3 DEF WorkerShape
  <2>5. \A u, v \in Worker :
          worker'[u].pc = "infer" /\ worker'[v].pc = "infer" /\ u # v
            => worker'[u].id # worker'[v].id
    BY <1>0, <1>4, <2>3 DEF WorkerShape
  <2>6. QED
    BY <2>1, <2>2, <2>4, <2>5 DEF WorkerShape
<1>10. ReplyShape'
  <2>1. \A c \in Call : CurrentId(c)' = CurrentId(c) /\ CurrentId(c) \in Id
    BY <1>0, <1>3, CurrentIdType DEF CurrentId
  <2>2. \A other \in Id : reply'[other] > 0 => other \in answered'
    BY <1>0, <1>3, <1>5 DEF ReplyShape
  <2>3. \A c \in Call : call'[c].pc = "delete" \/ call'[c].outcome = "queue"
                          => CurrentId(c) \in answered
    BY <1>0, <1>3 DEF ReplyShape
  <2>4. \A c \in Call : call'[c].outcome = "queue" => reply'[CurrentId(c)] = 0
    BY <1>0, <1>2, <1>3, <1>5, <2>1, <2>3 DEF ReplyShape, NoReplyLeftBehind
  <2>5. QED
    BY <1>3, <2>1, <2>2, <2>3, <2>4 DEF ReplyShape, NoReplyLeftBehind
<1>11. NothingLostSilently'
  BY <1>0, <1>3, <1>6 DEF NothingLostSilently
<1>12. CrashCostsOne'
  BY <1>0, <1>3, <1>6, <1>7, NoneLost DEF Lost
<1>13. QED
  BY <1>3, <1>8, <1>9, <1>10, <1>11, <1>12, CallsUntouched DEF QInv

\* Only an answered entry is acknowledged.
LEMMA AckInv ==
  ASSUME QInv, NEW w \in Worker, Ack(w)
  PROVE  QInv'
<1>0. TypeOK /\ GroupShape /\ WorkerShape /\ ReplyShape /\ NothingLostSilently /\ CrashCostsOne
  BY DEF QInv
<1>1. worker \in [Worker -> WorkerState]
  BY <1>0 DEF TypeOK, WorkerState
<1>2. /\ worker[w].pc = "ack" /\ worker[w].id \in answered
      /\ pel' = pel \ {worker[w].id}
      /\ worker' = [worker EXCEPT ![w].pc = "read", ![w].id = NoId]
      /\ UNCHANGED <<invoker, stream, group, cursor, reply, call, crashes, answered>>
  BY <1>0 DEF Ack, WorkerShape
<1>3. /\ worker' \in [Worker -> WorkerState] /\ worker'[w].pc = "read"
      /\ \A v \in Worker : v # w => worker'[v] = worker[v]
  BY <1>1, <1>2 DEF WorkerState, WorkerPc
<1>4. Held' = Held /\ Delivered' = Delivered
  BY <1>2, <1>3 DEF Held, Delivered
<1>5. TypeOK'
  BY <1>0, <1>2, <1>3 DEF TypeOK, WorkerState
<1>6. GroupShape' /\ WorkerShape'
  <2>1. GroupShape'
    BY <1>0, <1>2, <1>3 DEF GroupShape
  <2>2. \A v \in Worker : worker'[v].pc \in {"infer", "ack"} => worker'[v] = worker[v]
    BY <1>3
  <2>3. answered' \subseteq Delivered'
    BY <1>0, <1>2, <1>4 DEF WorkerShape
  <2>4. ASSUME NEW v \in Worker
        PROVE  /\ worker'[v].pc = "infer" => worker'[v].id \in Delivered' \ answered'
               /\ worker'[v].pc = "ack" => worker'[v].id \in answered'
    <3>1. /\ worker[v].pc = "infer" => worker[v].id \in Delivered \ answered
          /\ worker[v].pc = "ack" => worker[v].id \in answered
      BY <1>0 DEF WorkerShape
    <3>2. answered' = answered /\ Delivered' \ answered' = Delivered \ answered
      BY <1>2, <1>4
    <3>3. QED
      BY <2>2, <3>1, <3>2
  <2>5. \A u, v \in Worker :
          worker'[u].pc = "infer" /\ worker'[v].pc = "infer" /\ u # v
            => worker'[u].id # worker'[v].id
    BY <1>0, <2>2 DEF WorkerShape
  <2>6. QED
    BY <2>1, <2>3, <2>4, <2>5 DEF WorkerShape
<1>7. ReplyShape'
  BY <1>0, <1>2 DEF ReplyShape, NoReplyLeftBehind, CurrentId
<1>8. NothingLostSilently' /\ CrashCostsOne'
  BY <1>0, <1>2, <1>4 DEF NothingLostSilently, CrashCostsOne, Lost
<1>9. QED
  BY <1>2, <1>5, <1>6, <1>7, <1>8, CallsUntouched DEF QInv

\* A crash loses at most the request the worker holds.
LEMMA CrashInv ==
  ASSUME QInv, NEW w \in Worker, Crash(w)
  PROVE  QInv'
<1>0. TypeOK /\ GroupShape /\ WorkerShape /\ ReplyShape /\ NothingLostSilently /\ CrashCostsOne
  BY DEF QInv
<1>1. worker \in [Worker -> WorkerState]
  BY <1>0 DEF TypeOK, WorkerState
<1>2. /\ worker' = [worker EXCEPT ![w].pc = "down", ![w].id = NoId]
      /\ crashes' = crashes + 1
      /\ UNCHANGED <<invoker, stream, group, cursor, pel, reply, call, answered>>
  BY DEF Crash, redisVars
<1>3. /\ worker' \in [Worker -> WorkerState] /\ worker'[w].pc = "down"
      /\ \A v \in Worker : v # w => worker'[v] = worker[v]
  BY <1>1, <1>2 DEF WorkerState, WorkerPc
<1>4. Delivered' = Delivered
  BY <1>2 DEF Delivered
<1>5. Held \subseteq Held' \cup {worker[w].id}
  BY <1>3 DEF Held
<1>6. TypeOK'
  BY <1>0, <1>2, <1>3 DEF TypeOK, WorkerState
<1>7. GroupShape' /\ WorkerShape'
  <2>1. GroupShape'
    BY <1>0, <1>2, <1>3 DEF GroupShape
  <2>2. \A v \in Worker : worker'[v].pc \in {"infer", "ack"} => worker'[v] = worker[v]
    BY <1>3
  <2>3. answered' \subseteq Delivered'
    BY <1>0, <1>2, <1>4 DEF WorkerShape
  <2>4. ASSUME NEW v \in Worker
        PROVE  /\ worker'[v].pc = "infer" => worker'[v].id \in Delivered' \ answered'
               /\ worker'[v].pc = "ack" => worker'[v].id \in answered'
    <3>1. /\ worker[v].pc = "infer" => worker[v].id \in Delivered \ answered
          /\ worker[v].pc = "ack" => worker[v].id \in answered
      BY <1>0 DEF WorkerShape
    <3>2. answered' = answered /\ Delivered' \ answered' = Delivered \ answered
      BY <1>2, <1>4
    <3>3. QED
      BY <2>2, <3>1, <3>2
  <2>5. \A u, v \in Worker :
          worker'[u].pc = "infer" /\ worker'[v].pc = "infer" /\ u # v
            => worker'[u].id # worker'[v].id
    BY <1>0, <2>2 DEF WorkerShape
  <2>6. QED
    BY <2>1, <2>3, <2>4, <2>5 DEF WorkerShape
<1>8. ReplyShape'
  BY <1>0, <1>2 DEF ReplyShape, NoReplyLeftBehind, CurrentId
<1>9. NothingLostSilently'
  BY <1>0, <1>2, <1>4 DEF NothingLostSilently
<1>10. CrashCostsOne'
  <2>1. Lost' \subseteq Lost \cup {worker[w].id}
    BY <1>2, <1>4, <1>5 DEF Lost
  <2>2. Lost \subseteq Id /\ Lost' \subseteq Id
    BY <1>0, <1>2, <1>4, DeliveredIds DEF Lost
  <2>3. /\ IsFiniteSet(Lost) /\ Cardinality(Lost) \in Nat /\ Cardinality(Lost') \in Nat
    BY <2>2, FiniteIds
  <2>4. /\ IsFiniteSet(Lost \cup {worker[w].id})
        /\ Cardinality(Lost \cup {worker[w].id}) \in {Cardinality(Lost), Cardinality(Lost) + 1}
    BY <2>3, FS_AddElement
  <2>5. Cardinality(Lost') <= Cardinality(Lost \cup {worker[w].id})
    BY <2>1, <2>4, FS_Subset
  <2>6. Cardinality(Lost) <= crashes /\ crashes \in Nat
    BY <1>0 DEF CrashCostsOne, TypeOK
  <2>7. QED
    BY <1>2, <2>3, <2>4, <2>5, <2>6 DEF CrashCostsOne
<1>11. QED
  BY <1>2, <1>6, <1>7, <1>8, <1>9, <1>10, CallsUntouched DEF QInv

-----------------------------------------------------------------------------
(* The invariant and what follows from it *)

LEMMA InitQInv == Init => QInv
<1> SUFFICES ASSUME Init PROVE QInv
  OBVIOUS
<1> USE QueueAssumption
<1>1. Delivered = {} /\ Held = {} /\ stream \in Seq(Id) /\ DOMAIN stream = {}
  BY DEF Init, Delivered, Held
<1>2. TypeOK
  <2>1. worker \in [Worker -> WorkerState]
    BY DEF Init, WorkerState, WorkerPc
  <2>2. call \in [Call -> CallState]
    BY DEF Init, CallState, CallPc, Outcome
  <2>3. /\ invoker \in InvokerConfig /\ group \in BOOLEAN
        /\ pel \subseteq Id /\ reply \in [Id -> Nat]
        /\ crashes \in Nat /\ answered \subseteq Id
    BY DEF Init
  <2>4. stream \in Seq(Id) /\ cursor \in 0..Len(stream)
    BY <1>1 DEF Init
  <2>5. QED
    BY <2>1, <2>2, <2>3, <2>4 DEF TypeOK, WorkerState, CallState
<1>3. CallShape /\ StreamShape /\ GroupShape /\ WorkerShape /\ ReplyShape
  BY <1>1 DEF Init, CallShape, CallConsistent, OnQueue, StreamShape, GroupShape,
              WorkerShape, ReplyShape, NoReplyLeftBehind
<1>4. NothingLostSilently
  BY <1>1 DEF NothingLostSilently
<1>5. CrashCostsOne
  BY <1>1, FS_EmptySet DEF CrashCostsOne, Lost, Init
<1>6. QED
  BY <1>2, <1>3, <1>4, <1>5 DEF QInv

\* No step breaks the invariant.
LEMMA NextQInv == QInv /\ [Next]_vars => QInv'
<1> SUFFICES ASSUME QInv, [Next]_vars PROVE QInv'
  OBVIOUS
<1>1. CASE \E c \in Call : ClientStep(c)
  BY <1>1, ClientInv
<1>2. CASE \E w \in Worker : WorkerStep(w) \/ Crash(w) \/ Restart(w)
  BY <1>2, EnsureGroupInv, ReadInv, ReplyInv, AckInv, CrashInv DEF WorkerStep
<1>3. CASE UNCHANGED vars
  BY <1>3 DEF vars, redisVars, QInv, TypeOK, CallShape, CallConsistent, StreamShape, Sent,
              GroupShape, WorkerShape, ReplyShape, NoReplyLeftBehind, CurrentId,
              NothingLostSilently, CrashCostsOne, Lost, Held, Delivered
<1>4. QED
  BY <1>1, <1>2, <1>3 DEF Next

\* The inductive invariant holds in every state.
THEOREM QueueInvariance == Spec => []QInv
<1>1. QED
  BY InitQInv, NextQInv, PTL DEF Spec

\* Every variable keeps its type: no call makes an attempt too many.
THEOREM QueueTypes == Spec => []TypeOK
<1>1. QInv => TypeOK
  BY DEF QInv
<1>2. QED
  BY <1>1, QueueInvariance, PTL

\* What was delivered is answered or still in the pending list.
THEOREM NothingLost == Spec => []NothingLostSilently
<1>1. QInv => NothingLostSilently
  BY DEF QInv
<1>2. QED
  BY <1>1, QueueInvariance, PTL

\* A crash costs at most one request.
THEOREM CrashCost == Spec => []CrashCostsOne
<1>1. QInv => CrashCostsOne
  BY DEF QInv
<1>2. QED
  BY <1>1, QueueInvariance, PTL

\* A returned answer leaves no reply stream behind.
THEOREM RepliesCleared == Spec => []NoReplyLeftBehind
<1>1. QInv => NoReplyLeftBehind
  BY DEF QInv, ReplyShape
<1>2. QED
  BY <1>1, QueueInvariance, PTL

\* A call gives up only after all its attempts failed.
THEOREM AllAttemptsMade == Spec => []GivesUpLast
<1>1. QInv => GivesUpLast
  BY DEF QInv, CallShape, CallConsistent, GivesUpLast
<1>2. QED
  BY <1>1, QueueInvariance, PTL

-----------------------------------------------------------------------------
(* The queue implements RequestLife *)

\* How the four sets that make up a stage lie in each other.
LEMMA StageSets ==
  ASSUME QInv
  PROVE  /\ Held \subseteq Delivered /\ Held \cap answered = {}
         /\ answered \subseteq Delivered /\ Delivered \subseteq Enqueued
         /\ Enqueued \subseteq Id
<1>1. Held \subseteq Delivered \ answered
  BY DEF QInv, WorkerShape, Held
<1>2. QED
  BY <1>1, DeliveredIds DEF QInv, WorkerShape

\* The stage of a request, read from the newest set it is in.
LEMMA StageValues ==
  ASSUME QInv, NEW id
  PROVE  /\ id \in Held => Stage(id) = "working"
         /\ id \in answered => Stage(id) = "answered"
         /\ id \in Lost => Stage(id) = "lost"
         /\ id \in Enqueued \ Delivered => Stage(id) = "queued"
         /\ id \notin Enqueued => Stage(id) = "none"
BY StageSets DEF Stage, Lost

\* Where no set changes, no stage does.
LEMMA StageKept ==
  ASSUME UNCHANGED <<stream, cursor, answered>>, Held' = Held
  PROVE  StageOf' = StageOf
<1>1. Delivered' = Delivered /\ Enqueued' = Enqueued /\ Lost' = Lost
  BY DEF Delivered, Enqueued, Lost
<1>2. ASSUME NEW id \in Id PROVE Stage(id)' = Stage(id)
  BY <1>1 DEF Stage
<1>3. QED
  BY <1>2 DEF StageOf

\* Where one request moves, its stage alone changes.
LEMMA StageMoved ==
  ASSUME QInv, QInv', NEW r \in Id, NEW from, NEW to,
         Stage(r) = from, Stage(r)' = to,
         \A id \in Id : id # r =>
           /\ id \in Held' <=> id \in Held
           /\ id \in answered' <=> id \in answered
           /\ id \in Delivered' <=> id \in Delivered
           /\ id \in Enqueued' <=> id \in Enqueued
  PROVE  StageOf[r] = from /\ StageOf' = [StageOf EXCEPT ![r] = to]
<1>1. ASSUME NEW id \in Id, id # r PROVE Stage(id)' = Stage(id)
  BY <1>1 DEF Stage, Lost
<1>2. QED
  BY <1>1 DEF StageOf

\* A call's step enqueues a new request or changes no stage.
LEMMA ClientLife ==
  ASSUME QInv, QInv', NEW c \in Call, ClientStep(c)
  PROVE  Life!Next \/ UNCHANGED StageOf
<1>0. TypeOK /\ CallShape /\ stream \in Seq(Id) /\ cursor \in 0..Len(stream)
  BY DEF QInv, TypeOK
<1>1. UNCHANGED <<group, cursor, pel, worker, answered>> /\ Held' = Held
  BY <1>0, ClientMoves DEF Held
<1>2. PICK state \in CallState : CallMoves(c, state)
  BY <1>0, ClientMoves
<1>3. CASE stream' = stream
  BY <1>1, <1>3, StageKept
<1>4. CASE call[c].pc = "enqueue" /\ stream' = Append(stream, CurrentId(c))
  <2>1. PICK r \in Id : r = CurrentId(c)
    BY <1>0, CurrentIdType
  <2>2. r \notin Enqueued
    <3>1. ~Sent(call[c], call[c].attempt)
      BY <1>0, <1>4, CurrentIdType DEF Sent, CallState
    <3>2. r[1] = c /\ r[2] = call[c].attempt
      BY <2>1 DEF CurrentId
    <3>3. QED
      BY <3>1, <3>2 DEF QInv, StreamShape, Enqueued
  <2>3. Enqueued' = Enqueued \cup {r}
    <3>1. /\ DOMAIN stream' = DOMAIN stream \cup {Len(stream) + 1}
          /\ stream'[Len(stream) + 1] = r
          /\ \A i \in DOMAIN stream : stream'[i] = stream[i]
      BY <1>0, <1>4, <2>1
    <3>2. QED
      BY <3>1 DEF Enqueued
  <2>4. Delivered' = Delivered
    BY <1>0, <1>1, <1>4, <2>1, AppendKeepsDelivered
  <2>5. Stage(r) = "none"
    BY <2>2, StageValues
  <2>6. r \in Enqueued' \ Delivered'
    BY <2>2, <2>3, <2>4, StageSets
  <2>7. Stage(r)' = "queued"
    <3>1. r \notin Held' /\ r \notin answered' /\ r \notin Lost'
      BY <1>1, <2>2, <2>4, StageSets DEF Lost
    <3>2. QED
      BY <1>1, <2>6, <3>1 DEF Stage
  <2>8. StageOf[r] = "none" /\ StageOf' = [StageOf EXCEPT ![r] = "queued"]
    BY <1>1, <2>3, <2>4, <2>5, <2>7, StageMoved
  <2>9. Life!Enqueue(r)
    BY <2>8 DEF Life!Enqueue, Life!Moves
  <2>10. QED
    BY <2>9 DEF Life!Next
<1>5. QED
  BY <1>2, <1>3, <1>4 DEF CallMoves

\* No other worker holds the request of a worker that infers.
LEMMA HeldAlone ==
  ASSUME WorkerShape, NEW w \in Worker, worker[w].pc = "infer",
         worker'[w].pc # "infer",
         \A v \in Worker : v # w => worker'[v] = worker[v]
  PROVE  Held' = Held \ {worker[w].id}
<1>1. \A v \in Worker : v # w /\ worker[v].pc = "infer" => worker[v].id # worker[w].id
  BY DEF WorkerShape
<1>2. QED
  BY <1>1 DEF Held

\* Taking the next entry moves it from queued to working.
LEMMA ReadLife ==
  ASSUME QInv, QInv', NEW w \in Worker, Read(w)
  PROVE  Life!Next
<1>1. worker \in [Worker -> WorkerState]
  BY DEF QInv, TypeOK, WorkerState
<1>2. PICK r \in Id : r = stream[cursor + 1]
  BY ReadTakesNew
<1>3. /\ r \in Enqueued \ Delivered
      /\ Delivered' = Delivered \cup {r}
      /\ worker' = [worker EXCEPT ![w].pc = "infer", ![w].id = r]
      /\ worker[w].pc = "read"
      /\ UNCHANGED <<stream, answered>>
  BY <1>2, ReadTakesNew
<1>4. /\ worker[w].pc # "infer"
      /\ worker'[w].pc = "infer" /\ worker'[w].id = r
      /\ \A v \in Worker : v # w => worker'[v] = worker[v]
  BY <1>1, <1>3 DEF WorkerState
<1>5. Held' = Held \cup {r}
  BY <1>4 DEF Held
<1>6. Enqueued' = Enqueued
  BY <1>3 DEF Enqueued
<1>7. Stage(r) = "queued"
  BY <1>3, StageValues
<1>8. Stage(r)' = "working"
  BY <1>5 DEF Stage, Lost
<1>9. StageOf[r] = "queued" /\ StageOf' = [StageOf EXCEPT ![r] = "working"]
  BY <1>3, <1>5, <1>6, <1>7, <1>8, StageMoved
<1>10. QED
  BY <1>9 DEF Life!Next, Life!Take, Life!Moves

\* Writing the reply moves the request from working to answered.
LEMMA ReplyLife ==
  ASSUME QInv, QInv', NEW w \in Worker, Reply(w)
  PROVE  Life!Next
<1>1. worker \in [Worker -> WorkerState] /\ WorkerShape
  BY DEF QInv, TypeOK, WorkerState
<1>2. /\ worker[w].pc = "infer"
      /\ worker' = [worker EXCEPT ![w].pc = "ack"]
      /\ answered' = answered \cup {worker[w].id}
      /\ UNCHANGED <<stream, cursor>>
  BY DEF Reply, Goes
<1>3. worker[w].id \in Held
  BY <1>2 DEF Held
<1>4. PICK r \in Id : r = worker[w].id
  BY <1>3, StageSets
<1>5. /\ worker'[w].pc = "ack"
      /\ \A v \in Worker : v # w => worker'[v] = worker[v]
  BY <1>1, <1>2 DEF WorkerState
<1>6. Held' = Held \ {r}
  BY <1>1, <1>2, <1>4, <1>5, HeldAlone
<1>7. Enqueued' = Enqueued /\ Delivered' = Delivered
  BY <1>2 DEF Enqueued, Delivered
<1>8. Stage(r) = "working"
  BY <1>3, <1>4, StageValues
<1>9. Stage(r)' = "answered"
  BY <1>2, <1>4, <1>6, <1>7, <1>3, StageSets DEF Stage, Lost
<1>10. StageOf[r] = "working" /\ StageOf' = [StageOf EXCEPT ![r] = "answered"]
  BY <1>2, <1>4, <1>6, <1>7, <1>8, <1>9, StageMoved
<1>11. QED
  BY <1>10 DEF Life!Next, Life!Answer, Life!Moves

\* A crash loses the request that was held, if any.
LEMMA CrashLife ==
  ASSUME QInv, QInv', NEW w \in Worker, Crash(w)
  PROVE  Life!Next \/ UNCHANGED StageOf
<1>1. worker \in [Worker -> WorkerState] /\ WorkerShape
  BY DEF QInv, TypeOK, WorkerState
<1>2. /\ worker' = [worker EXCEPT ![w].pc = "down", ![w].id = NoId]
      /\ UNCHANGED <<stream, cursor, answered>>
  BY DEF Crash, redisVars
<1>3. /\ worker'[w].pc = "down"
      /\ \A v \in Worker : v # w => worker'[v] = worker[v]
  BY <1>1, <1>2 DEF WorkerState
<1>4. CASE worker[w].pc = "infer"
  <2>1. worker[w].id \in Held
    BY <1>4 DEF Held
  <2>2. PICK r \in Id : r = worker[w].id
    BY <2>1, StageSets
  <2>3. Held' = Held \ {r}
    BY <1>1, <1>3, <1>4, <2>2, HeldAlone
  <2>4. Enqueued' = Enqueued /\ Delivered' = Delivered
    BY <1>2 DEF Enqueued, Delivered
  <2>5. r \in Delivered \ answered
    BY <2>1, <2>2, StageSets
  <2>6. Stage(r) = "working"
    BY <2>1, <2>2, StageValues
  <2>7. r \in Lost' /\ r \notin Held' /\ r \notin answered'
    BY <1>2, <2>3, <2>4, <2>5 DEF Lost
  <2>8. Stage(r)' = "lost"
    BY <2>4, <2>5, <2>7 DEF Stage
  <2>9. StageOf[r] = "working" /\ StageOf' = [StageOf EXCEPT ![r] = "lost"]
    BY <1>2, <2>2, <2>3, <2>4, <2>6, <2>8, StageMoved
  <2>10. QED
    BY <2>9 DEF Life!Next, Life!Lose, Life!Moves
<1>5. CASE worker[w].pc # "infer"
  <2>1. Held' = Held
    BY <1>3, <1>5 DEF Held
  <2>2. QED
    BY <1>2, <2>1, StageKept
<1>6. QED
  BY <1>4, <1>5

\* Starting and acknowledging change no stage.
LEMMA QuietLife ==
  ASSUME QInv, NEW w \in Worker, EnsureGroup(w) \/ Ack(w) \/ Restart(w)
  PROVE  UNCHANGED StageOf
<1>1. worker \in [Worker -> WorkerState]
  BY DEF QInv, TypeOK, WorkerState
<1>2. /\ worker[w].pc # "infer"
      /\ UNCHANGED <<stream, answered>>
      /\ worker'[w].pc # "infer"
      /\ \A v \in Worker : v # w => worker'[v] = worker[v]
  BY <1>1 DEF EnsureGroup, Ack, Restart, Goes, AfterBoot, WorkerState, redisVars
<1>3. Held' = Held
  BY <1>2 DEF Held
<1>4. cursor' = cursor
  BY DEF EnsureGroup, Ack, Restart, DeliveredAtBoot, redisVars, QInv, GroupShape
<1>5. QED
  BY <1>2, <1>3, <1>4, StageKept

\* Every step of the queue is a step of RequestLife or a stutter.
LEMMA LifeStep ==
  ASSUME QInv, QInv', [Next]_vars
  PROVE  [Life!Next]_StageOf
<1>1. CASE UNCHANGED vars
  <2>1. UNCHANGED <<stream, cursor, answered>> /\ Held' = Held
    BY <1>1 DEF vars, redisVars, Held
  <2>2. QED
    BY <2>1, StageKept
<1>2. ASSUME NEW c \in Call, ClientStep(c) PROVE [Life!Next]_StageOf
  BY <1>2, ClientLife
<1>3. ASSUME NEW w \in Worker, WorkerStep(w) \/ Crash(w) \/ Restart(w)
      PROVE [Life!Next]_StageOf
  BY <1>3, ReadLife, ReplyLife, CrashLife, QuietLife DEF WorkerStep
<1>4. QED
  BY <1>1, <1>2, <1>3 DEF Next

\* At the start nothing was queued.
LEMMA LifeInit == Init => Life!Init
<1> SUFFICES ASSUME Init PROVE Life!Init
  OBVIOUS
<1>1. Enqueued = {} /\ Delivered = {} /\ answered = {} /\ Held = {}
  BY DEF Init, Enqueued, Delivered, Held
<1>2. ASSUME NEW id \in Id PROVE Stage(id) = "none"
  BY <1>1 DEF Stage, Lost
<1>3. QED
  BY <1>2 DEF Life!Init, StageOf

\* The queue implements RequestLife: whatever workers, crashes, restarts and
\* retries there are, a request is taken once, and answered once or lost.
THEOREM TakenOnceForAll == Spec => TakenOnce
<1>1. QInv /\ QInv' /\ [Next]_vars => [Life!Next]_StageOf
  BY LifeStep
<1>2. QED
  BY <1>1, LifeInit, QueueInvariance, PTL DEF Spec, TakenOnce, Life!Spec
=============================================================================
