--------------------------- MODULE LinepExchangeInv ---------------------------
(***************************************************************************)
(* The properties of LinepExchange, and the invariant they follow from.    *)
(***************************************************************************)
EXTENDS LinepExchange

(* The result a caller gets for what the callback returned.                *)
ToCaller(t, result) ==
  [status |-> result.status,
   body |-> AtMost(result.body, Buffer(t))]

Senders    == {t \in Tasks : Client[t] = "sender"}
Schedulers == Tasks \ Senders

Call == INSTANCE TaskCall WITH
          Calls <- Senders, Delivered <- ToCaller,
          ran <- [t \in Senders |-> ran[t]],
          answer <- [t \in Senders |-> client[t].answer]

(* Wherever a connection breaks, whoever gives up: a task of TcpTaskSender *)
(* is run at most once and its caller gets the worker's own answer, whole  *)
(* up to the caller's buffer, or an error.                                 *)
ExactAnswer == Call!Spec

(* dispatch_transport takes the first byte after the header for the status *)
(* ("Parse ResultStatus from first payload byte", scheduler.cpp:333),      *)
(* which of a TcpTaskReceiver's reply is the year of its build: whatever   *)
(* the worker answered, the scheduler never reports that as the status.    *)
(* This is a defect of the code, stated as what holds of it.               *)
StatusMisread ==
  \A t \in Schedulers : client[t].answer # <<>> =>
    client[t].answer[1].status \in {"year", "TIMEOUT"}

(* The callback is only run on a task that arrived whole.                  *)
TaskWhole ==
  \A t \in Tasks : handler[t].pc \in {"calling", "answering"} =>
    handler[t].got = client[t].asked

(* "Stop accepting new connections and wait for active handlers to finish" *)
(* (tcp.hpp:86): when stop() has returned nothing of the receiver runs.    *)
StopLeavesNothing ==
  life.owner = "stopped" => Handling = {} /\ life.accept \in {"none", "ended"}

(* If callbacks return, so does every call, whether or not the receiver is *)
(* stopped under way, unless its connection is cut and the caller is never *)
(* told: then recv waits for ever, whatever timeout_ms says.               *)
Unaware(t) == t \in cut /\ down[t].open

CallReturns ==
  \A t \in Tasks : <>[]Unaware(t) \/ (client[t].pc # "idle" ~> client[t].pc = "done")

(* If callbacks return and the timeout ends accept(), so does stop(),      *)
(* unless a handler reads from a connection that was queued before the     *)
(* timeout was set and is cut without its ever being told.                 *)
Stuck(t) ==
  handler[t].pc = "reading" /\ ~handler[t].timed /\ t \in cut /\ up[t].open

StopReturns ==
  AcceptWakes =>
    \/ \E t \in Tasks : <>[]Stuck(t)
    \/ life.owner = "joining_accept" ~> life.owner = "stopped"

-----------------------------------------------------------------------------
(* The inductive invariant *)

(* What lies in a stream is what is left of a frame whose first k units    *)
(* have been taken, up to where the connection broke.                      *)
RestOf(data, frame, k) ==
  /\ k + Len(data) <= Len(frame)
  /\ \A i \in 1 .. Len(data) : data[i] = frame[k + i]

(* The caller's side: nothing is under way before it is sent, a task frame *)
(* after that.                                                             *)
Unsent(t) == client[t].pc \in {"idle", "connected"}

TaskUnderWay(t) ==
  /\ Unsent(t) => up[t].data = <<>>
  /\ RestOf(up[t].data, TaskFrame(t, client[t].asked), 0)
  /\ handler[t].pc \in {"calling", "answering"} =>
       ~Unsent(t) /\ handler[t].got = client[t].asked

(* The worker's side: nothing is under way before it answers, the frame of *)
(* its result after that.                                                  *)
Answered(t) == ran[t] # <<>> /\ handler[t].pc = "done"

ResultUnderWay(t) ==
  /\ client[t].pc # "done" /\ ~Answered(t) =>
       down[t].data = <<>> /\ client[t].pc # "payload"
  /\ Waits(t) /\ Answered(t) =>
       LET frame == ResultFrame(ran[t][1])
       IN  IF client[t].pc = "payload"
           THEN RestOf(down[t].data, frame, 1) /\ client[t].header = frame[1]
           ELSE RestOf(down[t].data, frame, 0)
  /\ down[t].open => Waits(t)

(* The task runs between being read and being answered; the caller's answer *)
(* is the end of its call.                                                 *)
InTurn(t) ==
  /\ client[t].pc = "idle" => handler[t].pc = "none"
  /\ handler[t].pc \in {"none", "backlog", "reading", "calling"} => ran[t] = <<>>
  /\ handler[t].pc = "answering" => ran[t] # <<>>
  /\ client[t].pc # "done" => client[t].answer = <<>>

ReceiverInTurn ==
  /\ life.owner \in {"stopped", "joining_handlers"} => life.accept \in {"none", "ended"}
  /\ life.owner = "stopped" => Handling = {}

IInv == /\ TypeOK /\ ReceiverInTurn
        /\ \A t \in Tasks : TaskUnderWay(t) /\ ResultUnderWay(t) /\ InTurn(t)
=============================================================================
