---------------------------- MODULE LinepExchange ----------------------------
(***************************************************************************)
(* A LiNeP task over TCP: TcpTaskSender or the scheduler's                 *)
(* dispatch_transport on one side, TcpTaskReceiver with its accept thread, *)
(* its handler threads and its start and stop on the other, one connection *)
(* per task. A connection may break at any time and lose what the reader   *)
(* has not read, and either side may never be told; bytes are neither      *)
(* reordered nor altered (TCP).                                            *)
(*                                                                         *)
(* A stream is a sequence of units: a header is one unit, as every reader  *)
(* starts with it; the header extension, the status and the bodies are     *)
(* bytes. Receiving n of them (tcp_recv_all) blocks until they are there   *)
(* or can never come. Checksum, magic and ids are left out: one connection *)
(* carries one task, so they never differ.                                 *)
(***************************************************************************)
EXTENDS Naturals, Sequences, FiniteSets

CONSTANTS Tasks,          \* tasks sent, each on a connection of its own
          Client,         \* which code sends each
          WorkerStatus,   \* what callbacks may answer
          MaxBody,        \* bound on the bytes of a task and of a result
          ResultCap,      \* capacity of the caller's result buffer
          MaxCuts,        \* bound on the connections that break
          AcceptWakes     \* whether the timeout of the listening socket ends accept():
                          \* on POSIX it does, Winsock's accept() ignores it

ASSUME ExchangeAssumption ==
  /\ Client \in [Tasks -> {"sender", "scheduler"}]
  /\ WorkerStatus \subseteq {"OK", "REJECTED", "TIMEOUT", "MODEL_ERROR"}
  /\ MaxBody \in Nat /\ ResultCap \in Nat /\ MaxCuts \in Nat
  /\ AcceptWakes \in BOOLEAN

VARIABLES client,    \* the caller's side of each task
          handler,   \* the worker's side of each task
          up, down,  \* the two directions of each connection, as their readers see them
          cut,       \* connections nothing gets through any more
          life,      \* the receiver: its owner, running_, the accept thread
          ran        \* history: what the callback returned for each task

connVars == <<client, handler, up, down, cut, ran>>
vars == <<connVars, life>>

Status   == {"OK", "REJECTED", "TIMEOUT", "MODEL_ERROR"}
Failures == {[status |-> s, body |-> 0] : s \in {"TIMEOUT", "MODEL_ERROR"}}
(* The bytes of a result count only if it is OK.                           *)
Results  == {r \in [status : WorkerStatus, body : 0 .. MaxBody] :
               r.status # "OK" => r.body = 0}

Byte(b) == [kind |-> b, len |-> 0, extended |-> FALSE]
Bytes(b, n) == [i \in 1 .. n |-> Byte(b)]
Header(kind, extended, len) == [kind |-> kind, extended |-> extended, len |-> len]
(* The six bytes of build time: the first, and the rest as one.            *)
Extension == <<Byte("year"), Byte("time")>>

(* header_len says whether an extension follows the header.                *)
Frame(header, payload) ==
  <<header>> \o (IF header.extended THEN Extension ELSE <<>>) \o payload

TaskFrame(t, n) == Frame(Header("TASK", Client[t] = "sender", n), Bytes("task", n))
ResultFrame(result) ==
  LET payload == <<Byte(result.status)>> \o
                 Bytes("body", result.body)
  IN  Frame(Header("RESULT", TRUE, Len(payload)), payload)

Unit == [kind : {"TASK", "RESULT", "year", "time", "task", "body"} \cup Status,
         len : 0 .. MaxBody + 1, extended : BOOLEAN]
Stream == [data : Seq(Unit), open : BOOLEAN]
NoHeader == Header("TASK", FALSE, 0)
Finished == [pc |-> "done", got |-> 0, timed |-> FALSE]

ClientPc  == {"idle", "connected", "header", "payload", "done"}
HandlerPc == {"none", "backlog", "reading", "calling", "answering", "done"}
OwnerPc   == {"stopped", "running", "joining_accept", "joining_handlers"}
AcceptPc  == {"none", "spawned", "listening", "top", "accepting", "ended"}

(* A byte of the header extension may be taken for a status (Skipped).     *)
Answers == [status : Status \cup {"year"}, body : 0 .. MaxBody]

(* The bytes of a result the caller has room for.                          *)
Buffer(t) == IF Client[t] = "sender" THEN ResultCap ELSE MaxBody

TypeOK ==
  /\ client \in [Tasks -> [pc : ClientPc, header : Unit, asked : 0 .. MaxBody,
                             answer : {<<>>} \cup {<<r>> : r \in Answers}]]
  /\ \A t \in Tasks : client[t].answer # <<>> => client[t].answer[1].body <= Buffer(t)
  /\ handler \in [Tasks -> [pc : HandlerPc, got : 0 .. MaxBody, timed : BOOLEAN]]
  /\ up \in [Tasks -> Stream] /\ down \in [Tasks -> Stream]
  /\ cut \subseteq Tasks
  /\ life \in [owner : OwnerPc, running : BOOLEAN, accept : AcceptPc]
  /\ ran \in [Tasks -> {<<>>} \cup {<<r>> : r \in Results}]

Init ==
  /\ client = [t \in Tasks |-> [pc |-> "idle", header |-> NoHeader, asked |-> 0,
                                answer |-> <<>>]]
  /\ handler = [t \in Tasks |-> [pc |-> "none", got |-> 0, timed |-> FALSE]]
  /\ up = [t \in Tasks |-> [data |-> <<>>, open |-> FALSE]]
  /\ down = up
  /\ cut = {}
  /\ life = [owner |-> "stopped", running |-> FALSE, accept |-> "none"]
  /\ ran = [t \in Tasks |-> <<>>]

-----------------------------------------------------------------------------
(* Streams *)

(* tcp_recv_all(n): what it returns is whole, or it fails.                 *)
Arrived_AnyPart(stream, n) == n = 0 \/ stream.data # <<>>
Arrived(stream, n) == Len(stream.data) >= n
Lost(stream, n)    == ~stream.open /\ Len(stream.data) < n

AtMost(n, limit) == IF n < limit THEN n ELSE limit
Upto(seq, n) == SubSeq(seq, 1, AtMost(n, Len(seq)))
Taken(stream, n) == [stream EXCEPT !.data = SubSeq(@, n + 1, Len(@))]

Shut(stream) == [stream EXCEPT !.open = FALSE]

(* tcp_send_all of one or more buffers up to the first that fails.         *)
Sent(stream, units, n) == [stream EXCEPT !.data = @ \o Upto(units, n)]

(* A side closes its socket: what it has not read is gone, and the other   *)
(* side is told, behind what was sent, unless the connection is cut.       *)
Gone == [data |-> <<>>, open |-> FALSE]

ClientCloses(t) ==
  /\ down' = [down EXCEPT ![t] = Gone]
  /\ up' = [up EXCEPT ![t] = IF t \in cut THEN @ ELSE Shut(@)]

HandlerCloses(t) ==
  /\ up' = [up EXCEPT ![t] = Gone]
  /\ down' = [down EXCEPT ![t] = IF t \in cut THEN @ ELSE Shut(@)]

Waits(t) == client[t].pc \in {"connected", "header", "payload"}
Reads(t) == handler[t].pc \in {"backlog", "reading"}

(* What a reader may be left with of what is under way.                    *)
Remains(stream) ==
  {[stream EXCEPT !.data = Upto(@, n)] : n \in 0 .. Len(stream.data)}

(* The network fails. Neither side is told of it by that.                  *)
Break(t) ==
  /\ t \notin cut /\ Cardinality(cut) < MaxCuts
  /\ Waits(t) \/ Reads(t)
  /\ cut' = cut \cup {t}
  /\ \E u \in Remains(up[t]) : up' = [up EXCEPT ![t] = u]
  /\ \E d \in Remains(down[t]) : down' = [down EXCEPT ![t] = d]
  /\ UNCHANGED <<client, handler, life, ran>>

(* A side is told of it, at once, later on or never.                       *)
Tell(t) ==
  /\ t \in cut
  /\ \/ Waits(t) /\ down' = [down EXCEPT ![t] = Shut(@)] /\ UNCHANGED up
     \/ Reads(t) /\ up' = [up EXCEPT ![t] = Shut(@)] /\ UNCHANGED down
  /\ UNCHANGED <<client, handler, cut, life, ran>>

-----------------------------------------------------------------------------
(* The caller *)

Returns(t, status, body) ==
  client' = [client EXCEPT ![t].pc = "done", ![t].header = NoHeader,
                           ![t].answer = <<[status |-> status, body |-> body]>>]

Listening == life.accept \in {"listening", "top", "accepting"}

(* The connection is established before it is accepted, and inherits the   *)
(* receive timeout if the listening socket has one by then.                *)
Connect(t) ==
  /\ client[t].pc = "idle"
  /\ \/ /\ Listening
        /\ client' = [client EXCEPT ![t].pc = "connected"]
        /\ handler' = [handler EXCEPT ![t].pc = "backlog",
                                      ![t].timed = life.accept # "listening"]
        /\ up' = [up EXCEPT ![t].open = TRUE]
        /\ down' = [down EXCEPT ![t].open = TRUE]
     \/ Returns(t, "TIMEOUT", 0) /\ UNCHANGED <<handler, up, down>>
  /\ UNCHANGED <<cut, life, ran>>

(* Header, extension and payload. Sending into a connection the other side *)
(* has left may succeed or fail; a failed send ends the call.              *)
SendTask(t) ==
  /\ client[t].pc = "connected"
  /\ \/ /\ \E asked \in 0 .. MaxBody :
            LET frame == TaskFrame(t, asked) IN
            /\ up' = [up EXCEPT ![t] = IF @.open /\ t \notin cut
                                       THEN Sent(@, frame, Len(frame)) ELSE @]
            /\ client' = [client EXCEPT ![t].pc = "header", ![t].asked = asked]
        /\ UNCHANGED down
     \/ /\ ~down[t].open
        /\ Returns(t, "TIMEOUT", 0)
        /\ ClientCloses(t)
  /\ UNCHANGED <<handler, cut, life, ran>>

ReceiveHeader(t) ==
  /\ client[t].pc = "header"
  /\ \/ /\ Arrived(down[t], 1)
        /\ client' = [client EXCEPT ![t].pc = "payload", ![t].header = Head(down[t].data)]
        /\ down' = [down EXCEPT ![t] = Taken(@, 1)]
        /\ UNCHANGED up
     \/ /\ Lost(down[t], 1)
        /\ Returns(t, IF Client[t] = "sender" THEN "MODEL_ERROR" ELSE "TIMEOUT", 0)
        /\ ClientCloses(t)
  /\ UNCHANGED <<handler, cut, life, ran>>

(* send_task skips the header extension, dispatch_transport does not.      *)
Skipped_Nothing(t) == 0
Skipped_ByBoth(t) == IF client[t].header.extended THEN Len(Extension) ELSE 0
Skipped(t) == IF client[t].header.extended /\ Client[t] = "sender" THEN Len(Extension) ELSE 0

(* send_task copies what fits, of a result that is OK; dispatch_transport  *)
(* hands over all that follows the status.                                 *)
BodyLen(t, status, n) ==
  IF Client[t] = "scheduler" THEN n - 1
  ELSE IF status = "OK" THEN AtMost(n - 1, ResultCap) ELSE 0

ReceivePayload(t) ==
  LET skipped == Skipped(t)
      len == client[t].header.len
      bytes == Upto(Taken(down[t], skipped).data, len)
  IN  /\ client[t].pc = "payload"
      /\ \/ /\ Arrived(down[t], skipped + len)
            /\ Returns(t, bytes[1].kind, BodyLen(t, bytes[1].kind, Len(bytes)))
            /\ ClientCloses(t)
         \/ /\ Lost(down[t], skipped + len)
            /\ Returns(t, "TIMEOUT", 0)
            /\ ClientCloses(t)
      /\ UNCHANGED <<handler, cut, life, ran>>

-----------------------------------------------------------------------------
(* A handler thread *)

(* The frame is read in three steps that wait for one another.             *)
Expected(stream) ==
  1 + (IF Head(stream.data).extended THEN Len(Extension) ELSE 0) + Head(stream.data).len

ReadTask(t) ==
  /\ handler[t].pc = "reading"
  /\ Arrived(up[t], 1) /\ Arrived(up[t], Expected(up[t]))
  /\ handler' = [handler EXCEPT
       ![t].pc = "calling",
       ![t].got = Cardinality({i \in DOMAIN up[t].data : up[t].data[i].kind = "task"})]
  /\ up' = [up EXCEPT ![t] = Taken(@, Expected(@))]
  /\ UNCHANGED <<client, down, cut, life, ran>>

(* The rest can never come, and the handler is told so.                    *)
RestLost(stream) == Lost(stream, 1) \/ (Arrived(stream, 1) /\ Lost(stream, Expected(stream)))

(* Reading is given up when the rest is lost or, if the connection has the *)
(* timeout of the listening socket, when the caller takes too long.        *)
GiveUpReading_Open(t) == /\ handler[t].pc = "reading"
                         /\ handler[t].timed \/ RestLost(up[t])
                         /\ handler' = [handler EXCEPT ![t] = Finished]
                         /\ UNCHANGED <<client, up, down, cut, life, ran>>
GiveUpReading(t) ==
  /\ handler[t].pc = "reading"
  /\ handler[t].timed \/ RestLost(up[t])
  /\ handler' = [handler EXCEPT ![t] = Finished]
  /\ HandlerCloses(t)
  /\ UNCHANGED <<client, cut, life, ran>>

(* The callback belongs to the embedding program: it may answer anything.  *)
RunCallback(t) ==
  /\ handler[t].pc = "calling"
  /\ \E result \in Results : ran' = [ran EXCEPT ![t] = <<result>>]
  /\ handler' = [handler EXCEPT ![t].pc = "answering"]
  /\ UNCHANGED <<client, up, down, cut, life>>

(* The three sends are not checked; a broken connection takes none of it,  *)
(* and one that is cut takes it nowhere.                                   *)
SendResult(t) ==
  LET frame == ResultFrame(ran[t][1])
  IN  /\ handler[t].pc = "answering"
      /\ up' = [up EXCEPT ![t] = Gone]
      /\ down' = [down EXCEPT ![t] = IF @.open /\ t \notin cut
                    THEN Shut(Sent(@, frame, Len(frame))) ELSE @]
      /\ handler' = [handler EXCEPT ![t] = Finished]
      /\ UNCHANGED <<client, cut, life, ran>>

-----------------------------------------------------------------------------
(* The receiver *)

Start ==
  /\ life.owner = "stopped"
  /\ life' = [owner |-> "running", running |-> TRUE, accept |-> "spawned"]
  /\ UNCHANGED connVars

(* From here on the system queues connections; the timeout is set after.   *)
Listen ==
  /\ life.accept = "spawned"
  /\ \/ life' = [life EXCEPT !.accept = "listening"]
     \/ life' = [life EXCEPT !.accept = "ended", !.running = FALSE]  \* port taken
  /\ UNCHANGED connVars

SetTimeout ==
  /\ life.accept = "listening"
  /\ life' = [life EXCEPT !.accept = "top"]
  /\ UNCHANGED connVars

LeavesLoop_Never == FALSE
LeavesLoop == ~life.running

LoopTop ==
  /\ life.accept = "top"
  /\ ~LeavesLoop
  /\ life' = [life EXCEPT !.accept = "accepting"]
  /\ UNCHANGED connVars

(* running_ is not looked at between accept() and the handler's thread.    *)
Accept(t) ==
  /\ life.accept = "accepting"
  /\ handler[t].pc = "backlog"
  /\ handler' = [handler EXCEPT ![t].pc = "reading"]
  /\ life' = [life EXCEPT !.accept = "top"]
  /\ UNCHANGED <<client, up, down, cut, ran>>

(* accept() comes back with nothing after 500 ms, where it does.           *)
WakeUp ==
  /\ life.accept = "accepting"
  /\ AcceptWakes
  /\ \A t \in Tasks : handler[t].pc # "backlog"
  /\ life' = [life EXCEPT !.accept = "top"]
  /\ UNCHANGED connVars

(* Closing the listening socket resets what was not accepted.              *)
EndAccept ==
  LET unaccepted == {t \in Tasks : handler[t].pc = "backlog"}
      reset(streams) == [t \in Tasks |->
        IF t \in unaccepted \ cut THEN Gone ELSE streams[t]]
  IN  /\ life.accept = "top"
      /\ LeavesLoop
      /\ life' = [life EXCEPT !.accept = "ended"]
      /\ handler' = [t \in Tasks |-> IF t \in unaccepted
                       THEN Finished ELSE handler[t]]
      /\ up' = reset(up) /\ down' = reset(down)
      /\ UNCHANGED <<client, cut, ran>>

StopRequest ==
  /\ life.owner = "running"
  /\ life' = [life EXCEPT !.owner = "joining_accept", !.running = FALSE]
  /\ UNCHANGED connVars

AcceptJoined_Unwaited == TRUE
AcceptJoined == life.accept = "ended"

StopJoinAccept ==
  /\ life.owner = "joining_accept"
  /\ AcceptJoined
  /\ life' = [life EXCEPT !.owner = "joining_handlers"]
  /\ UNCHANGED connVars

Handling == {t \in Tasks : handler[t].pc \in {"reading", "calling", "answering"}}

StopReturn ==
  /\ life.owner = "joining_handlers"
  /\ Handling = {}
  /\ life' = [life EXCEPT !.owner = "stopped"]
  /\ UNCHANGED connVars

-----------------------------------------------------------------------------
ClientStep(t)  == Connect(t) \/ SendTask(t) \/ ReceiveHeader(t) \/ ReceivePayload(t)
HandlerStep(t) == ReadTask(t) \/ GiveUpReading(t) \/ SendResult(t)
OwnerStep      == Start \/ StopRequest
AcceptStep     == \/ Listen \/ SetTimeout \/ LoopTop \/ WakeUp \/ EndAccept
                  \/ \E t \in Tasks : Accept(t)
StopStep       == StopJoinAccept \/ StopReturn

Next ==
  \/ OwnerStep \/ AcceptStep \/ StopStep
  \/ \E t \in Tasks : ClientStep(t) \/ HandlerStep(t) \/ RunCallback(t) \/ Break(t) \/ Tell(t)

(* Threads run; nobody has to call, a callback need not return, and nobody *)
(* need be told of a break.                                                *)
Fairness ==
  /\ WF_vars(AcceptStep) /\ WF_vars(StopStep)
  /\ \A t \in Tasks :
       /\ WF_vars(SendTask(t)) /\ WF_vars(ReceiveHeader(t)) /\ WF_vars(ReceivePayload(t))
       /\ WF_vars(HandlerStep(t))
CallbackFairness == \A t \in Tasks : WF_vars(RunCallback(t))

Spec == Init /\ [][Next]_vars /\ Fairness
FairSpec == Spec /\ CallbackFairness

=============================================================================
