-------------------------- MODULE LinepExchangeProofs --------------------------
(***************************************************************************)
(* What lies in a stream is always what is left of one frame. From that, a *)
(* task is run only when it came whole, and every answer is that of the    *)
(* worker or an error.                                                     *)
(***************************************************************************)
EXTENDS LinepExchangeInv, FiniteSetTheorems, SequenceTheorems, TLAPS

TaskInv(t) == TaskUnderWay(t) /\ ResultUnderWay(t) /\ InTurn(t)

-----------------------------------------------------------------------------
(* Streams and frames *)

(* What is read of a stream from the front on.                             *)
LEMMA UptoFacts ==
  ASSUME NEW seq \in Seq(Unit), NEW n \in Nat
  PROVE  /\ Upto(seq, n) \in Seq(Unit)
         /\ Len(Upto(seq, n)) = AtMost(n, Len(seq))
         /\ \A i \in 1 .. AtMost(n, Len(seq)) : Upto(seq, n)[i] = seq[i]
         /\ n = Len(seq) => Upto(seq, n) = seq
<1>1. AtMost(n, Len(seq)) \in 0 .. Len(seq)
  BY DEF AtMost
<1>2. n = Len(seq) => AtMost(n, Len(seq)) = Len(seq)
  BY DEF AtMost
<1> DEFINE m == AtMost(n, Len(seq))
<1> HIDE DEF m
<1>3. m \in 0 .. Len(seq)
  BY <1>1 DEF m
<1>4. /\ SubSeq(seq, 1, m) \in Seq(Unit)
      /\ Len(SubSeq(seq, 1, m)) = m
      /\ \A i \in 1 .. m : SubSeq(seq, 1, m)[i] = seq[i]
  BY <1>3
<1>5. m = Len(seq) => SubSeq(seq, 1, m) = seq
  OBVIOUS
<1> QED
  BY <1>2, <1>4, <1>5 DEF Upto, m

LEMMA TakenFacts ==
  ASSUME NEW stream \in Stream, NEW n \in 0 .. Len(stream.data)
  PROVE  /\ Taken(stream, n) \in Stream
         /\ Taken(stream, n).open = stream.open
         /\ Len(Taken(stream, n).data) = Len(stream.data) - n
         /\ \A i \in 1 .. Len(stream.data) - n : Taken(stream, n).data[i] = stream.data[n + i]
<1>1. stream.data \in Seq(Unit) /\ stream.open \in BOOLEAN
  BY DEF Stream
<1>2. PICK d \in Seq(Unit) : d = stream.data
  BY <1>1
<1>3. /\ SubSeq(d, n + 1, Len(d)) \in Seq(Unit)
      /\ Len(SubSeq(d, n + 1, Len(d))) = Len(d) - n
      /\ \A i \in 1 .. Len(d) - n : SubSeq(d, n + 1, Len(d))[i] = d[n + i]
  BY <1>2
<1>4. /\ Taken(stream, n).data = SubSeq(d, n + 1, Len(d))
      /\ Taken(stream, n).open = stream.open
      /\ Taken(stream, n) \in Stream
  BY <1>1, <1>2, <1>3 DEF Taken, Stream
<1> QED
  BY <1>2, <1>3, <1>4

LEMMA ConcatFacts ==
  ASSUME NEW s \in Seq(Unit), NEW p \in Seq(Unit), NEW n \in Nat, n = Len(s)
  PROVE  /\ s \o p \in Seq(Unit)
         /\ Len(s \o p) = n + Len(p)
         /\ \A i \in 1 .. n : (s \o p)[i] = s[i]
         /\ \A i \in 1 .. Len(p) : (s \o p)[n + i] = p[i]
<1>1. /\ s \o p \in Seq(Unit)
      /\ Len(s \o p) = Len(s) + Len(p)
      /\ \A i \in 1 .. Len(s) + Len(p) :
           (s \o p)[i] = IF i <= Len(s) THEN s[i] ELSE p[i - Len(s)]
  BY ConcatProperties
<1>2. PICK m \in Nat : m = Len(p)
  OBVIOUS
<1>3. \A i \in 1 .. m : n + i \in 1 .. n + m /\ ~(n + i <= n) /\ (n + i) - n = i
  BY <1>2
<1>4. \A i \in 1 .. n : i \in 1 .. n + m /\ i <= n
  BY <1>2
<1> QED
  BY <1>1, <1>2, <1>3, <1>4

(* A header says whether two bytes of build time follow.                   *)
Skip(header) == IF header.extended THEN 2 ELSE 0

LEMMA FrameFacts ==
  ASSUME NEW header \in Unit, NEW payload \in Seq(Unit)
  PROVE  /\ Frame(header, payload) \in Seq(Unit)
         /\ Len(Frame(header, payload)) = 1 + Skip(header) + Len(payload)
         /\ Frame(header, payload)[1] = header
         /\ \A i \in 2 .. 1 + Skip(header) :
              Frame(header, payload)[i].kind \in {"year", "time"}
         /\ Skip(header) = 2 => Frame(header, payload)[2].kind = "year"
         /\ \A i \in 1 .. Len(payload) :
              Frame(header, payload)[1 + Skip(header) + i] = payload[i]
<1>0. Byte("year") \in Unit /\ Byte("time") \in Unit
  BY ExchangeAssumption DEF Byte, Unit
<1>1. CASE header.extended
  <2> DEFINE e == <<header, Byte("year"), Byte("time")>>
  <2>1. Frame(header, payload) = e \o payload
    BY <1>1 DEF Frame, Extension
  <2>2. e \in Seq(Unit) /\ Len(e) = 3 /\ e[1] = header
        /\ e[2] = Byte("year") /\ e[3] = Byte("time")
    BY <1>0
  <2> HIDE DEF e
  <2>3. PICK f \in Seq(Unit), n \in Nat : f = e /\ n = 3
    BY <2>2
  <2>4. n = Len(f)
    BY <2>2, <2>3
  <2>5. /\ f \o payload \in Seq(Unit) /\ Len(f \o payload) = n + Len(payload)
        /\ \A i \in 1 .. n : (f \o payload)[i] = f[i]
        /\ \A i \in 1 .. Len(payload) : (f \o payload)[n + i] = payload[i]
    BY <2>4, ConcatFacts
  <2>6. /\ e \o payload \in Seq(Unit) /\ Len(e \o payload) = 3 + Len(payload)
        /\ \A i \in 1 .. 3 : (e \o payload)[i] = e[i]
        /\ \A i \in 1 .. Len(payload) : (e \o payload)[3 + i] = payload[i]
    BY <2>3, <2>5
  <2>7. Byte("year").kind = "year" /\ Byte("time").kind = "time"
    BY DEF Byte
  <2> QED
    BY <1>1, <2>1, <2>2, <2>6, <2>7 DEF Skip
<1>2. CASE ~header.extended
  <2>1. Frame(header, payload) = <<header>> \o payload
    BY <1>2 DEF Frame
  <2>2. Skip(header) = 0
    BY <1>2 DEF Skip
  <2> QED
    BY <2>1, <2>2
<1> QED
  BY <1>1, <1>2

(* A prefix of what is left, a unit taken from it, and the whole frame.    *)
LEMMA RestOfEmpty ==
  ASSUME NEW frame \in Seq(Unit), NEW k \in 0 .. Len(frame)
  PROVE  RestOf(<<>>, frame, k)
BY DEF RestOf

LEMMA RestOfPrefix ==
  ASSUME NEW data \in Seq(Unit), NEW frame \in Seq(Unit), NEW k \in Nat,
         RestOf(data, frame, k), NEW n \in Nat
  PROVE  RestOf(Upto(data, n), frame, k)
<1>1. AtMost(n, Len(data)) \in 0 .. Len(data)
  BY DEF AtMost
<1>2. PICK m \in 0 .. Len(data) : m = AtMost(n, Len(data))
  BY <1>1
<1>3. k + Len(data) <= Len(frame) /\ \A i \in 1 .. Len(data) : data[i] = frame[k + i]
  BY DEF RestOf
<1>4. Len(Upto(data, n)) = m /\ \A i \in 1 .. m : Upto(data, n)[i] = data[i]
  BY <1>2, UptoFacts
<1>5. Len(data) \in Nat /\ Len(frame) \in Nat
  OBVIOUS
<1>6. k + m <= Len(frame)
  BY <1>2, <1>3, <1>5
<1>7. \A i \in 1 .. m : i \in 1 .. Len(data)
  BY <1>2, <1>5
<1> QED
  BY <1>3, <1>4, <1>6, <1>7 DEF RestOf

LEMMA RestOfWhole ==
  ASSUME NEW frame \in Seq(Unit)
  PROVE  RestOf(frame, frame, 0)
<1>1. PICK n \in Nat : n = Len(frame)
  OBVIOUS
<1>2. 0 + n <= n /\ \A i \in 1 .. n : 0 + i = i
  BY <1>1
<1> QED
  BY <1>1, <1>2 DEF RestOf

LEMMA HeaderType ==
  ASSUME NEW kind \in {"TASK", "RESULT"}, NEW extended \in BOOLEAN, NEW len \in 0 .. MaxBody + 1
  PROVE  /\ Header(kind, extended, len) \in Unit
         /\ Header(kind, extended, len).kind = kind
         /\ Header(kind, extended, len).len = len
         /\ Skip(Header(kind, extended, len)) = IF extended THEN 2 ELSE 0
BY DEF Header, Unit, Skip

LEMMA ByteType ==
  ASSUME NEW kind \in {"task", "body"} \cup Status
  PROVE  Byte(kind) \in Unit /\ Byte(kind).kind = kind
BY ExchangeAssumption DEF Byte, Unit, Status

LEMMA BytesFacts ==
  ASSUME NEW kind \in {"task", "body"} \cup Status, NEW n \in Nat
  PROVE  /\ Bytes(kind, n) \in Seq(Unit) /\ Len(Bytes(kind, n)) = n
         /\ \A i \in 1 .. n : Bytes(kind, n)[i] = Byte(kind)
BY ByteType DEF Bytes

Ext(t) == IF Client[t] = "sender" THEN 2 ELSE 0

LEMMA TaskFrameFacts ==
  ASSUME NEW t \in Tasks, NEW n \in 0 .. MaxBody
  PROVE  /\ TaskFrame(t, n) \in Seq(Unit)
         /\ Len(TaskFrame(t, n)) = 1 + Ext(t) + n
         /\ Skip(TaskFrame(t, n)[1]) = Ext(t)
         /\ TaskFrame(t, n)[1].len = n
         /\ \A i \in 1 .. 1 + Ext(t) + n : 
              TaskFrame(t, n)[i].kind = "task" <=> i > 1 + Ext(t)
<1>1. n \in 0 .. MaxBody + 1 /\ n \in Nat
  BY ExchangeAssumption
<1>2. PICK e \in BOOLEAN : e <=> Client[t] = "sender"
  OBVIOUS
<1>3. PICK h : h = Header("TASK", Client[t] = "sender", n)
  OBVIOUS
<1>4. h \in Unit /\ h.kind = "TASK" /\ h.len = n /\ Skip(h) = Ext(t)
  BY <1>1, <1>3, HeaderType DEF Ext
<1>5. PICK p \in Seq(Unit) : p = Bytes("task", n)
  BY <1>1, BytesFacts
<1>6. Len(p) = n /\ \A i \in 1 .. n : p[i].kind = "task"
  BY <1>1, <1>5, BytesFacts, ByteType
<1>7. TaskFrame(t, n) = Frame(h, p)
  BY <1>3, <1>5 DEF TaskFrame
<1>8. PICK x \in Nat : x = Ext(t)
  BY DEF Ext
<1>9. /\ Frame(h, p) \in Seq(Unit)
      /\ Len(Frame(h, p)) = 1 + x + n
      /\ Frame(h, p)[1] = h
      /\ \A i \in 2 .. 1 + x : Frame(h, p)[i].kind \in {"year", "time"}
      /\ \A i \in 1 .. n : Frame(h, p)[1 + x + i] = p[i]
  <2>0. h \in Unit
    BY <1>4
  <2>1. /\ Frame(h, p) \in Seq(Unit)
        /\ Len(Frame(h, p)) = 1 + Skip(h) + Len(p)
        /\ Frame(h, p)[1] = h
        /\ \A i \in 1 .. Len(p) : Frame(h, p)[1 + Skip(h) + i] = p[i]
    BY <2>0, FrameFacts
  <2>2. \A i \in 2 .. 1 + Skip(h) : Frame(h, p)[i].kind \in {"year", "time"}
    BY <2>0, FrameFacts
  <2>3. Skip(h) = x /\ Len(p) = n
    BY <1>4, <1>6, <1>8
  <2> QED
    BY <2>1, <2>2, <2>3
<1>10. ASSUME NEW i \in 1 .. 1 + x + n
       PROVE  Frame(h, p)[i].kind = "task" <=> i > 1 + x
  <2>1. CASE i = 1
    <3>1. Frame(h, p)[i].kind = "TASK" /\ ~(i > 1 + x)
      BY <1>4, <1>8, <1>9, <2>1
    <3> QED
      BY <3>1
  <2>2. CASE i \in 2 .. 1 + x
    <3>1. Frame(h, p)[i].kind \in {"year", "time"} /\ ~(i > 1 + x)
      BY <1>8, <1>9, <2>2
    <3> QED
      BY <3>1
  <2>3. CASE i > 1 + x
    <3>1. i - (1 + x) \in 1 .. n /\ 1 + x + (i - (1 + x)) = i
      BY <1>1, <1>8, <2>3
    <3> QED
      BY <1>6, <1>9, <2>3, <3>1
  <2> QED
    BY <1>8, <2>1, <2>2, <2>3
<1> QED
  BY <1>4, <1>7, <1>8, <1>9, <1>10

LEMMA ResultParts ==
  ASSUME NEW result \in Results
  PROVE  result.status \in Status /\ result.body \in 0 .. MaxBody
BY ExchangeAssumption DEF Results, Status

LEMMA ResultFrameFacts ==
  ASSUME NEW result \in Results
  PROVE  LET frame == ResultFrame(result)
         IN  /\ frame \in Seq(Unit)
             /\ Len(frame) = 4 + result.body
             /\ frame[1] \in Unit /\ frame[1].extended
             /\ frame[1].len = 1 + result.body
             /\ frame[2].kind = "year"
             /\ frame[4] = Byte(result.status)
<1>1. PICK n \in 0 .. MaxBody : n = result.body
  BY ResultParts
<1>2. 1 + n \in 0 .. MaxBody + 1 /\ n \in Nat /\ result.status \in Status
  BY ResultParts, ExchangeAssumption
<1>3. PICK s \in Seq(Unit), b \in Seq(Unit) :
        s = <<Byte(result.status)>> /\ b = Bytes("body", n)
  <2>1. <<Byte(result.status)>> \in Seq(Unit)
    <3>1. PICK u \in Unit : u = Byte(result.status)
      BY <1>2, ByteType
    <3>2. <<u>> \in Seq(Unit)
      OBVIOUS
    <3> QED
      BY <3>1, <3>2
  <2>2. Bytes("body", n) \in Seq(Unit)
    BY <1>2, BytesFacts
  <2> QED
    BY <2>1, <2>2
<1>4. Len(s) = 1 /\ s[1] = Byte(result.status) /\ Len(b) = n
  BY <1>2, <1>3, BytesFacts
<1>5. PICK one \in Nat : one = 1
  OBVIOUS
<1>6. s \o b \in Seq(Unit) /\ Len(s \o b) = one + Len(b) /\ \A i \in 1 .. one : (s \o b)[i] = s[i]
  BY <1>4, <1>5, ConcatFacts
<1>7. PICK p \in Seq(Unit) : p = s \o b
  BY <1>6
<1>8. Len(p) = 1 + n /\ p[1] = Byte(result.status)
  BY <1>4, <1>5, <1>6, <1>7
<1>9. PICK h : h = Header("RESULT", TRUE, Len(p))
  OBVIOUS
<1>10. h \in Unit /\ h.len = 1 + n /\ h.extended
  BY <1>2, <1>8, <1>9 DEF Header, Unit
<1>11. ResultFrame(result) = Frame(h, p)
  BY <1>1, <1>3, <1>7, <1>9 DEF ResultFrame
<1>12. Skip(h) = 2
  BY <1>10 DEF Skip
<1>13. /\ Frame(h, p) \in Seq(Unit)
       /\ Len(Frame(h, p)) = 1 + Skip(h) + Len(p)
       /\ Frame(h, p)[1] = h
       /\ \A i \in 1 .. Len(p) : Frame(h, p)[1 + Skip(h) + i] = p[i]
  BY <1>10, FrameFacts
<1>14. Frame(h, p)[2].kind = "year"
  BY <1>10, <1>12, FrameFacts
<1>15. Frame(h, p)[4] = p[1]
  <2>1. 1 \in 1 .. Len(p) /\ 1 + 2 + 1 = 4
    BY <1>2, <1>8
  <2> QED
    BY <1>12, <1>13, <2>1
<1>16. 1 + 2 + (1 + n) = 4 + n
  BY <1>2
<1> QED
  BY <1>1, <1>8, <1>10, <1>11, <1>12, <1>13, <1>14, <1>15, <1>16

-----------------------------------------------------------------------------
(* The state of one task *)

TaskTyped(t) ==
  /\ client[t] \in [pc : ClientPc, header : Unit, asked : 0 .. MaxBody,
                     answer : {<<>>} \cup {<<r>> : r \in Answers}]
  /\ client[t].answer # <<>> => client[t].answer[1].body <= Buffer(t)
  /\ handler[t] \in [pc : HandlerPc, got : 0 .. MaxBody, timed : BOOLEAN]
  /\ up[t] \in Stream /\ down[t] \in Stream
  /\ ran[t] \in {<<>>} \cup {<<r>> : r \in Results}

LEMMA TypesOfTask ==
  ASSUME TypeOK, NEW t \in Tasks
  PROVE  TaskTyped(t)
BY DEF TypeOK, TaskTyped

LEMMA StreamOfTask ==
  ASSUME TypeOK, NEW t \in Tasks
  PROVE  /\ up[t].data \in Seq(Unit) /\ up[t].open \in BOOLEAN
         /\ down[t].data \in Seq(Unit) /\ down[t].open \in BOOLEAN
         /\ ran[t] # <<>> => ran[t][1] \in Results
         /\ TaskFrame(t, client[t].asked) \in Seq(Unit)
         /\ ran[t] # <<>> => ResultFrame(ran[t][1]) \in Seq(Unit)
<1>1. /\ up[t].data \in Seq(Unit) /\ up[t].open \in BOOLEAN
      /\ down[t].data \in Seq(Unit) /\ down[t].open \in BOOLEAN
  BY DEF TypeOK, Stream
<1>2. ran[t] # <<>> => ran[t][1] \in Results
  BY DEF TypeOK
<1>3. client[t].asked \in 0 .. MaxBody
  BY DEF TypeOK
<1>4. TaskFrame(t, client[t].asked) \in Seq(Unit)
  BY <1>3, TaskFrameFacts
<1>5. ran[t] # <<>> => ResultFrame(ran[t][1]) \in Seq(Unit)
  BY <1>2, ResultFrameFacts
<1> QED
  BY <1>1, <1>2, <1>4, <1>5

Same(t) == /\ client'[t] = client[t] /\ handler'[t] = handler[t]
           /\ up'[t] = up[t] /\ down'[t] = down[t] /\ ran'[t] = ran[t]

LEMMA SameKept ==
  ASSUME NEW t \in Tasks, TaskInv(t), Same(t)
  PROVE  TaskInv(t)'
BY DEF TaskInv, Same, TaskUnderWay, ResultUnderWay, InTurn, Unsent, Waits, Answered

(* A step of one task leaves the others alone.                             *)
Others(t) == \A u \in Tasks \ {t} : Same(u)

LEMMA OneTask ==
  ASSUME \A u \in Tasks : TaskInv(u), NEW t \in Tasks, Others(t), TaskInv(t)'
  PROVE  \A u \in Tasks : TaskInv(u)'
<1>1. ASSUME NEW u \in Tasks, u # t
      PROVE  TaskInv(u)'
  BY <1>1, SameKept DEF Others
<1> QED
  BY <1>1

Life == [owner : OwnerPc, running : BOOLEAN, accept : AcceptPc]

(* A step of one task, and what is left to show of it.                     *)
StepOf(t) ==
  /\ client' = [client EXCEPT ![t] = client'[t]]
  /\ handler' = [handler EXCEPT ![t] = handler'[t]]
  /\ up' = [up EXCEPT ![t] = up'[t]] /\ down' = [down EXCEPT ![t] = down'[t]]
  /\ ran' = [ran EXCEPT ![t] = ran'[t]]
  /\ cut' \subseteq Tasks /\ life' \in Life

LEMMA StepLeavesOthers ==
  ASSUME TypeOK, NEW t \in Tasks, StepOf(t)
  PROVE  Others(t)
BY DEF TypeOK, StepOf, Others, Same

LEMMA StepTyped ==
  ASSUME TypeOK, NEW t \in Tasks, StepOf(t), TaskTyped(t)'
  PROVE  TypeOK'
<1>1. Others(t)
  BY StepLeavesOthers
<1> QED
  BY <1>1 DEF TypeOK, TaskTyped, Others, Same, StepOf, Life

LEMMA StepKeeps ==
  ASSUME IInv, NEW t \in Tasks, StepOf(t), TaskTyped(t)', TaskInv(t)', ReceiverInTurn'
  PROVE  IInv'
<1>1. TypeOK /\ \A u \in Tasks : TaskInv(u)
  BY DEF IInv, TaskInv
<1>2. TypeOK'
  BY <1>1, StepTyped
<1>3. \A u \in Tasks : TaskInv(u)'
  BY <1>1, StepLeavesOthers, OneTask
<1> QED
  BY <1>2, <1>3 DEF IInv, TaskInv

(* The owner's side depends on the handlers alone.                         *)
LEMMA ReceiverKept ==
  ASSUME ReceiverInTurn, life' = life, Handling' \subseteq Handling
  PROVE  ReceiverInTurn'
BY DEF ReceiverInTurn

LEMMA HandlingKept ==
  ASSUME TypeOK, NEW t \in Tasks, StepOf(t),
         handler'[t].pc \in {"reading", "calling", "answering"} =>
           handler[t].pc \in {"reading", "calling", "answering"}
  PROVE  Handling' \subseteq Handling
<1>1. Others(t)
  BY StepLeavesOthers
<1> QED
  BY <1>1 DEF Handling, Others, Same

-----------------------------------------------------------------------------
(* The caller *)

LEMMA NoHeaderType == NoHeader \in Unit
BY ExchangeAssumption DEF NoHeader, Header, Unit

(* A caller that has its answer is done with its connection.               *)
LEMMA ReturnKeeps ==
  ASSUME TypeOK, NEW t \in Tasks, TaskInv(t), NEW a \in Answers, a.body <= Buffer(t),
         client'[t] = [client[t] EXCEPT !.pc = "done", !.header = NoHeader, !.answer = <<a>>],
         handler'[t] = handler[t], ran'[t] = ran[t],
         up'[t] \in Stream, up'[t].data = up[t].data,
         down'[t] \in Stream, ~down'[t].open
  PROVE  TaskTyped(t)' /\ TaskInv(t)'
<1>1. TaskTyped(t)
  BY TypesOfTask
<1>2. /\ client'[t].pc = "done" /\ client'[t].asked = client[t].asked
      /\ client'[t].answer = <<a>>
  BY <1>1 DEF TaskTyped
<1>3. TaskTyped(t)'
  <2>1. client'[t] \in [pc : ClientPc, header : Unit, asked : 0 .. MaxBody,
                        answer : {<<>>} \cup {<<r>> : r \in Answers}]
    BY <1>1, NoHeaderType DEF TaskTyped, ClientPc
  <2>2. client'[t].answer[1] = a
    BY <1>2
  <2>3. client'[t].answer[1].body <= Buffer(t)
    BY <2>2
  <2> QED
    BY <1>1, <2>1, <2>3 DEF TaskTyped, Buffer
<1>4. TaskUnderWay(t)'
  BY <1>2 DEF TaskInv, TaskUnderWay, Unsent
<1>5. ResultUnderWay(t)'
  BY <1>2 DEF ResultUnderWay, Waits
<1>6. InTurn(t)'
  BY <1>2 DEF TaskInv, InTurn
<1> QED
  BY <1>3, <1>4, <1>5, <1>6 DEF TaskInv

LEMMA ClosedStreams ==
  /\ Gone \in Stream /\ Gone.data = <<>> /\ ~Gone.open
  /\ \A s \in Stream : Shut(s) \in Stream /\ Shut(s).data = s.data /\ ~Shut(s).open
<1>1. Gone \in Stream /\ Gone.data = <<>> /\ ~Gone.open
  BY DEF Gone, Stream
<1>2. ASSUME NEW s \in Stream
      PROVE  Shut(s) \in Stream /\ Shut(s).data = s.data /\ ~Shut(s).open
  BY DEF Shut, Stream
<1> QED
  BY <1>1, <1>2

LEMMA ClientClosesFacts ==
  ASSUME TypeOK, NEW t \in Tasks, ClientCloses(t)
  PROVE  /\ up'[t] \in Stream /\ up'[t].data = up[t].data
         /\ down'[t] \in Stream /\ ~down'[t].open
         /\ up' = [up EXCEPT ![t] = up'[t]] /\ down' = [down EXCEPT ![t] = down'[t]]
<1>1. up[t] \in Stream
  BY DEF TypeOK
<1>2. /\ up' = [up EXCEPT ![t] = up[t]] \/ up' = [up EXCEPT ![t] = Shut(up[t])]
      /\ down' = [down EXCEPT ![t] = Gone]
  BY DEF ClientCloses
<1>3. (up'[t] = up[t] \/ up'[t] = Shut(up[t])) /\ down'[t] = Gone
  BY <1>2 DEF TypeOK
<1> QED
  BY <1>1, <1>2, <1>3, ClosedStreams DEF TypeOK

LEMMA HandlerClosesFacts ==
  ASSUME TypeOK, NEW t \in Tasks, HandlerCloses(t)
  PROVE  /\ up'[t] \in Stream /\ up'[t].data = <<>>
         /\ down'[t] \in Stream /\ down'[t].data = down[t].data
         /\ down'[t].open => down[t].open
         /\ up' = [up EXCEPT ![t] = up'[t]] /\ down' = [down EXCEPT ![t] = down'[t]]
<1>1. down[t] \in Stream
  BY DEF TypeOK
<1>2. /\ down' = [down EXCEPT ![t] = down[t]] \/ down' = [down EXCEPT ![t] = Shut(down[t])]
      /\ up' = [up EXCEPT ![t] = Gone]
  BY DEF HandlerCloses
<1>3. (down'[t] = down[t] \/ down'[t] = Shut(down[t])) /\ up'[t] = Gone
  BY <1>2 DEF TypeOK
<1> QED
  BY <1>1, <1>2, <1>3, ClosedStreams DEF TypeOK

LEMMA FailureKeeps ==
  ASSUME IInv, NEW t \in Tasks, NEW status \in {"TIMEOUT", "MODEL_ERROR"},
         Returns(t, status, 0), UNCHANGED <<handler, cut, ran, life>>,
         \/ ClientCloses(t)
         \/ up' = up /\ down' = down /\ ~down[t].open
  PROVE  IInv'
<1>1. TypeOK /\ TaskInv(t) /\ ReceiverInTurn
  BY DEF IInv, TaskInv
<1>2. PICK a : a = [status |-> status, body |-> 0]
  OBVIOUS
<1>3. a \in Answers /\ a.body <= Buffer(t)
  BY <1>2, ExchangeAssumption DEF Answers, Status, Buffer
<1>4. /\ client'[t] = [client[t] EXCEPT !.pc = "done", !.header = NoHeader, !.answer = <<a>>]
      /\ client' = [client EXCEPT ![t] = client'[t]]
  BY <1>1, <1>2 DEF Returns, TypeOK
<1>5. /\ up'[t] \in Stream /\ up'[t].data = up[t].data
      /\ down'[t] \in Stream /\ ~down'[t].open
      /\ up' = [up EXCEPT ![t] = up'[t]] /\ down' = [down EXCEPT ![t] = down'[t]]
  BY <1>1, ClientClosesFacts DEF TypeOK
<1>6. StepOf(t)
  BY <1>1, <1>4, <1>5 DEF StepOf, TypeOK, Life
<1>7. TaskTyped(t)' /\ TaskInv(t)'
  BY <1>1, <1>3, <1>4, <1>5, ReturnKeeps
<1>8. ReceiverInTurn'
  BY <1>1, ReceiverKept DEF Handling
<1> QED
  BY <1>6, <1>7, <1>8, StepKeeps

LEMMA ConnectStep ==
  ASSUME IInv, NEW t \in Tasks, Connect(t)
  PROVE  IInv'
<1>1. TypeOK /\ TaskInv(t) /\ ReceiverInTurn /\ TaskTyped(t)
  BY TypesOfTask DEF IInv, TaskInv
<1>2. /\ client[t].pc = "idle" /\ handler[t].pc = "none" /\ ran[t] = <<>>
      /\ UNCHANGED <<cut, life, ran>>
  BY <1>1 DEF Connect, TaskInv, InTurn
<1>3. CASE Returns(t, "TIMEOUT", 0) /\ UNCHANGED <<handler, up, down>>
  <2>1. ~down[t].open
    BY <1>1, <1>2 DEF TaskInv, ResultUnderWay, Waits
  <2> QED
    BY <1>2, <1>3, <2>1, FailureKeeps
<1>4. CASE /\ client' = [client EXCEPT ![t].pc = "connected"]
           /\ handler' = [handler EXCEPT ![t].pc = "backlog",
                                         ![t].timed = life.accept # "listening"]
           /\ up' = [up EXCEPT ![t].open = TRUE]
           /\ down' = [down EXCEPT ![t].open = TRUE]
  <2>1. PICK timed \in BOOLEAN : timed = (life.accept # "listening")
    OBVIOUS
  <2>2. /\ client'[t] = [client[t] EXCEPT !.pc = "connected"]
        /\ handler'[t] = [handler[t] EXCEPT !.pc = "backlog", !.timed = timed]
        /\ up'[t] = [up[t] EXCEPT !.open = TRUE]
        /\ down'[t] = [down[t] EXCEPT !.open = TRUE]
        /\ StepOf(t)
    BY <1>1, <1>2, <1>4, <2>1 DEF TypeOK, StepOf, Life
  <2>3. /\ client'[t].pc = "connected" /\ client'[t].answer = client[t].answer
        /\ client'[t].asked = client[t].asked /\ client'[t].header = client[t].header
        /\ handler'[t].pc = "backlog"
        /\ up'[t].data = up[t].data /\ down'[t].data = down[t].data
    BY <1>1, <2>2 DEF TaskTyped, Stream
  <2>4. TaskTyped(t)'
    <3>1. up'[t] \in Stream /\ down'[t] \in Stream
      BY <1>1, <2>2 DEF TaskTyped, Stream
    <3>2. handler'[t] \in [pc : HandlerPc, got : 0 .. MaxBody, timed : BOOLEAN]
      BY <1>1, <2>2 DEF TaskTyped, HandlerPc
    <3>3. client'[t] \in [pc : ClientPc, header : Unit, asked : 0 .. MaxBody,
                          answer : {<<>>} \cup {<<r>> : r \in Answers}]
      BY <1>1, <2>2 DEF TaskTyped, ClientPc
    <3> QED
      BY <1>1, <1>2, <2>3, <3>1, <3>2, <3>3 DEF TaskTyped, Buffer
  <2>5. TaskInv(t)'
    BY <1>1, <1>2, <2>3
    DEF TaskInv, TaskUnderWay, ResultUnderWay, InTurn, Unsent, Waits, Answered
  <2>6. ReceiverInTurn'
    BY <1>1, <1>2, <2>2, <2>3, HandlingKept, ReceiverKept
  <2> QED
    BY <2>2, <2>4, <2>5, <2>6, StepKeeps
<1> QED
  BY <1>3, <1>4 DEF Connect

LEMMA SendTaskStep ==
  ASSUME IInv, NEW t \in Tasks, SendTask(t)
  PROVE  IInv'
<1>1. TypeOK /\ TaskInv(t) /\ ReceiverInTurn /\ TaskTyped(t)
  BY TypesOfTask DEF IInv, TaskInv
<1>2. /\ client[t].pc = "connected" /\ up[t].data = <<>>
      /\ handler[t].pc \notin {"calling", "answering"}
      /\ UNCHANGED <<handler, cut, life, ran>>
  BY <1>1 DEF SendTask, TaskInv, TaskUnderWay, Unsent
<1>3. CASE Returns(t, "TIMEOUT", 0) /\ ClientCloses(t)
  BY <1>2, <1>3, FailureKeeps
<1>4. ASSUME NEW asked \in 0 .. MaxBody, down' = down,
             up' = [up EXCEPT ![t] = IF @.open /\ t \notin cut
                      THEN Sent(@, TaskFrame(t, asked), Len(TaskFrame(t, asked))) ELSE @],
             client' = [client EXCEPT ![t].pc = "header", ![t].asked = asked]
      PROVE  IInv'
  <2>1. PICK frame \in Seq(Unit) : frame = TaskFrame(t, asked)
    BY TaskFrameFacts
  <2>2. Upto(frame, Len(frame)) = frame /\ <<>> \o frame = frame
    <3>1. PICK n \in Nat : n = Len(frame)
      BY <2>1
    <3>2. Upto(frame, n) = frame
      BY <2>1, <3>1, UptoFacts
    <3>3. <<>> \o frame = frame
      BY <2>1, ConcatEmptySeq
    <3> QED
      BY <3>1, <3>2, <3>3
  <2>3. Sent(up[t], frame, Len(frame)) = [up[t] EXCEPT !.data = frame]
    BY <1>2, <2>2 DEF Sent
  <2>4. /\ up'[t] = up[t] \/ up'[t] = [up[t] EXCEPT !.data = frame]
        /\ up' = [up EXCEPT ![t] = up'[t]]
    BY <1>1, <1>4, <2>1, <2>3 DEF TypeOK
  <2>5. /\ client'[t] = [client[t] EXCEPT !.pc = "header", !.asked = asked]
        /\ client' = [client EXCEPT ![t] = client'[t]]
    BY <1>1, <1>4 DEF TypeOK
  <2>6. StepOf(t)
    BY <1>1, <1>2, <1>4, <2>4, <2>5 DEF StepOf, TypeOK, Life
  <2>7. /\ client'[t].pc = "header" /\ client'[t].answer = client[t].answer
        /\ client'[t].asked = asked /\ client'[t].header = client[t].header
        /\ up'[t].data \in {<<>>, frame} /\ up'[t] \in Stream
    BY <1>1, <1>2, <2>1, <2>4, <2>5 DEF TaskTyped, Stream
  <2>8. TaskTyped(t)'
    BY <1>1, <1>2, <1>4, <2>5, <2>7 DEF TaskTyped, ClientPc, Buffer
  <2>9. TaskUnderWay(t)'
    <3>1. Len(frame) \in Nat
      BY <2>1
    <3>2. RestOf(<<>>, frame, 0) /\ RestOf(frame, frame, 0)
      BY <2>1, <3>1, RestOfWhole DEF RestOf
    <3> QED
      BY <1>2, <2>1, <2>7, <3>2 DEF TaskUnderWay, Unsent
  <2>10. ResultUnderWay(t)' /\ InTurn(t)'
    BY <1>1, <1>2, <1>4, <2>7
    DEF TaskInv, ResultUnderWay, InTurn, Waits, Answered
  <2>11. ReceiverInTurn'
    BY <1>1, <1>2, ReceiverKept DEF Handling
  <2> QED
    BY <2>6, <2>8, <2>9, <2>10, <2>11, StepKeeps DEF TaskInv
<1> QED
  BY <1>3, <1>4 DEF SendTask

(* The header is the first unit of what is under way.                      *)
LEMMA RestOfTaken ==
  ASSUME NEW stream \in Stream, NEW frame \in Seq(Unit), RestOf(stream.data, frame, 0),
         Len(stream.data) >= 1
  PROVE  /\ RestOf(Taken(stream, 1).data, frame, 1)
         /\ Head(stream.data) = frame[1] /\ stream.data[1] = frame[1]
         /\ stream.data # <<>>
<1>1. stream.data \in Seq(Unit)
  BY DEF Stream
<1>2. PICK d \in Seq(Unit), n \in Nat, m \in Nat :
        d = stream.data /\ n = Len(d) /\ m = Len(frame)
  BY <1>1
<1>3. n >= 1 /\ 0 + n <= m /\ \A i \in 1 .. n : d[i] = frame[0 + i]
  BY <1>2 DEF RestOf
<1>4. \A i \in 1 .. n : d[i] = frame[i]
  BY <1>2, <1>3
<1>5. 1 \in 0 .. Len(stream.data)
  BY <1>2, <1>3
<1>6. /\ Len(Taken(stream, 1).data) = n - 1
      /\ \A i \in 1 .. n - 1 : Taken(stream, 1).data[i] = d[1 + i]
  BY <1>2, <1>5, TakenFacts
<1>7. \A i \in 1 .. n - 1 : 1 + i \in 1 .. n
  BY <1>2
<1>8. 1 + (n - 1) <= m
  BY <1>2, <1>3
<1>9. RestOf(Taken(stream, 1).data, frame, 1)
  BY <1>2, <1>4, <1>6, <1>7, <1>8 DEF RestOf
<1>10. Head(d) = d[1] /\ d # <<>>
  BY <1>2, <1>3
<1>11. d[1] = frame[1]
  BY <1>2, <1>3, <1>4
<1> QED
  BY <1>2, <1>9, <1>10, <1>11

LEMMA ReceiveHeaderStep ==
  ASSUME IInv, NEW t \in Tasks, ReceiveHeader(t)
  PROVE  IInv'
<1>1. TypeOK /\ TaskInv(t) /\ ReceiverInTurn /\ TaskTyped(t)
  BY TypesOfTask DEF IInv, TaskInv
<1>2. client[t].pc = "header" /\ UNCHANGED <<handler, cut, life, ran>>
  BY DEF ReceiveHeader
<1>3. CASE /\ Lost(down[t], 1)
           /\ Returns(t, IF Client[t] = "sender" THEN "MODEL_ERROR" ELSE "TIMEOUT", 0)
           /\ ClientCloses(t)
  <2>1. PICK status \in {"TIMEOUT", "MODEL_ERROR"} :
          status = IF Client[t] = "sender" THEN "MODEL_ERROR" ELSE "TIMEOUT"
    OBVIOUS
  <2> QED
    BY <1>2, <1>3, <2>1, FailureKeeps
<1>4. CASE /\ Arrived(down[t], 1)
           /\ client' = [client EXCEPT ![t].pc = "payload", ![t].header = Head(down[t].data)]
           /\ down' = [down EXCEPT ![t] = Taken(@, 1)]
           /\ up' = up
  <2>1. Len(down[t].data) >= 1 /\ down[t] \in Stream
    BY <1>1, <1>4 DEF Arrived, TypeOK
  <2>2. down[t].data # <<>>
    BY <2>1 DEF Stream
  <2>3. Answered(t)
    BY <1>1, <1>2, <2>2 DEF TaskInv, ResultUnderWay
  <2>4. PICK frame \in Seq(Unit) : frame = ResultFrame(ran[t][1])
    BY <1>1, <2>3, StreamOfTask DEF Answered
  <2>5. RestOf(down[t].data, frame, 0)
    BY <1>1, <1>2, <2>3, <2>4 DEF TaskInv, ResultUnderWay, Waits
  <2>6. RestOf(Taken(down[t], 1).data, frame, 1) /\ Head(down[t].data) = frame[1]
    BY <2>1, <2>5, RestOfTaken
  <2>7. frame[1] \in Unit
    BY <1>1, <2>3, <2>4, StreamOfTask, ResultFrameFacts DEF Answered
  <2>8. /\ client'[t] = [client[t] EXCEPT !.pc = "payload", !.header = frame[1]]
        /\ client' = [client EXCEPT ![t] = client'[t]]
    BY <1>1, <1>4, <2>6 DEF TypeOK
  <2>9. down'[t] = Taken(down[t], 1) /\ down' = [down EXCEPT ![t] = down'[t]]
    BY <1>1, <1>4 DEF TypeOK
  <2>10. StepOf(t)
    BY <1>1, <1>2, <1>4, <2>8, <2>9 DEF StepOf, TypeOK, Life
  <2>11. /\ client'[t].pc = "payload" /\ client'[t].answer = client[t].answer
         /\ client'[t].asked = client[t].asked /\ client'[t].header = frame[1]
    BY <1>1, <2>8 DEF TaskTyped
  <2>12. TaskTyped(t)'
    <3>0. 1 \in 0 .. Len(down[t].data)
      BY <2>1 DEF Stream
    <3>1. down'[t] \in Stream
      BY <2>1, <2>9, <3>0, TakenFacts
    <3>2. client'[t] \in [pc : ClientPc, header : Unit, asked : 0 .. MaxBody,
                          answer : {<<>>} \cup {<<r>> : r \in Answers}]
      BY <1>1, <2>7, <2>8 DEF TaskTyped, ClientPc
    <3> QED
      BY <1>1, <1>2, <1>4, <2>11, <3>1, <3>2 DEF TaskTyped, Buffer
  <2>13. TaskUnderWay(t)' /\ InTurn(t)'
    BY <1>1, <1>2, <1>4, <2>11 DEF TaskInv, TaskUnderWay, InTurn, Unsent
  <2>14. ResultUnderWay(t)'
    BY <1>2, <2>3, <2>4, <2>6, <2>9, <2>11 DEF ResultUnderWay, Waits, Answered
  <2>15. ReceiverInTurn'
    BY <1>1, <1>2, ReceiverKept DEF Handling
  <2> QED
    BY <2>10, <2>12, <2>13, <2>14, <2>15, StepKeeps DEF TaskInv
<1> QED
  BY <1>3, <1>4 DEF ReceiveHeader

(* What is read as the payload of a result: its status and its bytes, or,  *)
(* when the extension is not skipped, as many bytes from the year on.      *)
PayloadOf(t) == Upto(Taken(down[t], Skipped(t)).data, client[t].header.len)

LEMMA PayloadRead ==
  ASSUME TypeOK, NEW t \in Tasks, ResultUnderWay(t), client[t].pc = "payload",
         Arrived(down[t], Skipped(t) + client[t].header.len)
  PROVE  /\ ran[t] # <<>> /\ ran[t][1] \in Results
         /\ Len(PayloadOf(t)) = 1 + ran[t][1].body
         /\ PayloadOf(t)[1].kind =
              IF Client[t] = "sender" THEN ran[t][1].status ELSE "year"
<1>1. Answered(t) /\ ran[t] # <<>> /\ ran[t][1] \in Results
  BY StreamOfTask DEF ResultUnderWay, Answered
<1>2. PICK result \in Results : result = ran[t][1]
  BY <1>1
<1>3. PICK frame \in Seq(Unit) : frame = ResultFrame(result)
  BY <1>2, ResultFrameFacts
<1>4. RestOf(down[t].data, frame, 1) /\ client[t].header = frame[1]
  BY <1>1, <1>2, <1>3 DEF ResultUnderWay, Waits
<1>5. PICK c \in Nat : c = result.body
  BY ResultParts, ExchangeAssumption
<1>6. /\ Len(frame) = 4 + c /\ frame[1].len = 1 + c /\ frame[1].extended
      /\ frame[2].kind = "year" /\ frame[4] = Byte(result.status)
  BY <1>3, <1>5, ResultFrameFacts
<1>7. PICK k \in {0, 2} : k = Skipped(t) /\ k = IF Client[t] = "sender" THEN 2 ELSE 0
  BY <1>4, <1>6 DEF Skipped, Extension
<1>8. down[t] \in Stream /\ down[t].data \in Seq(Unit)
  BY DEF TypeOK, Stream
<1>9. PICK d \in Seq(Unit), n \in Nat : d = down[t].data /\ n = Len(d)
  BY <1>8
<1>10. k + (1 + c) <= n
  BY <1>4, <1>5, <1>6, <1>7, <1>9 DEF Arrived
<1>11. 1 + n <= 4 + c /\ \A i \in 1 .. n : d[i] = frame[1 + i]
  BY <1>4, <1>6, <1>9 DEF RestOf
<1>12. k \in 0 .. Len(down[t].data)
  BY <1>5, <1>7, <1>9, <1>10
<1>13. PICK e \in Seq(Unit) : e = Taken(down[t], k).data
  BY <1>8, <1>12, TakenFacts DEF Stream
<1>14. Len(e) = n - k /\ \A i \in 1 .. n - k : e[i] = d[k + i]
  <2>1. /\ Len(Taken(down[t], k).data) = Len(down[t].data) - k
        /\ \A i \in 1 .. Len(down[t].data) - k :
             Taken(down[t], k).data[i] = down[t].data[k + i]
    BY <1>8, <1>12, TakenFacts
  <2>2. Len(down[t].data) = n
    BY <1>9
  <2>3. Len(e) = n - k /\ \A i \in 1 .. n - k : e[i] = down[t].data[k + i]
    BY <1>13, <2>1, <2>2
  <2>4. ASSUME NEW i \in 1 .. n - k
        PROVE  e[i] = d[k + i]
    <3>1. e[i] = down[t].data[k + i]
      BY <2>3
    <3>2. down[t].data = d
      BY <1>9
    <3> QED
      BY <3>1, <3>2, Zenon
  <2> QED
    BY <2>3, <2>4
<1>15. AtMost(1 + c, Len(e)) = 1 + c
  <2>1. PICK l \in Nat : l = Len(e)
    OBVIOUS
  <2>2. l = n - k
    BY <1>14, <2>1
  <2>3. 1 + c <= l
    BY <1>10, <2>2
  <2>4. AtMost(1 + c, l) = 1 + c
    BY <2>3 DEF AtMost
  <2> QED
    BY <2>1, <2>4
<1>16. 1 + c \in Nat
  BY <1>5
<1>17. Len(Upto(e, 1 + c)) = 1 + c /\ \A i \in 1 .. 1 + c : Upto(e, 1 + c)[i] = e[i]
  BY <1>15, <1>16, UptoFacts
<1>18. PayloadOf(t) = Upto(e, 1 + c)
  BY <1>4, <1>6, <1>7, <1>13 DEF PayloadOf
<1>19. 1 \in 1 .. 1 + c /\ 1 \in 1 .. n - k /\ k + 1 \in 1 .. n /\ 1 + (k + 1) = 2 + k
  BY <1>5, <1>7, <1>9, <1>10
<1>20. PayloadOf(t)[1] = frame[2 + k]
  BY <1>11, <1>14, <1>17, <1>18, <1>19
<1>21. Byte(result.status).kind = result.status
  BY DEF Byte
<1>22. PayloadOf(t)[1].kind = IF Client[t] = "sender" THEN result.status ELSE "year"
  BY <1>6, <1>7, <1>20, <1>21
<1> QED
  BY <1>1, <1>2, <1>5, <1>17, <1>18, <1>22

LEMMA BodyLenFits ==
  ASSUME NEW t \in Tasks, NEW result \in Results, NEW status \in Status \cup {"year"},
         Client[t] = "sender" => status = result.status
  PROVE  /\ [status |-> status, body |-> BodyLen(t, status, 1 + result.body)] \in Answers
         /\ BodyLen(t, status, 1 + result.body) <= Buffer(t)
         /\ status = result.status =>
              BodyLen(t, status, 1 + result.body) = ToCaller(t, result).body
<1>1. PICK b \in 0 .. MaxBody : b = result.body
  BY ResultParts
<1>2. PICK cap \in Nat, max \in Nat : cap = ResultCap /\ max = MaxBody
  BY ExchangeAssumption
<1>3. (1 + b) - 1 = b
  BY <1>2
<1>4. result.status # "OK" => b = 0
  BY <1>1 DEF Results
<1>5. ToCaller(t, result).body = AtMost(b, Buffer(t))
  BY <1>1 DEF ToCaller
<1>6. CASE Client[t] = "scheduler"
  <2>1. BodyLen(t, status, 1 + b) = b /\ Buffer(t) = MaxBody
    BY <1>3, <1>6 DEF BodyLen, Buffer
  <2>2. AtMost(b, MaxBody) = b
    BY <1>1, <1>2 DEF AtMost
  <2> QED
    BY <1>1, <1>2, <1>5, <2>1, <2>2 DEF Answers
<1>7. CASE Client[t] = "sender"
  <2>1. BodyLen(t, status, 1 + b) = (IF status = "OK" THEN AtMost(b, cap) ELSE 0)
        /\ Buffer(t) = cap
    BY <1>2, <1>3, <1>7 DEF BodyLen, Buffer
  <2>2. AtMost(b, cap) <= cap /\ AtMost(b, cap) \in 0 .. MaxBody
    BY <1>1, <1>2 DEF AtMost
  <2>3. status # "OK" => AtMost(b, cap) = 0
    BY <1>2, <1>4, <1>7 DEF AtMost
  <2>4. BodyLen(t, status, 1 + b) = AtMost(b, cap)
    BY <2>1, <2>3
  <2> QED
    BY <1>1, <1>5, <2>1, <2>2, <2>4 DEF Answers
<1> QED
  BY <1>6, <1>7, ExchangeAssumption

LEMMA ReceivePayloadStep ==
  ASSUME IInv, NEW t \in Tasks, ReceivePayload(t)
  PROVE  IInv'
<1>1. TypeOK /\ TaskInv(t) /\ ReceiverInTurn /\ TaskTyped(t)
  BY TypesOfTask DEF IInv, TaskInv
<1>2. client[t].pc = "payload" /\ UNCHANGED <<handler, cut, life, ran>>
  BY DEF ReceivePayload
<1>3. CASE Returns(t, "TIMEOUT", 0) /\ ClientCloses(t)
  BY <1>2, <1>3, FailureKeeps
<1>4. CASE /\ Arrived(down[t], Skipped(t) + client[t].header.len)
           /\ Returns(t, PayloadOf(t)[1].kind,
                      BodyLen(t, PayloadOf(t)[1].kind, Len(PayloadOf(t))))
           /\ ClientCloses(t)
  <2>1. /\ ran[t][1] \in Results
        /\ Len(PayloadOf(t)) = 1 + ran[t][1].body
        /\ PayloadOf(t)[1].kind =
             IF Client[t] = "sender" THEN ran[t][1].status ELSE "year"
    BY <1>1, <1>2, <1>4, PayloadRead DEF TaskInv
  <2>2. PICK result \in Results : result = ran[t][1]
    BY <2>1
  <2>3. PICK status \in Status \cup {"year"} : status = PayloadOf(t)[1].kind
    BY <2>1, <2>2, ResultParts
  <2>4. Client[t] = "sender" => status = result.status
    BY <2>1, <2>2, <2>3
  <2>5. PICK a \in Answers :
          a = [status |-> status, body |-> BodyLen(t, status, 1 + result.body)]
    BY <2>4, BodyLenFits
  <2>6. a.body <= Buffer(t)
    BY <2>4, <2>5, BodyLenFits
  <2>7. Returns(t, a.status, a.body)
    BY <1>4, <2>1, <2>2, <2>3, <2>5
  <2>8. a = [status |-> a.status, body |-> a.body]
    BY <2>5
  <2>9. client' = [client EXCEPT ![t].pc = "done", ![t].header = NoHeader,
                                 ![t].answer = <<a>>]
    BY <2>7, <2>8 DEF Returns
  <2>10. /\ client'[t] = [client[t] EXCEPT !.pc = "done", !.header = NoHeader,
                                           !.answer = <<a>>]
         /\ client' = [client EXCEPT ![t] = client'[t]]
    BY <1>1, <2>9 DEF TypeOK
  <2>11. /\ up'[t] \in Stream /\ up'[t].data = up[t].data
         /\ down'[t] \in Stream /\ ~down'[t].open
         /\ up' = [up EXCEPT ![t] = up'[t]] /\ down' = [down EXCEPT ![t] = down'[t]]
    BY <1>1, <1>4, ClientClosesFacts
  <2>12. StepOf(t)
    BY <1>1, <1>2, <2>10, <2>11 DEF StepOf, TypeOK, Life
  <2>13. handler'[t] = handler[t] /\ ran'[t] = ran[t]
    BY <1>2
  <2>14. TaskTyped(t)' /\ TaskInv(t)'
    BY <1>1, <2>6, <2>10, <2>11, <2>13, ReturnKeeps
  <2>15. ReceiverInTurn'
    BY <1>1, <1>2, ReceiverKept DEF Handling
  <2> QED
    BY <2>12, <2>14, <2>15, StepKeeps
<1> QED
  BY <1>3, <1>4 DEF ReceivePayload, PayloadOf

-----------------------------------------------------------------------------
(* The handler *)

(* A step of the handler leaves the caller and its answer alone.           *)
LEMMA RunCallbackStep ==
  ASSUME IInv, NEW t \in Tasks, RunCallback(t)
  PROVE  IInv'
<1>1. TypeOK /\ TaskInv(t) /\ ReceiverInTurn /\ TaskTyped(t)
  BY TypesOfTask DEF IInv, TaskInv
<1>2. /\ handler[t].pc = "calling" /\ client' = client /\ up' = up /\ down' = down
      /\ UNCHANGED <<cut, life>> /\ handler' = [handler EXCEPT ![t].pc = "answering"]
  BY DEF RunCallback
<1>3. PICK result \in Results : ran' = [ran EXCEPT ![t] = <<result>>]
  BY DEF RunCallback
<1>4. handler'[t] = [handler[t] EXCEPT !.pc = "answering"] /\ ran'[t] = <<result>> /\ StepOf(t)
  BY <1>1, <1>2, <1>3 DEF TypeOK, StepOf, Life
<1>5. handler'[t].pc = "answering" /\ handler'[t].got = handler[t].got /\ ran'[t] # <<>>
  BY <1>1, <1>4 DEF TaskTyped
<1>6. TaskTyped(t)'
  <2>1. handler'[t] \in [pc : HandlerPc, got : 0 .. MaxBody, timed : BOOLEAN]
    BY <1>1, <1>4 DEF TaskTyped, HandlerPc
  <2> QED
    BY <1>1, <1>2, <1>4, <2>1 DEF TaskTyped, Buffer
<1>7. TaskInv(t)'
  BY <1>1, <1>2, <1>5
  DEF TaskInv, TaskUnderWay, ResultUnderWay, InTurn, Unsent, Waits, Answered
<1>8. ReceiverInTurn'
  BY <1>1, <1>2, <1>4, HandlingKept, ReceiverKept
<1> QED
  BY <1>4, <1>6, <1>7, <1>8, StepKeeps

LEMMA FinishedType ==
  Finished \in [pc : HandlerPc, got : 0 .. MaxBody, timed : BOOLEAN] /\ Finished.pc = "done"
BY ExchangeAssumption DEF Finished, HandlerPc

LEMMA GiveUpReadingStep ==
  ASSUME IInv, NEW t \in Tasks, GiveUpReading(t)
  PROVE  IInv'
<1>1. TypeOK /\ TaskInv(t) /\ ReceiverInTurn /\ TaskTyped(t)
  BY TypesOfTask DEF IInv, TaskInv
<1>2. /\ handler[t].pc = "reading" /\ UNCHANGED <<client, cut, life, ran>>
      /\ handler' = [handler EXCEPT ![t] = Finished] /\ HandlerCloses(t)
  BY DEF GiveUpReading
<1>3. /\ up'[t] \in Stream /\ up'[t].data = <<>>
      /\ down'[t] \in Stream /\ down'[t].data = down[t].data
      /\ down'[t].open => down[t].open
      /\ up' = [up EXCEPT ![t] = up'[t]] /\ down' = [down EXCEPT ![t] = down'[t]]
  BY <1>1, <1>2, HandlerClosesFacts
<1>4. handler'[t] = Finished /\ StepOf(t)
  BY <1>1, <1>2, <1>3 DEF TypeOK, StepOf, Life
<1>5. handler'[t].pc = "done" /\ ran[t] = <<>>
  BY <1>1, <1>2, <1>4, FinishedType DEF TaskInv, InTurn
<1>6. TaskTyped(t)'
  BY <1>1, <1>2, <1>3, <1>4, FinishedType DEF TaskTyped, Buffer
<1>7. TaskUnderWay(t)'
  <2>1. Len(TaskFrame(t, client[t].asked)) \in Nat
    BY <1>1, StreamOfTask
  <2>2. RestOf(<<>>, TaskFrame(t, client[t].asked), 0)
    BY <2>1 DEF RestOf
  <2> QED
    BY <1>1, <1>2, <1>3, <1>5, <2>2 DEF TaskInv, TaskUnderWay, Unsent
<1>8. ResultUnderWay(t)' /\ InTurn(t)'
  BY <1>1, <1>2, <1>3, <1>5
  DEF TaskInv, ResultUnderWay, InTurn, Waits, Answered
<1>9. ReceiverInTurn'
  BY <1>1, <1>2, <1>4, <1>5, HandlingKept, ReceiverKept
<1> QED
  BY <1>4, <1>6, <1>7, <1>8, <1>9, StepKeeps DEF TaskInv

(* A task that is read is one that came whole.                             *)
LEMMA TaskRead ==
  ASSUME TypeOK, NEW t \in Tasks, TaskUnderWay(t),
         Arrived(up[t], 1), Arrived(up[t], Expected(up[t]))
  PROVE  /\ ~Unsent(t)
         /\ Cardinality({i \in DOMAIN up[t].data : up[t].data[i].kind = "task"})
              = client[t].asked
         /\ Taken(up[t], Expected(up[t])) \in Stream
         /\ Len(Taken(up[t], Expected(up[t])).data) = 0
<1>1. up[t] \in Stream /\ client[t].asked \in 0 .. MaxBody /\ up[t].data \in Seq(Unit)
  BY DEF TypeOK, Stream
<1>2. PICK asked \in 0 .. MaxBody : asked = client[t].asked
  BY <1>1
<1>3. PICK frame \in Seq(Unit) : frame = TaskFrame(t, asked)
  BY TaskFrameFacts
<1>4. PICK e \in Nat : e = 1 + Ext(t)
  BY DEF Ext
<1>5. /\ Len(frame) = e + asked /\ 1 + Skip(frame[1]) = e /\ frame[1].len = asked
      /\ \A i \in 1 .. e + asked : frame[i].kind = "task" <=> i > e
  BY <1>3, <1>4, TaskFrameFacts
<1>6. RestOf(up[t].data, frame, 0)
  BY <1>2, <1>3 DEF TaskUnderWay
<1>7. Len(up[t].data) >= 1
  BY DEF Arrived
<1>8. up[t].data[1] = frame[1] /\ Head(up[t].data) = frame[1] /\ up[t].data # <<>>
  BY <1>1, <1>6, <1>7, RestOfTaken
<1>9. ~Unsent(t)
  BY <1>8 DEF TaskUnderWay
<1>10. Expected(up[t]) = e + asked
  BY <1>5, <1>8 DEF Expected, Skip, Extension
<1>11. PICK d \in Seq(Unit) : d = up[t].data
  BY <1>1
<1>12. PICK n \in Nat : n = e + asked
  BY <1>2, <1>4, ExchangeAssumption
<1>13. Len(d) = n /\ \A i \in 1 .. n : d[i] = frame[0 + i]
  BY <1>5, <1>6, <1>10, <1>11, <1>12 DEF Arrived, RestOf
<1>14. \A i \in 1 .. n : d[i].kind = "task" <=> i > e
  BY <1>5, <1>12, <1>13
<1>15. {i \in DOMAIN d : d[i].kind = "task"} = (e + 1) .. n
  <2>1. DOMAIN d = 1 .. n
    BY <1>13
  <2>2. \A i \in 1 .. n : i > e <=> i \in (e + 1) .. n
    BY <1>12
  <2>3. \A i \in (e + 1) .. n : i \in 1 .. n
    BY <1>4
  <2> QED
    BY <1>14, <2>1, <2>2, <2>3
<1>16. Cardinality((e + 1) .. n) = asked
  <2>1. e + 1 \in Int /\ n \in Int
    BY <1>12
  <2>2. Cardinality((e + 1) .. n) = IF e + 1 > n THEN 0 ELSE n - (e + 1) + 1
    BY <2>1, FS_Interval
  <2>3. asked \in Nat
    BY ExchangeAssumption
  <2>4. n - (e + 1) + 1 = asked /\ (e + 1 > n => asked = 0)
    BY <1>12, <2>3
  <2> QED
    BY <2>2, <2>4
<1>17. n \in 0 .. Len(up[t].data)
  BY <1>11, <1>12, <1>13
<1>18. Taken(up[t], n) \in Stream /\ Len(Taken(up[t], n).data) = Len(d) - n
  BY <1>1, <1>11, <1>17, TakenFacts
<1>19. Len(Taken(up[t], n).data) = 0
  BY <1>12, <1>13, <1>18
<1>20. n = Expected(up[t])
  BY <1>10, <1>12
<1> QED
  BY <1>2, <1>9, <1>11, <1>15, <1>16, <1>18, <1>19, <1>20

LEMMA ReadTaskStep ==
  ASSUME IInv, NEW t \in Tasks, ReadTask(t)
  PROVE  IInv'
<1>1. TypeOK /\ TaskInv(t) /\ ReceiverInTurn /\ TaskTyped(t)
  BY TypesOfTask DEF IInv, TaskInv
<1>2. handler[t].pc = "reading" /\ UNCHANGED <<client, down, cut, life, ran>>
  BY DEF ReadTask
<1>3. PICK got \in 0 .. MaxBody : got = client[t].asked
  BY <1>1 DEF TaskTyped
<1>4. PICK stream \in Stream : stream = Taken(up[t], Expected(up[t]))
  BY <1>1, TaskRead DEF ReadTask, TaskInv
<1>5. ~Unsent(t) /\ Len(stream.data) = 0
  BY <1>1, <1>4, TaskRead DEF ReadTask, TaskInv
<1>6. Cardinality({i \in DOMAIN up[t].data : up[t].data[i].kind = "task"}) = got
  BY <1>1, <1>3, TaskRead DEF ReadTask, TaskInv
<1>7. /\ handler' = [handler EXCEPT ![t].pc = "calling", ![t].got = got]
      /\ up' = [up EXCEPT ![t] = stream]
  BY <1>4, <1>6 DEF ReadTask
<1>8. /\ handler'[t] = [handler[t] EXCEPT !.pc = "calling", !.got = got]
      /\ up'[t] = stream /\ StepOf(t)
  BY <1>1, <1>2, <1>7 DEF TypeOK, StepOf, Life
<1>9. handler'[t].pc = "calling" /\ handler'[t].got = client[t].asked
  BY <1>1, <1>3, <1>8 DEF TaskTyped
<1>10. TaskTyped(t)'
  <2>1. handler'[t] \in [pc : HandlerPc, got : 0 .. MaxBody, timed : BOOLEAN]
    BY <1>1, <1>8 DEF TaskTyped, HandlerPc
  <2> QED
    BY <1>1, <1>2, <1>8, <2>1 DEF TaskTyped, Buffer
<1>11. TaskUnderWay(t)'
  <2>1. stream.data = <<>>
    BY <1>5 DEF Stream
  <2>2. Len(TaskFrame(t, client[t].asked)) \in Nat
    BY <1>1, StreamOfTask
  <2>3. RestOf(<<>>, TaskFrame(t, client[t].asked), 0)
    BY <2>2 DEF RestOf
  <2> QED
    BY <1>2, <1>5, <1>8, <1>9, <2>1, <2>3 DEF TaskUnderWay, Unsent
<1>12. ResultUnderWay(t)' /\ InTurn(t)'
  BY <1>1, <1>2, <1>9 DEF TaskInv, ResultUnderWay, InTurn, Waits, Answered
<1>13. ReceiverInTurn'
  BY <1>1, <1>2, <1>8, HandlingKept, ReceiverKept
<1> QED
  BY <1>8, <1>10, <1>11, <1>12, <1>13, StepKeeps DEF TaskInv

LEMMA SendResultStep ==
  ASSUME IInv, NEW t \in Tasks, SendResult(t)
  PROVE  IInv'
<1>1. TypeOK /\ TaskInv(t) /\ ReceiverInTurn /\ TaskTyped(t)
  BY TypesOfTask DEF IInv, TaskInv
<1>2. /\ handler[t].pc = "answering" /\ UNCHANGED <<client, cut, life, ran>>
      /\ handler' = [handler EXCEPT ![t] = Finished]
      /\ up' = [up EXCEPT ![t] = Gone]
  BY DEF SendResult
<1>3. ran[t] # <<>>
  BY <1>1, <1>2 DEF TaskInv, InTurn
<1>4. PICK frame \in Seq(Unit) : frame = ResultFrame(ran[t][1])
  BY <1>1, <1>3, StreamOfTask
<1>5. \/ down[t].open /\ down' = [down EXCEPT ![t] = Shut(Sent(down[t], frame, Len(frame)))]
      \/ down' = [down EXCEPT ![t] = down[t]]
  BY <1>4 DEF SendResult
<1>6. /\ handler'[t] = Finished
      /\ up'[t] = Gone /\ up' = [up EXCEPT ![t] = up'[t]]
      /\ \/ down[t].open /\ down'[t] = Shut(Sent(down[t], frame, Len(frame)))
         \/ down'[t] = down[t]
      /\ down' = [down EXCEPT ![t] = down'[t]]
  BY <1>1, <1>2, <1>5 DEF TypeOK
<1>7. StepOf(t)
  BY <1>1, <1>2, <1>6 DEF TypeOK, StepOf, Life
<1>8. handler'[t].pc = "done"
  BY <1>6, FinishedType
<1>9. up'[t] \in Stream /\ up'[t].data = <<>>
  BY <1>6, ClosedStreams
<1>10. ~Answered(t)
  BY <1>2 DEF Answered
<1>11. down'[t] \in Stream /\ ResultUnderWay(t)'
  <2>1. CASE down[t].open /\ down'[t] = Shut(Sent(down[t], frame, Len(frame)))
    <3>1. Waits(t) /\ down[t].data = <<>> /\ client[t].pc # "payload"
      BY <1>1, <1>10, <2>1 DEF TaskInv, ResultUnderWay, Waits
    <3>2. Upto(frame, Len(frame)) = frame /\ <<>> \o frame = frame
      <4>1. PICK n \in Nat : n = Len(frame)
        BY <1>4
      <4>2. Upto(frame, n) = frame
        BY <1>4, <4>1, UptoFacts
      <4>3. <<>> \o frame = frame
        BY <1>4, ConcatEmptySeq
      <4> QED
        BY <4>1, <4>2, <4>3
    <3>3. Sent(down[t], frame, Len(frame)) = [down[t] EXCEPT !.data = frame]
      BY <3>1, <3>2 DEF Sent
    <3>4. down'[t] \in Stream /\ down'[t].data = frame /\ ~down'[t].open
      <4>1. PICK sent : sent = Sent(down[t], frame, Len(frame))
        OBVIOUS
      <4>2. sent \in Stream /\ sent.data = frame
        BY <1>1, <1>4, <3>3, <4>1 DEF TaskTyped, Stream
      <4>3. down'[t] = Shut(sent)
        BY <2>1, <4>1
      <4> QED
        BY <4>2, <4>3, ClosedStreams
    <3>5. RestOf(frame, frame, 0)
      BY <1>4, RestOfWhole
    <3>6. ResultUnderWay(t)'
      BY <1>2, <1>3, <1>4, <1>8, <3>1, <3>4, <3>5 DEF ResultUnderWay, Waits, Answered
    <3> QED
      BY <3>4, <3>6
  <2>2. CASE down'[t] = down[t]
    <3>1. ASSUME Waits(t)
          PROVE  down[t].data = <<>> /\ client[t].pc # "payload"
      BY <1>1, <1>10, <3>1 DEF TaskInv, ResultUnderWay, Waits
    <3>2. Len(frame) \in Nat
      BY <1>4
    <3>3. RestOf(<<>>, frame, 0)
      BY <3>2 DEF RestOf
    <3>4. down[t].open => Waits(t)
      BY <1>1 DEF TaskInv, ResultUnderWay
    <3>5. ResultUnderWay(t)'
      BY <1>2, <1>3, <1>4, <1>8, <2>2, <3>1, <3>3, <3>4
      DEF ResultUnderWay, Waits, Answered
    <3> QED
      BY <1>1, <2>2, <3>5 DEF TaskTyped
  <2> QED
    BY <1>6, <2>1, <2>2
<1>12. TaskTyped(t)'
  BY <1>1, <1>2, <1>6, <1>9, <1>11, FinishedType DEF TaskTyped, Buffer
<1>13. TaskUnderWay(t)'
  <2>1. Len(TaskFrame(t, client[t].asked)) \in Nat
    BY <1>1, StreamOfTask
  <2>2. RestOf(<<>>, TaskFrame(t, client[t].asked), 0)
    BY <2>1 DEF RestOf
  <2> QED
    BY <1>1, <1>2, <1>8, <1>9, <2>2 DEF TaskInv, TaskUnderWay, Unsent
<1>14. InTurn(t)'
  BY <1>1, <1>2, <1>8 DEF TaskInv, InTurn
<1>15. ReceiverInTurn'
  BY <1>1, <1>2, <1>7, HandlingKept, ReceiverKept
<1> QED
  BY <1>7, <1>11, <1>12, <1>13, <1>14, <1>15, StepKeeps DEF TaskInv

LEMMA AcceptTaskStep ==
  ASSUME IInv, NEW t \in Tasks, Accept(t)
  PROVE  IInv'
<1>1. TypeOK /\ TaskInv(t) /\ ReceiverInTurn /\ TaskTyped(t)
  BY TypesOfTask DEF IInv, TaskInv
<1>2. /\ life.accept = "accepting" /\ handler[t].pc = "backlog"
      /\ UNCHANGED <<client, up, down, cut, ran>>
      /\ life' = [life EXCEPT !.accept = "top"]
      /\ handler' = [handler EXCEPT ![t].pc = "reading"]
  BY DEF Accept
<1>3. life' \in Life /\ life'.owner = life.owner
  BY <1>1, <1>2 DEF TypeOK, Life, AcceptPc
<1>4. handler'[t] = [handler[t] EXCEPT !.pc = "reading"] /\ StepOf(t)
  BY <1>1, <1>2, <1>3 DEF TypeOK, StepOf
<1>5. handler'[t].pc = "reading"
  BY <1>1, <1>4 DEF TaskTyped
<1>6. TaskTyped(t)'
  <2>1. handler'[t] \in [pc : HandlerPc, got : 0 .. MaxBody, timed : BOOLEAN]
    BY <1>1, <1>4 DEF TaskTyped, HandlerPc
  <2> QED
    BY <1>1, <1>2, <2>1 DEF TaskTyped, Buffer
<1>7. TaskInv(t)'
  BY <1>1, <1>2, <1>5
  DEF TaskInv, TaskUnderWay, ResultUnderWay, InTurn, Unsent, Waits, Answered
<1>8. ReceiverInTurn'
  BY <1>1, <1>2, <1>3 DEF ReceiverInTurn
<1> QED
  BY <1>4, <1>6, <1>7, <1>8, StepKeeps

-----------------------------------------------------------------------------
(* The network and the receiver *)

LEMMA RemainsFacts ==
  ASSUME NEW stream \in Stream, NEW left \in Remains(stream)
  PROVE  /\ left \in Stream /\ left.open = stream.open
         /\ stream.data = <<>> => left.data = <<>>
         /\ \E n \in Nat : left.data = Upto(stream.data, n)
<1>1. PICK d \in Seq(Unit) : d = stream.data
  BY DEF Stream
<1>2. PICK n \in 0 .. Len(d) : left = [stream EXCEPT !.data = Upto(d, n)]
  BY <1>1 DEF Remains
<1>3. n \in Nat
  BY <1>1
<1>4. Upto(d, n) \in Seq(Unit) /\ Len(Upto(d, n)) = AtMost(n, Len(d))
  BY <1>1, <1>3, UptoFacts
<1>5. Len(d) = 0 => AtMost(n, Len(d)) = 0
  BY DEF AtMost
<1>6. d = <<>> => Upto(d, n) = <<>>
  BY <1>4, <1>5
<1>7. left \in Stream /\ left.open = stream.open /\ left.data = Upto(d, n)
  BY <1>2, <1>4 DEF Stream
<1> QED
  BY <1>1, <1>3, <1>6, <1>7

LEMMA BreakStep ==
  ASSUME IInv, NEW t \in Tasks, Break(t)
  PROVE  IInv'
<1>1. TypeOK /\ TaskInv(t) /\ ReceiverInTurn /\ TaskTyped(t)
  BY TypesOfTask DEF IInv, TaskInv
<1>2. UNCHANGED <<client, handler, life, ran>> /\ cut' = cut \cup {t}
  BY DEF Break
<1>3. PICK u \in Remains(up[t]), d \in Remains(down[t]) :
        up' = [up EXCEPT ![t] = u] /\ down' = [down EXCEPT ![t] = d]
  BY DEF Break
<1>4. up'[t] = u /\ down'[t] = d /\ StepOf(t)
  BY <1>1, <1>2, <1>3 DEF TypeOK, StepOf, Life
<1>5. up[t] \in Stream /\ down[t] \in Stream
  BY <1>1 DEF TypeOK
<1>6. /\ u \in Stream /\ (up[t].data = <<>> => u.data = <<>>)
      /\ d \in Stream /\ d.open = down[t].open /\ (down[t].data = <<>> => d.data = <<>>)
  BY <1>3, <1>5, RemainsFacts
<1>7. PICK n \in Nat, m \in Nat :
        u.data = Upto(up[t].data, n) /\ d.data = Upto(down[t].data, m)
  BY <1>3, <1>5, RemainsFacts
<1>8. TaskTyped(t)'
  BY <1>1, <1>2, <1>4, <1>6 DEF TaskTyped, Buffer
<1>9. TaskUnderWay(t)'
  <2>1. RestOf(Upto(up[t].data, n), TaskFrame(t, client[t].asked), 0)
    BY <1>1, StreamOfTask, RestOfPrefix DEF TaskInv, TaskUnderWay
  <2> QED
    BY <1>1, <1>2, <1>4, <1>6, <1>7, <2>1 DEF TaskInv, TaskUnderWay, Unsent
<1>10. ResultUnderWay(t)'
  <2>1. ASSUME Answered(t), NEW k \in {0, 1},
               RestOf(down[t].data, ResultFrame(ran[t][1]), k)
        PROVE  RestOf(d.data, ResultFrame(ran[t][1]), k)
    BY <1>1, <1>7, <2>1, StreamOfTask, RestOfPrefix DEF Answered
  <2> QED
    BY <1>1, <1>2, <1>4, <1>6, <2>1 DEF TaskInv, ResultUnderWay, Waits, Answered
<1>11. InTurn(t)'
  BY <1>1, <1>2 DEF TaskInv, InTurn
<1>12. ReceiverInTurn'
  BY <1>1, <1>2, ReceiverKept DEF Handling
<1> QED
  BY <1>4, <1>8, <1>9, <1>10, <1>11, <1>12, StepKeeps DEF TaskInv

(* To be told of a break closes a stream and takes nothing from it.        *)
LEMMA TellStep ==
  ASSUME IInv, NEW t \in Tasks, Tell(t)
  PROVE  IInv'
<1>1. TypeOK /\ TaskInv(t) /\ ReceiverInTurn /\ TaskTyped(t)
  BY TypesOfTask DEF IInv, TaskInv
<1>2. UNCHANGED <<client, handler, cut, life, ran>>
  BY DEF Tell
<1>3. /\ up' = [up EXCEPT ![t] = Shut(up[t])] \/ up' = up
      /\ down' = [down EXCEPT ![t] = Shut(down[t])] \/ down' = down
  BY DEF Tell
<1>4. /\ up'[t] \in {up[t], Shut(up[t])} /\ up' = [up EXCEPT ![t] = up'[t]]
      /\ down'[t] \in {down[t], Shut(down[t])} /\ down' = [down EXCEPT ![t] = down'[t]]
  BY <1>1, <1>3 DEF TypeOK
<1>5. StepOf(t)
  BY <1>1, <1>2, <1>4 DEF TypeOK, StepOf, Life
<1>6. /\ up'[t] \in Stream /\ up'[t].data = up[t].data
      /\ down'[t] \in Stream /\ down'[t].data = down[t].data
      /\ down'[t].open => down[t].open
  BY <1>1, <1>4, ClosedStreams DEF TaskTyped
<1>7. TaskTyped(t)'
  BY <1>1, <1>2, <1>6 DEF TaskTyped, Buffer
<1>8. TaskInv(t)'
  BY <1>1, <1>2, <1>6
  DEF TaskInv, TaskUnderWay, ResultUnderWay, InTurn, Unsent, Waits, Answered
<1>9. ReceiverInTurn'
  BY <1>1, <1>2, ReceiverKept DEF Handling
<1> QED
  BY <1>5, <1>7, <1>8, <1>9, StepKeeps

(* What the receiver's owner and its accept thread do to the tasks.        *)
LEMMA NoTaskTouched ==
  ASSUME IInv, UNCHANGED connVars, ReceiverInTurn', life' \in Life
  PROVE  IInv'
<1>1. TypeOK'
  BY DEF IInv, TypeOK, connVars, Buffer, Life
<1>2. ASSUME NEW t \in Tasks
      PROVE  TaskInv(t)'
  BY SameKept DEF IInv, TaskInv, Same, connVars
<1> QED
  BY <1>1, <1>2 DEF IInv, TaskInv

LEMMA OwnerSteps ==
  ASSUME IInv, \/ Start \/ StopRequest \/ StopJoinAccept \/ StopReturn
               \/ Listen \/ SetTimeout \/ LoopTop \/ WakeUp
  PROVE  IInv'
<1>1. UNCHANGED connVars
  BY DEF Start, StopRequest, Listen, SetTimeout, LoopTop, WakeUp, StopJoinAccept, StopReturn
<1>2. ReceiverInTurn /\ life \in Life
  BY DEF IInv, TypeOK, Life
<1>3. Handling' = Handling
  BY <1>1 DEF Handling, connVars
<1>4. life' \in Life /\ ReceiverInTurn'
  <2>1. CASE Start
    BY <1>2, <2>1 DEF Start, ReceiverInTurn, Life, OwnerPc, AcceptPc
  <2>2. CASE StopRequest
    BY <1>2, <2>2 DEF StopRequest, ReceiverInTurn, Life, OwnerPc
  <2>3. CASE Listen
    BY <1>2, <1>3, <2>3 DEF Listen, ReceiverInTurn, Life, AcceptPc
  <2>4. CASE SetTimeout \/ LoopTop \/ WakeUp
    BY <1>2, <1>3, <2>4 DEF SetTimeout, LoopTop, WakeUp, ReceiverInTurn, Life, AcceptPc
  <2>5. CASE StopJoinAccept
    BY <1>2, <2>5 DEF StopJoinAccept, AcceptJoined, ReceiverInTurn, Life, OwnerPc
  <2>6. CASE StopReturn
    BY <1>2, <1>3, <2>6 DEF StopReturn, ReceiverInTurn, Life, OwnerPc
  <2> QED
    BY <2>1, <2>2, <2>3, <2>4, <2>5, <2>6
<1> QED
  BY <1>1, <1>4, NoTaskTouched

LEMMA EndAcceptStep ==
  ASSUME IInv, EndAccept
  PROVE  IInv'
<1>1. TypeOK /\ ReceiverInTurn /\ life.accept = "top"
      /\ UNCHANGED <<client, cut, ran>> /\ life' = [life EXCEPT !.accept = "ended"]
  BY DEF IInv, EndAccept
<1>2. DEFINE Unaccepted(t) == handler[t].pc = "backlog"
<1>3. /\ handler' = [t \in Tasks |-> IF Unaccepted(t) THEN Finished ELSE handler[t]]
      /\ up' = [t \in Tasks |-> IF Unaccepted(t) /\ t \notin cut THEN Gone ELSE up[t]]
      /\ down' = [t \in Tasks |-> IF Unaccepted(t) /\ t \notin cut THEN Gone ELSE down[t]]
  BY DEF EndAccept
<1>4. ASSUME NEW t \in Tasks, ~Unaccepted(t)
      PROVE  Same(t)
  BY <1>1, <1>3, <1>4 DEF Same
<1>5. ASSUME NEW t \in Tasks, Unaccepted(t)
      PROVE  /\ handler'[t] = Finished
             /\ up'[t] \in {Gone, up[t]} /\ down'[t] \in {Gone, down[t]}
  BY <1>3, <1>5
<1>6. TypeOK'
  <2>1. ASSUME NEW t \in Tasks
        PROVE  /\ handler'[t] \in [pc : HandlerPc, got : 0 .. MaxBody, timed : BOOLEAN]
               /\ up'[t] \in Stream /\ down'[t] \in Stream
    <3>1. CASE Unaccepted(t)
      BY <1>1, <1>5, <3>1, FinishedType, ClosedStreams DEF TypeOK
    <3>2. CASE ~Unaccepted(t)
      BY <1>1, <1>4, <3>2 DEF TypeOK, Same
    <3> QED
      BY <3>1, <3>2
  <2>2. /\ handler' \in [Tasks -> [pc : HandlerPc, got : 0 .. MaxBody, timed : BOOLEAN]]
        /\ up' \in [Tasks -> Stream] /\ down' \in [Tasks -> Stream]
    BY <1>3, <2>1
  <2>3. life' \in [owner : OwnerPc, running : BOOLEAN, accept : AcceptPc]
    BY <1>1 DEF TypeOK, AcceptPc
  <2> QED
    BY <1>1, <2>2, <2>3 DEF TypeOK, Buffer
<1>7. ASSUME NEW t \in Tasks
      PROVE  TaskInv(t)'
  <2>1. TaskInv(t)
    BY DEF IInv, TaskInv
  <2>2. CASE ~Unaccepted(t)
    BY <1>4, <2>1, <2>2, SameKept
  <2>3. CASE Unaccepted(t)
    <3>1. /\ handler'[t].pc = "done" /\ handler[t].pc = "backlog" /\ ran[t] = <<>>
          /\ up'[t].data \in {<<>>, up[t].data}
          /\ down'[t].data \in {<<>>, down[t].data} /\ (down'[t].open => down[t].open)
      BY <1>5, <2>1, <2>3, FinishedType, ClosedStreams DEF TaskInv, InTurn
    <3>2. Len(TaskFrame(t, client[t].asked)) \in Nat
      BY <1>1, StreamOfTask
    <3>3. RestOf(<<>>, TaskFrame(t, client[t].asked), 0)
      BY <3>2 DEF RestOf
    <3>4. TaskUnderWay(t)'
      BY <1>1, <2>1, <3>1, <3>3 DEF TaskInv, TaskUnderWay, Unsent
    <3>5. ResultUnderWay(t)' /\ InTurn(t)'
      BY <1>1, <2>1, <3>1 DEF TaskInv, ResultUnderWay, InTurn, Waits, Answered
    <3> QED
      BY <3>4, <3>5 DEF TaskInv
  <2> QED
    BY <2>2, <2>3
<1>8. ReceiverInTurn'
  <2>1. life'.owner = life.owner /\ life'.accept = "ended"
    BY <1>1 DEF TypeOK
  <2>2. life.owner # "stopped"
    BY <1>1 DEF ReceiverInTurn
  <2> QED
    BY <2>1, <2>2 DEF ReceiverInTurn
<1> QED
  BY <1>6, <1>7, <1>8 DEF IInv, TaskInv

-----------------------------------------------------------------------------
(* The invariant *)

LEMMA InitInvariant == Init => IInv
<1> SUFFICES ASSUME Init
             PROVE  IInv
  OBVIOUS
<1>1. 0 \in 0 .. MaxBody /\ 0 \in 0 .. MaxBody + 1
  BY ExchangeAssumption
<1>2. NoHeader \in Unit
  BY <1>1 DEF NoHeader, Header, Unit
<1>3. [data |-> <<>>, open |-> FALSE] \in Stream
  BY DEF Stream
<1>4. TypeOK
  BY <1>1, <1>2, <1>3 DEF Init, TypeOK, ClientPc, HandlerPc, OwnerPc, AcceptPc
<1>5. ReceiverInTurn
  BY DEF Init, ReceiverInTurn, Handling
<1>6. ASSUME NEW t \in Tasks
      PROVE  TaskUnderWay(t) /\ ResultUnderWay(t) /\ InTurn(t)
  <2>1. Len(TaskFrame(t, client[t].asked)) \in Nat
    BY <1>4, StreamOfTask
  <2>2. RestOf(<<>>, TaskFrame(t, client[t].asked), 0)
    BY <2>1 DEF RestOf
  <2> QED
    BY <2>2 DEF Init, TaskUnderWay, ResultUnderWay, InTurn, Waits
<1> QED
  BY <1>4, <1>5, <1>6 DEF IInv

LEMMA NextInvariant == IInv /\ [Next]_vars => IInv'
<1> SUFFICES ASSUME IInv, [Next]_vars
             PROVE  IInv'
  OBVIOUS
<1>1. CASE OwnerStep \/ AcceptStep \/ StopStep
  BY <1>1, OwnerSteps, AcceptTaskStep, EndAcceptStep DEF OwnerStep, AcceptStep, StopStep
<1>2. ASSUME NEW t \in Tasks,
             ClientStep(t) \/ HandlerStep(t) \/ RunCallback(t) \/ Break(t) \/ Tell(t)
      PROVE  IInv'
  <2>1. CASE ClientStep(t)
    BY <2>1, ConnectStep, SendTaskStep, ReceiveHeaderStep, ReceivePayloadStep DEF ClientStep
  <2>2. CASE HandlerStep(t)
    BY <2>2, ReadTaskStep, GiveUpReadingStep, SendResultStep DEF HandlerStep
  <2> QED
    BY <1>2, <2>1, <2>2, RunCallbackStep, BreakStep, TellStep
<1>3. CASE UNCHANGED vars
  <2>1. UNCHANGED connVars /\ life' = life
    BY <1>3 DEF vars
  <2>2. ReceiverInTurn'
    BY <2>1, ReceiverKept DEF IInv, Handling, connVars
  <2> QED
    BY <2>1, <2>2, NoTaskTouched DEF IInv, TypeOK, Life
<1> QED
  BY <1>1, <1>2, <1>3 DEF Next

(* What lies between a caller and a worker is always what is left of the   *)
(* frame the one or the other has sent (tcp_send_all, tcp_recv_all).       *)
THEOREM ExchangeInvariant == Spec => []IInv
<1>1. Init => IInv
  BY InitInvariant
<1>2. IInv /\ [Next]_vars => IInv'
  BY NextInvariant
<1> QED
  BY <1>1, <1>2, PTL DEF Spec

(* The types; the caller's buffer is never overrun (send_task's copy).     *)
THEOREM ExchangeTypes == Spec => []TypeOK
<1>1. IInv => TypeOK
  BY DEF IInv
<1> QED
  BY <1>1, ExchangeInvariant, PTL

(* handle_connection runs the callback on whole tasks only.                *)
THEOREM TasksWhole == Spec => []TaskWhole
<1>1. IInv => TaskWhole
  BY DEF IInv, TaskUnderWay, TaskWhole
<1> QED
  BY <1>1, ExchangeInvariant, PTL

(* When stop() has returned no thread of the receiver is left.             *)
THEOREM StopIsComplete == Spec => []StopLeavesNothing
<1>1. IInv => StopLeavesNothing
  BY DEF IInv, ReceiverInTurn, StopLeavesNothing
<1> QED
  BY <1>1, ExchangeInvariant, PTL

-----------------------------------------------------------------------------
(* The implementation of TaskCall *)

answers == [t \in Senders |-> client[t].answer]
runs    == [t \in Senders |-> ran[t]]

LEMMA AnswersKept ==
  ASSUME ran' = ran, \A t \in Senders : client'[t].answer = client[t].answer
  PROVE  UNCHANGED Call!vars
BY DEF Call!vars

(* A caller gets its answer from Returns: an error, or what it has read.   *)
Error(t) == \E status \in {"TIMEOUT", "MODEL_ERROR"} :
              /\ Returns(t, status, 0)
              /\ Client[t] = "scheduler" => status = "TIMEOUT"
Reply(t) == /\ client[t].pc = "payload" /\ Arrived(down[t], Skipped(t) + client[t].header.len)
            /\ Returns(t, PayloadOf(t)[1].kind,
                       BodyLen(t, PayloadOf(t)[1].kind, Len(PayloadOf(t))))

LEMMA ClientAnswers ==
  ASSUME TypeOK, NEW t \in Tasks, ClientStep(t)
  PROVE  /\ client[t].pc # "done" /\ ran' = ran
         /\ \/ \A u \in Tasks : client'[u].answer = client[u].answer
            \/ Error(t) \/ Reply(t)
<1>1. client[t].pc # "done" /\ ran' = ran
  BY DEF ClientStep, Connect, SendTask, ReceiveHeader, ReceivePayload
<1>2. CASE Connect(t)
  <2>1. CASE client' = [client EXCEPT ![t].pc = "connected"]
    BY <1>1, <2>1 DEF TypeOK
  <2>2. CASE Returns(t, "TIMEOUT", 0)
    BY <1>1, <2>2 DEF Error
  <2> QED
    BY <1>2, <2>1, <2>2 DEF Connect
<1>3. CASE SendTask(t)
  <2>1. CASE \E asked \in 0 .. MaxBody :
               client' = [client EXCEPT ![t].pc = "header", ![t].asked = asked]
    BY <1>1, <2>1 DEF TypeOK
  <2>2. CASE Returns(t, "TIMEOUT", 0)
    BY <1>1, <2>2 DEF Error
  <2> QED
    BY <1>3, <2>1, <2>2 DEF SendTask
<1>4. CASE ReceiveHeader(t)
  <2>1. CASE client' = [client EXCEPT ![t].pc = "payload", ![t].header = Head(down[t].data)]
    BY <1>1, <2>1 DEF TypeOK
  <2>2. CASE Returns(t, IF Client[t] = "sender" THEN "MODEL_ERROR" ELSE "TIMEOUT", 0)
    BY <1>1, <2>2 DEF Error
  <2> QED
    BY <1>4, <2>1, <2>2 DEF ReceiveHeader
<1>5. CASE ReceivePayload(t)
  <2>1. Reply(t) \/ Returns(t, "TIMEOUT", 0)
    BY <1>5 DEF ReceivePayload, Reply, PayloadOf
  <2> QED
    BY <1>1, <2>1 DEF Error
<1> QED
  BY <1>1, <1>2, <1>3, <1>4, <1>5 DEF ClientStep

LEMMA Returned ==
  ASSUME TypeOK, NEW t \in Tasks, NEW status, NEW body, Returns(t, status, body)
  PROVE  /\ client'[t].answer = <<[status |-> status, body |-> body]>>
         /\ \A u \in Tasks \ {t} : client'[u] = client[u]
<1>1. PICK a : a = [status |-> status, body |-> body]
  OBVIOUS
<1>2. client' = [client EXCEPT ![t].pc = "done", ![t].header = NoHeader,
                               ![t].answer = <<a>>]
  BY <1>1 DEF Returns
<1> QED
  BY <1>1, <1>2 DEF TypeOK

LEMMA Returning ==
  ASSUME IInv, NEW t \in Senders, client[t].pc # "done", ran' = ran,
         NEW status, NEW body, Returns(t, status, body),
         \/ [status |-> status, body |-> body] \in Failures
         \/ ran[t] # <<>> /\ [status |-> status, body |-> body] = ToCaller(t, ran[t][1])
  PROVE  Call!Return(t)
<1>1. client[t].answer = <<>> /\ TypeOK /\ t \in Tasks
  BY DEF IInv, InTurn, Senders
<1>2. PICK a : a = [status |-> status, body |-> body]
  OBVIOUS
<1>3. client'[t].answer = <<a>> /\ \A u \in Tasks \ {t} : client'[u] = client[u]
  BY <1>1, <1>2, Returned
<1>4. answers' = [answers EXCEPT ![t] = <<a>>]
  BY <1>3 DEF answers, Senders
<1>5. answers[t] = <<>> /\ runs[t] = ran[t]
  BY <1>1 DEF answers, runs
<1>6. a \in Failures \/ (ran[t] # <<>> /\ a = ToCaller(t, ran[t][1]))
  BY <1>2
<1>7. runs' = runs
  BY DEF runs
<1> QED
  BY <1>4, <1>5, <1>6, <1>7 DEF Call!Return, Call!None, answers, runs

LEMMA ReplyIsOwnAnswer ==
  ASSUME IInv, NEW t \in Senders, ran' = ran, Reply(t)
  PROVE  Call!Return(t)
<1>1. TypeOK /\ ResultUnderWay(t) /\ client[t].pc = "payload"
      /\ t \in Tasks /\ Client[t] = "sender"
  BY DEF IInv, Reply, Senders
<1>2. /\ ran[t] # <<>> /\ ran[t][1] \in Results
      /\ Len(PayloadOf(t)) = 1 + ran[t][1].body
      /\ PayloadOf(t)[1].kind = ran[t][1].status
  BY <1>1, PayloadRead DEF Reply
<1>3. PICK result \in Results : result = ran[t][1]
  BY <1>2
<1>4. PICK status \in Status : status = result.status
  BY ResultParts
<1>5. PICK body : body = BodyLen(t, status, 1 + result.body)
  OBVIOUS
<1>6. Returns(t, status, body)
  BY <1>2, <1>3, <1>4, <1>5 DEF Reply
<1>7. body = ToCaller(t, result).body
  BY <1>1, <1>4, <1>5, BodyLenFits
<1>8. ToCaller(t, result) = [status |-> status, body |-> body]
  BY <1>4, <1>7 DEF ToCaller
<1> QED
  BY <1>1, <1>2, <1>3, <1>6, <1>8, Returning

LEMMA ClientReturns ==
  ASSUME IInv, NEW t \in Tasks, ClientStep(t)
  PROVE  Call!Next \/ UNCHANGED Call!vars
<1>1. TypeOK /\ client[t].pc # "done" /\ ran' = ran
  BY ClientAnswers DEF IInv
<1>2. CASE \A u \in Tasks : client'[u].answer = client[u].answer
  BY <1>1, <1>2, AnswersKept DEF Senders
<1>3. CASE Error(t)
  <2>1. PICK status \in {"TIMEOUT", "MODEL_ERROR"} : Returns(t, status, 0)
    BY <1>3 DEF Error
  <2>2. [status |-> status, body |-> 0] \in Failures
    BY DEF Failures
  <2>3. CASE t \in Senders
    BY <1>1, <2>1, <2>2, <2>3, Returning DEF Call!Next
  <2>4. CASE t \notin Senders
    <3>1. \A u \in Senders : client'[u] = client[u]
      BY <1>1, <2>1, <2>4, Returned DEF Senders
    <3> QED
      BY <1>1, <3>1, AnswersKept
  <2> QED
    BY <2>3, <2>4
<1>4. CASE Reply(t)
  <2>1. CASE t \in Senders
    BY <1>1, <1>4, <2>1, ReplyIsOwnAnswer DEF Call!Next
  <2>2. CASE t \notin Senders
    <3>1. \A u \in Senders : client'[u] = client[u]
      BY <1>1, <1>4, <2>2, Returned DEF Senders, Reply
    <3> QED
      BY <1>1, <3>1, AnswersKept
  <2> QED
    BY <2>1, <2>2
<1> QED
  BY <1>1, <1>2, <1>3, <1>4, ClientAnswers

(* All other steps leave the callers' answers alone.                       *)
LEMMA OthersUnchanged ==
  ASSUME \/ OwnerStep \/ AcceptStep \/ StopStep \/ UNCHANGED vars
         \/ \E t \in Tasks : HandlerStep(t) \/ RunCallback(t) \/ Break(t) \/ Tell(t)
  PROVE  /\ client' = client
         /\ (\A t \in Tasks : ~RunCallback(t)) => ran' = ran
<1>1. CASE OwnerStep \/ StopStep \/ UNCHANGED vars
  BY <1>1 DEF OwnerStep, StopStep, Start, StopRequest, StopJoinAccept, StopReturn,
              connVars, vars
<1>2. CASE AcceptStep
  BY <1>2 DEF AcceptStep, Listen, SetTimeout, LoopTop, WakeUp, EndAccept, Accept, connVars
<1>3. ASSUME NEW t \in Tasks, HandlerStep(t) \/ Break(t) \/ Tell(t)
      PROVE  client' = client /\ ran' = ran
  BY <1>3 DEF HandlerStep, ReadTask, GiveUpReading, SendResult, Break, Tell
<1>4. ASSUME NEW t \in Tasks, RunCallback(t)
      PROVE  client' = client
  BY <1>4 DEF RunCallback
<1> QED
  BY <1>1, <1>2, <1>3, <1>4

LEMMA StepsImplement ==
  IInv /\ [Next]_vars => [Call!Next]_Call!vars
<1> SUFFICES ASSUME IInv, [Next]_vars
             PROVE  Call!Next \/ UNCHANGED Call!vars
  OBVIOUS
<1>1. ASSUME NEW t \in Tasks, ClientStep(t)
      PROVE  Call!Next \/ UNCHANGED Call!vars
  BY <1>1, ClientReturns
<1>2. ASSUME NEW t \in Tasks, RunCallback(t)
      PROVE  Call!Next \/ UNCHANGED Call!vars
  <2>1. ran[t] = <<>> /\ client' = client
    BY <1>2 DEF IInv, InTurn, RunCallback
  <2>2. PICK result \in Results : ran' = [ran EXCEPT ![t] = <<result>>]
    BY <1>2 DEF RunCallback
  <2>3. ran \in [Tasks -> {<<>>} \cup {<<r>> : r \in Results}]
    BY DEF IInv, TypeOK
  <2>4. CASE t \in Senders
    <3>1. runs' = [runs EXCEPT ![t] = <<result>>]
      BY <2>2, <2>3 DEF runs, Senders
    <3>2. runs[t] = <<>> /\ answers' = answers
      BY <2>1, <2>4 DEF runs, answers
    <3>3. Call!Run(t)
      BY <3>1, <3>2 DEF Call!Run, Call!None, runs, answers
    <3> QED
      BY <2>4, <3>3 DEF Call!Next
  <2>5. CASE t \notin Senders
    <3>1. \A u \in Senders : ran'[u] = ran[u]
      BY <2>2, <2>3, <2>5 DEF Senders
    <3> QED
      BY <2>1, <3>1 DEF Call!vars
  <2> QED
    BY <2>4, <2>5
<1>3. CASE \/ OwnerStep \/ AcceptStep \/ StopStep \/ UNCHANGED vars
           \/ \E t \in Tasks : HandlerStep(t) \/ Break(t) \/ Tell(t)
  BY <1>2, <1>3, OthersUnchanged, AnswersKept
<1> QED
  BY <1>1, <1>2, <1>3 DEF Next

(* send_task, with a receiver that stops and starts and connections that   *)
(* break with or without notice, gives what TaskCall promises: the task is *)
(* run at most once, and the answer is the worker's own.                   *)
THEOREM AnswersExact == Spec => ExactAnswer
<1>1. Init => Call!Init
  BY DEF Init, Call!Init, Call!None, Senders
<1>2. IInv /\ [Next]_vars => [Call!Next]_Call!vars
  BY StepsImplement
<1> QED
  BY <1>1, <1>2, ExchangeInvariant, PTL DEF Spec, ExactAnswer, Call!Spec

-----------------------------------------------------------------------------
(* The scheduler's own transport *)

LEMMA MisreadStep ==
  ASSUME IInv, StatusMisread, [Next]_vars
  PROVE  StatusMisread'
<1>1. SUFFICES ASSUME NEW u \in Schedulers
      PROVE  (client[u].answer # <<>> =>
                client[u].answer[1].status \in {"year", "TIMEOUT"})'
  BY DEF StatusMisread
<1>2. u \in Tasks /\ Client[u] = "scheduler" /\ TypeOK
  BY <1>1, ExchangeAssumption DEF Schedulers, Senders, IInv
<1>3. ASSUME client'[u].answer = client[u].answer
      PROVE  (client[u].answer # <<>> =>
                client[u].answer[1].status \in {"year", "TIMEOUT"})'
  BY <1>1, <1>3 DEF StatusMisread
<1>4. ASSUME NEW status \in {"year", "TIMEOUT"}, NEW body, Returns(u, status, body)
      PROVE  (client[u].answer # <<>> =>
                client[u].answer[1].status \in {"year", "TIMEOUT"})'
  <2>1. client'[u].answer = <<[status |-> status, body |-> body]>>
    BY <1>2, <1>4, Returned
  <2> QED
    BY <2>1
<1>5. ASSUME NEW t \in Tasks, ClientStep(t)
      PROVE  (client[u].answer # <<>> =>
                client[u].answer[1].status \in {"year", "TIMEOUT"})'
  <2>1. CASE \A v \in Tasks : client'[v].answer = client[v].answer
    BY <1>2, <1>3, <2>1
  <2>2. CASE (Error(t) \/ Reply(t)) /\ t # u
    <3>1. client'[u] = client[u]
      BY <1>2, <2>2, Returned DEF Error, Reply
    <3> QED
      BY <1>3, <3>1
  <2>3. CASE Error(u)
    BY <1>2, <1>4, <2>3 DEF Error
  <2>4. CASE Reply(u)
    <3>1. PayloadOf(u)[1].kind = "year"
      BY <1>2, <2>4, PayloadRead DEF IInv, Reply
    <3> QED
      BY <1>4, <2>4, <3>1 DEF Reply
  <2> QED
    BY <1>2, <1>5, <2>1, <2>2, <2>3, <2>4, ClientAnswers
<1>6. CASE client' = client
  BY <1>3, <1>6
<1> QED
  BY <1>5, <1>6, OthersUnchanged DEF Next

(* dispatch_transport reads the year of the build for the status of every  *)
(* reply of a TcpTaskReceiver, whatever the worker answered.               *)
THEOREM SchedulerMisreads == Spec => []StatusMisread
<1>1. Init => StatusMisread
  BY DEF Init, StatusMisread, Schedulers
<1>2. IInv /\ StatusMisread /\ [Next]_vars => StatusMisread'
  BY MisreadStep
<1> QED
  BY <1>1, <1>2, ExchangeInvariant, PTL DEF Spec
===============================================================================
