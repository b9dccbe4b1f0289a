------------------------------- MODULE TaskCall -------------------------------
(***************************************************************************)
(* What a task sent to a worker over TCP amounts to, whatever happens to   *)
(* the connection: the worker runs it at most once, and the caller gets    *)
(* one answer, which is either what the worker returned, whole, or an      *)
(* error that says nothing of whether the task ran.                        *)
(***************************************************************************)
EXTENDS Naturals

CONSTANTS Calls,
          Results,       \* what a worker can return
          Failures,      \* the errors a caller can get
          Delivered(_, _)  \* what the caller of a call gets of a result

VARIABLES ran, answer    \* of each call; None until there is one

None == <<>>
vars == <<ran, answer>>

Init == ran = [c \in Calls |-> None] /\ answer = [c \in Calls |-> None]

Run(c) ==
  /\ ran[c] = None
  /\ \E result \in Results : ran' = [ran EXCEPT ![c] = <<result>>]
  /\ UNCHANGED answer

Return(c) ==
  /\ answer[c] = None
  /\ \/ ran[c] # None /\ answer' = [answer EXCEPT ![c] = <<Delivered(c, ran[c][1])>>]
     \/ \E f \in Failures : answer' = [answer EXCEPT ![c] = <<f>>]
  /\ UNCHANGED ran

Next == \E c \in Calls : Run(c) \/ Return(c)

Spec == Init /\ [][Next]_vars
=============================================================================
