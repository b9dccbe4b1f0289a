---------------------------- MODULE ApprovedAction ----------------------------
(***************************************************************************)
(* What the code grants to an approved action, whatever requests, retries, *)
(* deaths and recoveries do: a proposal is decided once; nothing runs      *)
(* before an approval or after a rejection; apply runs the action at most  *)
(* once; invocations run it at most as often as the proposal allows.       *)
(* These are two budgets. docs/02_services/liara-api.md:80-88 promises     *)
(* less, one attempt that apply and invocations share: that sentence is    *)
(* OneAttemptPerApproval of GovernanceInv, which the code breaks.          *)
(***************************************************************************)
EXTENDS Naturals

CONSTANT Proposals

VARIABLES verdict,   \* what was decided about each proposal
          limit,     \* how often it may be invoked
          applied,   \* how often apply ran it
          invoked    \* how often an invocation ran it

vars == <<verdict, limit, applied, invoked>>

Init ==
  /\ verdict = [p \in Proposals |-> "none"]
  /\ limit = [p \in Proposals |-> 1]
  /\ applied = [p \in Proposals |-> 0]
  /\ invoked = [p \in Proposals |-> 0]

Submit(p) ==
  /\ verdict[p] = "none"
  /\ verdict' = [verdict EXCEPT ![p] = "pending"]
  /\ limit'[p] \in Nat \ {0}
  /\ limit' = [limit EXCEPT ![p] = limit'[p]]
  /\ UNCHANGED <<applied, invoked>>

Decide(p) ==
  /\ verdict[p] = "pending"
  /\ \E v \in {"approved", "rejected"} : verdict' = [verdict EXCEPT ![p] = v]
  /\ UNCHANGED <<limit, applied, invoked>>

Apply(p) ==
  /\ verdict[p] = "approved"
  /\ applied[p] = 0
  /\ applied' = [applied EXCEPT ![p] = 1]
  /\ UNCHANGED <<verdict, limit, invoked>>

Invoke(p) ==
  /\ verdict[p] = "approved"
  /\ invoked[p] < limit[p]
  /\ invoked' = [invoked EXCEPT ![p] = @ + 1]
  /\ UNCHANGED <<verdict, limit, applied>>

Next == \E p \in Proposals : Submit(p) \/ Decide(p) \/ Apply(p) \/ Invoke(p)

Spec == Init /\ [][Next]_vars

=============================================================================
