------------------------------ MODULE Governance ------------------------------
(***************************************************************************)
(* Governance of SYS actions: proposals, their decision, the operations    *)
(* claimed against them (apply, rollback), counted invocations and the     *)
(* checkpoints of the workspace agent, as kept in Postgres by              *)
(* governance_repository.py, driven by governance_service.py and the       *)
(* routers governance.py and tools.py.                                     *)
(*                                                                         *)
(* A repository method is one database transaction and therefore one       *)
(* action here. A request (a "call") is a sequence of such transactions    *)
(* and tool runs, and it may die between any two of them. Several API      *)
(* processes share the database, so calls interleave freely.               *)
(*                                                                         *)
(* Log rows (governance_events, the JSONL feed, the audit trail) are left  *)
(* out: they are written in the transaction of the change they describe    *)
(* and nothing reads them back. A failed audit write ends a request        *)
(* before its transaction, which is a call that dies.                      *)
(***************************************************************************)
EXTENDS Naturals, FiniteSets

CONSTANTS Proposals,        \* proposal ids (fresh uuids)
          Calls,            \* requests; each one is made once
          Keys,             \* idempotency keys of apply and rollback
          HandoffKeys,      \* keys of workspace checkpoints
          NoKey,            \* the NULL handoff_key of a plain proposal
          Mode,             \* LIARA_SYS_GOVERNANCE_MODE
          MaxInvocations    \* largest max_invocations a client asks for

ASSUME GovernanceAssumption ==
  /\ Mode \in {"off", "risk_based", "all"}
  /\ MaxInvocations \in Nat \ {0}
  /\ NoKey \notin HandoffKeys
  /\ Proposals # {}

VARIABLES proposal,         \* rows of governance_proposals; revision 0: no row
          op,               \* rows of governance_operations, by claiming call
          call,             \* the requests
          filed,            \* ids in the legacy JSON store
          runs              \* history: how often a tool really ran, and for what

vars == <<proposal, op, call, filed, runs>>

-----------------------------------------------------------------------------
(* Rows *)

Decision   == {"pending", "approved", "rejected"}
State      == {"created", "decided", "applying", "applied", "apply_failed",
               "rolling_back", "rolled_back", "rollback_failed",
               "outcome_unknown"}
Invocation == {"not_invoked", "invoking", "completed", "failed"}
Outcome    == {"resume_completed", "awaiting_decision", "step_failed",
               "resume_failed"}
Handoff    == Outcome \cup {"none", "resuming", "rejected",
                            "resume_unavailable"}

Proposal == [revision: Nat, decision: Decision, state: State,
             allowed: BOOLEAN, guarded: BOOLEAN, key: HandoffKeys \cup {NoKey},
             checkpoint: BOOLEAN, max: Nat, invocation: Invocation, attempts: Nat, successes: Nat,
             handoff: Handoff]

NoProposal == [revision |-> 0, decision |-> "pending", state |-> "created",
               allowed |-> TRUE, guarded |-> TRUE, key |-> NoKey,
               checkpoint |-> FALSE, max |-> 1,
               invocation |-> "not_invoked", attempts |-> 0, successes |-> 0,
               handoff |-> "none"]

Terminal  == {"completed", "failed", "outcome_unknown"}
Operation == [state: Terminal \cup {"none", "started"},
              type: {"none", "apply", "rollback"},
              proposal: Proposals, key: Keys \cup {NoKey}, captured: BOOLEAN]

AnyProposal == CHOOSE p \in Proposals : TRUE

NoOperation == [state |-> "none", type |-> "none", proposal |-> AnyProposal,
                key |-> NoKey, captured |-> FALSE]

Idle     == {"idle", "done", "dead"}
Creating == {"inserting", "refinding"}
CallPc   == Idle \cup Creating \cup
            {"deciding", "resuming", "resumed", "claiming", "invoking", "invoked",
             "apply", "apply_ran", "rollback", "rollback_ran"}

(* What a request carries from one transaction to the next: the proposal   *)
(* or checkpoint key it is about, the row it read, and its choice or its   *)
(* tool's result ("captured": success after a snapshot was taken).         *)
Result    == {"none", "approved", "rejected", "success", "failed", "captured"}
             \cup Outcome
CallState == [pc: CallPc, proposal: Proposals, key: HandoffKeys \cup {NoKey},
              seen: Proposal, result: Result]

NewCall == [pc |-> "idle", proposal |-> AnyProposal, key |-> NoKey,
            seen |-> NoProposal, result |-> "none"]

CompensationOf(p) == <<"compensates", p>>

TypeOK ==
  /\ proposal \in [Proposals -> Proposal]
  /\ op \in [Calls -> Operation]
  /\ call \in [Calls -> CallState]
  /\ filed \subseteq {CompensationOf(p) : p \in Proposals}
  /\ runs \in [Proposals -> [apply: Nat, invoke: Nat, rollback: Nat]]

Init ==
  /\ proposal = [p \in Proposals |-> NoProposal]
  /\ op = [c \in Calls |-> NoOperation]
  /\ call = [c \in Calls |-> NewCall]
  /\ filed = {}
  /\ runs = [p \in Proposals |-> [apply |-> 0, invoke |-> 0, rollback |-> 0]]

Exists(p)       == proposal[p].revision > 0
IsCheckpoint(p) == proposal[p].checkpoint
Pending(key)    == {p \in Proposals : /\ Exists(p)
                                      /\ proposal[p].decision = "pending"
                                      /\ proposal[p].key = key}

(* The SYS enforcement in the ToolCoordinator refuses a guarded call that  *)
(* carries no authorization flag. invoke_tool() sets that flag; Apply and  *)
(* Resume hand over the stored parameters as they are. A proposal is not   *)
(* guarded when its command needs no governance under this mode, or when   *)
(* the client stored the flag among its parameters.                        *)
Blocked(p) == Mode # "off" /\ proposal[p].guarded

(* A handoff is cut down to a summary when it exceeds 4 KB: state and      *)
(* checkpoint are gone then, the key's column stays.                       *)
Bounded(row) == {row, [row EXCEPT !.checkpoint = FALSE, !.handoff = "none"]}

Begins(c, state)   == call' = [call EXCEPT ![c] = state]
Moves(c, pc, res)  == call' = [call EXCEPT ![c].pc = pc, ![c].result = res]
Ends(c)            == call' = [call EXCEPT ![c] = [NewCall EXCEPT !.pc = "done"]]

-----------------------------------------------------------------------------
(* Creating proposals *)

(* POST /proposals: the policy verdict is stored with the row. *)
CreateProposal(p) ==
  /\ ~Exists(p)
  /\ \E allowed, guarded \in BOOLEAN, max \in 1 .. MaxInvocations :
       proposal' = [proposal EXCEPT ![p] =
         [NoProposal EXCEPT !.revision = 1, !.allowed = allowed,
                            !.guarded = guarded, !.max = max]]
  /\ UNCHANGED <<op, call, filed, runs>>

(* The workspace agent hit the enforcement boundary and asks for a         *)
(* checkpoint proposal; a pending one with its key is simply returned.     *)
FindCheckpoint(c, key) ==
  /\ Mode # "off"
  /\ call[c].pc = "idle"
  /\ Pending(key) = {}
  /\ Begins(c, [NewCall EXCEPT !.pc = "inserting", !.key = key])
  /\ UNCHANGED <<proposal, op, filed, runs>>

(* The partial unique index on handoff_key decides between two inserts.    *)
Conflicts_NoIndex(key) == FALSE
Conflicts(key) == Pending(key) # {}

InsertCheckpoint(c, p) ==
  /\ call[c].pc = "inserting"
  /\ ~Exists(p)
  /\ IF Conflicts(call[c].key)
     THEN Moves(c, "refinding", "none") /\ UNCHANGED proposal
     ELSE /\ \E row \in Bounded([NoProposal EXCEPT
                   !.revision = 1, !.key = call[c].key, !.checkpoint = TRUE,
                   !.handoff = "awaiting_decision"]) :
               proposal' = [proposal EXCEPT ![p] = row]
          /\ Ends(c)
  /\ UNCHANGED <<op, filed, runs>>

(* The loser returns the winner, or fails if that was decided meanwhile.   *)
RefindCheckpoint(c) ==
  /\ call[c].pc = "refinding"
  /\ Ends(c)
  /\ UNCHANGED <<proposal, op, filed, runs>>

-----------------------------------------------------------------------------
(* Deciding, and resuming the agent of an approved checkpoint *)

ReadToDecide(c, p, decision) ==
  /\ call[c].pc = "idle"
  /\ Exists(p)
  /\ proposal[p].decision = "pending"
  /\ decision = "approved" => proposal[p].allowed
  /\ Begins(c, [NewCall EXCEPT !.pc = "deciding", !.proposal = p,
                               !.seen = proposal[p], !.result = decision])
  /\ UNCHANGED <<proposal, op, filed, runs>>

SameVersion(row, seen) == /\ row.revision = seen.revision
                          /\ row.state = seen.state
                          /\ row.decision = seen.decision

Decided(seen, decision) ==
  [seen EXCEPT !.revision = @ + 1, !.decision = decision, !.state = "decided"]

(* Approved, with an orchestrator that can resume the agent.               *)
Resuming(row) ==
  [row EXCEPT !.handoff = "resuming", !.invocation = "invoking", !.attempts = @ + 1]

Decide(c) ==
  LET p == call[c].proposal
      row == Decided(call[c].seen, call[c].result)
  IN  /\ call[c].pc = "deciding"
      /\ \/ /\ ~SameVersion(proposal[p], call[c].seen)       \* 409
            /\ Ends(c)
            /\ UNCHANGED proposal
         \/ /\ SameVersion(proposal[p], call[c].seen)
            /\ ~IsCheckpoint(p)
            /\ proposal' = [proposal EXCEPT ![p] = row]
            /\ Ends(c)
         \/ /\ SameVersion(proposal[p], call[c].seen)
            /\ IsCheckpoint(p)
            /\ \E r \in Bounded([row EXCEPT !.handoff =
                    IF row.decision = "rejected" THEN "rejected"
                                                 ELSE "resume_unavailable"]) :
                 proposal' = [proposal EXCEPT ![p] = r]
            /\ Ends(c)
         \/ /\ SameVersion(proposal[p], call[c].seen)
            /\ IsCheckpoint(p)
            /\ row.decision = "approved"
            /\ proposal' = [proposal EXCEPT ![p] = Resuming(row)]
            /\ Begins(c, [call[c] EXCEPT !.pc = "resuming", !.seen = Resuming(row)])
      /\ UNCHANGED <<op, filed, runs>>

(* The predicate of update_handoff's compare-and-set.                      *)
Current_Always(row, seen) == TRUE
Current_BeforeDecision(row, seen) == row.revision = seen.revision - 1
Current(row, seen) == row.revision = seen.revision

(* The approved tool runs without the authorization flag, then the agent   *)
(* continues its plan; an unsuccessful tool run stops it at that step.     *)
Resume(c) ==
  LET p == call[c].proposal
  IN  /\ call[c].pc = "resuming"
      /\ IF Blocked(p)
         THEN Moves(c, "resumed", "step_failed") /\ UNCHANGED runs
         ELSE /\ runs' = [runs EXCEPT ![p].invoke = @ + 1]
              /\ \E outcome \in Outcome : Moves(c, "resumed", outcome)
      /\ UNCHANGED <<proposal, op, filed>>

(* update_handoff with the revision the decision returned; a conflict is   *)
(* only logged.                                                            *)
StoreResume(c) ==
  LET p == call[c].proposal
      seen == call[c].seen
      completed == call[c].result = "resume_completed"
  IN  /\ call[c].pc = "resumed"
      /\ IF Current(proposal[p], seen)
         THEN \E row \in Bounded([proposal[p] EXCEPT
                   !.revision = @ + 1,
                   !.handoff = call[c].result,
                   !.invocation = IF completed THEN "completed" ELSE "failed",
                   !.successes = seen.successes + (IF completed THEN 1 ELSE 0)]) :
                proposal' = [proposal EXCEPT ![p] = row]
         ELSE UNCHANGED proposal
      /\ Ends(c)
      /\ UNCHANGED <<op, filed, runs>>

-----------------------------------------------------------------------------
(* Invoking an approved action: POST /tools/sys/invoke with a proposal_id *)

MayInvoke_OneMore(row) == /\ row.decision = "approved"
                          /\ row.invocation # "invoking"
                          /\ row.attempts <= row.max
MayInvoke(row) == /\ row.decision = "approved"
                  /\ row.invocation # "invoking"
                  /\ row.attempts < row.max

ReadToInvoke(c, p) ==
  /\ call[c].pc = "idle"
  /\ MayInvoke(proposal[p])
  /\ Begins(c, [NewCall EXCEPT !.pc = "claiming", !.proposal = p,
                               !.seen = proposal[p]])
  /\ UNCHANGED <<proposal, op, filed, runs>>

(* claim_invocation writes handoff and invocation as it read them, if the  *)
(* revision is still the one it read.                                      *)
Attempted_SameRevision(row, seen) ==
  [row EXCEPT !.handoff = seen.handoff, !.invocation = "invoking",
              !.attempts = seen.attempts + 1]
Attempted(row, seen) ==
  [row EXCEPT !.revision = @ + 1, !.handoff = seen.handoff,
              !.invocation = "invoking", !.attempts = seen.attempts + 1]

ClaimInvocation(c) ==
  LET p == call[c].proposal
      claimed == Attempted(proposal[p], call[c].seen)
  IN  /\ call[c].pc = "claiming"
      /\ IF Current(proposal[p], call[c].seen)
         THEN /\ proposal' = [proposal EXCEPT ![p] = claimed]
              /\ Begins(c, [call[c] EXCEPT !.pc = "invoking", !.seen = claimed])
         ELSE Ends(c) /\ UNCHANGED proposal
      /\ UNCHANGED <<op, filed, runs>>

Invoke(c) ==
  /\ call[c].pc = "invoking"
  /\ runs' = [runs EXCEPT ![call[c].proposal].invoke = @ + 1]
  /\ \E result \in {"success", "failed"} : Moves(c, "invoked", result)
  /\ UNCHANGED <<proposal, op, filed>>

(* complete_invocation reads the row again and writes under the revision   *)
(* of the claim: either nothing happened in between or the result is lost  *)
(* (the router swallows the conflict).                                     *)
CompleteInvocation(c) ==
  LET p == call[c].proposal
      success == call[c].result = "success"
  IN  /\ call[c].pc = "invoked"
      /\ proposal' = IF ~Current(proposal[p], call[c].seen) THEN proposal
           ELSE [proposal EXCEPT
                   ![p].revision = @ + 1,
                   ![p].invocation = IF success THEN "completed" ELSE "failed",
                   ![p].successes = @ + (IF success THEN 1 ELSE 0)]
      /\ Ends(c)
      /\ UNCHANGED <<op, filed, runs>>

-----------------------------------------------------------------------------
(* Apply and rollback: POST /actions *)

Claimable(row, expected) == row.decision = "approved" /\ row.state = expected

(* claim_operation, under the row lock. A key already used, a proposal     *)
(* that is not approved or not in the expected state: 409, nothing written.*)
ClaimOperation(c, p, type, key, expected, target) ==
  /\ call[c].pc = "idle"
  /\ ~\E o \in Calls : op[o].proposal = p /\ op[o].type = type /\ op[o].key = key
  /\ Claimable(proposal[p], expected)
  /\ op' = [op EXCEPT ![c] = [state |-> "started", type |-> type, proposal |-> p,
                              key |-> key, captured |-> FALSE]]
  /\ proposal' = [proposal EXCEPT ![p].revision = @ + 1, ![p].state = target]
  /\ Begins(c, [NewCall EXCEPT !.pc = type, !.proposal = p])
  /\ UNCHANGED <<filed, runs>>

Applicable(p)     == ~IsCheckpoint(p)

ClaimApply(c, p, key) ==
  /\ Applicable(p)
  /\ ClaimOperation(c, p, "apply", key, "decided", "applying")

(* The snapshot (where one can be taken) and the mutation itself, which is *)
(* handed to the coordinator without the authorization flag.               *)
Apply(c) ==
  LET p == call[c].proposal
  IN  /\ call[c].pc = "apply"
      /\ IF Blocked(p)
         THEN Moves(c, "apply_ran", "failed") /\ UNCHANGED runs
         ELSE /\ runs' = [runs EXCEPT ![p].apply = @ + 1]
              /\ \E result \in {"success", "captured", "failed"} :
                   Moves(c, "apply_ran", result)
      /\ UNCHANGED <<proposal, op, filed>>

(* The rollback endpoint requires an applied proposal whose latest apply   *)
(* kept a snapshot.                                                        *)
ClaimRollback(c, p, key) ==
  /\ \E o \in Calls : /\ op[o].proposal = p
                      /\ op[o].type = "apply"
                      /\ op[o].captured
  /\ ClaimOperation(c, p, "rollback", key, "applied", "rolling_back")

(* The compensation is filed and approved in the legacy JSON store, then   *)
(* handed to invoke_tool(), which looks it up in Postgres.                 *)
InPostgres(id) == \E p \in Proposals : p = id /\ Exists(p)

Rollback(c) ==
  LET p == call[c].proposal
      found == InPostgres(CompensationOf(p))
  IN  /\ call[c].pc = "rollback"
      /\ filed' = filed \cup {CompensationOf(p)}
      /\ runs' = [runs EXCEPT ![p].rollback = @ + (IF found THEN 1 ELSE 0)]
      /\ \E result \in {"failed"} \cup (IF found THEN {"success"} ELSE {}) :
           Moves(c, "rollback_ran", result)
      /\ UNCHANGED <<proposal, op>>

FinalState_Retry(type, success) ==
  CASE type = "apply" -> IF success THEN "applied" ELSE "decided"
    [] type = "rollback" -> IF success THEN "rolled_back" ELSE "applied"
FinalState(type, success) ==
  CASE type = "apply"    /\ success  -> "applied"
    [] type = "apply"    /\ ~success -> "apply_failed"
    [] type = "rollback" /\ success  -> "rolled_back"
    [] type = "rollback" /\ ~success -> "rollback_failed"

Open_Always(o) == op[o].state # "none"
Open(o) == op[o].state \notin Terminal

(* complete_operation: only an operation that is not terminal, then the    *)
(* proposal's state whatever it is. Otherwise a conflict, nothing written. *)
CompleteOperation(c, type, ran) ==
  LET p == call[c].proposal
      success == call[c].result # "failed"
  IN  /\ call[c].pc = ran
      /\ IF Open(c)
         THEN /\ op' = [op EXCEPT
                   ![c].state = IF success THEN "completed" ELSE "failed",
                   ![c].captured = call[c].result = "captured"]
              /\ proposal' = [proposal EXCEPT
                   ![p].revision = @ + 1, ![p].state = FinalState(type, success)]
         ELSE UNCHANGED <<proposal, op>>
      /\ Ends(c)
      /\ UNCHANGED <<filed, runs>>

CompleteApply_OnSuccess(c) == /\ call[c].result # "failed"
                              /\ CompleteOperation(c, "apply", "apply_ran")
CompleteApply(c)    == CompleteOperation(c, "apply", "apply_ran")
CompleteRollback(c) == CompleteOperation(c, "rollback", "rollback_ran")

-----------------------------------------------------------------------------
(* Recovery, death of a request *)

(* An operation that has been "started" for longer than the threshold,     *)
(* its request dead or only slow.                                          *)
Recovered_OperationOnly(row) == [row EXCEPT !.revision = @ + 1]
Recovered(row) == [row EXCEPT !.revision = @ + 1, !.state = "outcome_unknown"]

RecoverStaleOperation(o) ==
  /\ op[o].state = "started"
  /\ op' = [op EXCEPT ![o].state = "outcome_unknown"]
  /\ proposal' = [proposal EXCEPT ![op[o].proposal] = Recovered(@)]
  /\ UNCHANGED <<call, filed, runs>>

Die(c) ==
  /\ call[c].pc \notin Idle
  /\ Begins(c, [NewCall EXCEPT !.pc = "dead", !.proposal = call[c].proposal])
  /\ UNCHANGED <<proposal, op, filed, runs>>

-----------------------------------------------------------------------------
Request(c) ==
  \/ \E key \in HandoffKeys : FindCheckpoint(c, key)
  \/ \E p \in Proposals :
       \/ \E decision \in {"approved", "rejected"} : ReadToDecide(c, p, decision)
       \/ ReadToInvoke(c, p)
       \/ \E key \in Keys : ClaimApply(c, p, key) \/ ClaimRollback(c, p, key)

Continue(c) ==
  \/ \E p \in Proposals : InsertCheckpoint(c, p)
  \/ RefindCheckpoint(c)
  \/ Decide(c) \/ Resume(c) \/ StoreResume(c)
  \/ ClaimInvocation(c) \/ Invoke(c) \/ CompleteInvocation(c)
  \/ Apply(c) \/ CompleteApply(c)
  \/ Rollback(c) \/ CompleteRollback(c)

Next ==
  \/ \E p \in Proposals : CreateProposal(p)
  \/ \E c \in Calls : Request(c) \/ Continue(c) \/ RecoverStaleOperation(c) \/ Die(c)

(* A handler that is not cancelled runs on to its response.                *)
Fairness == \A c \in Calls : WF_vars(Continue(c))

Spec == Init /\ [][Next]_vars /\ Fairness

=============================================================================
