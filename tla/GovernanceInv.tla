---------------------------- MODULE GovernanceInv -----------------------------
(***************************************************************************)
(* The properties of Governance.                                           *)
(***************************************************************************)
EXTENDS Governance

StateDuring(type) == IF type = "apply" THEN "applying" ELSE "rolling_back"

(* "Coupled invariant" of claim_operation (governance_repository.py:838):  *)
(* a proposal is in state applying or rolling_back exactly while one of    *)
(* its operations of that type is started. complete_operation overwrites   *)
(* the proposal's state without looking at it and relies on this.          *)
OperationCoupled ==
  /\ \A o \in Calls : op[o].state = "started" =>
       proposal[op[o].proposal].state = StateDuring(op[o].type)
  /\ \A p \in Proposals : proposal[p].state \in {"applying", "rolling_back"} =>
       \E o \in Calls : op[o].state = "started" /\ op[o].proposal = p

(* A revision identifies the row: whoever still holds the current revision *)
(* holds the current row, so a write computed from what was read loses     *)
(* nothing (claim_invocation, decide_proposal, update_handoff).            *)
Holding == {"deciding", "claiming", "invoking", "invoked", "resuming", "resumed"}

VersionIdentifiesRow ==
  \A c \in Calls :
    LET row == proposal[call[c].proposal]
    IN  /\ call[c].pc \in Holding
        /\ call[c].seen.revision = row.revision
        => call[c].seen = row

(* Between the claim of an invocation and its end, on whatever process, no *)
(* other request is invoking the same proposal.                            *)
Running == {"invoking", "invoked", "resuming", "resumed"}

OneInvocationAtATime ==
  \A c, d \in Calls :
    /\ call[c].pc \in Running
    /\ call[d].pc \in Running
    /\ call[c].proposal = call[d].proposal
    => c = d

(* At most one pending proposal per checkpoint key, whatever the order of  *)
(* lookups and inserts (create_checkpoint_proposal's docstring).           *)
OnePendingPerKey ==
  \A p, q \in Proposals :
    /\ proposal[p].key = proposal[q].key
    /\ proposal[p].key # NoKey
    /\ {proposal[p].decision, proposal[q].decision} = {"pending"}
    => p = q

(* What the state of a proposal says about what really ran: nothing while  *)
(* it is created or decided, the mutation once it is applied or later.     *)
StateTellsRuns ==
  \A p \in Proposals :
    /\ proposal[p].state \in {"created", "decided"} => runs[p].apply = 0
    /\ proposal[p].state \in {"applied", "rolling_back", "rolled_back",
                              "rollback_failed"} => runs[p].apply = 1

(* The governance of a proposal as ApprovedAction states it: what the code *)
(* grants, which is an apply beside the invocations. That the document     *)
(* counts them together is OneAttemptPerApproval, below.                   *)
Life == INSTANCE ApprovedAction WITH
          verdict <- [p \in Proposals |->
                        IF Exists(p) THEN proposal[p].decision ELSE "none"],
          limit   <- [p \in Proposals |-> proposal[p].max],
          applied <- [p \in Proposals |-> runs[p].apply],
          invoked <- [p \in Proposals |-> runs[p].invoke]

ApprovalHonoured == Life!Spec

(* A terminal operation is never rewritten (a late completion after a      *)
(* recovery is refused), and a result is never known twice.                *)
OutcomeFinal ==
  [][\A o \in Calls : op[o].state \in Terminal => op'[o] = op[o]]_vars

(* A claimed operation is settled unless the request that claimed it dies. *)
ClaimSettled ==
  \A c \in Calls :
    op[c].state = "started" ~> (op[c].state \in Terminal \/ call[c].pc = "dead")

(* A resumed checkpoint is reported: "resuming" is not the last word unless *)
(* the request that resumes it dies (the router must use the revision its  *)
(* own decision returned, execute_atomic_cas_decision's docstring).        *)
ResumeEnds ==
  \A p \in Proposals :
    proposal[p].handoff = "resuming" ~>
      \/ proposal[p].handoff # "resuming"
      \/ \E c \in Calls : call[c].pc = "dead" /\ call[c].proposal = p

-----------------------------------------------------------------------------
(* The inductive invariant *)

(* What a request decides on, claims or completes is the row as it read or *)
(* wrote it, or a row that has a later revision by now.                    *)
Fresh(c) ==
  LET row  == proposal[call[c].proposal]
      seen == call[c].seen
  IN  /\ seen.revision \in 1 .. row.revision
      /\ seen.revision = row.revision => seen = row

HeldBy(c) ==
  /\ call[c].pc \in Holding => Fresh(c)
  /\ call[c].pc = "deciding" => /\ call[c].seen.decision = "pending"
                                /\ call[c].result \in {"approved", "rejected"}
  /\ call[c].pc = "claiming" => MayInvoke(call[c].seen)
  /\ call[c].pc = "resumed" => call[c].result \in Outcome

RowsHeld == \A c \in Calls : HeldBy(c)

(* A pending row was never invoked nor applied; invocations stay within    *)
(* their limit; a row with a key was inserted.                             *)
RowsSound == \A p \in Proposals :
  LET row == proposal[p] IN
  /\ row.decision = "pending" =>
       row.state = "created" /\ row.invocation = "not_invoked" /\ row.attempts = 0
  /\ row.state = "created" => row.decision = "pending"
  /\ row.decision # "pending" \/ row.key # NoKey => Exists(p)
  /\ row.max > 0 /\ row.attempts <= row.max
  /\ runs[p].invoke <= row.attempts

(* Who invokes has marked the row, and has counted the run it is to make.  *)
MarkedBy(c) ==
  LET row == proposal[call[c].proposal] IN
  /\ call[c].pc \in Running => row.decision = "approved" /\ row.invocation = "invoking"
  /\ call[c].pc \in {"invoking", "resuming"} =>
       runs[call[c].proposal].invoke < row.attempts

InvocationsMarked == \A c \in Calls : MarkedBy(c)

(* Operations belong to the request that claimed them, and to an approved  *)
(* proposal, of which one at most is started and one at most applies.      *)
Owns(c, type) ==
  op[c].state # "none" /\ op[c].type = type /\ op[c].proposal = call[c].proposal

OwnedBy(c) ==
  /\ call[c].pc = "idle" => op[c].state = "none"
  /\ call[c].pc \in {"apply", "apply_ran"} => Owns(c, "apply")
  /\ call[c].pc \in {"rollback", "rollback_ran"} => Owns(c, "rollback")
  /\ op[c].state # "none" =>
       op[c].type # "none" /\ proposal[op[c].proposal].decision = "approved"

OperationsOwned == \A c \in Calls : OwnedBy(c)

OperationsApart == \A c, d \in Calls :
  /\ op[c].proposal = op[d].proposal
  /\ \/ op[c].state = "started" /\ op[d].state = "started"
     \/ /\ op[c].state # "none" /\ op[c].type = "apply"
        /\ op[d].state # "none" /\ op[d].type = "apply"
  => c = d

(* How far an apply got, by the state of its proposal and of its request.  *)
ToldBy(c) ==
  LET p == call[c].proposal IN
  /\ op[c].state # "none" => proposal[op[c].proposal].state # "decided"
  /\ call[c].pc \in {"apply", "apply_ran"} =>
       proposal[p].state \in {"applying", "outcome_unknown"}
  /\ call[c].pc = "apply" => runs[p].apply = 0
  /\ call[c].pc = "apply_ran" /\ call[c].result # "failed" => runs[p].apply = 1

ApplyTold == \A c \in Calls : ToldBy(c)

IInv == /\ TypeOK /\ RowsHeld /\ RowsSound /\ InvocationsMarked /\ OneInvocationAtATime
        /\ OperationsOwned /\ OperationsApart /\ OperationCoupled
        /\ ApplyTold /\ StateTellsRuns /\ OnePendingPerKey

-----------------------------------------------------------------------------
(* What documents and comments say and the code does not do *)

(* "Standardmaessig autorisiert eine Approval genau einen gestarteten      *)
(* Versuch" and "`apply` konsumiert den genehmigten Single-use-Invoke"     *)
(* (docs/02_services/liara-api.md:80-88): where one invocation is allowed, *)
(* apply and invocations together run the action once at most. claim_apply *)
(* looks at the state and claim_invocation at the attempts, and neither    *)
(* writes what the other looks at.                                         *)
OneAttemptPerApproval ==
  \A p \in Proposals :
    proposal[p].max = 1 => runs[p].apply + runs[p].invoke <= 1

(* "`rollback` fuehrt den Snapshot als eigene gebundene Kompensations-     *)
(* Proposal genau einmal aus" (docs/02_services/liara-api.md:90-91): a     *)
(* rollback that came to an end has executed its compensation.             *)
RollbackRuns ==
  \A o \in Calls :
    op[o].type = "rollback" /\ op[o].state \in {"completed", "failed"} =>
      runs[op[o].proposal].rollback = 1

=============================================================================
