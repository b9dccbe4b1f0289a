--------------------------- MODULE GovernanceProofs ---------------------------
(***************************************************************************)
(* Theorems about Governance for any number of proposals, requests and     *)
(* keys, and in every mode.                                                *)
(***************************************************************************)
EXTENDS GovernanceInv, TLAPS

(* Records of the right type, and the steps of a request among them.       *)
LEMMA NewTyped ==
  /\ NoProposal \in Proposal
  /\ NewCall \in CallState
  /\ NoOperation \in Operation
<1>1. AnyProposal \in Proposals
  BY GovernanceAssumption DEF AnyProposal
<1>2. NoProposal \in Proposal
  BY DEF NoProposal, Proposal, Decision, State, Invocation, Handoff, Outcome
<1>3. NewCall \in CallState
  BY <1>1, <1>2 DEF NewCall, CallState, CallPc, Idle, Result
<1>4. NoOperation \in Operation
  BY <1>1 DEF NoOperation, Operation, Terminal
<1> QED BY <1>2, <1>3, <1>4

LEMMA BeginsTyped ==
  ASSUME TypeOK, NEW c \in Calls, NEW r \in CallState, Begins(c, r)
  PROVE  /\ call' \in [Calls -> CallState]
         /\ call'[c] = r
         /\ \A d \in Calls \ {c} : call'[d] = call[d]
BY DEF TypeOK, Begins

LEMMA EndsTyped ==
  ASSUME TypeOK, NEW c \in Calls, Ends(c)
  PROVE  /\ call' \in [Calls -> CallState]
         /\ call'[c].pc = "done"
         /\ \A d \in Calls \ {c} : call'[d] = call[d]
<1>1. /\ [NewCall EXCEPT !.pc = "done"] \in CallState
      /\ [NewCall EXCEPT !.pc = "done"].pc = "done"
  BY NewTyped DEF CallState, CallPc, Idle
<1> QED BY <1>1 DEF TypeOK, Ends

LEMMA MovesTyped ==
  ASSUME TypeOK, NEW c \in Calls, NEW pc \in CallPc, NEW result \in Result,
         Moves(c, pc, result)
  PROVE  /\ call' \in [Calls -> CallState]
         /\ call'[c].pc = pc
         /\ call'[c].result = result
         /\ call'[c].proposal = call[c].proposal
         /\ call'[c].seen = call[c].seen
         /\ call'[c].key = call[c].key
         /\ \A d \in Calls \ {c} : call'[d] = call[d]
<1>1. call[c] \in CallState
  BY DEF TypeOK
<1>2. call' = [call EXCEPT ![c] = [call[c] EXCEPT !.pc = pc, !.result = result]]
  BY DEF TypeOK, Moves
<1> QED BY <1>1, <1>2 DEF TypeOK, CallState

(* A row that replaces another.                                            *)
LEMMA RowTyped ==
  ASSUME TypeOK, NEW p \in Proposals, NEW row \in Proposal,
         proposal' = [proposal EXCEPT ![p] = row]
  PROVE  /\ proposal' \in [Proposals -> Proposal]
         /\ proposal'[p] = row
         /\ \A q \in Proposals \ {p} : proposal'[q] = proposal[q]
BY DEF TypeOK

-----------------------------------------------------------------------------
(* What each action does to the rows and to its request *)

(* A row that is written keeps its key and its limit, and gets a later     *)
(* revision.                                                               *)
Rewritten(p) ==
  /\ proposal' \in [Proposals -> Proposal]
  /\ \A q \in Proposals \ {p} : proposal'[q] = proposal[q]
  /\ proposal'[p].revision = proposal[p].revision + 1
  /\ proposal'[p].key = proposal[p].key
  /\ proposal'[p].max = proposal[p].max

(* A row that is inserted.                                                 *)
Inserted(p, key) ==
  /\ ~Exists(p)
  /\ proposal' \in [Proposals -> Proposal]
  /\ \A q \in Proposals \ {p} : proposal'[q] = proposal[q]
  /\ proposal'[p].revision = 1
  /\ proposal'[p].key = key
  /\ proposal'[p].max \in Nat \ {0}
  /\ proposal'[p].decision = "pending" /\ proposal'[p].state = "created"
  /\ proposal'[p].invocation = "not_invoked" /\ proposal'[p].attempts = 0

(* Only the request c goes on, and only to pc.                             *)
Went(c, pc) ==
  /\ call' \in [Calls -> CallState]
  /\ \A d \in Calls \ {c} : call'[d] = call[d]
  /\ call'[c].pc = pc

(* A tool that ran is counted.                                             *)
Counts == [Proposals -> [apply: Nat, invoke: Nat, rollback: Nat]]

Ran(p, invoked, applied) ==
  /\ runs' \in Counts
  /\ \A q \in Proposals :
       /\ runs'[q].invoke = runs[q].invoke + (IF q = p THEN invoked ELSE 0)
       /\ runs'[q].apply = runs[q].apply + (IF q = p THEN applied ELSE 0)

LEMMA RanInvoke ==
  ASSUME TypeOK, NEW p \in Proposals, runs' = [runs EXCEPT ![p].invoke = @ + 1]
  PROVE  Ran(p, 1, 0)
<1>1. runs[p] \in [apply: Nat, invoke: Nat, rollback: Nat] /\ runs \in Counts
  BY DEF TypeOK, Counts
<1> DEFINE n == [runs[p] EXCEPT !.invoke = @ + 1]
<1>2. /\ n \in [apply: Nat, invoke: Nat, rollback: Nat]
      /\ n.invoke = runs[p].invoke + 1 /\ n.apply = runs[p].apply
  BY <1>1
<1> HIDE DEF n
<1>3. runs' = [runs EXCEPT ![p] = n]
  BY <1>1 DEF n, Counts
<1> QED BY <1>1, <1>2, <1>3 DEF Counts, Ran

LEMMA RanApply ==
  ASSUME TypeOK, NEW p \in Proposals, runs' = [runs EXCEPT ![p].apply = @ + 1]
  PROVE  Ran(p, 0, 1)
<1>1. runs[p] \in [apply: Nat, invoke: Nat, rollback: Nat] /\ runs \in Counts
  BY DEF TypeOK, Counts
<1> DEFINE n == [runs[p] EXCEPT !.apply = @ + 1]
<1>2. /\ n \in [apply: Nat, invoke: Nat, rollback: Nat]
      /\ n.apply = runs[p].apply + 1 /\ n.invoke = runs[p].invoke
  BY <1>1
<1> HIDE DEF n
<1>3. runs' = [runs EXCEPT ![p] = n]
  BY <1>1 DEF n, Counts
<1> QED BY <1>1, <1>2, <1>3 DEF Counts, Ran

LEMMA RanRollback ==
  ASSUME TypeOK, NEW p \in Proposals, NEW k \in {0, 1}, runs' = [runs EXCEPT ![p].rollback = @ + k]
  PROVE  Ran(p, 0, 0)
<1>1. runs[p] \in [apply: Nat, invoke: Nat, rollback: Nat] /\ runs \in Counts
  BY DEF TypeOK, Counts
<1> DEFINE n == [runs[p] EXCEPT !.rollback = @ + k]
<1>2. /\ n \in [apply: Nat, invoke: Nat, rollback: Nat]
      /\ n.apply = runs[p].apply /\ n.invoke = runs[p].invoke
  BY <1>1
<1> HIDE DEF n
<1>3. runs' = [runs EXCEPT ![p] = n]
  BY <1>1 DEF n, Counts
<1> QED BY <1>1, <1>2, <1>3 DEF Counts, Ran

(* What a handoff is cut down to keeps all but the state and checkpoint.   *)
LEMMA BoundedTyped ==
  ASSUME NEW row \in Proposal, NEW r \in Bounded(row)
  PROVE  /\ r \in Proposal
         /\ r.revision = row.revision /\ r.key = row.key /\ r.max = row.max
         /\ r.decision = row.decision /\ r.state = row.state
         /\ r.invocation = row.invocation /\ r.attempts = row.attempts
<1>1. "none" \in Handoff
  BY DEF Handoff
<1>2. r = row \/ r = [row EXCEPT !.checkpoint = FALSE, !.handoff = "none"]
  BY DEF Bounded
<1> QED BY <1>1, <1>2 DEF Proposal

LEMMA CreateDoes ==
  ASSUME TypeOK, NEW p \in Proposals, CreateProposal(p)
  PROVE  Inserted(p, NoKey) /\ UNCHANGED <<op, call, filed, runs>>
<1>1. PICK allowed \in BOOLEAN, guarded \in BOOLEAN, max \in 1 .. MaxInvocations :
        proposal' = [proposal EXCEPT ![p] =
          [NoProposal EXCEPT !.revision = 1, !.allowed = allowed,
                             !.guarded = guarded, !.max = max]]
  BY DEF CreateProposal
<1> DEFINE row == [NoProposal EXCEPT !.revision = 1, !.allowed = allowed,
                                     !.guarded = guarded, !.max = max]
<1>2. max \in Nat \ {0}
  BY GovernanceAssumption
<1>3. row \in Proposal
  BY <1>2, NewTyped DEF Proposal
<1>4. /\ row.revision = 1 /\ row.key = NoKey /\ row.max = max
      /\ row.decision = "pending" /\ row.state = "created"
      /\ row.invocation = "not_invoked" /\ row.attempts = 0
  BY DEF NoProposal
<1> HIDE DEF row
<1>5. proposal' = [proposal EXCEPT ![p] = row]
  BY <1>1 DEF row
<1> QED BY <1>2, <1>3, <1>4, <1>5, RowTyped DEF Inserted, CreateProposal

LEMMA FindDoes ==
  ASSUME TypeOK, NEW c \in Calls, NEW key \in HandoffKeys, FindCheckpoint(c, key)
  PROVE  Went(c, "inserting") /\ UNCHANGED <<proposal, op, filed, runs>>
<1> DEFINE r == [NewCall EXCEPT !.pc = "inserting", !.key = key]
<1>1. r \in CallState /\ r.pc = "inserting"
  BY NewTyped DEF CallState, CallPc, Creating
<1> HIDE DEF r
<1>2. Begins(c, r) /\ UNCHANGED <<proposal, op, filed, runs>>
  BY DEF FindCheckpoint, r
<1> QED BY <1>1, <1>2, BeginsTyped DEF Went

LEMMA InsertDoes ==
  ASSUME TypeOK, NEW c \in Calls, NEW p \in Proposals, InsertCheckpoint(c, p)
  PROVE  /\ call[c].pc = "inserting"
         /\ UNCHANGED <<op, filed, runs>>
         /\ \/ Went(c, "refinding") /\ UNCHANGED proposal
            \/ /\ Went(c, "done")
               /\ Inserted(p, call[c].key)
               /\ Pending(call[c].key) = {}
<1>1. CASE Conflicts(call[c].key)
  <2>1. Went(c, "refinding")
    BY <1>1, MovesTyped DEF InsertCheckpoint, Went, CallPc, Creating, Result
  <2> QED BY <1>1, <2>1 DEF InsertCheckpoint
<1>2. CASE ~Conflicts(call[c].key)
  <2> DEFINE new == [NoProposal EXCEPT
                       !.revision = 1, !.key = call[c].key, !.checkpoint = TRUE,
                       !.handoff = "awaiting_decision"]
  <2>0. /\ new \in Proposal
        /\ new.revision = 1 /\ new.key = call[c].key /\ new.max = 1
        /\ new.decision = "pending" /\ new.state = "created"
        /\ new.invocation = "not_invoked" /\ new.attempts = 0
    <3>1. new \in Proposal
      BY NewTyped DEF TypeOK, CallState, Proposal, Handoff, Outcome
    <3> QED BY <3>1 DEF NoProposal
  <2>3. (\E row \in Bounded(new) : proposal' = [proposal EXCEPT ![p] = row]) /\ Ends(c)
    BY <1>2 DEF InsertCheckpoint
  <2> HIDE DEF new
  <2>9. PICK row \in Bounded(new) : proposal' = [proposal EXCEPT ![p] = row]
    BY <2>3
  <2>1. row \in Proposal
    BY <2>0, BoundedTyped
  <2>2. /\ row.revision = 1 /\ row.key = call[c].key /\ row.max = 1
        /\ row.decision = "pending" /\ row.state = "created"
        /\ row.invocation = "not_invoked" /\ row.attempts = 0
    BY <2>0, BoundedTyped
  <2>4. Went(c, "done")
    BY <2>3, EndsTyped DEF Went
  <2>5. Inserted(p, call[c].key)
    <3>1. /\ proposal' \in [Proposals -> Proposal]
          /\ proposal'[p] = row
          /\ \A q \in Proposals \ {p} : proposal'[q] = proposal[q]
      BY <2>1, <2>9, RowTyped
    <3> QED BY <2>2, <3>1 DEF InsertCheckpoint, Inserted
  <2> QED BY <1>2, <2>4, <2>5 DEF InsertCheckpoint, Conflicts
<1> QED BY <1>1, <1>2

LEMMA RefindDoes ==
  ASSUME TypeOK, NEW c \in Calls, RefindCheckpoint(c)
  PROVE  Went(c, "done") /\ UNCHANGED <<proposal, op, filed, runs>>
BY EndsTyped DEF RefindCheckpoint, Went

LEMMA ReadToDecideDoes ==
  ASSUME TypeOK, NEW c \in Calls, NEW p \in Proposals, NEW decision \in {"approved", "rejected"},
         ReadToDecide(c, p, decision)
  PROVE  /\ Went(c, "deciding") /\ UNCHANGED <<proposal, op, filed, runs>>
         /\ call'[c].proposal = p /\ call'[c].seen = proposal[p] /\ call'[c].result = decision
         /\ Exists(p) /\ proposal[p].decision = "pending"
<1> DEFINE r == [NewCall EXCEPT !.pc = "deciding", !.proposal = p,
                                !.seen = proposal[p], !.result = decision]
<1>0. proposal[p] \in Proposal /\ decision \in Result /\ "deciding" \in CallPc
  BY DEF TypeOK, Result, CallPc
<1>1. /\ r \in CallState /\ r.pc = "deciding" /\ r.proposal = p
      /\ r.seen = proposal[p] /\ r.result = decision
  BY <1>0, NewTyped DEF CallState
<1> HIDE DEF r
<1>2. Begins(c, r)
  BY DEF ReadToDecide, r
<1> QED BY <1>1, <1>2, BeginsTyped DEF ReadToDecide, Went

LEMMA ReadToInvokeDoes ==
  ASSUME TypeOK, NEW c \in Calls, NEW p \in Proposals, ReadToInvoke(c, p)
  PROVE  /\ Went(c, "claiming") /\ UNCHANGED <<proposal, op, filed, runs>>
         /\ call'[c].proposal = p /\ call'[c].seen = proposal[p]
         /\ MayInvoke(proposal[p])
<1> DEFINE r == [NewCall EXCEPT !.pc = "claiming", !.proposal = p, !.seen = proposal[p]]
<1>1. r \in CallState /\ r.pc = "claiming" /\ r.proposal = p /\ r.seen = proposal[p]
  BY NewTyped DEF TypeOK, CallState, CallPc
<1> HIDE DEF r
<1>2. Begins(c, r)
  BY DEF ReadToInvoke, r
<1> QED BY <1>1, <1>2, BeginsTyped DEF ReadToInvoke, Went

LEMMA DecideDoes ==
  ASSUME TypeOK, RowsHeld, RowsSound, NEW c \in Calls, Decide(c)
  PROVE  LET p == call[c].proposal
             row == proposal[p]
         IN  /\ call[c].pc = "deciding" /\ UNCHANGED <<op, filed, runs>>
             /\ \/ Went(c, "done") /\ UNCHANGED proposal
                \/ /\ row.decision = "pending" /\ Exists(p)
                   /\ Rewritten(p)
                   /\ proposal'[p].decision \in {"approved", "rejected"}
                   /\ proposal'[p].state = "decided"
                   /\ \/ /\ Went(c, "done")
                         /\ proposal'[p].attempts = row.attempts
                      \/ /\ Went(c, "resuming")
                         /\ call'[c].proposal = p /\ call'[c].seen = proposal'[p]
                         /\ proposal'[p].decision = "approved"
                         /\ proposal'[p].invocation = "invoking"
                         /\ proposal'[p].attempts = row.attempts + 1
<1> DEFINE p == call[c].proposal
           seen == call[c].seen
           row == Decided(seen, call[c].result)
<1>0. /\ call[c].pc = "deciding" /\ UNCHANGED <<op, filed, runs>>
      /\ call[c] \in CallState /\ p \in Proposals /\ seen \in Proposal
      /\ proposal \in [Proposals -> Proposal] /\ proposal[p] \in Proposal
      /\ call[c].result \in {"approved", "rejected"}
  BY DEF Decide, TypeOK, CallState, RowsHeld, HeldBy
<1>1. CASE ~SameVersion(proposal[p], seen)
  BY <1>1, <1>0, EndsTyped DEF Decide, Went
<1>2. CASE SameVersion(proposal[p], seen)
  <2>1. seen = proposal[p] /\ seen.decision = "pending" /\ Exists(p)
    BY <1>0, <1>2 DEF RowsHeld, HeldBy, Fresh, Holding, SameVersion, Exists, Proposal
  <2>2. /\ row \in Proposal
        /\ row.revision = proposal[p].revision + 1 /\ row.key = proposal[p].key
        /\ row.max = proposal[p].max /\ row.attempts = proposal[p].attempts
        /\ row.decision = call[c].result /\ row.state = "decided"
    <3>1. /\ call[c].result \in Decision /\ "decided" \in State
          /\ seen.revision + 1 \in Nat
      BY <1>0 DEF Decision, State, Proposal
    <3>2. row \in Proposal
      BY <1>0, <3>1 DEF Decided, Proposal
    <3>3. /\ row.revision = seen.revision + 1 /\ row.key = seen.key
          /\ row.max = seen.max /\ row.attempts = seen.attempts
          /\ row.decision = call[c].result /\ row.state = "decided"
      BY <1>0 DEF Decided, Proposal
    <3> QED BY <2>1, <3>2, <3>3
  <2> HIDE DEF row
  <2>3. CASE Ends(c) /\ proposal' = [proposal EXCEPT ![p] = row]
    <3>1. Went(c, "done")
      BY <2>3, EndsTyped DEF Went
    <3>2. Rewritten(p) /\ proposal'[p] = row
      BY <1>0, <2>2, <2>3, RowTyped DEF Rewritten
    <3> QED BY <1>0, <2>1, <2>2, <3>1, <3>2
  <2>4. ASSUME NEW handoff \in {"rejected", "resume_unavailable"}, Ends(c),
               NEW r \in Bounded([row EXCEPT !.handoff = handoff]),
               proposal' = [proposal EXCEPT ![p] = r]
        PROVE  /\ Went(c, "done") /\ Rewritten(p)
               /\ proposal'[p].decision = row.decision /\ proposal'[p].state = row.state
               /\ proposal'[p].attempts = row.attempts
    <3>1. Went(c, "done")
      BY <2>4, EndsTyped DEF Went
    <3> DEFINE w == [row EXCEPT !.handoff = handoff]
    <3>2. /\ w \in Proposal /\ w.revision = row.revision /\ w.key = row.key
          /\ w.max = row.max /\ w.decision = row.decision /\ w.state = row.state
          /\ w.attempts = row.attempts
      <4>1. w \in Proposal
        BY <2>2 DEF Proposal, Handoff
      <4> QED BY <2>2, <4>1 DEF Proposal
    <3>4. r \in Bounded(w)
      OBVIOUS
    <3> HIDE DEF w
    <3>5. /\ r \in Proposal /\ r.revision = row.revision /\ r.key = row.key
          /\ r.max = row.max /\ r.decision = row.decision /\ r.state = row.state
          /\ r.attempts = row.attempts
      BY <3>2, <3>4, BoundedTyped
    <3>3. Rewritten(p) /\ proposal'[p] = r
      BY <1>0, <2>2, <2>4, <3>5, RowTyped DEF Rewritten
    <3> QED BY <3>1, <3>3, <3>5
  <2>5. CASE /\ row.decision = "approved"
             /\ proposal' = [proposal EXCEPT ![p] = Resuming(row)]
             /\ Begins(c, [call[c] EXCEPT !.pc = "resuming", !.seen = Resuming(row)])
    <3>1. /\ Resuming(row) \in Proposal
          /\ Resuming(row).revision = row.revision /\ Resuming(row).key = row.key
          /\ Resuming(row).max = row.max /\ Resuming(row).attempts = row.attempts + 1
          /\ Resuming(row).decision = row.decision /\ Resuming(row).state = row.state
          /\ Resuming(row).invocation = "invoking"
      <4>1. /\ "resuming" \in Handoff /\ "invoking" \in Invocation
            /\ row.attempts + 1 \in Nat
        BY <2>2 DEF Proposal, Handoff, Invocation
      <4>2. Resuming(row) \in Proposal
        BY <2>2, <4>1 DEF Resuming, Proposal
      <4> QED BY <2>2, <4>2 DEF Resuming, Proposal
    <3> DEFINE r == [call[c] EXCEPT !.pc = "resuming", !.seen = Resuming(row)]
    <3>2. /\ r \in CallState /\ r.pc = "resuming" /\ r.seen = Resuming(row)
          /\ r.proposal = p
      BY <1>0, <3>1 DEF CallState, CallPc
    <3> HIDE DEF r
    <3>3. Begins(c, r)
      BY <2>5 DEF r
    <3>4. Went(c, "resuming") /\ call'[c].proposal = p /\ call'[c].seen = Resuming(row)
      BY <3>2, <3>3, BeginsTyped DEF Went
    <3>5. Rewritten(p) /\ proposal'[p] = Resuming(row)
      BY <1>0, <2>2, <2>5, <3>1, RowTyped DEF Rewritten
    <3> QED BY <1>0, <2>1, <2>2, <2>5, <3>1, <3>4, <3>5
  <2> QED BY <1>0, <1>2, <2>1, <2>2, <2>3, <2>4, <2>5 DEF Decide, row
<1> QED BY <1>1, <1>2

LEMMA ResumeDoes ==
  ASSUME TypeOK, NEW c \in Calls, Resume(c)
  PROVE  /\ call[c].pc = "resuming" /\ UNCHANGED <<proposal, op, filed>>
         /\ Went(c, "resumed")
         /\ call'[c].proposal = call[c].proposal /\ call'[c].seen = call[c].seen
         /\ call'[c].result \in Outcome
         /\ \/ UNCHANGED runs
            \/ Ran(call[c].proposal, 1, 0)
<1>0. call[c].proposal \in Proposals
  BY DEF TypeOK, CallState
<1>1. PICK outcome \in Outcome : Moves(c, "resumed", outcome)
  BY DEF Resume, Outcome
<1>2. outcome \in Result /\ "resumed" \in CallPc
  BY DEF Result, CallPc
<1>3. UNCHANGED runs \/ Ran(call[c].proposal, 1, 0)
  BY <1>0, RanInvoke DEF Resume
<1> QED BY <1>1, <1>2, <1>3, MovesTyped DEF Resume, Went

LEMMA StoreResumeDoes ==
  ASSUME TypeOK, RowsHeld, NEW c \in Calls, StoreResume(c)
  PROVE  LET p == call[c].proposal IN
         /\ call[c].pc = "resumed" /\ UNCHANGED <<op, filed, runs>>
         /\ Went(c, "done")
         /\ \/ UNCHANGED proposal
            \/ /\ Rewritten(p)
               /\ proposal'[p].decision = proposal[p].decision
               /\ proposal'[p].state = proposal[p].state
               /\ proposal'[p].attempts = proposal[p].attempts
<1> DEFINE p == call[c].proposal
<1>0. /\ call[c].pc = "resumed" /\ UNCHANGED <<op, filed, runs>>
      /\ p \in Proposals /\ proposal[p] \in Proposal /\ call[c].seen \in Proposal
      /\ call[c].result \in Handoff
  BY DEF StoreResume, TypeOK, CallState, RowsHeld, HeldBy, Handoff
<1>1. Went(c, "done")
  BY EndsTyped DEF StoreResume, Went
<1>2. ASSUME ~UNCHANGED proposal
      PROVE  /\ Rewritten(p)
             /\ proposal'[p].decision = proposal[p].decision
             /\ proposal'[p].state = proposal[p].state
             /\ proposal'[p].attempts = proposal[p].attempts
  <2> DEFINE new == [proposal[p] EXCEPT
                !.revision = @ + 1,
                !.handoff = call[c].result,
                !.invocation = IF call[c].result = "resume_completed"
                               THEN "completed" ELSE "failed",
                !.successes = call[c].seen.successes
                  + (IF call[c].result = "resume_completed" THEN 1 ELSE 0)]
  <2>1. PICK row \in Bounded(new) : proposal' = [proposal EXCEPT ![p] = row]
    BY <1>2 DEF StoreResume
  <2>2. /\ new \in Proposal /\ new.revision = proposal[p].revision + 1
        /\ new.key = proposal[p].key /\ new.max = proposal[p].max
        /\ new.decision = proposal[p].decision /\ new.state = proposal[p].state
        /\ new.attempts = proposal[p].attempts
    <3> DEFINE invocation == IF call[c].result = "resume_completed" THEN "completed" ELSE "failed"
               successes == call[c].seen.successes
                            + (IF call[c].result = "resume_completed" THEN 1 ELSE 0)
    <3>1. /\ invocation \in Invocation /\ successes \in Nat
          /\ proposal[p].revision + 1 \in Nat
      BY <1>0 DEF Invocation, Proposal
    <3>2. new = [proposal[p] EXCEPT !.revision = @ + 1, !.handoff = call[c].result,
                                    !.invocation = invocation, !.successes = successes]
      OBVIOUS
    <3> HIDE DEF invocation, successes, new
    <3>3. new \in Proposal
      BY <1>0, <3>1, <3>2 DEF Proposal
    <3> QED BY <1>0, <3>2, <3>3 DEF Proposal
  <2> HIDE DEF new
  <2>3. /\ row \in Proposal /\ row.revision = proposal[p].revision + 1
        /\ row.key = proposal[p].key /\ row.max = proposal[p].max
        /\ row.decision = proposal[p].decision /\ row.state = proposal[p].state
        /\ row.attempts = proposal[p].attempts
    BY <2>2, BoundedTyped
  <2> QED BY <1>0, <2>1, <2>3, RowTyped DEF Rewritten
<1> QED BY <1>0, <1>1, <1>2

LEMMA ClaimInvocationDoes ==
  ASSUME TypeOK, RowsHeld, NEW c \in Calls, ClaimInvocation(c)
  PROVE  LET p == call[c].proposal IN
         /\ call[c].pc = "claiming" /\ UNCHANGED <<op, filed, runs>>
         /\ \/ Went(c, "done") /\ UNCHANGED proposal
            \/ /\ MayInvoke(proposal[p])
               /\ Went(c, "invoking")
               /\ call'[c].proposal = p /\ call'[c].seen = proposal'[p]
               /\ Rewritten(p)
               /\ proposal'[p].decision = proposal[p].decision
               /\ proposal'[p].state = proposal[p].state
               /\ proposal'[p].invocation = "invoking"
               /\ proposal'[p].attempts = proposal[p].attempts + 1
<1> DEFINE p == call[c].proposal
           seen == call[c].seen
<1>0. /\ call[c].pc = "claiming" /\ UNCHANGED <<op, filed, runs>>
      /\ p \in Proposals /\ proposal[p] \in Proposal /\ seen \in Proposal
      /\ call[c] \in CallState
  BY DEF ClaimInvocation, TypeOK, CallState
<1>1. CASE ~Current(proposal[p], seen)
  BY <1>0, <1>1, EndsTyped DEF ClaimInvocation, Went
<1>2. CASE Current(proposal[p], seen)
  <2>1. seen = proposal[p] /\ MayInvoke(proposal[p])
    BY <1>0, <1>2 DEF RowsHeld, HeldBy, Fresh, Holding, Current
  <2> DEFINE row == Attempted(proposal[p], seen)
             r == [call[c] EXCEPT !.pc = "invoking", !.seen = row]
  <2>2. row \in Proposal
    <3>1. proposal[p].revision + 1 \in Nat /\ seen.attempts + 1 \in Nat /\ "invoking" \in Invocation
      BY <1>0 DEF Proposal, Invocation
    <3> QED BY <1>0, <3>1 DEF Attempted, Proposal
  <2>3. /\ row.revision = proposal[p].revision + 1
        /\ row.key = proposal[p].key /\ row.max = proposal[p].max
        /\ row.decision = proposal[p].decision /\ row.state = proposal[p].state
        /\ row.invocation = "invoking" /\ row.attempts = proposal[p].attempts + 1
    BY <1>0, <2>1 DEF Attempted, Proposal
  <2>4. proposal' = [proposal EXCEPT ![p] = row] /\ Begins(c, r)
    BY <1>2 DEF ClaimInvocation
  <2> HIDE DEF row
  <2>5. /\ r \in CallState /\ r.pc = "invoking" /\ r.seen = row /\ r.proposal = p
    BY <1>0, <2>2 DEF CallState, CallPc
  <2> HIDE DEF r
  <2>6. Went(c, "invoking") /\ call'[c] = r
    BY <2>4, <2>5, BeginsTyped DEF Went
  <2>7. Rewritten(p) /\ proposal'[p] = row
    BY <1>0, <2>2, <2>3, <2>4, RowTyped DEF Rewritten
  <2> QED BY <1>0, <2>1, <2>3, <2>5, <2>6, <2>7
<1> QED BY <1>1, <1>2

LEMMA InvokeDoes ==
  ASSUME TypeOK, NEW c \in Calls, Invoke(c)
  PROVE  /\ call[c].pc = "invoking" /\ UNCHANGED <<proposal, op, filed>>
         /\ Went(c, "invoked")
         /\ call'[c].proposal = call[c].proposal /\ call'[c].seen = call[c].seen
         /\ Ran(call[c].proposal, 1, 0)
<1>0. call[c].proposal \in Proposals
  BY DEF TypeOK, CallState
<1>1. PICK result \in {"success", "failed"} : Moves(c, "invoked", result)
  BY DEF Invoke
<1>2. result \in Result /\ "invoked" \in CallPc
  BY DEF Result, CallPc
<1>3. Ran(call[c].proposal, 1, 0)
  BY <1>0, RanInvoke DEF Invoke
<1> QED BY <1>1, <1>2, <1>3, MovesTyped DEF Invoke, Went

LEMMA CompleteInvocationDoes ==
  ASSUME TypeOK, NEW c \in Calls, CompleteInvocation(c)
  PROVE  LET p == call[c].proposal IN
         /\ call[c].pc = "invoked" /\ UNCHANGED <<op, filed, runs>>
         /\ Went(c, "done")
         /\ \/ UNCHANGED proposal
            \/ /\ Rewritten(p)
               /\ proposal'[p].decision = proposal[p].decision
               /\ proposal'[p].state = proposal[p].state
               /\ proposal'[p].attempts = proposal[p].attempts
<1> DEFINE p == call[c].proposal
<1>0. /\ call[c].pc = "invoked" /\ UNCHANGED <<op, filed, runs>>
      /\ p \in Proposals /\ proposal[p] \in Proposal
  BY DEF CompleteInvocation, TypeOK, CallState
<1>1. Went(c, "done")
  BY EndsTyped DEF CompleteInvocation, Went
<1>2. ASSUME ~UNCHANGED proposal
      PROVE  /\ Rewritten(p)
             /\ proposal'[p].decision = proposal[p].decision
             /\ proposal'[p].state = proposal[p].state
             /\ proposal'[p].attempts = proposal[p].attempts
  <2>1. PICK invocation \in Invocation, successes \in Nat :
          proposal' = [proposal EXCEPT ![p] = [proposal[p] EXCEPT
            !.revision = @ + 1, !.invocation = invocation, !.successes = successes]]
    <3> DEFINE invocation == IF call[c].result = "success" THEN "completed" ELSE "failed"
               successes == proposal[p].successes
                            + (IF call[c].result = "success" THEN 1 ELSE 0)
    <3>1. invocation \in Invocation /\ successes \in Nat
      BY <1>0 DEF Invocation, Proposal
    <3>2. proposal' = [proposal EXCEPT ![p] = [proposal[p] EXCEPT
            !.revision = @ + 1, !.invocation = invocation, !.successes = successes]]
      BY <1>0, <1>2 DEF CompleteInvocation, TypeOK
    <3> HIDE DEF invocation, successes
    <3> QED BY <3>1, <3>2
  <2> DEFINE row == [proposal[p] EXCEPT
            !.revision = @ + 1, !.invocation = invocation, !.successes = successes]
  <2>2. /\ row \in Proposal /\ row.revision = proposal[p].revision + 1
        /\ row.key = proposal[p].key /\ row.max = proposal[p].max
        /\ row.decision = proposal[p].decision /\ row.state = proposal[p].state
        /\ row.attempts = proposal[p].attempts
    <3>1. proposal[p].revision + 1 \in Nat
      BY <1>0 DEF Proposal
    <3>2. row \in Proposal
      BY <1>0, <3>1 DEF Proposal
    <3> QED BY <1>0, <3>2 DEF Proposal
  <2> HIDE DEF row
  <2>3. proposal' = [proposal EXCEPT ![p] = row]
    BY <2>1 DEF row
  <2> QED BY <1>0, <2>2, <2>3, RowTyped DEF Rewritten
<1> QED BY <1>0, <1>1, <1>2

(* A row whose state alone changes.                                        *)
LEMMA RestatedDoes ==
  ASSUME TypeOK, NEW p \in Proposals, NEW state \in State,
         proposal' = [proposal EXCEPT ![p] = [proposal[p] EXCEPT !.revision = @ + 1,
                                                                 !.state = state]]
  PROVE  /\ Rewritten(p)
         /\ proposal'[p].state = state
         /\ proposal'[p].decision = proposal[p].decision
         /\ proposal'[p].invocation = proposal[p].invocation
         /\ proposal'[p].attempts = proposal[p].attempts
<1> DEFINE row == [proposal[p] EXCEPT !.revision = @ + 1, !.state = state]
<1>1. proposal[p] \in Proposal /\ proposal[p].revision + 1 \in Nat
  BY DEF TypeOK, Proposal
<1>2. row \in Proposal
  BY <1>1 DEF Proposal
<1>3. /\ row.revision = proposal[p].revision + 1 /\ row.state = state
      /\ row.key = proposal[p].key /\ row.max = proposal[p].max
      /\ row.decision = proposal[p].decision /\ row.invocation = proposal[p].invocation
      /\ row.attempts = proposal[p].attempts
  BY <1>1 DEF Proposal
<1> HIDE DEF row
<1>4. proposal' = [proposal EXCEPT ![p] = row]
  BY DEF row
<1> QED BY <1>2, <1>3, <1>4, RowTyped DEF Rewritten

LEMMA ClaimOperationDoes ==
  ASSUME TypeOK, NEW c \in Calls, NEW p \in Proposals, NEW type \in {"apply", "rollback"},
         NEW key \in Keys, NEW expected, NEW target \in {"applying", "rolling_back"},
         ClaimOperation(c, p, type, key, expected, target)
  PROVE  /\ call[c].pc = "idle" /\ Went(c, type) /\ call'[c].proposal = p
         /\ UNCHANGED <<filed, runs>>
         /\ op' \in [Calls -> Operation]
         /\ op'[c].state = "started" /\ op'[c].type = type /\ op'[c].proposal = p
         /\ \A d \in Calls \ {c} : op'[d] = op[d]
         /\ proposal[p].decision = "approved" /\ proposal[p].state = expected
         /\ Rewritten(p)
         /\ proposal'[p].state = target
         /\ proposal'[p].decision = proposal[p].decision
         /\ proposal'[p].invocation = proposal[p].invocation
         /\ proposal'[p].attempts = proposal[p].attempts
<1> DEFINE o == [state |-> "started", type |-> type, proposal |-> p, key |-> key,
                 captured |-> FALSE]
           r == [NewCall EXCEPT !.pc = type, !.proposal = p]
<1>1. o \in Operation
  BY DEF Operation
<1>2. r \in CallState /\ r.pc = type /\ r.proposal = p
  BY NewTyped DEF CallState, CallPc
<1>3. /\ op' = [op EXCEPT ![c] = o]
      /\ Begins(c, r)
      /\ proposal' = [proposal EXCEPT ![p] = [proposal[p] EXCEPT !.revision = @ + 1,
                                                                 !.state = target]]
  BY DEF ClaimOperation, TypeOK
<1> HIDE DEF r
<1>4. Went(c, type) /\ call'[c].proposal = p
  BY <1>2, <1>3, BeginsTyped DEF Went
<1>5. /\ op' \in [Calls -> Operation] /\ op'[c] = o
      /\ \A d \in Calls \ {c} : op'[d] = op[d]
  BY <1>1, <1>3 DEF TypeOK
<1>6. target \in State
  BY DEF State
<1>7. /\ Rewritten(p)
      /\ proposal'[p].state = target
      /\ proposal'[p].decision = proposal[p].decision
      /\ proposal'[p].invocation = proposal[p].invocation
      /\ proposal'[p].attempts = proposal[p].attempts
  BY <1>3, <1>6, RestatedDoes
<1>8. /\ call[c].pc = "idle" /\ UNCHANGED <<filed, runs>>
      /\ proposal[p].decision = "approved" /\ proposal[p].state = expected
  BY DEF ClaimOperation, Claimable
<1> QED BY <1>4, <1>5, <1>7, <1>8

LEMMA ApplyDoes ==
  ASSUME TypeOK, NEW c \in Calls, Apply(c)
  PROVE  /\ call[c].pc = "apply" /\ UNCHANGED <<proposal, op, filed>>
         /\ Went(c, "apply_ran") /\ call'[c].proposal = call[c].proposal
         /\ \/ UNCHANGED runs /\ call'[c].result = "failed"
            \/ Ran(call[c].proposal, 0, 1)
<1>0. call[c].proposal \in Proposals
  BY DEF TypeOK, CallState
<1>1. PICK result \in {"success", "captured", "failed"} :
        /\ Moves(c, "apply_ran", result)
        /\ \/ UNCHANGED runs /\ result = "failed"
           \/ Ran(call[c].proposal, 0, 1)
  BY <1>0, RanApply DEF Apply
<1>2. result \in Result /\ "apply_ran" \in CallPc
  BY DEF Result, CallPc
<1> QED BY <1>1, <1>2, MovesTyped DEF Apply, Went

LEMMA RollbackDoes ==
  ASSUME TypeOK, NEW c \in Calls, Rollback(c)
  PROVE  /\ call[c].pc = "rollback" /\ UNCHANGED <<proposal, op>>
         /\ Went(c, "rollback_ran") /\ call'[c].proposal = call[c].proposal
         /\ filed' = filed \cup {CompensationOf(call[c].proposal)}
         /\ Ran(call[c].proposal, 0, 0)
<1>0. call[c].proposal \in Proposals
  BY DEF TypeOK, CallState
<1>1. PICK result \in {"success", "failed"} : Moves(c, "rollback_ran", result)
  BY DEF Rollback
<1>2. result \in Result /\ "rollback_ran" \in CallPc
  BY DEF Result, CallPc
<1>3. Ran(call[c].proposal, 0, 0)
  BY <1>0, RanRollback DEF Rollback
<1> QED BY <1>1, <1>2, <1>3, MovesTyped DEF Rollback, Went

(* The state an operation leaves its proposal in.                          *)
Left(type) == IF type = "apply" THEN {"applied", "apply_failed"}
              ELSE {"rolled_back", "rollback_failed"}

LEMMA CompleteOperationDoes ==
  ASSUME TypeOK, OperationsOwned, NEW c \in Calls, NEW type \in {"apply", "rollback"}, NEW ran,
         \/ type = "apply" /\ ran = "apply_ran"
         \/ type = "rollback" /\ ran = "rollback_ran",
         CompleteOperation(c, type, ran)
  PROVE  LET p == call[c].proposal IN
         /\ call[c].pc = ran /\ UNCHANGED <<filed, runs>> /\ Went(c, "done")
         /\ \/ UNCHANGED <<proposal, op>>
            \/ /\ op[c].state = "started" /\ op[c].type = type /\ op[c].proposal = p
               /\ op' \in [Calls -> Operation]
               /\ op'[c].state \in Terminal /\ op'[c].type = type /\ op'[c].proposal = p
               /\ \A d \in Calls \ {c} : op'[d] = op[d]
               /\ Rewritten(p)
               /\ proposal'[p].state \in Left(type)
               /\ proposal'[p].state = "applied" => call[c].result # "failed"
               /\ proposal'[p].decision = proposal[p].decision
               /\ proposal'[p].invocation = proposal[p].invocation
               /\ proposal'[p].attempts = proposal[p].attempts
<1> DEFINE p == call[c].proposal
           success == call[c].result # "failed"
<1>0. /\ call[c].pc = ran /\ UNCHANGED <<filed, runs>> /\ Ends(c) /\ p \in Proposals
      /\ op[c] \in Operation
  BY DEF CompleteOperation, TypeOK, CallState
<1>1. Went(c, "done")
  BY <1>0, EndsTyped DEF Went
<1>2. CASE ~Open(c)
  BY <1>0, <1>1, <1>2 DEF CompleteOperation
<1>3. CASE Open(c)
  <2>1. op[c].state = "started" /\ op[c].type = type /\ op[c].proposal = p
    BY <1>0, <1>3 DEF Open, OperationsOwned, OwnedBy, Owns, Operation
  <2>2. PICK end \in Terminal, captured \in BOOLEAN :
          op' = [op EXCEPT ![c] = [op[c] EXCEPT !.state = end, !.captured = captured]]
    <3> DEFINE end == IF success THEN "completed" ELSE "failed"
               captured == call[c].result = "captured"
    <3>1. end \in Terminal /\ captured \in BOOLEAN
      BY DEF Terminal
    <3>2. op' = [op EXCEPT ![c] = [op[c] EXCEPT !.state = end, !.captured = captured]]
      BY <1>3 DEF CompleteOperation, TypeOK
    <3> HIDE DEF end, captured
    <3> QED BY <3>1, <3>2
  <2>3. /\ op' \in [Calls -> Operation]
        /\ op'[c].state \in Terminal /\ op'[c].type = type /\ op'[c].proposal = p
        /\ \A d \in Calls \ {c} : op'[d] = op[d]
    <3> DEFINE o == [op[c] EXCEPT !.state = end, !.captured = captured]
    <3>1. o \in Operation
      BY <1>0 DEF Operation
    <3>2. o.state = end /\ o.type = type /\ o.proposal = p
      BY <1>0, <2>1 DEF Operation
    <3> HIDE DEF o
    <3>3. op' = [op EXCEPT ![c] = o]
      BY <2>2 DEF o
    <3> QED BY <3>1, <3>2, <3>3 DEF TypeOK
  <2> DEFINE state == FinalState(type, success)
  <2>4. /\ state \in Left(type) /\ state \in State
        /\ state = "applied" => success
    BY DEF FinalState, Left, State
  <2>5. proposal' = [proposal EXCEPT ![p] = [proposal[p] EXCEPT !.revision = @ + 1,
                                                               !.state = state]]
    BY <1>3 DEF CompleteOperation, TypeOK
  <2> HIDE DEF state
  <2>6. /\ Rewritten(p)
        /\ proposal'[p].state = state
        /\ proposal'[p].decision = proposal[p].decision
        /\ proposal'[p].invocation = proposal[p].invocation
        /\ proposal'[p].attempts = proposal[p].attempts
    BY <1>0, <2>4, <2>5, RestatedDoes
  <2> QED BY <1>0, <1>1, <2>1, <2>3, <2>4, <2>6
<1> QED BY <1>2, <1>3

LEMMA RecoverDoes ==
  ASSUME TypeOK, NEW c \in Calls, RecoverStaleOperation(c)
  PROVE  LET p == op[c].proposal IN
         /\ op[c].state = "started" /\ UNCHANGED <<call, filed, runs>>
         /\ p \in Proposals
         /\ op' \in [Calls -> Operation]
         /\ op'[c].state = "outcome_unknown"
         /\ op'[c].type = op[c].type /\ op'[c].proposal = p
         /\ \A d \in Calls \ {c} : op'[d] = op[d]
         /\ Rewritten(p)
         /\ proposal'[p].state = "outcome_unknown"
         /\ proposal'[p].decision = proposal[p].decision
         /\ proposal'[p].invocation = proposal[p].invocation
         /\ proposal'[p].attempts = proposal[p].attempts
<1> DEFINE p == op[c].proposal
<1>0. op[c].state = "started" /\ UNCHANGED <<call, filed, runs>> /\ op[c] \in Operation /\ p \in Proposals
  BY DEF RecoverStaleOperation, TypeOK, Operation
<1>1. /\ op' \in [Calls -> Operation]
      /\ op'[c].state = "outcome_unknown"
      /\ op'[c].type = op[c].type /\ op'[c].proposal = p
      /\ \A d \in Calls \ {c} : op'[d] = op[d]
  <2> DEFINE o == [op[c] EXCEPT !.state = "outcome_unknown"]
  <2>1. o \in Operation
    BY <1>0 DEF Operation, Terminal
  <2>2. o.state = "outcome_unknown" /\ o.type = op[c].type /\ o.proposal = p
    BY <1>0 DEF Operation
  <2> HIDE DEF o
  <2>3. op' = [op EXCEPT ![c] = o]
    BY DEF RecoverStaleOperation, TypeOK, o
  <2> QED BY <2>1, <2>2, <2>3 DEF TypeOK
<1>2. proposal' = [proposal EXCEPT ![p] = [proposal[p] EXCEPT !.revision = @ + 1,
                                                             !.state = "outcome_unknown"]]
  BY DEF RecoverStaleOperation, Recovered, TypeOK
<1>3. /\ Rewritten(p)
      /\ proposal'[p].state = "outcome_unknown"
      /\ proposal'[p].decision = proposal[p].decision
      /\ proposal'[p].invocation = proposal[p].invocation
      /\ proposal'[p].attempts = proposal[p].attempts
  BY <1>0, <1>2, RestatedDoes DEF State
<1> QED BY <1>0, <1>1, <1>3

LEMMA DieDoes ==
  ASSUME TypeOK, NEW c \in Calls, Die(c)
  PROVE  Went(c, "dead") /\ UNCHANGED <<proposal, op, filed, runs>>
<1> DEFINE r == [NewCall EXCEPT !.pc = "dead", !.proposal = call[c].proposal]
<1>1. r \in CallState /\ r.pc = "dead"
  BY NewTyped DEF TypeOK, CallState, CallPc, Idle
<1> HIDE DEF r
<1>2. Begins(c, r)
  BY DEF Die, r
<1> QED BY <1>1, <1>2, BeginsTyped DEF Die, Went

-----------------------------------------------------------------------------
(* Type correctness *)

LEMMA TypeStep == IInv /\ [Next]_vars => TypeOK'
<1> SUFFICES ASSUME IInv, [Next]_vars PROVE TypeOK'
  OBVIOUS
<1>0. /\ TypeOK /\ RowsHeld /\ RowsSound /\ OperationsOwned
      /\ proposal \in [Proposals -> Proposal] /\ op \in [Calls -> Operation]
      /\ call \in [Calls -> CallState]
      /\ \A c \in Calls : call[c].proposal \in Proposals
      /\ filed \subseteq {CompensationOf(p) : p \in Proposals}
      /\ runs \in [Proposals -> [apply: Nat, invoke: Nat, rollback: Nat]]
  BY DEF IInv, TypeOK, CallState
<1>1. ASSUME NEW p \in Proposals, CreateProposal(p) PROVE TypeOK'
  BY <1>0, <1>1, CreateDoes DEF Inserted, TypeOK
<1>2. ASSUME NEW c \in Calls, NEW key \in HandoffKeys, FindCheckpoint(c, key) PROVE TypeOK'
  BY <1>0, <1>2, FindDoes DEF Went, TypeOK
<1>3. ASSUME NEW c \in Calls, NEW p \in Proposals, InsertCheckpoint(c, p) PROVE TypeOK'
  BY <1>0, <1>3, InsertDoes DEF Went, Inserted, TypeOK
<1>4. ASSUME NEW c \in Calls, RefindCheckpoint(c) PROVE TypeOK'
  BY <1>0, <1>4, RefindDoes DEF Went, TypeOK
<1>5. ASSUME NEW c \in Calls, NEW p \in Proposals, NEW decision \in {"approved", "rejected"},
             ReadToDecide(c, p, decision)
      PROVE  TypeOK'
  BY <1>0, <1>5, ReadToDecideDoes DEF Went, TypeOK
<1>6. ASSUME NEW c \in Calls, Decide(c) PROVE TypeOK'
  BY <1>0, <1>6, DecideDoes DEF Went, Rewritten, TypeOK
<1>7. ASSUME NEW c \in Calls, Resume(c) PROVE TypeOK'
  BY <1>0, <1>7, ResumeDoes DEF Went, Ran, Counts, TypeOK
<1>8. ASSUME NEW c \in Calls, StoreResume(c) PROVE TypeOK'
  BY <1>0, <1>8, StoreResumeDoes DEF Went, Rewritten, TypeOK
<1>9. ASSUME NEW c \in Calls, NEW p \in Proposals, ReadToInvoke(c, p) PROVE TypeOK'
  BY <1>0, <1>9, ReadToInvokeDoes DEF Went, TypeOK
<1>10. ASSUME NEW c \in Calls, ClaimInvocation(c) PROVE TypeOK'
  BY <1>0, <1>10, ClaimInvocationDoes DEF Went, Rewritten, TypeOK
<1>11. ASSUME NEW c \in Calls, Invoke(c) PROVE TypeOK'
  BY <1>0, <1>11, InvokeDoes DEF Went, Ran, Counts, TypeOK
<1>12. ASSUME NEW c \in Calls, CompleteInvocation(c) PROVE TypeOK'
  BY <1>0, <1>12, CompleteInvocationDoes DEF Went, Rewritten, TypeOK
<1>13. ASSUME NEW c \in Calls, NEW p \in Proposals, NEW type \in {"apply", "rollback"},
              NEW key \in Keys, NEW expected, NEW target \in {"applying", "rolling_back"},
              ClaimOperation(c, p, type, key, expected, target)
       PROVE  TypeOK'
  BY <1>0, <1>13, ClaimOperationDoes DEF Went, Rewritten, TypeOK
<1>14. ASSUME NEW c \in Calls, Apply(c) PROVE TypeOK'
  BY <1>0, <1>14, ApplyDoes DEF Went, Ran, Counts, TypeOK
<1>15. ASSUME NEW c \in Calls, Rollback(c) PROVE TypeOK'
  <2>1. filed' \subseteq {CompensationOf(p) : p \in Proposals}
    BY <1>0, <1>15, RollbackDoes
  <2>2. runs' \in [Proposals -> [apply: Nat, invoke: Nat, rollback: Nat]]
    BY <1>0, <1>15, RollbackDoes DEF Ran, Counts
  <2> QED BY <1>0, <1>15, <2>1, <2>2, RollbackDoes DEF Went, TypeOK
<1>16. ASSUME NEW c \in Calls, NEW type \in {"apply", "rollback"}, NEW ran,
              \/ type = "apply" /\ ran = "apply_ran"
              \/ type = "rollback" /\ ran = "rollback_ran",
              CompleteOperation(c, type, ran)
       PROVE  TypeOK'
  BY <1>0, <1>16, CompleteOperationDoes DEF Went, Rewritten, TypeOK
<1>17. ASSUME NEW c \in Calls, RecoverStaleOperation(c) PROVE TypeOK'
  BY <1>0, <1>17, RecoverDoes DEF Rewritten, TypeOK
<1>18. ASSUME NEW c \in Calls, Die(c) PROVE TypeOK'
  BY <1>0, <1>18, DieDoes DEF Went, TypeOK
<1>19. CASE UNCHANGED vars
  BY <1>0, <1>19 DEF vars, TypeOK
<1>20. ASSUME NEW c \in Calls, Request(c) PROVE TypeOK'
  BY <1>2, <1>5, <1>9, <1>13, <1>20 DEF Request, ClaimApply, ClaimRollback
<1>21. ASSUME NEW c \in Calls, Continue(c) PROVE TypeOK'
  BY <1>3, <1>4, <1>6, <1>7, <1>8, <1>10, <1>11, <1>12, <1>14, <1>15, <1>16, <1>21
     DEF Continue, CompleteApply, CompleteRollback
<1> QED BY <1>1, <1>17, <1>18, <1>19, <1>20, <1>21 DEF Next

-----------------------------------------------------------------------------
(* What a step amounts to, for the invariant: nothing but that a request   *)
(* goes on or ends; an insert; a read; a decision; a run of an invoked     *)
(* tool; the report of one; the claim of an invocation or of an operation; *)
(* the run of an operation; its completion; its recovery.                  *)
PassStep ==
  /\ UNCHANGED <<proposal, op, runs>>
  /\ \/ UNCHANGED call
     \/ \E c \in Calls, pc \in {"inserting", "refinding", "done", "dead"} : Went(c, pc)

InsertStep(p, key) ==
  /\ Inserted(p, key) /\ UNCHANGED <<op, runs>>
  /\ key = NoKey \/ Pending(key) = {}
  /\ UNCHANGED call \/ \E c \in Calls : Went(c, "done")

ReadStep(c, pc) ==
  LET p == call'[c].proposal IN
  /\ UNCHANGED <<proposal, op, runs>> /\ Went(c, pc)
  /\ p \in Proposals /\ call'[c].seen = proposal[p] /\ Exists(p)
  /\ pc = "deciding" => /\ proposal[p].decision = "pending"
                        /\ call'[c].result \in {"approved", "rejected"}
  /\ pc = "claiming" => MayInvoke(proposal[p])

DecideStep(c, pc) ==
  LET p == call[c].proposal IN
  /\ UNCHANGED <<op, runs>> /\ Went(c, pc) /\ Rewritten(p)
  /\ proposal[p].decision = "pending" /\ Exists(p)
  /\ proposal'[p].decision \in {"approved", "rejected"}
  /\ proposal'[p].state = "decided"
  /\ pc = "done" => proposal'[p].attempts = proposal[p].attempts
  /\ pc = "resuming" =>
       /\ call'[c].proposal = p /\ call'[c].seen = proposal'[p]
       /\ proposal'[p].decision = "approved"
       /\ proposal'[p].invocation = "invoking"
       /\ proposal'[p].attempts = proposal[p].attempts + 1

RunStep(c, pc, ran) ==
  /\ UNCHANGED <<proposal, op>> /\ Went(c, ran)
  /\ call[c].pc = pc
  /\ call'[c].proposal = call[c].proposal /\ call'[c].seen = call[c].seen
  /\ ran = "resumed" => call'[c].result \in Outcome
  /\ UNCHANGED runs \/ Ran(call[c].proposal, 1, 0)

Untouched(p) == /\ Rewritten(p)
                /\ proposal'[p].decision = proposal[p].decision
                /\ proposal'[p].attempts = proposal[p].attempts

ReportStep(c) ==
  LET p == call[c].proposal IN
  /\ UNCHANGED <<op, runs>> /\ Went(c, "done") /\ call[c].pc \in {"resumed", "invoked"}
  /\ Untouched(p) /\ proposal'[p].state = proposal[p].state

ClaimInvocationStep(c) ==
  LET p == call[c].proposal IN
  /\ UNCHANGED <<op, runs>> /\ Went(c, "invoking")
  /\ MayInvoke(proposal[p])
  /\ call'[c].proposal = p /\ call'[c].seen = proposal'[p]
  /\ Rewritten(p)
  /\ proposal'[p].decision = proposal[p].decision
  /\ proposal'[p].state = proposal[p].state
  /\ proposal'[p].invocation = "invoking"
  /\ proposal'[p].attempts = proposal[p].attempts + 1

ClaimOperationStep(c, p, type, expected, target) ==
  /\ UNCHANGED runs
  /\ call[c].pc = "idle" /\ Went(c, type) /\ call'[c].proposal = p
  /\ op'[c].state = "started" /\ op'[c].type = type /\ op'[c].proposal = p
  /\ \A d \in Calls \ {c} : op'[d] = op[d]
  /\ proposal[p].decision = "approved" /\ proposal[p].state = expected
  /\ Untouched(p) /\ proposal'[p].invocation = proposal[p].invocation
  /\ proposal'[p].state = target

MutateStep(c, pc, ran) ==
  /\ UNCHANGED <<proposal, op>>
  /\ call[c].pc = pc /\ Went(c, ran) /\ call'[c].proposal = call[c].proposal
  /\ \/ Ran(call[c].proposal, 0, 0) /\ pc = "rollback"
     \/ UNCHANGED runs /\ pc = "apply" /\ call'[c].result = "failed"
     \/ Ran(call[c].proposal, 0, 1) /\ pc = "apply"

CompleteStep(c, type, ran) ==
  LET p == call[c].proposal IN
  /\ UNCHANGED runs /\ call[c].pc = ran /\ Went(c, "done")
  /\ op[c].state = "started" /\ op[c].type = type /\ op[c].proposal = p
  /\ op'[c].state \in Terminal /\ op'[c].type = type /\ op'[c].proposal = p
  /\ \A d \in Calls \ {c} : op'[d] = op[d]
  /\ Untouched(p) /\ proposal'[p].invocation = proposal[p].invocation
  /\ proposal'[p].state \in Left(type)
  /\ proposal'[p].state = "applied" => call[c].result # "failed"

RecoverStep(c) ==
  LET p == op[c].proposal IN
  /\ UNCHANGED <<call, runs>> /\ p \in Proposals
  /\ op[c].state = "started" /\ op'[c].state = "outcome_unknown"
  /\ op'[c].type = op[c].type /\ op'[c].proposal = p
  /\ \A d \in Calls \ {c} : op'[d] = op[d]
  /\ Untouched(p) /\ proposal'[p].invocation = proposal[p].invocation
  /\ proposal'[p].state = "outcome_unknown"

Step ==
  \/ PassStep
  \/ \E p \in Proposals, key \in HandoffKeys \cup {NoKey} : InsertStep(p, key)
  \/ \E c \in Calls :
       \/ ReadStep(c, "deciding") \/ ReadStep(c, "claiming")
       \/ DecideStep(c, "done") \/ DecideStep(c, "resuming")
       \/ RunStep(c, "resuming", "resumed") \/ RunStep(c, "invoking", "invoked")
       \/ ReportStep(c) \/ ClaimInvocationStep(c)
       \/ \E p \in Proposals : \/ ClaimOperationStep(c, p, "apply", "decided", "applying")
                               \/ ClaimOperationStep(c, p, "rollback", "applied", "rolling_back")
       \/ MutateStep(c, "apply", "apply_ran") \/ MutateStep(c, "rollback", "rollback_ran")
       \/ CompleteStep(c, "apply", "apply_ran") \/ CompleteStep(c, "rollback", "rollback_ran")
       \/ RecoverStep(c)

LEMMA StepCases == IInv /\ [Next]_vars => Step
<1> SUFFICES ASSUME IInv, [Next]_vars PROVE Step
  OBVIOUS
<1>0. TypeOK /\ RowsHeld /\ RowsSound /\ OperationsOwned
  BY DEF IInv
<1>1. ASSUME NEW p \in Proposals, CreateProposal(p) PROVE Step
  BY <1>0, <1>1, CreateDoes DEF Step, InsertStep
<1>2. ASSUME NEW c \in Calls, NEW key \in HandoffKeys, FindCheckpoint(c, key) PROVE Step
  BY <1>0, <1>2, FindDoes DEF Step, PassStep
<1>3. ASSUME NEW c \in Calls, NEW p \in Proposals, InsertCheckpoint(c, p) PROVE Step
  <2>1. call[c].key \in HandoffKeys \cup {NoKey}
    BY <1>0 DEF TypeOK, CallState
  <2>2. PassStep \/ InsertStep(p, call[c].key)
    BY <1>0, <1>3, InsertDoes DEF PassStep, InsertStep
  <2> QED BY <2>1, <2>2 DEF Step
<1>4. ASSUME NEW c \in Calls, RefindCheckpoint(c) PROVE Step
  BY <1>0, <1>4, RefindDoes DEF Step, PassStep
<1>5. ASSUME NEW c \in Calls, NEW p \in Proposals, NEW decision \in {"approved", "rejected"},
             ReadToDecide(c, p, decision)
      PROVE  Step
  BY <1>0, <1>5, ReadToDecideDoes DEF Step, ReadStep
<1>6. ASSUME NEW c \in Calls, Decide(c) PROVE Step
  <2>1. PassStep \/ DecideStep(c, "done") \/ DecideStep(c, "resuming")
    BY <1>0, <1>6, DecideDoes DEF PassStep, DecideStep
  <2> QED BY <2>1 DEF Step
<1>7. ASSUME NEW c \in Calls, Resume(c) PROVE Step
  BY <1>0, <1>7, ResumeDoes DEF Step, RunStep
<1>8. ASSUME NEW c \in Calls, StoreResume(c) PROVE Step
  <2>1. PassStep \/ ReportStep(c)
    BY <1>0, <1>8, StoreResumeDoes DEF PassStep, ReportStep, Untouched
  <2> QED BY <2>1 DEF Step
<1>9. ASSUME NEW c \in Calls, NEW p \in Proposals, ReadToInvoke(c, p) PROVE Step
  <2>1. Exists(p)
    BY <1>0, <1>9 DEF ReadToInvoke, MayInvoke, RowsSound
  <2> QED BY <1>0, <1>9, <2>1, ReadToInvokeDoes DEF Step, ReadStep
<1>10. ASSUME NEW c \in Calls, ClaimInvocation(c) PROVE Step
  <2>1. PassStep \/ ClaimInvocationStep(c)
    BY <1>0, <1>10, ClaimInvocationDoes DEF PassStep, ClaimInvocationStep
  <2> QED BY <2>1 DEF Step
<1>11. ASSUME NEW c \in Calls, Invoke(c) PROVE Step
  BY <1>0, <1>11, InvokeDoes DEF Step, RunStep
<1>12. ASSUME NEW c \in Calls, CompleteInvocation(c) PROVE Step
  <2>1. PassStep \/ ReportStep(c)
    BY <1>0, <1>12, CompleteInvocationDoes DEF PassStep, ReportStep, Untouched
  <2> QED BY <2>1 DEF Step
<1>13. ASSUME NEW c \in Calls, NEW p \in Proposals, NEW type \in {"apply", "rollback"},
              NEW key \in Keys, NEW expected, NEW target \in {"applying", "rolling_back"},
              ClaimOperation(c, p, type, key, expected, target)
       PROVE  ClaimOperationStep(c, p, type, expected, target)
  BY <1>0, <1>13, ClaimOperationDoes DEF ClaimOperationStep, Untouched
<1>14. ASSUME NEW c \in Calls, Apply(c) PROVE Step
  <2>1. MutateStep(c, "apply", "apply_ran")
    BY <1>0, <1>14, ApplyDoes DEF MutateStep
  <2> QED BY <2>1 DEF Step
<1>15. ASSUME NEW c \in Calls, Rollback(c) PROVE Step
  <2>1. MutateStep(c, "rollback", "rollback_ran")
    BY <1>0, <1>15, RollbackDoes DEF MutateStep
  <2> QED BY <2>1 DEF Step
<1>16. ASSUME NEW c \in Calls, NEW type \in {"apply", "rollback"}, NEW ran,
              \/ type = "apply" /\ ran = "apply_ran"
              \/ type = "rollback" /\ ran = "rollback_ran",
              CompleteOperation(c, type, ran)
       PROVE  PassStep \/ CompleteStep(c, type, ran)
  BY <1>0, <1>16, CompleteOperationDoes DEF PassStep, CompleteStep, Untouched
<1>17. ASSUME NEW c \in Calls, RecoverStaleOperation(c) PROVE Step
  BY <1>0, <1>17, RecoverDoes DEF Step, RecoverStep, Untouched
<1>18. ASSUME NEW c \in Calls, Die(c) PROVE Step
  BY <1>0, <1>18, DieDoes DEF Step, PassStep
<1>19. CASE UNCHANGED vars
  BY <1>19 DEF vars, Step, PassStep
<1>20. ASSUME NEW c \in Calls, Request(c) PROVE Step
  <2>1. ASSUME NEW p \in Proposals, NEW key \in Keys, ClaimApply(c, p, key) \/ ClaimRollback(c, p, key)
        PROVE  Step
    BY <1>13, <2>1 DEF ClaimApply, ClaimRollback, Step
  <2> QED BY <1>2, <1>5, <1>9, <1>20, <2>1 DEF Request
<1>21. ASSUME NEW c \in Calls, Continue(c) PROVE Step
  <2>1. CASE CompleteApply(c) \/ CompleteRollback(c)
    BY <1>16, <2>1 DEF CompleteApply, CompleteRollback, Step
  <2> QED BY <1>3, <1>4, <1>6, <1>7, <1>8, <1>10, <1>11, <1>12, <1>14, <1>15, <1>21, <2>1
          DEF Continue
<1> QED BY <1>1, <1>17, <1>18, <1>19, <1>20, <1>21 DEF Next

-----------------------------------------------------------------------------
(* Every step keeps the invariant *)

LEMMA SoundStep == IInv /\ TypeOK' /\ Step => RowsSound'
<1> SUFFICES ASSUME IInv, TypeOK', Step, NEW q \in Proposals
             PROVE  (LET row == proposal[q] IN
                     /\ row.decision = "pending" =>
                          row.state = "created" /\ row.invocation = "not_invoked" /\ row.attempts = 0
                     /\ row.state = "created" => row.decision = "pending"
                     /\ row.decision # "pending" \/ row.key # NoKey => Exists(q)
                     /\ row.max > 0 /\ row.attempts <= row.max
                     /\ runs[q].invoke <= row.attempts)'
  BY DEF RowsSound
<1> DEFINE Goal == (LET row == proposal[q] IN
                     /\ row.decision = "pending" =>
                          row.state = "created" /\ row.invocation = "not_invoked" /\ row.attempts = 0
                     /\ row.state = "created" => row.decision = "pending"
                     /\ row.decision # "pending" \/ row.key # NoKey => Exists(q)
                     /\ row.max > 0 /\ row.attempts <= row.max
                     /\ runs[q].invoke <= row.attempts)'
<1>0. /\ proposal[q].decision = "pending" =>
           /\ proposal[q].state = "created" /\ proposal[q].invocation = "not_invoked"
           /\ proposal[q].attempts = 0
      /\ proposal[q].state = "created" => proposal[q].decision = "pending"
      /\ proposal[q].decision # "pending" \/ proposal[q].key # NoKey => Exists(q)
      /\ proposal[q].max > 0 /\ proposal[q].attempts <= proposal[q].max
      /\ runs[q].invoke <= proposal[q].attempts
      /\ proposal[q].revision \in Nat /\ proposal[q].max \in Nat
      /\ proposal[q].attempts \in Nat /\ runs[q].invoke \in Nat
      /\ \A c \in Calls : call[c].proposal \in Proposals
      /\ \A c \in Calls : op[c].proposal \in Proposals
  BY DEF IInv, RowsSound, TypeOK, Proposal, CallState, Operation
<1>1. CASE proposal'[q] = proposal[q] /\ runs'[q].invoke = runs[q].invoke
  BY <1>0, <1>1 DEF Exists
<1>2. ASSUME proposal'[q].revision = proposal[q].revision + 1,
             proposal'[q].key = proposal[q].key, proposal'[q].max = proposal[q].max,
             proposal'[q].attempts = proposal[q].attempts,
             proposal'[q].decision = proposal[q].decision,
             proposal'[q].decision # "pending", proposal'[q].state # "created",
             runs' = runs
      PROVE  Goal
  BY <1>0, <1>2 DEF Exists
<1>3. CASE PassStep
  BY <1>1, <1>3 DEF PassStep
<1>4. ASSUME NEW p \in Proposals, NEW key \in HandoffKeys \cup {NoKey}, InsertStep(p, key) PROVE Goal
  <2>1. CASE p = q
    BY <1>0, <1>4, <2>1 DEF InsertStep, Inserted, Exists, IInv, RowsSound
  <2> QED BY <1>1, <1>4, <2>1 DEF InsertStep, Inserted
<1>5. ASSUME NEW c \in Calls, ReadStep(c, "deciding") \/ ReadStep(c, "claiming") PROVE Goal
  BY <1>1, <1>5 DEF ReadStep
<1>6. ASSUME NEW c \in Calls, NEW pc \in {"done", "resuming"}, DecideStep(c, pc) PROVE Goal
  <2>1. CASE call[c].proposal = q
    BY <1>0, <1>6, <2>1 DEF DecideStep, Rewritten, Exists
  <2> QED BY <1>1, <1>6, <2>1 DEF DecideStep, Rewritten
<1>7. ASSUME NEW c \in Calls,
             RunStep(c, "resuming", "resumed") \/ RunStep(c, "invoking", "invoked")
      PROVE  Goal
  <2>1. call[c].proposal = q => runs[q].invoke < proposal[q].attempts
    BY <1>7 DEF RunStep, IInv, InvocationsMarked, MarkedBy
  <2> QED BY <1>0, <1>1, <1>7, <2>1 DEF RunStep, Ran, Exists
<1>8. ASSUME NEW c \in Calls, ReportStep(c) PROVE Goal
  <2>1. CASE call[c].proposal = q
    <3>1. proposal[q].decision = "approved"
      BY <1>8, <2>1 DEF ReportStep, IInv, InvocationsMarked, MarkedBy, Running
    <3> QED BY <1>0, <1>2, <1>8, <2>1, <3>1 DEF ReportStep, Untouched, Rewritten
  <2> QED BY <1>1, <1>8, <2>1 DEF ReportStep, Untouched, Rewritten
<1>9. ASSUME NEW c \in Calls, ClaimInvocationStep(c) PROVE Goal
  <2>1. CASE call[c].proposal = q
    BY <1>0, <1>9, <2>1 DEF ClaimInvocationStep, Rewritten, MayInvoke, Exists
  <2> QED BY <1>1, <1>9, <2>1 DEF ClaimInvocationStep, Rewritten
<1>10. ASSUME NEW c \in Calls, NEW p \in Proposals, NEW type, NEW expected,
              NEW target \in {"applying", "rolling_back"},
              ClaimOperationStep(c, p, type, expected, target)
       PROVE  Goal
  <2>1. CASE p = q
    BY <1>2, <1>10, <2>1 DEF ClaimOperationStep, Untouched, Rewritten
  <2> QED BY <1>1, <1>10, <2>1 DEF ClaimOperationStep, Untouched, Rewritten
<1>11. ASSUME NEW c \in Calls,
              \/ MutateStep(c, "apply", "apply_ran") \/ MutateStep(c, "rollback", "rollback_ran")
       PROVE  Goal
  BY <1>0, <1>1, <1>11 DEF MutateStep, Ran
<1>12. ASSUME NEW c \in Calls, NEW type \in {"apply", "rollback"}, NEW ran,
              CompleteStep(c, type, ran)
       PROVE  Goal
  <2>1. CASE call[c].proposal = q
    <3>1. proposal[q].decision = "approved"
      BY <1>12, <2>1 DEF CompleteStep, IInv, OperationsOwned, OwnedBy, Owns
    <3>2. proposal'[q].state # "created"
      BY <1>12, <2>1 DEF CompleteStep, Left
    <3> QED BY <1>2, <1>12, <2>1, <3>1, <3>2 DEF CompleteStep, Untouched, Rewritten
  <2> QED BY <1>1, <1>12, <2>1 DEF CompleteStep, Untouched, Rewritten
<1>13. ASSUME NEW c \in Calls, RecoverStep(c) PROVE Goal
  <2>1. CASE op[c].proposal = q
    <3>1. proposal[q].decision = "approved"
      BY <1>13, <2>1 DEF RecoverStep, IInv, OperationsOwned, OwnedBy, Owns
    <3> QED BY <1>2, <1>13, <2>1, <3>1 DEF RecoverStep, Untouched, Rewritten
  <2> QED BY <1>1, <1>13, <2>1 DEF RecoverStep, Untouched, Rewritten
<1> QED BY <1>3, <1>4, <1>5, <1>6, <1>7, <1>8, <1>9, <1>10, <1>11, <1>12, <1>13 DEF Step

(* Rows only change together with their revision.                          *)
LEMMA RevisionsGrow ==
  ASSUME IInv, Step, NEW q \in Proposals
  PROVE  \/ proposal'[q] = proposal[q]
         \/ proposal'[q].revision = proposal[q].revision + 1
<1>0. /\ \A c \in Calls : call[c].proposal \in Proposals /\ op[c].proposal \in Proposals
      /\ proposal[q].revision \in Nat
  BY DEF IInv, TypeOK, CallState, Operation, Proposal
<1>1. ASSUME NEW p \in Proposals, Rewritten(p)
      PROVE  proposal'[q] = proposal[q] \/ proposal'[q].revision = proposal[q].revision + 1
  BY <1>1 DEF Rewritten
<1>2. ASSUME NEW p \in Proposals, NEW key \in HandoffKeys \cup {NoKey}, InsertStep(p, key)
      PROVE  proposal'[q] = proposal[q] \/ proposal'[q].revision = proposal[q].revision + 1
  BY <1>0, <1>2 DEF InsertStep, Inserted, Exists
<1>3. ASSUME NEW c \in Calls, NEW pc,
             DecideStep(c, pc) \/ ReportStep(c) \/ ClaimInvocationStep(c)
      PROVE  proposal'[q] = proposal[q] \/ proposal'[q].revision = proposal[q].revision + 1
  BY <1>0, <1>1, <1>3 DEF DecideStep, ReportStep, ClaimInvocationStep, Untouched
<1>4. ASSUME NEW c \in Calls, NEW p \in Proposals, NEW type, NEW expected, NEW target,
             ClaimOperationStep(c, p, type, expected, target)
      PROVE  proposal'[q] = proposal[q] \/ proposal'[q].revision = proposal[q].revision + 1
  BY <1>1, <1>4 DEF ClaimOperationStep, Untouched
<1>5. ASSUME NEW c \in Calls, NEW type, NEW ran, CompleteStep(c, type, ran) \/ RecoverStep(c)
      PROVE  proposal'[q] = proposal[q] \/ proposal'[q].revision = proposal[q].revision + 1
  BY <1>0, <1>1, <1>5 DEF CompleteStep, RecoverStep, Untouched
<1>6. ASSUME NEW c \in Calls, NEW pc, NEW ran,
             ReadStep(c, pc) \/ RunStep(c, pc, ran) \/ MutateStep(c, pc, ran)
      PROVE  proposal'[q] = proposal[q] \/ proposal'[q].revision = proposal[q].revision + 1
  BY <1>6 DEF ReadStep, RunStep, MutateStep
<1>7. CASE PassStep
  BY <1>7 DEF PassStep
<1> QED BY <1>2, <1>3, <1>4, <1>5, <1>6, <1>7 DEF Step

LEMMA HeldStep == IInv /\ TypeOK' /\ Step => RowsHeld'
<1> SUFFICES ASSUME IInv, TypeOK', Step, NEW d \in Calls PROVE HeldBy(d)'
  BY DEF RowsHeld
<1>0. /\ call[d].proposal \in Proposals /\ call'[d].proposal \in Proposals
      /\ call[d].seen.revision \in Nat
      /\ \A p \in Proposals : proposal[p].revision \in Nat /\ proposal'[p].revision \in Nat
      /\ call[d].pc \in Holding =>
           /\ call[d].seen.revision \in 1 .. proposal[call[d].proposal].revision
           /\ call[d].seen.revision = proposal[call[d].proposal].revision =>
                call[d].seen = proposal[call[d].proposal]
      /\ call[d].pc = "deciding" => /\ call[d].seen.decision = "pending"
                                    /\ call[d].result \in {"approved", "rejected"}
      /\ call[d].pc = "claiming" => MayInvoke(call[d].seen)
      /\ call[d].pc = "resumed" => call[d].result \in Outcome
  BY DEF IInv, TypeOK, CallState, Proposal, RowsHeld, HeldBy, Fresh
<1>1. CASE call'[d] = call[d]
  <2>1. \/ proposal'[call[d].proposal] = proposal[call[d].proposal]
        \/ proposal'[call[d].proposal].revision = proposal[call[d].proposal].revision + 1
    BY <1>0, RevisionsGrow
  <2> QED BY <1>0, <1>1, <2>1 DEF HeldBy, Fresh, MayInvoke
<1>2. CASE call'[d].pc \notin Holding
  BY <1>2 DEF HeldBy, Holding
<1>3. CASE \/ UNCHANGED call
           \/ \E c \in Calls, pc \in {"inserting", "refinding", "done", "dead", "apply", "rollback",
                                      "apply_ran", "rollback_ran"} : Went(c, pc)
  BY <1>1, <1>2, <1>3 DEF Went, Holding
<1>4. ASSUME NEW c \in Calls, NEW pc \in {"deciding", "claiming"}, ReadStep(c, pc) PROVE HeldBy(d)'
  <2>1. CASE c = d
    <3>1. call'[d].seen = proposal'[call'[d].proposal] /\ call'[d].seen.revision > 0
      BY <1>0, <1>4, <2>1 DEF ReadStep, Exists
    <3>2. Fresh(d)'
      BY <1>0, <3>1 DEF Fresh
    <3> QED BY <1>4, <2>1, <3>2 DEF ReadStep, Went, HeldBy
  <2> QED BY <1>1, <1>4, <2>1 DEF ReadStep, Went
<1>5. ASSUME NEW c \in Calls, DecideStep(c, "resuming") \/ ClaimInvocationStep(c) PROVE HeldBy(d)'
  <2>1. CASE c = d
    <3>1. /\ call'[d].seen = proposal'[call'[d].proposal] /\ call'[d].seen.revision > 0
          /\ call'[d].pc \in {"resuming", "invoking"}
      BY <1>0, <1>5, <2>1 DEF DecideStep, ClaimInvocationStep, Rewritten, Went
    <3>2. Fresh(d)'
      BY <1>0, <3>1 DEF Fresh
    <3> QED BY <3>1, <3>2 DEF HeldBy
  <2> QED BY <1>1, <1>5, <2>1 DEF DecideStep, ClaimInvocationStep, Went
<1>6. ASSUME NEW c \in Calls,
             RunStep(c, "resuming", "resumed") \/ RunStep(c, "invoking", "invoked")
      PROVE  HeldBy(d)'
  <2>1. CASE c = d
    <3>1. /\ call'[d].seen = call[d].seen /\ call'[d].proposal = call[d].proposal
          /\ proposal' = proposal /\ call[d].pc \in Holding
      BY <1>6, <2>1 DEF RunStep, Holding
    <3>2. Fresh(d)'
      BY <1>0, <3>1 DEF Fresh
    <3>3. /\ call'[d].pc \in {"resumed", "invoked"}
          /\ call'[d].pc = "resumed" => call'[d].result \in Outcome
      BY <1>6, <2>1 DEF RunStep, Went
    <3> QED BY <3>2, <3>3 DEF HeldBy
  <2> QED BY <1>1, <1>6, <2>1 DEF RunStep, Went
<1>7. ASSUME NEW c \in Calls, NEW pc \in {"inserting", "refinding", "done", "dead", "apply",
                   "rollback", "apply_ran", "rollback_ran"}, Went(c, pc)
      PROVE  HeldBy(d)'
  BY <1>3, <1>7
<1>8. CASE PassStep \/ \E p \in Proposals, key \in HandoffKeys \cup {NoKey} : InsertStep(p, key)
  BY <1>3, <1>7, <1>8 DEF PassStep, InsertStep
<1>9. ASSUME NEW c \in Calls,
             \/ DecideStep(c, "done") \/ ReportStep(c) \/ RecoverStep(c)
             \/ \E p \in Proposals : \/ ClaimOperationStep(c, p, "apply", "decided", "applying")
                                     \/ ClaimOperationStep(c, p, "rollback", "applied", "rolling_back")
             \/ MutateStep(c, "apply", "apply_ran") \/ MutateStep(c, "rollback", "rollback_ran")
             \/ CompleteStep(c, "apply", "apply_ran") \/ CompleteStep(c, "rollback", "rollback_ran")
      PROVE  HeldBy(d)'
  BY <1>3, <1>7, <1>9 DEF DecideStep, ReportStep, ClaimOperationStep, MutateStep, CompleteStep,
                         RecoverStep
<1> QED BY <1>4, <1>5, <1>6, <1>8, <1>9 DEF Step

LEMMA PendingStep == IInv /\ TypeOK' /\ Step => OnePendingPerKey'
<1> SUFFICES ASSUME IInv, Step, NEW a \in Proposals, NEW b \in Proposals, a # b,
                    proposal'[a].key = proposal'[b].key, proposal'[a].key # NoKey,
                    proposal'[a].decision = "pending", proposal'[b].decision = "pending"
             PROVE  FALSE
  BY DEF OnePendingPerKey
<1>0. /\ ~(/\ proposal[a].key = proposal[b].key /\ proposal[a].key # NoKey
           /\ proposal[a].decision = "pending" /\ proposal[b].decision = "pending")
      /\ \A c \in Calls : call[c].proposal \in Proposals /\ op[c].proposal \in Proposals
      /\ \A q \in Proposals : proposal[q].key # NoKey => Exists(q)
  BY DEF IInv, OnePendingPerKey, RowsSound, TypeOK, CallState, Operation
<1>1. ASSUME \A q \in Proposals :
               /\ proposal'[q].key = proposal[q].key
               /\ proposal'[q].decision = "pending" => proposal[q].decision = "pending"
      PROVE  FALSE
  <2>1. /\ proposal'[a].key = proposal[a].key /\ proposal'[b].key = proposal[b].key
        /\ proposal[a].decision = "pending" /\ proposal[b].decision = "pending"
    BY <1>1
  <2> QED BY <1>0, <2>1
<1>2. ASSUME NEW p \in Proposals, Rewritten(p),
             proposal'[p].decision = "pending" => proposal[p].decision = "pending"
      PROVE  FALSE
  BY <1>1, <1>2 DEF Rewritten
<1>3. ASSUME NEW p \in Proposals, NEW key \in HandoffKeys \cup {NoKey}, InsertStep(p, key)
      PROVE  FALSE
  <2>1. ASSUME NEW q \in Proposals, q # p, proposal'[q].key = key, key # NoKey,
               proposal'[q].decision = "pending"
        PROVE  FALSE
    BY <1>0, <1>3, <2>1 DEF InsertStep, Inserted, Pending
  <2> QED BY <1>0, <1>3, <2>1 DEF InsertStep, Inserted
<1>4. CASE proposal' = proposal
  BY <1>1, <1>4
<1>5. ASSUME NEW p \in Proposals, Untouched(p) PROVE FALSE
  BY <1>2, <1>5 DEF Untouched
<1>6. ASSUME NEW c \in Calls, NEW pc, DecideStep(c, pc) \/ ClaimInvocationStep(c) PROVE FALSE
  BY <1>0, <1>2, <1>6 DEF DecideStep, ClaimInvocationStep
<1>7. ASSUME NEW c \in Calls, NEW type, NEW ran, CompleteStep(c, type, ran) PROVE FALSE
  BY <1>0, <1>5, <1>7 DEF CompleteStep
<1>8. ASSUME NEW c \in Calls, RecoverStep(c) \/ ReportStep(c) PROVE FALSE
  BY <1>0, <1>5, <1>8 DEF RecoverStep, ReportStep
<1>9. ASSUME NEW c \in Calls, NEW p \in Proposals, NEW type, NEW expected, NEW target,
             ClaimOperationStep(c, p, type, expected, target)
      PROVE  FALSE
  BY <1>5, <1>9 DEF ClaimOperationStep
<1>10. ASSUME NEW c \in Calls, NEW pc, NEW ran,
              ReadStep(c, pc) \/ RunStep(c, pc, ran) \/ MutateStep(c, pc, ran)
       PROVE  FALSE
  BY <1>4, <1>10 DEF ReadStep, RunStep, MutateStep
<1>11. CASE PassStep
  BY <1>4, <1>11 DEF PassStep
<1> QED BY <1>3, <1>6, <1>7, <1>8, <1>9, <1>10, <1>11 DEF Step

LEMMA MarkedStep == IInv /\ TypeOK' /\ Step => InvocationsMarked'
<1> SUFFICES ASSUME IInv, TypeOK', Step, NEW d \in Calls PROVE MarkedBy(d)'
  BY DEF InvocationsMarked
<1>1. PICK q \in Proposals : q = call[d].proposal
  BY DEF IInv, TypeOK, CallState
<1>2. /\ \A c \in Calls : call[c].proposal \in Proposals /\ op[c].proposal \in Proposals
      /\ call[d].pc \in Running =>
           proposal[q].decision = "approved" /\ proposal[q].invocation = "invoking"
      /\ call[d].pc \in {"invoking", "resuming"} => runs[q].invoke < proposal[q].attempts
      /\ proposal[q].decision # "pending" => Exists(q)
      /\ \A p \in Proposals : /\ runs[p].invoke \in Nat /\ proposal[p].attempts \in Nat
                             /\ runs[p].invoke <= proposal[p].attempts
      /\ \A c \in Calls : /\ call[c].pc \in Running /\ call[d].pc \in Running
                         /\ call[c].proposal = q => c = d
  BY <1>1 DEF IInv, InvocationsMarked, MarkedBy, RowsSound, TypeOK, CallState, Operation,
              Proposal, OneInvocationAtATime
<1>3. CASE call'[d].pc \notin Running
  BY <1>3 DEF MarkedBy, Running
(* A request that was running before, or stays away, and its row is as it was. *)
<1>4. ASSUME call'[d] = call[d],
             call[d].pc \in Running => /\ proposal'[q].decision = proposal[q].decision
                                      /\ proposal'[q].invocation = proposal[q].invocation
                                      /\ proposal'[q].attempts = proposal[q].attempts
                                      /\ runs'[q].invoke = runs[q].invoke
      PROVE  MarkedBy(d)'
  BY <1>1, <1>2, <1>4 DEF MarkedBy, Running
<1>5. CASE PassStep
  BY <1>3, <1>4, <1>5 DEF PassStep, Went, Running
<1>6. ASSUME NEW p \in Proposals, NEW key \in HandoffKeys \cup {NoKey}, InsertStep(p, key)
      PROVE  MarkedBy(d)'
  <2>1. call'[d] = call[d] \/ call'[d].pc = "done"
    BY <1>6 DEF InsertStep, Went
  <2>2. call[d].pc \in Running => p # q
    BY <1>2, <1>6 DEF InsertStep, Inserted
  <2>3. call[d].pc \in Running => proposal'[q] = proposal[q] /\ runs' = runs
    BY <1>6, <2>2 DEF InsertStep, Inserted
  <2> QED BY <1>3, <1>4, <2>1, <2>3 DEF Running
<1>7. ASSUME NEW c \in Calls, ReadStep(c, "deciding") \/ ReadStep(c, "claiming")
      PROVE  MarkedBy(d)'
  BY <1>3, <1>4, <1>7 DEF ReadStep, Went, Running
<1>8. ASSUME NEW c \in Calls, NEW pc \in {"done", "resuming"}, DecideStep(c, pc)
      PROVE  MarkedBy(d)'
  <2>1. CASE d # c
    <3>1. call'[d] = call[d]
      BY <1>8, <2>1 DEF DecideStep, Went
    <3>2. call[d].pc \in Running => call[c].proposal # q
      BY <1>2, <1>8 DEF DecideStep
    <3>3. call[d].pc \in Running => proposal'[q] = proposal[q] /\ runs' = runs
      BY <1>8, <3>2 DEF DecideStep, Rewritten
    <3> QED BY <1>4, <3>1, <3>3
  <2>2. CASE d = c /\ pc = "done"
    BY <1>3, <1>8, <2>2 DEF DecideStep, Went, Running
  <2>3. CASE d = c /\ pc = "resuming"
    <3>1. /\ call'[d].proposal = q /\ proposal'[q].decision = "approved"
          /\ proposal'[q].invocation = "invoking" /\ runs' = runs
          /\ proposal'[q].attempts = proposal[q].attempts + 1
      BY <1>1, <1>8, <2>3 DEF DecideStep
    <3> QED BY <1>2, <3>1 DEF MarkedBy
  <2> QED BY <2>1, <2>2, <2>3
<1>9. ASSUME NEW c \in Calls,
             RunStep(c, "resuming", "resumed") \/ RunStep(c, "invoking", "invoked")
      PROVE  MarkedBy(d)'
  <2>1. CASE d # c
    <3>1. call'[d] = call[d] /\ proposal' = proposal
      BY <1>9, <2>1 DEF RunStep, Went
    <3>2. call[d].pc \in Running => call[c].proposal # q
      BY <1>2, <1>9, <2>1 DEF RunStep, Running
    <3>3. call[d].pc \in Running => runs'[q].invoke = runs[q].invoke
      BY <1>2, <1>9, <3>2 DEF RunStep, Ran
    <3> QED BY <1>4, <3>1, <3>3
  <2>2. CASE d = c
    <3>1. /\ call'[d].proposal = q /\ proposal' = proposal
          /\ call[d].pc \in Running /\ call'[d].pc \in {"resumed", "invoked"}
      BY <1>1, <1>9, <2>2 DEF RunStep, Went, Running
    <3> QED BY <1>2, <3>1 DEF MarkedBy
  <2> QED BY <2>1, <2>2
<1>10. ASSUME NEW c \in Calls, ReportStep(c) PROVE MarkedBy(d)'
  <2>1. CASE d # c
    <3>1. call'[d] = call[d]
      BY <1>10, <2>1 DEF ReportStep, Went
    <3>2. call[d].pc \in Running => call[c].proposal # q
      BY <1>2, <1>10, <2>1 DEF ReportStep, Running
    <3>3. call[d].pc \in Running => proposal'[q] = proposal[q] /\ runs' = runs
      BY <1>10, <3>2 DEF ReportStep, Untouched, Rewritten
    <3> QED BY <1>4, <3>1, <3>3
  <2>2. CASE d = c
    BY <1>3, <1>10, <2>2 DEF ReportStep, Went, Running
  <2> QED BY <2>1, <2>2
<1>11. ASSUME NEW c \in Calls, ClaimInvocationStep(c) PROVE MarkedBy(d)'
  <2>1. CASE d # c
    <3>1. call'[d] = call[d]
      BY <1>11, <2>1 DEF ClaimInvocationStep, Went
    <3>2. call[d].pc \in Running => call[c].proposal # q
      BY <1>2, <1>11 DEF ClaimInvocationStep, MayInvoke
    <3>3. call[d].pc \in Running => proposal'[q] = proposal[q] /\ runs' = runs
      BY <1>11, <3>2 DEF ClaimInvocationStep, Rewritten
    <3> QED BY <1>4, <3>1, <3>3
  <2>2. CASE d = c
    <3>1. /\ call'[d].proposal = q /\ proposal'[q].decision = "approved"
          /\ proposal'[q].invocation = "invoking" /\ runs' = runs
          /\ proposal'[q].attempts = proposal[q].attempts + 1
      BY <1>1, <1>11, <2>2 DEF ClaimInvocationStep, MayInvoke
    <3> QED BY <1>2, <3>1 DEF MarkedBy
  <2> QED BY <2>1, <2>2
(* The operations leave alone what invocations look at.                    *)
<1>12. ASSUME call'[d] = call[d] \/ call'[d].pc \notin Running,
              proposal'[q].decision = proposal[q].decision,
              proposal'[q].invocation = proposal[q].invocation,
              proposal'[q].attempts = proposal[q].attempts, runs'[q].invoke = runs[q].invoke
       PROVE  MarkedBy(d)'
  BY <1>3, <1>4, <1>12
<1>13. ASSUME NEW p \in Proposals, Untouched(p), proposal'[p].invocation = proposal[p].invocation
       PROVE  /\ proposal'[q].decision = proposal[q].decision
              /\ proposal'[q].invocation = proposal[q].invocation
              /\ proposal'[q].attempts = proposal[q].attempts
  BY <1>13 DEF Untouched, Rewritten
<1>14. ASSUME NEW c \in Calls, NEW p \in Proposals, NEW type \in {"apply", "rollback"},
              NEW expected, NEW target, ClaimOperationStep(c, p, type, expected, target)
       PROVE  MarkedBy(d)'
  BY <1>12, <1>13, <1>14 DEF ClaimOperationStep, Went, Running
<1>15. ASSUME NEW c \in Calls,
              MutateStep(c, "apply", "apply_ran") \/ MutateStep(c, "rollback", "rollback_ran")
       PROVE  MarkedBy(d)'
  <2>1. runs'[q].invoke = runs[q].invoke
    BY <1>2, <1>15 DEF MutateStep, Ran
  <2> QED BY <1>12, <1>15, <2>1 DEF MutateStep, Went, Running
<1>16. ASSUME NEW c \in Calls, NEW type, NEW ran, CompleteStep(c, type, ran)
       PROVE  MarkedBy(d)'
  BY <1>2, <1>12, <1>13, <1>16 DEF CompleteStep, Went, Running
<1>17. ASSUME NEW c \in Calls, RecoverStep(c) PROVE MarkedBy(d)'
  BY <1>12, <1>13, <1>17 DEF RecoverStep
<1> QED BY <1>5, <1>6, <1>7, <1>8, <1>9, <1>10, <1>11, <1>14, <1>15, <1>16, <1>17 DEF Step

LEMMA AtATimeStep == IInv /\ TypeOK' /\ Step => OneInvocationAtATime'
<1> SUFFICES ASSUME IInv, TypeOK', Step, NEW a \in Calls, NEW b \in Calls, a # b,
                    call'[a].pc \in Running, call'[b].pc \in Running,
                    call'[a].proposal = call'[b].proposal
             PROVE  FALSE
  BY DEF OneInvocationAtATime
<1>0. /\ \A c, d \in Calls : /\ call[c].pc \in Running /\ call[d].pc \in Running
                            /\ call[c].proposal = call[d].proposal => c = d
      /\ \A c \in Calls : call[c].pc \in Running =>
           /\ proposal[call[c].proposal].decision = "approved"
           /\ proposal[call[c].proposal].invocation = "invoking"
  BY DEF IInv, InvocationsMarked, MarkedBy, OneInvocationAtATime
<1>1. ASSUME NEW c \in Calls, NEW pc, Went(c, pc), pc \notin Running PROVE FALSE
  <2>1. a # c /\ b # c
    BY <1>1 DEF Went
  <2> QED BY <1>0, <1>1, <2>1 DEF Went
<1>2. CASE call' = call
  BY <1>0, <1>2
<1>3. ASSUME NEW c \in Calls, NEW pc, Went(c, pc), call'[c].proposal = call[c].proposal,
             \A d \in Calls \ {c} : call[d].pc \in Running => call[d].proposal # call[c].proposal
      PROVE  FALSE
  <2>1. CASE a = c
    BY <1>3, <2>1 DEF Went
  <2>2. CASE b = c
    BY <1>3, <2>2 DEF Went
  <2>3. CASE a # c /\ b # c
    BY <1>0, <1>3, <2>3 DEF Went
  <2> QED BY <2>1, <2>2, <2>3
<1>4. ASSUME NEW c \in Calls, DecideStep(c, "resuming") PROVE FALSE
  <2>1. \A d \in Calls : call[d].pc \in Running => call[d].proposal # call[c].proposal
    BY <1>0, <1>4 DEF DecideStep
  <2> QED BY <1>3, <1>4, <2>1 DEF DecideStep
<1>5. ASSUME NEW c \in Calls, ClaimInvocationStep(c) PROVE FALSE
  <2>1. \A d \in Calls : call[d].pc \in Running => call[d].proposal # call[c].proposal
    BY <1>0, <1>5 DEF ClaimInvocationStep, MayInvoke
  <2> QED BY <1>3, <1>5, <2>1 DEF ClaimInvocationStep
<1>6. ASSUME NEW c \in Calls,
             RunStep(c, "resuming", "resumed") \/ RunStep(c, "invoking", "invoked")
      PROVE  FALSE
  <2>1. \A d \in Calls \ {c} : call[d].pc \in Running => call[d].proposal # call[c].proposal
    BY <1>0, <1>6 DEF RunStep, Running
  <2> QED BY <1>3, <1>6, <2>1 DEF RunStep
<1>7. CASE PassStep
  BY <1>1, <1>2, <1>7 DEF PassStep, Running
<1>8. ASSUME NEW p \in Proposals, NEW key \in HandoffKeys \cup {NoKey}, InsertStep(p, key)
      PROVE  FALSE
  BY <1>1, <1>2, <1>8 DEF InsertStep, Running
<1>9. ASSUME NEW c \in Calls,
             \/ ReadStep(c, "deciding") \/ ReadStep(c, "claiming") \/ DecideStep(c, "done")
             \/ ReportStep(c) \/ RecoverStep(c)
             \/ \E p \in Proposals : \/ ClaimOperationStep(c, p, "apply", "decided", "applying")
                                     \/ ClaimOperationStep(c, p, "rollback", "applied", "rolling_back")
             \/ MutateStep(c, "apply", "apply_ran") \/ MutateStep(c, "rollback", "rollback_ran")
             \/ CompleteStep(c, "apply", "apply_ran") \/ CompleteStep(c, "rollback", "rollback_ran")
      PROVE  FALSE
  BY <1>1, <1>2, <1>9 DEF ReadStep, DecideStep, ReportStep, ClaimOperationStep, MutateStep,
                         CompleteStep, RecoverStep, Running
<1> QED BY <1>4, <1>5, <1>6, <1>7, <1>8, <1>9 DEF Step

(* What was approved stays approved.                                       *)
LEMMA ApprovalStays ==
  ASSUME IInv, Step, NEW q \in Proposals, proposal[q].decision = "approved"
  PROVE  proposal'[q].decision = "approved"
<1>0. /\ \A c \in Calls : call[c].proposal \in Proposals /\ op[c].proposal \in Proposals
      /\ Exists(q)
  BY DEF IInv, TypeOK, CallState, Operation, RowsSound
<1>1. ASSUME NEW p \in Proposals, Rewritten(p), proposal'[p].decision = proposal[p].decision
      PROVE  proposal'[q].decision = "approved"
  BY <1>1 DEF Rewritten
<1>2. ASSUME NEW p \in Proposals, NEW key \in HandoffKeys \cup {NoKey}, InsertStep(p, key)
      PROVE  proposal'[q].decision = "approved"
  BY <1>0, <1>2 DEF InsertStep, Inserted
<1>3. ASSUME NEW c \in Calls, NEW pc, DecideStep(c, pc)
      PROVE  proposal'[q].decision = "approved"
  BY <1>3 DEF DecideStep, Rewritten
<1>4. ASSUME NEW c \in Calls, ReportStep(c) \/ ClaimInvocationStep(c)
      PROVE  proposal'[q].decision = "approved"
  BY <1>0, <1>1, <1>4 DEF ReportStep, ClaimInvocationStep, Untouched
<1>5. ASSUME NEW c \in Calls, NEW p \in Proposals, NEW type, NEW expected, NEW target,
             ClaimOperationStep(c, p, type, expected, target)
      PROVE  proposal'[q].decision = "approved"
  BY <1>1, <1>5 DEF ClaimOperationStep, Untouched
<1>6. ASSUME NEW c \in Calls, NEW type, NEW ran, CompleteStep(c, type, ran) \/ RecoverStep(c)
      PROVE  proposal'[q].decision = "approved"
  BY <1>0, <1>1, <1>6 DEF CompleteStep, RecoverStep, Untouched
<1>7. ASSUME NEW c \in Calls, NEW pc, NEW ran,
             ReadStep(c, pc) \/ RunStep(c, pc, ran) \/ MutateStep(c, pc, ran)
      PROVE  proposal'[q].decision = "approved"
  BY <1>7 DEF ReadStep, RunStep, MutateStep
<1>8. CASE PassStep
  BY <1>8 DEF PassStep
<1> QED BY <1>2, <1>3, <1>4, <1>5, <1>6, <1>7, <1>8 DEF Step

(* Most steps leave the operations alone, and lead no request to one.      *)
Operating == {"apply", "apply_ran", "rollback", "rollback_ran"}

LEMMA OwnedStep == IInv /\ TypeOK' /\ Step => OperationsOwned'
<1> SUFFICES ASSUME IInv, TypeOK', Step, NEW d \in Calls PROVE OwnedBy(d)'
  BY DEF OperationsOwned
<1>0. /\ call[d].pc = "idle" => op[d].state = "none"
      /\ call[d].pc \in {"apply", "apply_ran"} =>
           op[d].state # "none" /\ op[d].type = "apply" /\ op[d].proposal = call[d].proposal
      /\ call[d].pc \in {"rollback", "rollback_ran"} =>
           op[d].state # "none" /\ op[d].type = "rollback" /\ op[d].proposal = call[d].proposal
      /\ op[d].state # "none" =>
           op[d].type # "none" /\ proposal[op[d].proposal].decision = "approved"
      /\ \A c \in Calls : call[c].proposal \in Proposals /\ op[c].proposal \in Proposals
  BY DEF IInv, OperationsOwned, OwnedBy, Owns, TypeOK, CallState, Operation
<1>1. op[d].state # "none" => proposal'[op[d].proposal].decision = "approved"
  BY <1>0, ApprovalStays
<1>2. CASE op'[d] = op[d] /\ call'[d] = call[d]
  BY <1>0, <1>1, <1>2 DEF OwnedBy, Owns
<1>3. CASE op'[d] = op[d] /\ call'[d].pc \notin Operating \cup {"idle"}
  BY <1>0, <1>1, <1>3 DEF OwnedBy, Operating
<1>4. ASSUME op' = op, NEW c \in Calls, NEW pc, pc \notin Operating \cup {"idle"}, Went(c, pc)
      PROVE  OwnedBy(d)'
  BY <1>2, <1>3, <1>4 DEF Went
<1>5. CASE PassStep
  BY <1>2, <1>4, <1>5 DEF PassStep, Operating
<1>6. ASSUME NEW p \in Proposals, NEW key \in HandoffKeys \cup {NoKey}, InsertStep(p, key)
      PROVE  OwnedBy(d)'
  BY <1>2, <1>4, <1>6 DEF InsertStep, Operating
<1>7. ASSUME NEW c \in Calls,
             \/ ReadStep(c, "deciding") \/ ReadStep(c, "claiming")
             \/ DecideStep(c, "done") \/ DecideStep(c, "resuming")
             \/ RunStep(c, "resuming", "resumed") \/ RunStep(c, "invoking", "invoked")
             \/ ReportStep(c) \/ ClaimInvocationStep(c)
      PROVE  OwnedBy(d)'
  BY <1>4, <1>7 DEF ReadStep, DecideStep, RunStep, ReportStep, ClaimInvocationStep, Operating
<1>8. ASSUME NEW c \in Calls, NEW p \in Proposals, NEW type \in {"apply", "rollback"},
             NEW expected, NEW target, ClaimOperationStep(c, p, type, expected, target)
      PROVE  OwnedBy(d)'
  <2>1. CASE d = c
    <3>1. /\ op'[d].state = "started" /\ op'[d].type = type /\ op'[d].proposal = p
          /\ call'[d].pc = type /\ call'[d].proposal = p /\ proposal'[p].decision = "approved"
      BY <1>8, <2>1, ApprovalStays DEF ClaimOperationStep, Went
    <3> QED BY <3>1 DEF OwnedBy, Owns
  <2> QED BY <1>2, <1>8, <2>1 DEF ClaimOperationStep, Went
<1>9. ASSUME NEW c \in Calls,
             MutateStep(c, "apply", "apply_ran") \/ MutateStep(c, "rollback", "rollback_ran")
      PROVE  OwnedBy(d)'
  <2>1. CASE d = c
    <3>1. /\ op' = op /\ call'[d].proposal = call[d].proposal
          /\ \/ call[d].pc = "apply" /\ call'[d].pc = "apply_ran"
             \/ call[d].pc = "rollback" /\ call'[d].pc = "rollback_ran"
      BY <1>9, <2>1 DEF MutateStep, Went
    <3> QED BY <1>0, <1>1, <3>1 DEF OwnedBy, Owns
  <2> QED BY <1>2, <1>9, <2>1 DEF MutateStep, Went
<1>10. ASSUME NEW c \in Calls, NEW type, NEW ran, CompleteStep(c, type, ran)
       PROVE  OwnedBy(d)'
  <2>1. CASE d = c
    <3>1. /\ call'[d].pc = "done" /\ op[d].state = "started"
          /\ op'[d].type = op[d].type /\ op'[d].proposal = op[d].proposal
      BY <1>10, <2>1 DEF CompleteStep, Went
    <3> QED BY <1>0, <1>1, <3>1 DEF OwnedBy, Owns
  <2> QED BY <1>2, <1>10, <2>1 DEF CompleteStep, Went
<1>11. ASSUME NEW c \in Calls, RecoverStep(c) PROVE OwnedBy(d)'
  <2>1. CASE d = c
    <3>1. /\ call'[d] = call[d] /\ op[d].state = "started" /\ op'[d].state # "none"
          /\ op'[d].type = op[d].type /\ op'[d].proposal = op[d].proposal
      BY <1>11, <2>1 DEF RecoverStep
    <3>2. call[d].pc # "idle"
      BY <1>0, <3>1
    <3> QED BY <1>0, <1>1, <3>1, <3>2 DEF OwnedBy, Owns
  <2> QED BY <1>2, <1>11, <2>1 DEF RecoverStep
<1> QED BY <1>5, <1>6, <1>7, <1>8, <1>9, <1>10, <1>11 DEF Step

LEMMA ApartStep == IInv /\ TypeOK' /\ Step => OperationsApart'
<1> SUFFICES ASSUME IInv, Step, NEW a \in Calls, NEW b \in Calls, a # b,
                    op'[a].proposal = op'[b].proposal,
                    \/ op'[a].state = "started" /\ op'[b].state = "started"
                    \/ /\ op'[a].state # "none" /\ op'[a].type = "apply"
                       /\ op'[b].state # "none" /\ op'[b].type = "apply"
             PROVE  FALSE
  BY DEF OperationsApart
<1>0. /\ \A c, d \in Calls :
           /\ op[c].proposal = op[d].proposal
           /\ \/ op[c].state = "started" /\ op[d].state = "started"
              \/ /\ op[c].state # "none" /\ op[c].type = "apply"
                 /\ op[d].state # "none" /\ op[d].type = "apply"
           => c = d
  BY DEF IInv, OperationsApart
<1>1. CASE op' = op
  BY <1>0, <1>1
<1>2. ASSUME NEW c \in Calls, op[c].state = "started", op'[c].type = op[c].type,
             op'[c].proposal = op[c].proposal, \A d \in Calls \ {c} : op'[d] = op[d]
      PROVE  FALSE
  <2>1. ASSUME NEW d \in Calls
        PROVE  /\ op'[d].type = op[d].type /\ op'[d].proposal = op[d].proposal
               /\ op'[d].state # "none" => op[d].state # "none"
               /\ (op'[d].state = "started" /\ d # c) => op[d].state = "started"
    BY <1>2
  <2>2. /\ op[a].proposal = op[b].proposal
        /\ \/ op[a].state = "started" /\ op[b].state = "started"
           \/ /\ op[a].state # "none" /\ op[a].type = "apply"
              /\ op[b].state # "none" /\ op[b].type = "apply"
    BY <1>2, <2>1
  <2> QED BY <1>0, <2>2
<1>3. ASSUME NEW c \in Calls, NEW p \in Proposals,
             \/ ClaimOperationStep(c, p, "apply", "decided", "applying")
             \/ ClaimOperationStep(c, p, "rollback", "applied", "rolling_back")
      PROVE  FALSE
  <2>0. /\ proposal[p].state \in {"decided", "applied"}
        /\ op'[c].type = "apply" => proposal[p].state = "decided"
        /\ \A d \in Calls \ {c} : op'[d] = op[d]
        /\ op'[c].proposal = p
    BY <1>3 DEF ClaimOperationStep
  <2>1. ASSUME NEW d \in Calls, d # c, op'[d].proposal = p,
               \/ op'[d].state = "started"
               \/ op'[c].type = "apply" /\ op'[d].state # "none"
        PROVE  FALSE
    <3>1. op'[d] = op[d]
      BY <2>0, <2>1
    <3>2. op[d].proposal = p
      BY <2>1, <3>1
    <3>3. /\ op[d].state = "started" => proposal[p].state \in {"applying", "rolling_back"}
          /\ op[d].state # "none" => proposal[p].state # "decided"
      BY <3>2 DEF IInv, OperationCoupled, StateDuring, ApplyTold, ToldBy
    <3> QED BY <2>0, <2>1, <3>1, <3>3
  <2>2. CASE a = c
    BY <2>0, <2>1, <2>2
  <2>3. CASE b = c
    BY <2>0, <2>1, <2>3
  <2>4. CASE a # c /\ b # c
    BY <1>0, <2>0, <2>4
  <2> QED BY <2>2, <2>3, <2>4
<1>4. ASSUME NEW c \in Calls,
             \/ CompleteStep(c, "apply", "apply_ran") \/ CompleteStep(c, "rollback", "rollback_ran")
             \/ RecoverStep(c)
      PROVE  FALSE
  BY <1>2, <1>4 DEF CompleteStep, RecoverStep
<1> QED BY <1>1, <1>3, <1>4 DEF Step, PassStep, InsertStep, ReadStep, DecideStep, RunStep,
           ReportStep, ClaimInvocationStep, MutateStep

LEMMA CoupledStep == IInv /\ TypeOK' /\ Step => OperationCoupled'
<1> SUFFICES ASSUME IInv, Step PROVE OperationCoupled'
  OBVIOUS
<1>0. /\ \A c \in Calls : call[c].proposal \in Proposals /\ op[c].proposal \in Proposals
      /\ \A c \in Calls : op[c].state = "started" =>
           /\ proposal[op[c].proposal].state = StateDuring(op[c].type)
           /\ proposal[op[c].proposal].state \in {"applying", "rolling_back"}
           /\ proposal[op[c].proposal].decision = "approved" /\ Exists(op[c].proposal)
      /\ \A p \in Proposals : proposal[p].state \in {"applying", "rolling_back"} =>
           \E o \in Calls : op[o].state = "started" /\ op[o].proposal = p
      /\ \A p \in Proposals : proposal[p].decision = "pending" => proposal[p].state = "created"
      /\ \A c, d \in Calls : /\ op[c].proposal = op[d].proposal
                            /\ op[c].state = "started" /\ op[d].state = "started" => c = d
      /\ \A c \in Calls : call[c].pc = "idle" => op[c].state = "none"
  BY DEF IInv, TypeOK, CallState, Operation, OperationCoupled, StateDuring, OperationsOwned,
         OwnedBy, OperationsApart, RowsSound
<1>1. CASE op' = op /\ \A p \in Proposals : proposal'[p].state = proposal[p].state
  BY <1>0, <1>1 DEF OperationCoupled
(* A row that no started operation is about.                               *)
<1>2. ASSUME op' = op, NEW p \in Proposals, \A q \in Proposals \ {p} : proposal'[q] = proposal[q],
             \A c \in Calls : op[c].state = "started" => op[c].proposal # p,
             proposal'[p].state \notin {"applying", "rolling_back"}
      PROVE  OperationCoupled'
  <2>1. ASSUME NEW o \in Calls, op'[o].state = "started"
        PROVE  proposal'[op'[o].proposal].state = StateDuring(op'[o].type)
    BY <1>0, <1>2, <2>1
  <2>2. ASSUME NEW q \in Proposals, proposal'[q].state \in {"applying", "rolling_back"}
        PROVE  \E o \in Calls : op'[o].state = "started" /\ op'[o].proposal = q
    BY <1>0, <1>2, <2>2
  <2> QED BY <2>1, <2>2 DEF OperationCoupled
<1>3. ASSUME NEW p \in Proposals, NEW key \in HandoffKeys \cup {NoKey}, InsertStep(p, key)
      PROVE  OperationCoupled'
  <2>1. /\ op' = op /\ \A q \in Proposals \ {p} : proposal'[q] = proposal[q]
        /\ proposal'[p].state = "created" /\ ~Exists(p)
    BY <1>3 DEF InsertStep, Inserted
  <2> QED BY <1>0, <1>2, <2>1
<1>4. ASSUME NEW c \in Calls, DecideStep(c, "done") \/ DecideStep(c, "resuming")
      PROVE  OperationCoupled'
  <2>1. PICK p \in Proposals : p = call[c].proposal
    BY <1>0
  <2>2. /\ op' = op /\ \A q \in Proposals \ {p} : proposal'[q] = proposal[q]
        /\ proposal'[p].state = "decided" /\ proposal[p].decision = "pending"
    BY <1>4, <2>1 DEF DecideStep, Rewritten
  <2> QED BY <1>0, <1>2, <2>2
<1>5. ASSUME NEW c \in Calls, ReportStep(c) \/ ClaimInvocationStep(c) PROVE OperationCoupled'
  <2>1. PICK p \in Proposals : p = call[c].proposal
    BY <1>0
  <2>2. /\ op' = op /\ \A q \in Proposals \ {p} : proposal'[q] = proposal[q]
        /\ proposal'[p].state = proposal[p].state
    BY <1>5, <2>1 DEF ReportStep, ClaimInvocationStep, Untouched, Rewritten
  <2> QED BY <1>1, <2>2
<1>6. ASSUME NEW c \in Calls, NEW p \in Proposals,
             \/ ClaimOperationStep(c, p, "apply", "decided", "applying")
             \/ ClaimOperationStep(c, p, "rollback", "applied", "rolling_back")
      PROVE  OperationCoupled'
  <2>1. /\ op[c].state = "none" /\ \A d \in Calls \ {c} : op'[d] = op[d]
        /\ op'[c].state = "started" /\ op'[c].proposal = p
        /\ proposal'[p].state = StateDuring(op'[c].type)
        /\ proposal[p].state \in {"decided", "applied"}
        /\ \A q \in Proposals \ {p} : proposal'[q] = proposal[q]
    BY <1>0, <1>6 DEF ClaimOperationStep, Untouched, Rewritten, StateDuring
  <2>2. ASSUME NEW o \in Calls, op'[o].state = "started"
        PROVE  proposal'[op'[o].proposal].state = StateDuring(op'[o].type)
    <3>1. CASE o = c
      BY <2>1, <3>1
    <3>2. CASE o # c
      <4>1. op'[o] = op[o] /\ op[o].proposal \in Proposals
        BY <1>0, <2>1, <3>2
      <4>2. proposal[op[o].proposal].state \in {"applying", "rolling_back"}
        BY <1>0, <2>2, <4>1
      <4>3. op[o].proposal # p
        BY <2>1, <4>2
      <4> QED BY <1>0, <2>1, <2>2, <4>1, <4>3
    <3> QED BY <3>1, <3>2
  <2>3. ASSUME NEW q \in Proposals, proposal'[q].state \in {"applying", "rolling_back"}
        PROVE  \E o \in Calls : op'[o].state = "started" /\ op'[o].proposal = q
    <3>1. CASE q = p
      BY <2>1, <3>1
    <3>2. CASE q # p
      <4>1. PICK o \in Calls : op[o].state = "started" /\ op[o].proposal = q
        BY <1>0, <2>1, <2>3, <3>2
      <4> QED BY <2>1, <4>1
    <3> QED BY <3>1, <3>2
  <2> QED BY <2>2, <2>3 DEF OperationCoupled
(* The one started operation of its proposal ends, and so does its state.  *)
<1>7. ASSUME NEW c \in Calls, NEW p \in Proposals, p = op[c].proposal, op[c].state = "started",
             op'[c].state # "started", \A d \in Calls \ {c} : op'[d] = op[d],
             \A q \in Proposals \ {p} : proposal'[q] = proposal[q],
             proposal'[p].state \notin {"applying", "rolling_back"}
      PROVE  OperationCoupled'
  <2>1. ASSUME NEW o \in Calls, op'[o].state = "started"
        PROVE  proposal'[op'[o].proposal].state = StateDuring(op'[o].type)
    <3>1. o # c /\ op'[o] = op[o] /\ op[o].state = "started" /\ op[o].proposal \in Proposals
      BY <1>0, <1>7, <2>1
    <3>2. op[o].proposal # p
      BY <1>0, <1>7, <3>1
    <3> QED BY <1>0, <1>7, <3>1, <3>2
  <2>2. ASSUME NEW q \in Proposals, proposal'[q].state \in {"applying", "rolling_back"}
        PROVE  \E o \in Calls : op'[o].state = "started" /\ op'[o].proposal = q
    <3>1. q # p /\ proposal[q].state \in {"applying", "rolling_back"}
      BY <1>7, <2>2
    <3>2. PICK o \in Calls : op[o].state = "started" /\ op[o].proposal = q
      BY <1>0, <3>1
    <3> QED BY <1>7, <3>1, <3>2
  <2> QED BY <2>1, <2>2 DEF OperationCoupled
<1>8. ASSUME NEW c \in Calls, NEW type \in {"apply", "rollback"}, NEW ran, CompleteStep(c, type, ran)
      PROVE  OperationCoupled'
  <2>1. PICK p \in Proposals : p = op[c].proposal
    BY <1>0
  <2>2. /\ op[c].state = "started" /\ op'[c].state # "started"
        /\ \A d \in Calls \ {c} : op'[d] = op[d]
        /\ \A q \in Proposals \ {p} : proposal'[q] = proposal[q]
        /\ proposal'[p].state \notin {"applying", "rolling_back"}
    BY <1>8, <2>1 DEF CompleteStep, Untouched, Rewritten, Terminal, Left
  <2> QED BY <1>7, <2>1, <2>2
<1>9. ASSUME NEW c \in Calls, RecoverStep(c) PROVE OperationCoupled'
  <2>1. PICK p \in Proposals : p = op[c].proposal
    BY <1>0
  <2>2. /\ op[c].state = "started" /\ op'[c].state # "started"
        /\ \A d \in Calls \ {c} : op'[d] = op[d]
        /\ \A q \in Proposals \ {p} : proposal'[q] = proposal[q]
        /\ proposal'[p].state \notin {"applying", "rolling_back"}
    BY <1>9, <2>1 DEF RecoverStep, Untouched, Rewritten
  <2> QED BY <1>7, <2>1, <2>2
<1>10. CASE UNCHANGED <<proposal, op>>
  BY <1>1, <1>10
<1>11. CASE PassStep
  BY <1>10, <1>11 DEF PassStep
<1>12. ASSUME NEW c \in Calls, NEW pc, NEW ran,
              ReadStep(c, pc) \/ RunStep(c, pc, ran) \/ MutateStep(c, pc, ran)
       PROVE  OperationCoupled'
  BY <1>10, <1>12 DEF ReadStep, RunStep, MutateStep
<1> QED BY <1>3, <1>4, <1>5, <1>6, <1>8, <1>9, <1>11, <1>12 DEF Step

LEMMA ToldStep == IInv /\ TypeOK' /\ Step => ApplyTold'
<1> SUFFICES ASSUME IInv, TypeOK', Step, NEW d \in Calls PROVE ToldBy(d)'
  BY DEF ApplyTold
<1>1. PICK q \in Proposals, r \in Proposals : q = call[d].proposal /\ r = op[d].proposal
  BY DEF IInv, TypeOK, CallState, Operation
<1>2. /\ \A c \in Calls : call[c].proposal \in Proposals /\ op[c].proposal \in Proposals
      /\ op[d].state # "none" =>
           /\ proposal[r].state # "decided" /\ proposal[r].decision = "approved" /\ Exists(r)
      /\ call[d].pc \in {"apply", "apply_ran"} =>
           /\ proposal[q].state \in {"applying", "outcome_unknown"}
           /\ op[d].state # "none" /\ op[d].type = "apply" /\ r = q
      /\ call[d].pc = "apply" => runs[q].apply = 0
      /\ call[d].pc = "apply_ran" /\ call[d].result # "failed" => runs[q].apply = 1
      /\ \A p \in Proposals : runs[p].apply \in Nat
  BY <1>1 DEF IInv, ApplyTold, ToldBy, OperationsOwned, OwnedBy, Owns, TypeOK, CallState,
              Operation, RowsSound
(* The parts of ToldBy.                                                    *)
<1>3. ASSUME op'[d] = op[d], op[d].state # "none" => proposal'[r].state # "decided",
             \/ call'[d].pc \notin {"apply", "apply_ran"}
             \/ /\ call'[d] = call[d]
                /\ call[d].pc \in {"apply", "apply_ran"} =>
                     /\ proposal'[q].state \in {"applying", "outcome_unknown"}
                     /\ runs'[q].apply = runs[q].apply
      PROVE  ToldBy(d)'
  BY <1>1, <1>2, <1>3 DEF ToldBy
<1>4. ASSUME op'[d] = op[d],
             \/ call'[d] = call[d]
             \/ call'[d].pc \notin {"apply", "apply_ran"},
             proposal'[r].state = proposal[r].state, proposal'[q].state = proposal[q].state,
             runs'[q].apply = runs[q].apply
      PROVE  ToldBy(d)'
  BY <1>2, <1>3, <1>4
<1>5. CASE PassStep
  BY <1>4, <1>5 DEF PassStep, Went
<1>6. ASSUME NEW p \in Proposals, NEW key \in HandoffKeys \cup {NoKey}, InsertStep(p, key)
      PROVE  ToldBy(d)'
  <2>1. /\ op' = op /\ runs' = runs /\ ~Exists(p)
        /\ call'[d] = call[d] \/ call'[d].pc = "done"
        /\ \A s \in Proposals \ {p} : proposal'[s] = proposal[s]
    BY <1>6 DEF InsertStep, Inserted, Went
  <2>2. op[d].state # "none" => proposal'[r] = proposal[r]
    BY <1>2, <2>1
  <2> QED BY <1>2, <1>3, <2>1, <2>2
<1>7. ASSUME NEW c \in Calls, ReadStep(c, "deciding") \/ ReadStep(c, "claiming")
      PROVE  ToldBy(d)'
  BY <1>4, <1>7 DEF ReadStep, Went
<1>8. ASSUME NEW c \in Calls, DecideStep(c, "done") \/ DecideStep(c, "resuming")
      PROVE  ToldBy(d)'
  <2>1. PICK p \in Proposals : p = call[c].proposal
    BY <1>2
  <2>2. /\ op' = op /\ runs' = runs /\ proposal[p].decision = "pending"
        /\ call'[d] = call[d] \/ call'[d].pc \in {"done", "resuming"}
        /\ \A s \in Proposals \ {p} : proposal'[s] = proposal[s]
    BY <1>8, <2>1 DEF DecideStep, Rewritten, Went
  <2>3. op[d].state # "none" => proposal'[r] = proposal[r]
    BY <1>2, <2>2
  <2> QED BY <1>2, <1>3, <2>2, <2>3
<1>9. ASSUME NEW c \in Calls,
             RunStep(c, "resuming", "resumed") \/ RunStep(c, "invoking", "invoked")
      PROVE  ToldBy(d)'
  <2>1. runs'[q].apply = runs[q].apply
    BY <1>2, <1>9 DEF RunStep, Ran
  <2> QED BY <1>4, <1>9, <2>1 DEF RunStep, Went
<1>10. ASSUME NEW c \in Calls, ReportStep(c) \/ ClaimInvocationStep(c) PROVE ToldBy(d)'
  <2>1. PICK p \in Proposals : p = call[c].proposal
    BY <1>2
  <2>2. \A s \in Proposals : proposal'[s].state = proposal[s].state
    BY <1>10, <2>1 DEF ReportStep, ClaimInvocationStep, Untouched, Rewritten
  <2>3. op' = op /\ runs' = runs /\ (call'[d] = call[d] \/ call'[d].pc \in {"done", "invoking"})
    BY <1>10 DEF ReportStep, ClaimInvocationStep, Went
  <2> QED BY <1>4, <2>2, <2>3
<1>11. ASSUME NEW c \in Calls, NEW p \in Proposals,
              \/ ClaimOperationStep(c, p, "apply", "decided", "applying")
              \/ ClaimOperationStep(c, p, "rollback", "applied", "rolling_back")
       PROVE  ToldBy(d)'
  <2>1. /\ runs' = runs /\ proposal[p].state \in {"decided", "applied"}
        /\ proposal'[p].state \in {"applying", "rolling_back"}
        /\ \A s \in Proposals \ {p} : proposal'[s] = proposal[s]
    BY <1>11 DEF ClaimOperationStep, Untouched, Rewritten
  <2>2. CASE d = c
    <3>1. /\ op'[d].proposal = p /\ call'[d].proposal = p
          /\ \/ /\ call'[d].pc = "apply" /\ proposal'[p].state = "applying"
                /\ proposal[p].state = "decided"
             \/ call'[d].pc = "rollback"
      BY <1>11, <2>2 DEF ClaimOperationStep, Went
    <3>2. proposal[p].state = "decided" => runs[p].apply = 0
      BY DEF IInv, StateTellsRuns
    <3> QED BY <2>1, <3>1, <3>2 DEF ToldBy
  <2>3. CASE d # c
    <3>1. op'[d] = op[d] /\ call'[d] = call[d]
      BY <1>11, <2>3 DEF ClaimOperationStep, Went
    <3>2. op[d].state # "none" => proposal'[r].state # "decided"
      BY <1>2, <2>1
    <3>3. call[d].pc \in {"apply", "apply_ran"} => proposal'[q] = proposal[q]
      BY <1>2, <2>1
    <3> QED BY <1>2, <1>3, <2>1, <3>1, <3>2, <3>3
  <2> QED BY <2>2, <2>3
<1>12. ASSUME NEW c \in Calls, MutateStep(c, "apply", "apply_ran") PROVE ToldBy(d)'
  <2>1. CASE d = c
    <3>1. /\ op' = op /\ proposal' = proposal /\ call[d].pc = "apply"
          /\ call'[d].pc = "apply_ran" /\ call'[d].proposal = q
          /\ call'[d].result # "failed" => runs'[q].apply = runs[q].apply + 1
      BY <1>1, <1>12, <2>1 DEF MutateStep, Went, Ran
    <3> QED BY <1>1, <1>2, <3>1 DEF ToldBy
  <2>2. CASE d # c
    <3>1. op' = op /\ proposal' = proposal /\ call'[d] = call[d] /\ call[c].pc = "apply"
      BY <1>12, <2>2 DEF MutateStep, Went
    <3>2. call[d].pc \in {"apply", "apply_ran"} => call[c].proposal # q
      <4>1. op[c].state # "none" /\ op[c].type = "apply" /\ op[c].proposal = call[c].proposal
        BY <3>1 DEF IInv, OperationsOwned, OwnedBy, Owns
      <4>2. call[d].pc \in {"apply", "apply_ran"} =>
              op[d].state # "none" /\ op[d].type = "apply" /\ op[d].proposal = q
        BY <1>1, <1>2
      <4> QED BY <2>2, <4>1, <4>2 DEF IInv, OperationsApart
    <3>3. call[d].pc \in {"apply", "apply_ran"} => runs'[q].apply = runs[q].apply
      BY <1>2, <1>12, <3>2 DEF MutateStep, Ran
    <3> QED BY <1>2, <1>3, <3>1, <3>3
  <2> QED BY <2>1, <2>2
<1>13. ASSUME NEW c \in Calls, MutateStep(c, "rollback", "rollback_ran") PROVE ToldBy(d)'
  <2>1. runs'[q].apply = runs[q].apply
    BY <1>2, <1>13 DEF MutateStep, Ran
  <2> QED BY <1>4, <1>13, <2>1 DEF MutateStep, Went
(* An operation that ends: the proposal is not another request's to apply. *)
<1>14. ASSUME NEW c \in Calls, NEW p \in Proposals, p = op[c].proposal, op[c].state = "started",
              op'[c].proposal = p, \A b \in Calls \ {c} : op'[b] = op[b], runs' = runs,
              \A s \in Proposals \ {p} : proposal'[s] = proposal[s],
              proposal'[p].state # "decided",
              \/ call'[d] = call[d] /\ proposal'[p].state = "outcome_unknown"
              \/ call'[d] = call[d] /\ d # c
              \/ call'[d].pc = "done" /\ d = c
       PROVE  ToldBy(d)'
  <2>1. op'[d].proposal = r /\ (d # c => op'[d] = op[d]) /\ (d = c => r = p)
    BY <1>1, <1>14
  <2>2. op'[d].state # "none" => proposal'[r].state # "decided"
    BY <1>2, <1>14, <2>1
  <2>3. ASSUME d # c, call[d].pc \in {"apply", "apply_ran"} PROVE q # p
    <3>1. proposal[p].state = StateDuring(op[c].type)
      BY <1>14 DEF IInv, OperationCoupled
    <3>2. op[d].state # "none" /\ op[d].type = "apply" /\ op[d].proposal = q
      BY <1>1, <1>2, <2>3
    <3>3. CASE op[c].type = "apply"
      BY <1>14, <2>3, <3>2, <3>3 DEF IInv, OperationsApart
    <3>4. CASE op[c].type # "apply"
      BY <1>2, <2>3, <3>1, <3>4 DEF StateDuring
    <3> QED BY <3>3, <3>4
  <2>4. call'[d].pc \in {"apply", "apply_ran"} =>
          /\ call'[d] = call[d] /\ proposal'[q].state \in {"applying", "outcome_unknown"}
    BY <1>2, <1>14, <2>1, <2>3
  <2> QED BY <1>1, <1>2, <1>14, <2>1, <2>2, <2>4 DEF ToldBy
<1>15. ASSUME NEW c \in Calls, NEW type \in {"apply", "rollback"}, NEW ran, CompleteStep(c, type, ran)
       PROVE  ToldBy(d)'
  <2>1. PICK p \in Proposals : p = op[c].proposal
    BY <1>2
  <2> QED BY <1>14, <1>15, <2>1 DEF CompleteStep, Untouched, Rewritten, Left, Went
<1>16. ASSUME NEW c \in Calls, RecoverStep(c) PROVE ToldBy(d)'
  <2>1. PICK p \in Proposals : p = op[c].proposal
    BY <1>2
  <2> QED BY <1>14, <1>16, <2>1 DEF RecoverStep, Untouched, Rewritten
<1> QED BY <1>5, <1>6, <1>7, <1>8, <1>9, <1>10, <1>11, <1>12, <1>13, <1>15, <1>16 DEF Step

LEMMA TellsStep == IInv /\ TypeOK' /\ Step => StateTellsRuns'
<1> DEFINE Tells(q) ==
      /\ proposal[q].state \in {"created", "decided"} => runs[q].apply = 0
      /\ proposal[q].state \in {"applied", "rolling_back", "rolled_back", "rollback_failed"} =>
           runs[q].apply = 1
<1> SUFFICES ASSUME IInv, Step, NEW q \in Proposals PROVE Tells(q)'
  BY DEF StateTellsRuns
<1>0. /\ \A c \in Calls : call[c].proposal \in Proposals /\ op[c].proposal \in Proposals
      /\ proposal[q].state \in {"created", "decided"} => runs[q].apply = 0
      /\ proposal[q].state \in {"applied", "rolling_back", "rolled_back", "rollback_failed"} =>
           runs[q].apply = 1
      /\ proposal[q].decision = "pending" => proposal[q].state = "created"
      /\ proposal[q].decision # "pending" => Exists(q)
      /\ runs[q].apply \in Nat
  BY DEF IInv, TypeOK, CallState, Operation, StateTellsRuns, RowsSound
<1>1. CASE proposal'[q].state = proposal[q].state /\ runs'[q].apply = runs[q].apply
  BY <1>0, <1>1
<1>2. CASE PassStep
  BY <1>1, <1>2 DEF PassStep
<1>3. ASSUME NEW p \in Proposals, NEW key \in HandoffKeys \cup {NoKey}, InsertStep(p, key)
      PROVE  Tells(q)'
  <2>1. CASE q = p
    BY <1>0, <1>3, <2>1 DEF InsertStep, Inserted
  <2> QED BY <1>1, <1>3, <2>1 DEF InsertStep, Inserted
<1>4. ASSUME NEW c \in Calls, ReadStep(c, "deciding") \/ ReadStep(c, "claiming")
      PROVE  Tells(q)'
  BY <1>1, <1>4 DEF ReadStep
<1>5. ASSUME NEW c \in Calls, DecideStep(c, "done") \/ DecideStep(c, "resuming")
      PROVE  Tells(q)'
  <2>1. CASE q = call[c].proposal
    BY <1>0, <1>5, <2>1 DEF DecideStep
  <2> QED BY <1>1, <1>5, <2>1 DEF DecideStep, Rewritten
<1>6. ASSUME NEW c \in Calls,
             RunStep(c, "resuming", "resumed") \/ RunStep(c, "invoking", "invoked")
      PROVE  Tells(q)'
  <2>1. runs'[q].apply = runs[q].apply
    BY <1>0, <1>6 DEF RunStep, Ran
  <2> QED BY <1>1, <1>6, <2>1 DEF RunStep
<1>7. ASSUME NEW c \in Calls, ReportStep(c) \/ ClaimInvocationStep(c) PROVE Tells(q)'
  <2>1. CASE q = call[c].proposal
    BY <1>1, <1>7, <2>1 DEF ReportStep, ClaimInvocationStep
  <2> QED BY <1>1, <1>7, <2>1 DEF ReportStep, ClaimInvocationStep, Untouched, Rewritten
<1>8. ASSUME NEW c \in Calls, NEW p \in Proposals,
             \/ ClaimOperationStep(c, p, "apply", "decided", "applying")
             \/ ClaimOperationStep(c, p, "rollback", "applied", "rolling_back")
      PROVE  Tells(q)'
  <2>1. CASE q = p
    BY <1>0, <1>8, <2>1 DEF ClaimOperationStep
  <2> QED BY <1>1, <1>8, <2>1 DEF ClaimOperationStep, Untouched, Rewritten
<1>9. ASSUME NEW c \in Calls, MutateStep(c, "apply", "apply_ran") PROVE Tells(q)'
  <2>1. CASE q = call[c].proposal
    <3>1. proposal[q].state \in {"applying", "outcome_unknown"} /\ proposal' = proposal
      BY <1>9, <2>1 DEF MutateStep, IInv, ApplyTold, ToldBy
    <3> QED BY <3>1
  <2>2. CASE q # call[c].proposal
    <3>1. proposal' = proposal /\ runs'[q].apply = runs[q].apply
      BY <1>0, <1>9, <2>2 DEF MutateStep, Ran
    <3> QED BY <1>1, <3>1
  <2> QED BY <2>1, <2>2
<1>10. ASSUME NEW c \in Calls, MutateStep(c, "rollback", "rollback_ran") PROVE Tells(q)'
  <2>1. proposal' = proposal /\ runs'[q].apply = runs[q].apply
    BY <1>0, <1>10 DEF MutateStep, Ran
  <2> QED BY <1>1, <2>1
<1>11. ASSUME NEW c \in Calls, CompleteStep(c, "apply", "apply_ran") PROVE Tells(q)'
  <2>1. CASE q = call[c].proposal
    <3>1. /\ proposal'[q].state \in {"applied", "apply_failed"} /\ runs' = runs
          /\ proposal'[q].state = "applied" => call[c].result # "failed"
          /\ call[c].pc = "apply_ran"
      BY <1>11, <2>1 DEF CompleteStep, Left
    <3>2. call[c].result # "failed" => runs[q].apply = 1
      BY <2>1, <3>1 DEF IInv, ApplyTold, ToldBy
    <3> QED BY <3>1, <3>2
  <2> QED BY <1>1, <1>11, <2>1 DEF CompleteStep, Untouched, Rewritten
<1>12. ASSUME NEW c \in Calls, CompleteStep(c, "rollback", "rollback_ran") PROVE Tells(q)'
  <2>1. CASE q = call[c].proposal
    <3>1. /\ proposal'[q].state \in {"rolled_back", "rollback_failed"} /\ runs' = runs
          /\ op[c].state = "started" /\ op[c].type = "rollback" /\ op[c].proposal = q
      BY <1>12, <2>1 DEF CompleteStep, Left
    <3>2. proposal[q].state = "rolling_back"
      BY <3>1 DEF IInv, OperationCoupled, StateDuring
    <3> QED BY <1>0, <3>1, <3>2
  <2> QED BY <1>1, <1>12, <2>1 DEF CompleteStep, Untouched, Rewritten
<1>13. ASSUME NEW c \in Calls, RecoverStep(c) PROVE Tells(q)'
  <2>1. CASE q = op[c].proposal
    BY <1>13, <2>1 DEF RecoverStep
  <2> QED BY <1>1, <1>13, <2>1 DEF RecoverStep, Untouched, Rewritten
<1> QED BY <1>2, <1>3, <1>4, <1>5, <1>6, <1>7, <1>8, <1>9, <1>10, <1>11, <1>12, <1>13 DEF Step

LEMMA InitHolds == Init => IInv
<1> SUFFICES ASSUME Init PROVE IInv
  OBVIOUS
<1>1. TypeOK
  BY NewTyped DEF Init, TypeOK
<1>2. \A p \in Proposals :
        /\ proposal[p].decision = "pending" /\ proposal[p].state = "created"
        /\ proposal[p].invocation = "not_invoked" /\ proposal[p].attempts = 0
        /\ proposal[p].key = NoKey /\ proposal[p].max = 1
        /\ runs[p].apply = 0 /\ runs[p].invoke = 0
  BY DEF Init, NoProposal
<1>3. \A c \in Calls : call[c].pc = "idle" /\ op[c].state = "none"
  BY DEF Init, NewCall, NoOperation
<1>4. RowsHeld /\ InvocationsMarked /\ OneInvocationAtATime
  BY <1>3 DEF RowsHeld, HeldBy, Holding, InvocationsMarked, MarkedBy, Running, OneInvocationAtATime
<1>5. RowsSound /\ StateTellsRuns /\ OnePendingPerKey
  BY <1>2 DEF RowsSound, StateTellsRuns, OnePendingPerKey
<1>6. OperationsOwned /\ OperationsApart /\ OperationCoupled /\ ApplyTold
  BY <1>2, <1>3 DEF OperationsOwned, OwnedBy, OperationsApart, OperationCoupled, ApplyTold, ToldBy
<1> QED BY <1>1, <1>4, <1>5, <1>6 DEF IInv

-----------------------------------------------------------------------------
(* The governance invariant is inductive: it holds at the start, and every *)
(* transaction, every tool run and every death of a request keeps it.      *)
THEOREM GovernanceInvariant == Spec => []IInv
<1>1. Init => IInv
  BY InitHolds
<1>2. IInv /\ [Next]_vars => IInv'
  <2> SUFFICES ASSUME IInv, [Next]_vars PROVE IInv'
    OBVIOUS
  <2>1. TypeOK' /\ Step
    BY TypeStep, StepCases
  <2> QED BY <2>1, SoundStep, HeldStep, PendingStep, MarkedStep, AtATimeStep, OwnedStep,
             ApartStep, CoupledStep, ToldStep, TellsStep DEF IInv
<1> QED BY <1>1, <1>2, PTL DEF Spec

(* Rows, operations, requests and counts keep their types.                 *)
THEOREM GovernanceTypes == Spec => []TypeOK
<1>1. IInv => TypeOK
  BY DEF IInv
<1> QED BY <1>1, GovernanceInvariant, PTL

(* The coupling complete_operation relies on when it overwrites the state. *)
THEOREM OperationsCoupled == Spec => []OperationCoupled
<1>1. IInv => OperationCoupled
  BY DEF IInv
<1> QED BY <1>1, GovernanceInvariant, PTL

(* A compare-and-set on the revision alone loses no concurrent write.      *)
THEOREM VersionsIdentify == Spec => []VersionIdentifiesRow
<1>1. IInv => VersionIdentifiesRow
  BY DEF IInv, RowsHeld, HeldBy, Fresh, VersionIdentifiesRow
<1> QED BY <1>1, GovernanceInvariant, PTL

(* An approved action is invoked by one request at a time.                 *)
THEOREM InvocationsExclusive == Spec => []OneInvocationAtATime
<1>1. IInv => OneInvocationAtATime
  BY DEF IInv
<1> QED BY <1>1, GovernanceInvariant, PTL

(* A checkpoint key has one pending proposal at most.                      *)
THEOREM PendingUnique == Spec => []OnePendingPerKey
<1>1. IInv => OnePendingPerKey
  BY DEF IInv
<1> QED BY <1>1, GovernanceInvariant, PTL

(* The state of a proposal tells whether its mutation ran.                 *)
THEOREM StateHonest == Spec => []StateTellsRuns
<1>1. IInv => StateTellsRuns
  BY DEF IInv
<1> QED BY <1>1, GovernanceInvariant, PTL

(* What a terminal operation recorded is never rewritten.                  *)
THEOREM OutcomesFinal == Spec => OutcomeFinal
<1>1. IInv /\ [Next]_vars => [\A o \in Calls : op[o].state \in Terminal => op'[o] = op[o]]_vars
  <2> SUFFICES ASSUME IInv, [Next]_vars, NEW o \in Calls, op[o].state \in Terminal
               PROVE  op'[o] = op[o]
    OBVIOUS
  <2>1. Step
    BY StepCases
  <2>2. \A c \in Calls : call[c].pc = "idle" => op[c].state = "none"
    BY DEF IInv, OperationsOwned, OwnedBy
  <2>3. ASSUME NEW c \in Calls, op[c].state \in {"none", "started"},
               \A d \in Calls \ {c} : op'[d] = op[d]
        PROVE  op'[o] = op[o]
    BY <2>3 DEF Terminal
  <2>4. CASE op' = op
    BY <2>4
  <2>5. ASSUME NEW c \in Calls, NEW p \in Proposals, NEW type, NEW expected, NEW target,
               ClaimOperationStep(c, p, type, expected, target)
        PROVE  op'[o] = op[o]
    BY <2>2, <2>3, <2>5 DEF ClaimOperationStep
  <2>6. ASSUME NEW c \in Calls, NEW type, NEW ran, CompleteStep(c, type, ran) \/ RecoverStep(c)
        PROVE  op'[o] = op[o]
    BY <2>3, <2>6 DEF CompleteStep, RecoverStep
  <2>7. ASSUME NEW c \in Calls, NEW pc, NEW ran,
               \/ ReadStep(c, pc) \/ DecideStep(c, pc) \/ RunStep(c, pc, ran) \/ ReportStep(c)
               \/ ClaimInvocationStep(c) \/ MutateStep(c, pc, ran)
        PROVE  op'[o] = op[o]
    BY <2>4, <2>7 DEF ReadStep, DecideStep, RunStep, ReportStep, ClaimInvocationStep, MutateStep
  <2>8. ASSUME NEW p \in Proposals, NEW key \in HandoffKeys \cup {NoKey}, InsertStep(p, key)
        PROVE  op'[o] = op[o]
    BY <2>4, <2>8 DEF InsertStep
  <2> QED BY <2>1, <2>4, <2>5, <2>6, <2>7, <2>8 DEF Step, PassStep
<1> QED BY <1>1, GovernanceInvariant, PTL DEF Spec, OutcomeFinal

-----------------------------------------------------------------------------
(* The life of an approved action, as its documents promise it *)

(* A step that decides nothing, inserts nothing and runs nothing.          *)
LEMMA LifeStutters ==
  ASSUME \A p \in Proposals : /\ Exists(p)' = Exists(p)
                              /\ proposal'[p].decision = proposal[p].decision
                              /\ proposal'[p].max = proposal[p].max
                              /\ runs'[p].apply = runs[p].apply
                              /\ runs'[p].invoke = runs[p].invoke
  PROVE  UNCHANGED Life!vars
BY DEF Life!vars

LEMMA LifeRewritten ==
  ASSUME IInv, NEW p \in Proposals, Untouched(p), Exists(p),
         \A q \in Proposals : /\ runs'[q].apply = runs[q].apply
                              /\ runs'[q].invoke = runs[q].invoke
  PROVE  UNCHANGED Life!vars
<1>1. /\ \A q \in Proposals : proposal[q].revision \in Nat
      /\ \A q \in Proposals \ {p} : proposal'[q] = proposal[q]
      /\ proposal'[p].revision = proposal[p].revision + 1
      /\ proposal'[p].decision = proposal[p].decision /\ proposal'[p].max = proposal[p].max
  BY DEF IInv, TypeOK, Proposal, Untouched, Rewritten
<1> QED BY <1>1, LifeStutters DEF Exists

LEMMA LifeStep == IInv /\ TypeOK' /\ Step => [Life!Next]_(Life!vars)
<1> SUFFICES ASSUME IInv, TypeOK', Step PROVE Life!Next \/ UNCHANGED Life!vars
  BY DEF Life!vars
<1>0. /\ \A c \in Calls : call[c].proposal \in Proposals /\ op[c].proposal \in Proposals
      /\ \A p \in Proposals :
           /\ proposal[p].revision \in Nat /\ proposal[p].max \in Nat
           /\ runs[p].apply \in Nat /\ runs[p].invoke \in Nat /\ proposal[p].attempts \in Nat
           /\ proposal[p].decision # "pending" => Exists(p)
           /\ proposal[p].attempts <= proposal[p].max
      /\ \A c \in Calls : op[c].state # "none" => proposal[op[c].proposal].decision = "approved"
      /\ \A c \in Calls : call[c].pc \in Running =>
           proposal[call[c].proposal].decision = "approved"
  BY DEF IInv, TypeOK, CallState, Operation, Proposal, RowsSound, OperationsOwned, OwnedBy,
         InvocationsMarked, MarkedBy
<1>1. CASE UNCHANGED <<proposal, runs>>
  BY <1>1 DEF Life!vars, Exists
<1>2. CASE PassStep
  BY <1>1, <1>2 DEF PassStep
<1>3. ASSUME NEW p \in Proposals, NEW key \in HandoffKeys \cup {NoKey}, InsertStep(p, key)
      PROVE  Life!Submit(p)
  <2>1. /\ runs' = runs /\ ~Exists(p) /\ Exists(p)' /\ proposal'[p].decision = "pending"
        /\ proposal'[p].max \in Nat \ {0}
        /\ \A q \in Proposals \ {p} : proposal'[q] = proposal[q]
    BY <1>3 DEF InsertStep, Inserted, Exists
  <2>2. \A q \in Proposals \ {p} : Exists(q)' = Exists(q)
    BY <2>1 DEF Exists
  <2> QED BY <2>1, <2>2 DEF Life!Submit
<1>4. ASSUME NEW c \in Calls, ReadStep(c, "deciding") \/ ReadStep(c, "claiming")
      PROVE  UNCHANGED Life!vars
  BY <1>1, <1>4 DEF ReadStep, Life!vars, Exists
<1>5. ASSUME NEW c \in Calls, DecideStep(c, "done") \/ DecideStep(c, "resuming")
      PROVE  \E p \in Proposals : Life!Decide(p)
  <2>1. PICK p \in Proposals : p = call[c].proposal
    BY <1>0
  <2>2. /\ runs' = runs /\ Exists(p) /\ proposal[p].decision = "pending"
        /\ proposal'[p].decision \in {"approved", "rejected"}
        /\ \A q \in Proposals \ {p} : proposal'[q] = proposal[q]
        /\ proposal'[p].max = proposal[p].max
        /\ proposal'[p].revision = proposal[p].revision + 1
    BY <1>5, <2>1 DEF DecideStep, Rewritten
  <2>3. Exists(p)' /\ \A q \in Proposals \ {p} : Exists(q)' = Exists(q)
    BY <1>0, <2>2 DEF Exists
  <2>4. PICK v \in {"approved", "rejected"} : v = proposal'[p].decision
    BY <2>2
  <2>5. Life!Decide(p)
    BY <2>2, <2>3, <2>4 DEF Life!Decide
  <2> QED BY <2>5
<1>6. ASSUME NEW c \in Calls,
             RunStep(c, "resuming", "resumed") \/ RunStep(c, "invoking", "invoked")
      PROVE  UNCHANGED Life!vars \/ \E p \in Proposals : Life!Invoke(p)
  <2>1. PICK p \in Proposals : p = call[c].proposal
    BY <1>0
  <2>2. /\ Exists(p) /\ proposal[p].decision = "approved" /\ runs[p].invoke < proposal[p].max
        /\ proposal' = proposal
    <3>1. call[c].pc \in {"resuming", "invoking"} /\ proposal' = proposal
      BY <1>6 DEF RunStep
    <3>2. runs[p].invoke < proposal[p].attempts
      BY <2>1, <3>1 DEF IInv, InvocationsMarked, MarkedBy
    <3> QED BY <1>0, <2>1, <3>1, <3>2 DEF Running
  <2>3. CASE UNCHANGED runs
    BY <2>2, <2>3 DEF Life!vars, Exists
  <2>4. CASE Ran(p, 1, 0)
    <3>1. \A q \in Proposals : /\ runs'[q].apply = runs[q].apply
                              /\ runs'[q].invoke = runs[q].invoke + (IF q = p THEN 1 ELSE 0)
      BY <1>0, <2>4 DEF Ran
    <3>2. \A q \in Proposals : runs'[q].invoke = IF q = p THEN runs[q].invoke + 1 ELSE runs[q].invoke
      BY <1>0, <3>1
    <3>3. Life!Invoke(p)
      BY <2>2, <3>1, <3>2 DEF Life!Invoke, Exists
    <3> QED BY <3>3
  <2> QED BY <1>6, <2>1, <2>3, <2>4 DEF RunStep
<1>7. ASSUME NEW c \in Calls, ReportStep(c) PROVE UNCHANGED Life!vars
  BY <1>0, <1>7, LifeRewritten DEF ReportStep, Running
<1>8. ASSUME NEW c \in Calls, ClaimInvocationStep(c) PROVE UNCHANGED Life!vars
  <2>1. PICK p \in Proposals : p = call[c].proposal
    BY <1>0
  <2>2. /\ runs' = runs /\ Exists(p) /\ proposal'[p].decision = proposal[p].decision
        /\ proposal'[p].max = proposal[p].max
        /\ proposal'[p].revision = proposal[p].revision + 1
        /\ \A q \in Proposals \ {p} : proposal'[q] = proposal[q]
    BY <1>0, <1>8, <2>1 DEF ClaimInvocationStep, MayInvoke, Rewritten
  <2>3. \A q \in Proposals : Exists(q)' = Exists(q)
    BY <1>0, <2>2 DEF Exists
  <2> QED BY <2>2, <2>3, LifeStutters
<1>9. ASSUME NEW c \in Calls, NEW p \in Proposals, NEW type, NEW expected, NEW target,
             ClaimOperationStep(c, p, type, expected, target)
      PROVE  UNCHANGED Life!vars
  BY <1>0, <1>9, LifeRewritten DEF ClaimOperationStep
<1>10. ASSUME NEW c \in Calls, MutateStep(c, "apply", "apply_ran")
       PROVE  UNCHANGED Life!vars \/ \E p \in Proposals : Life!Apply(p)
  <2>1. PICK p \in Proposals : p = call[c].proposal
    BY <1>0
  <2>2. /\ Exists(p) /\ proposal[p].decision = "approved" /\ runs[p].apply = 0
        /\ proposal' = proposal
    <3>1. call[c].pc = "apply" /\ proposal' = proposal
      BY <1>10 DEF MutateStep
    <3>2. runs[p].apply = 0 /\ op[c].state # "none" /\ op[c].proposal = p
      BY <2>1, <3>1 DEF IInv, ApplyTold, ToldBy, OperationsOwned, OwnedBy, Owns
    <3> QED BY <1>0, <3>1, <3>2
  <2>3. CASE UNCHANGED runs
    BY <2>2, <2>3 DEF Life!vars, Exists
  <2>4. CASE Ran(p, 0, 1)
    <3>1. \A q \in Proposals : /\ runs'[q].invoke = runs[q].invoke
                              /\ runs'[q].apply = IF q = p THEN 1 ELSE runs[q].apply
      BY <1>0, <2>2, <2>4 DEF Ran
    <3>2. Life!Apply(p)
      BY <2>2, <3>1 DEF Life!Apply, Exists
    <3> QED BY <3>2
  <2> QED BY <1>10, <2>1, <2>3, <2>4 DEF MutateStep
<1>11. ASSUME NEW c \in Calls, MutateStep(c, "rollback", "rollback_ran")
       PROVE  UNCHANGED Life!vars
  <2>1. /\ proposal' = proposal
        /\ \A q \in Proposals : runs'[q].apply = runs[q].apply /\ runs'[q].invoke = runs[q].invoke
    BY <1>0, <1>11 DEF MutateStep, Ran
  <2> QED BY <2>1, LifeStutters DEF Exists
<1>12. ASSUME NEW c \in Calls, NEW type, NEW ran, CompleteStep(c, type, ran) \/ RecoverStep(c)
       PROVE  UNCHANGED Life!vars
  <2>1. Untouched(op[c].proposal) /\ Exists(op[c].proposal) /\ runs' = runs
    BY <1>0, <1>12 DEF CompleteStep, RecoverStep
  <2> QED BY <1>0, <2>1, LifeRewritten
<1> QED BY <1>2, <1>3, <1>4, <1>5, <1>6, <1>7, <1>8, <1>9, <1>10, <1>11, <1>12
        DEF Step, Life!Next

(* Whatever requests, deaths and recoveries do, a proposal is decided once,*)
(* applied once at most, and invoked within its limit.                     *)
THEOREM LifeImplemented == Spec => ApprovalHonoured
<1>1. Init => Life!Init
  <2> SUFFICES ASSUME Init PROVE Life!Init
    OBVIOUS
  <2>1. \A p \in Proposals : /\ ~Exists(p) /\ proposal[p].max = 1
                            /\ runs[p].apply = 0 /\ runs[p].invoke = 0
    BY DEF Init, NoProposal, Exists
  <2> QED BY <2>1 DEF Life!Init
<1>2. IInv /\ [Next]_vars => [Life!Next]_(Life!vars)
  BY TypeStep, StepCases, LifeStep
<1> QED BY <1>1, <1>2, GovernanceInvariant, PTL DEF Spec, ApprovalHonoured, Life!Spec

=============================================================================
