------------------------- MODULE MemoryDreamingProofs -------------------------
(***************************************************************************)
(* Theorems about MemoryDreaming for any number of staged items,           *)
(* proposals, jobs and requests. Types come first, then what verdicts and  *)
(* approvals rest on (BackedStep), then what an open request may rely on   *)
(* of the rows it has read: ViewFrame says which steps of others leave a   *)
(* request's view as it is, and one lemma per action shows that its step   *)
(* is of that kind and gives its own request a view it may rely on.        *)
(***************************************************************************)
EXTENDS MemoryDreamingInv, TLAPS

(* What a request is about to do keeps its type when it ends, when it reads*)
(* an index, when it turns to what it is to delete, and when a step        *)
(* replaces it.                                                            *)
LEMMA IdleTyped == Idle \in CallState
BY DEF Idle, CallState, CallRecord, Fits, Pc, NoProposal, Kind, Scope

LEMMA PurgingTyped ==
  ASSUME NEW r \in CallState PROVE Purging(r) \in CallState
<1>1. CASE r.doomed = {}
  BY <1>1, IdleTyped DEF Purging
<1>2. CASE r.doomed # {}
  <2>1. PICK k : k = NextKind(r)
    OBVIOUS
  <2>2. k \in Kind
    BY <2>1 DEF NextKind, Kind
  <2>3. r.doomed \cap Members(k) \in SUBSET Ids
    BY DEF CallState, CallRecord
  <2>4. PICK todo \in SUBSET Ids : todo = r.doomed \cap Members(k)
    BY <2>3
  <2>5. Purging(r) = [r EXCEPT !.pc = "delete", !.kind = k, !.scope = "session", !.kept = {},
                              !.ids = {}, !.todo = todo]
    BY <1>2, <2>1, <2>4 DEF Purging
  <2> QED BY <2>2, <2>5 DEF CallState, CallRecord, Fits, Pc, Scope
<1> QED BY <1>1, <1>2

LEMMA RemovedTyped ==
  ASSUME NEW r \in CallState PROVE Removed(r) \in CallState
<1>1. [r EXCEPT !.pc = "delete", !.ids = {}] \in CallState
  BY DEF CallState, CallRecord, Fits, Pc
<1>2. [r EXCEPT !.pc = "remove", !.scope = "all", !.ids = {}] \in CallState
  BY DEF CallState, CallRecord, Fits, Pc, Scope
<1>3. r.pc = "removing" => [r EXCEPT !.doomed = @ \ Members(r.kind)] \in CallState
  BY DEF CallState, CallRecord, Fits
<1>4. [r EXCEPT !.doomed = @ \ Members(r.kind)] \in CallState
  BY DEF CallState, CallRecord, Fits
<1> QED BY <1>1, <1>2, <1>4, PurgingTyped DEF Removed

LEMMA IndexTyped ==
  ASSUME TypeOK, NEW k \in Kind, NEW scope \in Scope
  PROVE  index[k][scope] \subseteq Members(k) /\ index[k][scope] \subseteq Ids
BY DEF TypeOK, Kind, Members, Ids

LEMMA ReadingTyped ==
  ASSUME TypeOK, NEW r \in CallState, NEW pc \in {"appending", "removing"},
         r.pc \in {"append", "remove"}, pc = "appending" => r.pc = "append"
  PROVE  /\ Reading(r, pc) \in CallState
         /\ Reading(r, pc) = [r EXCEPT !.pc = pc, !.ids = index[r.kind][r.scope]]
<1>1. r.kind \in Kind /\ r.scope \in Scope
  BY DEF CallState, CallRecord
<1>2. PICK ids \in SUBSET Ids : ids = index[r.kind][r.scope] /\ ids \subseteq Members(r.kind)
  BY <1>1, IndexTyped
<1>3. Reading(r, pc) = [r EXCEPT !.pc = pc, !.ids = ids]
  BY <1>2 DEF Reading
<1>4. [r EXCEPT !.pc = pc, !.ids = ids] \in CallRecord
  BY DEF CallState, CallRecord, Pc
<1>5. Fits([r EXCEPT !.pc = pc, !.ids = ids])
  BY <1>2 DEF CallState, CallRecord, Fits
<1> QED BY <1>2, <1>3, <1>4, <1>5 DEF CallState

(* Writing one index row.                                                  *)
LEMMA WrittenIs ==
  ASSUME TypeOK, NEW r \in CallState, NEW ids, ids \subseteq Members(r.kind),
         index' = Written(r, ids)
  PROVE  /\ index' \in [staging : [Scope -> SUBSET Staging], proposals : [Scope -> SUBSET Proposals]]
         /\ index'[r.kind][r.scope] = ids
         /\ \A k \in Kind, scope \in Scope :
              k # r.kind \/ scope # r.scope => index'[k][scope] = index[k][scope]
<1>1. r.kind \in Kind /\ r.scope \in Scope
  BY DEF CallState, CallRecord
<1>2. index' = [index EXCEPT ![r.kind] = [index[r.kind] EXCEPT ![r.scope] = ids]]
  BY <1>1 DEF Written, TypeOK, Kind
<1>3. CASE r.kind = "staging"
  BY <1>1, <1>2, <1>3 DEF TypeOK, Members, Kind
<1>4. CASE r.kind = "proposals"
  BY <1>1, <1>2, <1>4 DEF TypeOK, Members, Kind
<1> QED BY <1>1, <1>3, <1>4 DEF Kind

LEMMA CallsTyped ==
  ASSUME call \in [Calls -> CallState], NEW c \in Calls, NEW r \in CallState,
         call' = [call EXCEPT ![c] = r]
  PROVE  call' \in [Calls -> CallState]
OBVIOUS

LEMMA BegunTyped ==
  ASSUME TypeOK
  PROVE  /\ Begun \in HistoryRecord
         /\ Begun.known = history.known /\ Begun.told = history.told
         /\ Begun.claimed = history.claimed /\ Begun.contested = history.contested
BY DEF Begun, TypeOK, HistoryRecord

-----------------------------------------------------------------------------
(* Type correctness *)

LEMMA OpeningTyped ==
  ASSUME TypeOK, NEW c \in Calls, Opening(c) PROVE TypeOK'
<1> USE DEF TypeOK
<1>0. /\ Begun \in HistoryRecord
      /\ Begun.known = history.known /\ Begun.told = history.told
      /\ Begun.claimed = history.claimed /\ Begun.contested = history.contested
  BY BegunTyped
<1>a. PICK b \in HistoryRecord : b = Begun
  BY <1>0
<1>1. ASSUME NEW s \in Staging, Stage(c, s) PROVE TypeOK'
  <2>1. [Idle EXCEPT !.pc = "append", !.about = s] \in CallState
    BY IdleTyped DEF CallState, CallRecord, Fits, Pc, Ids, Members, Idle
  <2>2. call' \in [Calls -> CallState]
    BY <1>1, <2>1, CallsTyped DEF Stage, Begin
  <2>3. history' = [b EXCEPT !.known = @ \cup {s}]
    BY <1>a, <1>1 DEF Stage
  <2>4. history' \in HistoryRecord
    BY <2>3 DEF Ids, HistoryRecord
  <2> QED BY <1>1, <2>2, <2>4 DEF Stage
<1>2. ASSUME NEW ids \in SUBSET index["staging"]["session"], Discard(c, ids) PROVE TypeOK'
  <2>0. ids \in SUBSET Ids
    BY IndexTyped DEF Kind, Scope
  <2>1. [Idle EXCEPT !.doomed = ids] \in CallState
    BY <2>0, IdleTyped DEF CallState, CallRecord, Fits
  <2>2. call' \in [Calls -> CallState]
    BY <1>2, <2>1, PurgingTyped, CallsTyped DEF Discard, Begin
  <2> QED BY <1>0, <1>2, <2>2 DEF Discard
<1>3. ASSUME NEW scope \in Scope, Run(c, scope) PROVE TypeOK'
  <2>1. PICK ids \in SUBSET Ids : ids = index["staging"][scope]
    BY IndexTyped DEF Kind
  <2>2. [Idle EXCEPT !.pc = "select", !.todo = ids] \in CallState
    BY IdleTyped DEF CallState, CallRecord, Fits, Pc
  <2>3. call' \in [Calls -> CallState]
    BY <1>3, <2>1, <2>2, CallsTyped DEF Run, Begin
  <2> QED BY <1>0, <1>3, <2>3 DEF Run
<1>4. ASSUME NEW p \in Proposals, NEW claimed \in SUBSET Proposals,
             history' = [b EXCEPT !.contested = @ \cup Contest(p), !.claimed = claimed]
      PROVE  history' \in HistoryRecord
  <2>1. Contest(p) \subseteq Proposals
    BY DEF Contest
  <2> QED BY <1>4, <2>1 DEF HistoryRecord
<1>5. ASSUME NEW p \in Proposals, AttachAssurance(c, p) PROVE TypeOK'
  <2>0. proposal[p] \in ProposalRow /\ proposal[p].decision = "pending"
    BY <1>5 DEF AttachAssurance, IsPending, NoProposal
  <2>1. [Idle EXCEPT !.pc = "assess", !.about = p, !.copy = proposal[p]] \in CallState
    BY <2>0, IdleTyped DEF CallState, CallRecord, Fits, Pc, Ids
  <2>2. call' \in [Calls -> CallState]
    BY <1>5, <2>1, CallsTyped DEF AttachAssurance, Begin
  <2>3. history' = [b EXCEPT !.contested = @ \cup Contest(p)]
    BY <1>a, <1>5 DEF AttachAssurance
  <2>4. Contest(p) \subseteq Proposals
    BY DEF Contest
  <2>5. history' \in HistoryRecord
    BY <2>3, <2>4 DEF HistoryRecord
  <2> QED BY <1>5, <2>2, <2>5 DEF AttachAssurance
<1>6. ASSUME NEW p \in Proposals, NEW decision \in {"approved", "rejected"},
             NEW required \in BOOLEAN, NEW passed \in BOOLEAN,
             Decide(c, p, decision, required, passed)
      PROVE  TypeOK'
  <2>1. proposal[p] \in ProposalRow
    BY <1>6 DEF Decide, IsPending, NoProposal
  <2>2. PICK row : row = [proposal[p] EXCEPT !.decision = decision, !.required = required,
                                             !.passed = passed]
    OBVIOUS
  <2>3. row \in ProposalRow
    BY <2>1, <2>2 DEF ProposalRow, Decisions
  <2>4. [Idle EXCEPT !.pc = "write", !.about = p, !.copy = row] \in CallState
    BY <2>3, IdleTyped DEF CallState, CallRecord, Fits, Pc, Ids
  <2>5. call' \in [Calls -> CallState]
    BY <1>6, <2>2, <2>4, CallsTyped DEF Decide, Begin
  <2>6. PICK more \in SUBSET Proposals :
          history' = [b EXCEPT !.contested = @ \cup Contest(p), !.claimed = @ \cup more]
    <3>1. {q \in {p} : required # proposal[p].required \/ passed # proposal[p].passed}
            \in SUBSET Proposals
      OBVIOUS
    <3> QED BY <1>a, <1>6, <3>1 DEF Decide
  <2>7. Contest(p) \subseteq Proposals
    BY DEF Contest
  <2>8. history' \in HistoryRecord
    BY <2>6, <2>7 DEF HistoryRecord
  <2> QED BY <1>6, <2>5, <2>8 DEF Decide
<1>7. ASSUME NEW scope \in Scope, Cleanup(c, scope) PROVE TypeOK'
  <2>1. PICK ids \in SUBSET Proposals : ids = index["proposals"][scope]
    BY IndexTyped DEF Kind, Members
  <2>2. [Idle EXCEPT !.pc = "scan", !.cleans = TRUE, !.scope = scope, !.todo = ids,
                     !.seen = ids] \in CallState
    BY IdleTyped DEF CallState, CallRecord, Fits, Pc, Ids
  <2>3. call' \in [Calls -> CallState]
    BY <1>7, <2>1, <2>2, CallsTyped DEF Cleanup, Begin
  <2> QED BY <1>0, <1>7, <2>3 DEF Cleanup
<1> QED BY <1>1, <1>2, <1>3, <1>5, <1>6, <1>7 DEF Opening

LEMMA ContinuingTyped ==
  ASSUME TypeOK, NEW c \in Calls, Continuing(c) PROVE TypeOK'
<1> USE DEF TypeOK
<1> DEFINE r == call[c]
<1>0. r \in CallState
  OBVIOUS
<1>1. CASE ReadToAppend(c)
  <2>1. call' \in [Calls -> CallState]
    BY <1>0, <1>1, ReadingTyped, CallsTyped DEF ReadToAppend, GoOn
  <2> QED BY <1>1, <2>1 DEF ReadToAppend
<1>2. ASSUME NEW told \in SUBSET Ids, history' = [history EXCEPT !.told = told]
      PROVE  history' \in HistoryRecord
  BY <1>2 DEF HistoryRecord
<1>3. Told(r) \in SUBSET Ids
  BY DEF Told, HistoryRecord
<1>4. CASE AppendId(c)
  <2>1. /\ r.pc = "appending" /\ r.about \in Members(r.kind) /\ r.ids \subseteq Members(r.kind)
        /\ r.about \in Ids
    BY <1>0, <1>4 DEF AppendId, CallState, Fits, Members, Ids
  <2>2. [r EXCEPT !.pc = "append", !.scope = "all", !.ids = {}] \in CallState
    BY <1>0, <2>1 DEF CallState, CallRecord, Fits, Pc, Scope
  <2>3. call' \in [Calls -> CallState]
    BY <1>4, <2>2, IdleTyped, CallsTyped DEF AppendId, GoOn
  <2>4. index' \in [staging : [Scope -> SUBSET Staging], proposals : [Scope -> SUBSET Proposals]]
    BY <1>0, <1>4, <2>1, WrittenIs DEF AppendId, Appended
  <2>5. PICK told \in SUBSET Ids : history' = [history EXCEPT !.told = told]
    BY <1>3, <1>4, <2>1 DEF AppendId
  <2> QED BY <1>2, <1>4, <2>3, <2>4, <2>5 DEF AppendId
<1>5. ASSUME NEW x \in Ids, Delete(c, x) PROVE TypeOK'
  <2>1. PICK next \in {"remove", "delete"} :
          call' = [call EXCEPT ![c] = [r EXCEPT !.todo = @ \ {x}, !.pc = next]]
    BY <1>5 DEF Delete, GoOn
  <2>2. [r EXCEPT !.todo = @ \ {x}, !.pc = next] \in CallState
    BY <1>0 DEF CallState, CallRecord, Fits, Pc
  <2>3. call' \in [Calls -> CallState]
    BY <2>1, <2>2, CallsTyped
  <2> QED BY <1>5, <2>3 DEF Delete
<1>6. CASE ReadToRemove(c)
  <2>1. call' \in [Calls -> CallState]
    BY <1>0, <1>6, ReadingTyped, CallsTyped DEF ReadToRemove, GoOn
  <2> QED BY <1>6, <2>1 DEF ReadToRemove
<1>7. CASE Remove(c)
  <2>1. call' \in [Calls -> CallState]
    BY <1>0, <1>7, RemovedTyped, CallsTyped DEF Remove, GoOn
  <2>2. r.ids \subseteq Members(r.kind)
    BY <1>0, <1>7 DEF Remove, CallState, Fits
  <2>3. index' \in [staging : [Scope -> SUBSET Staging], proposals : [Scope -> SUBSET Proposals]]
    BY <1>0, <1>7, <2>2, WrittenIs DEF Remove, Kept
  <2> QED BY <1>2, <1>3, <1>7, <2>1, <2>3 DEF Remove
<1>8. ASSUME NEW s \in Staging, Select(c, s) PROVE TypeOK'
  <2>1. [Idle EXCEPT !.pc = "propose", !.about = s] \in CallState
    BY IdleTyped DEF CallState, CallRecord, Fits, Pc, Ids
  <2>2. [r EXCEPT !.todo = @ \ {s}] \in CallState
    BY <1>0 DEF CallState, CallRecord, Fits
  <2>3. call' \in [Calls -> CallState]
    BY <1>8, <2>1, <2>2, IdleTyped, CallsTyped DEF Select, GoOn
  <2> QED BY <1>8, <2>3 DEF Select
<1>9. ASSUME NEW p \in Proposals, NEW required \in BOOLEAN, NEW passed \in BOOLEAN,
             Propose(c, p, required, passed)
      PROVE  TypeOK'
  <2>1. [Idle EXCEPT !.pc = "append", !.about = p, !.kind = "proposals"] \in CallState
    BY IdleTyped DEF CallState, CallRecord, Fits, Pc, Ids, Members, Kind, Idle
  <2>2. call' \in [Calls -> CallState]
    BY <1>9, <2>1, CallsTyped DEF Propose, GoOn
  <2>3. [item |-> r.about, required |-> required, decision |-> "pending", passed |-> passed]
          \in ProposalRow
    BY <1>0, <1>9 DEF Propose, ProposalRow, Decisions, CallState, Fits
  <2>4. PICK more \in SUBSET Proposals :
          history' = [history EXCEPT !.known = @ \cup {p}, !.claimed = @ \cup more]
    BY <1>9 DEF Propose
  <2>5. history' \in HistoryRecord
    BY <2>4 DEF HistoryRecord, Ids
  <2> QED BY <1>9, <2>2, <2>3, <2>5 DEF Propose
<1>10. ASSUME NEW j \in Jobs, Assess(c, j) PROVE TypeOK'
  <2>1. ASSUME r.pc = "assess" PROVE [r EXCEPT !.pc = "write", !.copy.passed = Passes(j)] \in CallState
    <3>1. Passes(j) \in BOOLEAN /\ r.copy \in ProposalRow
      BY <1>0, <2>1 DEF Passes, CallState, Fits
    <3>2. [r.copy EXCEPT !.passed = Passes(j)] \in ProposalRow
      BY <3>1 DEF ProposalRow
    <3> QED BY <1>0, <2>1, <3>2 DEF CallState, CallRecord, Fits, Pc
  <2>2. call' \in [Calls -> CallState]
    BY <1>10, <2>1, IdleTyped, CallsTyped DEF Assess, GoOn
  <2> QED BY <1>10, <2>2 DEF Assess
<1>11. CASE WriteBack(c)
  <2>1. r.about \in Proposals /\ r.copy \in ProposalRow
    BY <1>0, <1>11 DEF WriteBack, CallState, Fits
  <2>2. call' \in [Calls -> CallState]
    BY <1>11, IdleTyped, CallsTyped DEF WriteBack, GoOn
  <2> QED BY <1>11, <2>1, <2>2 DEF WriteBack
<1>12. ASSUME NEW p \in Proposals, NEW expired \in BOOLEAN, Scan(c, p, expired) PROVE TypeOK'
  <2>1. PICK keep \in SUBSET Staging, drop \in SUBSET Ids :
          call' = [call EXCEPT ![c] = [r EXCEPT !.todo = @ \ {p}, !.kept = @ \cup keep,
                                                !.doomed = @ \cup drop]]
    <3> DEFINE keep == {s \in Staging : proposal[p] # NoProposal /\ Protects(proposal[p])
                                        /\ s = proposal[p].item}
               drop == {q \in {p} : proposal[p] # NoProposal /\ Removable(proposal[p]) /\ expired}
    <3>1. keep \in SUBSET Staging /\ drop \in SUBSET Ids
      BY DEF Ids
    <3> QED BY <1>12, <3>1 DEF Scan, GoOn
  <2>2. [r EXCEPT !.todo = @ \ {p}, !.kept = @ \cup keep, !.doomed = @ \cup drop] \in CallState
    BY <1>0 DEF CallState, CallRecord, Fits
  <2>3. call' \in [Calls -> CallState]
    BY <2>1, <2>2, CallsTyped
  <2> QED BY <1>12, <2>3 DEF Scan
<1>13. CASE ListStaging(c)
  <2>0. r.scope \in Scope
    BY <1>0 DEF CallState, CallRecord
  <2>1. PICK ids \in SUBSET Ids : ids = index["staging"][r.scope] \ r.kept
    BY <2>0, IndexTyped DEF Kind
  <2>2. [r EXCEPT !.pc = "probe", !.todo = ids] \in CallState
    BY <1>0 DEF CallState, CallRecord, Fits, Pc
  <2>3. call' \in [Calls -> CallState]
    BY <1>13, <2>1, <2>2, PurgingTyped, CallsTyped DEF ListStaging, Probing, GoOn
  <2> QED BY <1>13, <2>3 DEF ListStaging
<1>14. ASSUME NEW s \in Staging, NEW expired \in BOOLEAN, Probe(c, s, expired) PROVE TypeOK'
  <2>1. [r EXCEPT !.todo = @ \ {s}, !.doomed = @ \cup {x \in {s} : x \in staged /\ expired}]
          \in CallState
    BY <1>0 DEF CallState, CallRecord, Fits, Ids
  <2>2. call' \in [Calls -> CallState]
    BY <1>14, <2>1, PurgingTyped, CallsTyped DEF Probe, Probing, GoOn
  <2> QED BY <1>14, <2>2 DEF Probe
<1> QED BY <1>1, <1>4, <1>5, <1>6, <1>7, <1>8, <1>9, <1>10, <1>11, <1>12, <1>13, <1>14
        DEF Continuing

LEMMA TypeStep == TypeOK /\ [Next]_vars => TypeOK'
<1> SUFFICES ASSUME TypeOK, [Next]_vars PROVE TypeOK'
  OBVIOUS
<1> USE DEF TypeOK
<1>1. ASSUME NEW c \in Calls, Opening(c) PROVE TypeOK'
  BY <1>1, OpeningTyped
<1>2. ASSUME NEW c \in Calls, Continuing(c) PROVE TypeOK'
  BY <1>2, ContinuingTyped
<1>3. ASSUME NEW c \in Calls, Die(c) PROVE TypeOK'
  <2>1. call' \in [Calls -> CallState]
    BY <1>3, IdleTyped, CallsTyped DEF Die, GoOn
  <2> QED BY <1>3, <2>1 DEF Die
<1>4. CASE Validating
  <2>1. ASSUME NEW j \in Jobs, NEW p \in Proposals, NEW strict \in BOOLEAN,
               NEW assurance \in BOOLEAN, Submit(j, p, strict, assurance)
        PROVE  TypeOK'
    BY <2>1, BegunTyped DEF Submit, JobRow
  <2>2. ASSUME NEW j \in Jobs, NEW state \in {"clean", "unclean"}, EndJob(j, state) PROVE TypeOK'
    <3>1. job[j] \in JobRow
      BY <2>2 DEF EndJob, NoJob
    <3> QED BY <2>2, <3>1 DEF EndJob, JobRow
  <2> QED BY <1>4, <2>1, <2>2 DEF Validating
<1>5. CASE UNCHANGED vars
  BY <1>5 DEF vars
<1> QED BY <1>1, <1>2, <1>3, <1>4, <1>5 DEF Next

(* Every variable keeps its type, however requests interleave and die.     *)
THEOREM DreamingTypes == Spec => []TypeOK
<1>1. Init => TypeOK
  BY IdleTyped DEF Init, TypeOK, Kind, ProposalRow, JobRow, HistoryRecord
<1> QED BY <1>1, TypeStep, PTL DEF Spec

-----------------------------------------------------------------------------
(* Verdicts and approvals *)

(* A job that passed stays as it is.                                       *)
LEMMA AssuredStep ==
  ASSUME TypeOK, [Next]_vars, NEW p \in Proposals, Assured(p)
  PROVE  Assured(p)'
<1>1. PICK j \in Jobs : /\ job[j] # NoJob /\ job[j].proposal = p /\ job[j].bound
                        /\ job[j].strict /\ job[j].state = "clean"
  BY DEF Assured
<1>2. job'[j] = job[j]
  <2>1. CASE Validating
    <3>1. ASSUME NEW i \in Jobs, NEW q \in Proposals, NEW strict \in BOOLEAN,
                 NEW assurance \in BOOLEAN, Submit(i, q, strict, assurance)
          PROVE  job'[j] = job[j]
      BY <1>1, <3>1 DEF Submit, TypeOK
    <3>2. ASSUME NEW i \in Jobs, NEW state \in {"clean", "unclean"}, EndJob(i, state)
          PROVE  job'[j] = job[j]
      BY <1>1, <3>2 DEF EndJob, TypeOK
    <3> QED BY <2>1, <3>1, <3>2 DEF Validating
  <2>2. ASSUME NEW c \in Calls, Opening(c) PROVE job' = job
    BY <2>2 DEF Opening, Stage, Discard, Run, AttachAssurance, Decide, Cleanup
  <2>3. ASSUME NEW c \in Calls, Continuing(c) PROVE job' = job
    BY <2>3 DEF Continuing, ReadToAppend, AppendId, Delete, ReadToRemove, Remove, Select,
                Propose, Assess, WriteBack, Scan, ListStaging, Probe
  <2>4. ASSUME NEW c \in Calls, Die(c) PROVE job' = job
    BY <2>4 DEF Die
  <2> QED BY <2>1, <2>2, <2>3, <2>4 DEF Next, vars
<1> QED BY <1>1, <1>2 DEF Assured

(* Ids once created stay known; claims and contests are not forgotten.     *)
LEMMA HistoryGrows ==
  ASSUME TypeOK, [Next]_vars
  PROVE  /\ history.known \subseteq history'.known
         /\ history.claimed \subseteq history'.claimed
         /\ history.contested \subseteq history'.contested
<1> DEFINE Grows == /\ history.known \subseteq history'.known
                    /\ history.claimed \subseteq history'.claimed
                    /\ history.contested \subseteq history'.contested
<1>0. PICK b \in HistoryRecord :
        /\ b = Begun /\ b.known = history.known
        /\ b.claimed = history.claimed /\ b.contested = history.contested
  BY BegunTyped
<1>1. ASSUME NEW c \in Calls, Opening(c) PROVE Grows
  <2>1. ASSUME NEW s \in Staging, Stage(c, s) PROVE Grows
    <3>1. history' = [b EXCEPT !.known = @ \cup {s}]
      BY <1>0, <2>1 DEF Stage
    <3> QED BY <1>0, <3>1 DEF HistoryRecord
  <2>2. ASSUME NEW p \in Proposals, AttachAssurance(c, p) PROVE Grows
    <3>1. history' = [b EXCEPT !.contested = @ \cup Contest(p)]
      BY <1>0, <2>2 DEF AttachAssurance
    <3> QED BY <1>0, <3>1 DEF HistoryRecord
  <2>3. ASSUME NEW p \in Proposals, NEW decision \in {"approved", "rejected"},
               NEW required \in BOOLEAN, NEW passed \in BOOLEAN,
               Decide(c, p, decision, required, passed)
        PROVE  Grows
    <3>1. PICK more : history' = [b EXCEPT !.contested = @ \cup Contest(p), !.claimed = @ \cup more]
      BY <1>0, <2>3 DEF Decide
    <3> QED BY <1>0, <3>1 DEF HistoryRecord
  <2>4. ASSUME history' = Begun PROVE Grows
    BY <1>0, <2>4
  <2> QED BY <1>1, <2>1, <2>2, <2>3, <2>4 DEF Opening, Discard, Run, Cleanup
<1>2. ASSUME NEW c \in Calls, Continuing(c) PROVE Grows
  <2>1. ASSUME NEW p \in Proposals, NEW required \in BOOLEAN, NEW passed \in BOOLEAN,
               Propose(c, p, required, passed)
        PROVE  Grows
    <3>1. PICK more : history' = [history EXCEPT !.known = @ \cup {p}, !.claimed = @ \cup more]
      BY <2>1 DEF Propose
    <3> QED BY <3>1 DEF TypeOK, HistoryRecord
  <2>2. CASE AppendId(c) \/ Remove(c)
    <3>1. PICK told : history' = [history EXCEPT !.told = told]
      BY <2>2 DEF AppendId, Remove
    <3> QED BY <3>1 DEF TypeOK, HistoryRecord
  <2>3. ASSUME history' = history PROVE Grows
    BY <2>3
  <2> QED BY <1>2, <2>1, <2>2, <2>3 DEF Continuing, ReadToAppend, Delete, ReadToRemove, Select,
             Assess, WriteBack, Scan, ListStaging, Probe
<1>3. ASSUME NEW c \in Calls, Die(c) PROVE Grows
  BY <1>3 DEF Die
<1>4. CASE Validating
  BY <1>0, <1>4 DEF Validating, Submit, EndJob
<1>5. CASE UNCHANGED vars
  BY <1>5 DEF vars
<1> QED BY <1>1, <1>2, <1>3, <1>4, <1>5 DEF Next

LEMMA VouchedStep ==
  ASSUME TypeOK, [Next]_vars, NEW p \in Proposals, Vouched(p)
  PROVE  Vouched(p)'
BY AssuredStep, HistoryGrows DEF Vouched

(* Requests move one at a time.                                            *)
LEMMA OthersStay ==
  ASSUME TypeOK, NEW c \in Calls, Opening(c) \/ Continuing(c) \/ Die(c)
  PROVE  \A d \in Calls \ {c} : call'[d] = call[d]
<1>1. CASE Opening(c)
  BY <1>1 DEF Opening, Stage, Discard, Run, AttachAssurance, Decide, Cleanup, Begin, TypeOK
<1>2. CASE Continuing(c)
  BY <1>2 DEF Continuing, ReadToAppend, AppendId, Delete, ReadToRemove, Remove, Select,
              Propose, Assess, WriteBack, Scan, ListStaging, Probe, GoOn, TypeOK
<1>3. CASE Die(c)
  BY <1>3 DEF Die, GoOn, TypeOK
<1> QED BY <1>1, <1>2, <1>3

(* A step of one request leaves the copies of the others as they are.      *)
LEMMA CopiesStep ==
  ASSUME TypeOK, TypeOK', CopiesBacked, NEW c \in Calls,
         \A d \in Calls \ {c} : call'[d] = call[d],
         call'[c].pc \in {"assess", "write"} => Backed(call[c].about, call[c].copy)',
         \A p \in Proposals : Vouched(p) => Vouched(p)'
  PROVE  CopiesBacked'
<1> SUFFICES ASSUME NEW d \in Calls, call'[d].pc \in {"assess", "write"}
             PROVE  Backed(call[d].about, call[d].copy)'
  BY DEF CopiesBacked
<1>1. CASE d = c
  BY <1>1
<1>2. CASE d # c
  <2>1. call'[d] = call[d] /\ call[d].about \in Proposals
    BY <1>2 DEF TypeOK, CallState, Fits
  <2>2. Backed(call[d].about, call[d].copy)
    BY <2>1 DEF CopiesBacked
  <2> QED BY <2>1, <2>2 DEF Backed
<1> QED BY <1>1, <1>2

(* Only assess and write hold a copy, which these are about to do.         *)
LEMMA PurgingPc ==
  ASSUME NEW r \in CallState PROVE Purging(r).pc \in {"idle", "delete"}
<1>1. CASE r.doomed = {}
  BY <1>1 DEF Purging, Idle
<1>2. CASE r.doomed # {}
  <2>1. PICK k, todo : Purging(r) = [r EXCEPT !.pc = "delete", !.kind = k, !.scope = "session",
                                              !.kept = {}, !.ids = {}, !.todo = todo]
    BY <1>2 DEF Purging
  <2> QED BY <2>1 DEF CallState, CallRecord
<1> QED BY <1>1, <1>2

LEMMA RemovedPc ==
  ASSUME NEW r \in CallState PROVE Removed(r).pc \in {"idle", "delete", "remove"}
<1>1. [r EXCEPT !.pc = "delete", !.ids = {}].pc = "delete"
  BY DEF CallState, CallRecord
<1>2. [r EXCEPT !.pc = "remove", !.scope = "all", !.ids = {}].pc = "remove"
  BY DEF CallState, CallRecord
<1>3. [r EXCEPT !.doomed = @ \ Members(r.kind)] \in CallState
  BY DEF CallState, CallRecord, Fits
<1> QED BY <1>1, <1>2, <1>3, PurgingPc DEF Removed

LEMMA BackedStep ==
  TypeOK /\ RowsBacked /\ CopiesBacked /\ [Next]_vars => RowsBacked' /\ CopiesBacked'
<1> SUFFICES ASSUME TypeOK, RowsBacked, CopiesBacked, [Next]_vars
             PROVE  RowsBacked' /\ CopiesBacked'
  OBVIOUS
<1>1. TypeOK' /\ \A p \in Proposals : Vouched(p) => Vouched(p)'
  BY TypeStep, VouchedStep
<1>2. ASSUME \A p \in Proposals : \/ proposal'[p] = proposal[p] \/ proposal'[p] = NoProposal
                                 \/ Backed(p, proposal[p])'
      PROVE  RowsBacked'
  <2> SUFFICES ASSUME NEW p \in Proposals, proposal'[p] # NoProposal PROVE Backed(p, proposal[p])'
    BY DEF RowsBacked
  <2>1. CASE proposal'[p] = proposal[p]
    BY <1>1, <2>1 DEF RowsBacked, Backed
  <2> QED BY <1>2, <2>1
<1>3. ASSUME call' = call PROVE CopiesBacked'
  <2> SUFFICES ASSUME NEW d \in Calls, call[d].pc \in {"assess", "write"}
               PROVE  Backed(call[d].about, call[d].copy)'
    BY <1>3 DEF CopiesBacked
  <2>1. call[d].about \in Proposals
    BY DEF TypeOK, CallState, Fits
  <2> QED BY <1>1, <1>3, <2>1 DEF CopiesBacked, Backed
<1>4. ASSUME NEW c \in Calls, \A d \in Calls \ {c} : call'[d] = call[d],
             call'[c].pc \notin {"assess", "write"}, proposal' = proposal
      PROVE  RowsBacked' /\ CopiesBacked'
  BY <1>1, <1>2, <1>4, CopiesStep
<1>5. ASSUME NEW c \in Calls, Opening(c) PROVE RowsBacked' /\ CopiesBacked'
  <2>1. proposal' = proposal
    BY <1>5 DEF Opening, Stage, Discard, Run, AttachAssurance, Decide, Cleanup
  <2>2. \A d \in Calls \ {c} : call'[d] = call[d]
    BY <1>5, OthersStay
  <2>3. ASSUME NEW s \in Staging, Stage(c, s) PROVE call'[c].pc = "append"
    BY <2>3 DEF Stage, Begin, Idle, TypeOK
  <2>4. ASSUME NEW ids \in SUBSET index["staging"]["session"], Discard(c, ids)
        PROVE  call'[c].pc \in {"idle", "delete"}
    <3>0. ids \in SUBSET Ids
      BY IndexTyped DEF Kind, Scope
    <3>1. [Idle EXCEPT !.doomed = ids] \in CallState
      BY <3>0, IdleTyped DEF CallState, CallRecord, Fits
    <3> QED BY <2>4, <3>1, PurgingPc DEF Discard, Begin, TypeOK
  <2>5. ASSUME NEW scope \in Scope, Run(c, scope) PROVE call'[c].pc = "select"
    BY <2>5 DEF Run, Begin, Idle, TypeOK
  <2>6. ASSUME NEW scope \in Scope, Cleanup(c, scope) PROVE call'[c].pc = "scan"
    BY <2>6 DEF Cleanup, Begin, Idle, TypeOK
  <2>7. ASSUME NEW p \in Proposals, AttachAssurance(c, p) PROVE RowsBacked' /\ CopiesBacked'
    <3>1. call'[c].about = p /\ call'[c].copy = proposal[p] /\ proposal[p] # NoProposal
      BY <2>7 DEF AttachAssurance, IsPending, NoProposal, Begin, Idle, TypeOK
    <3>2. Backed(call[c].about, call[c].copy)'
      BY <1>1, <3>1 DEF RowsBacked, Backed
    <3> QED BY <1>1, <1>2, <2>1, <2>2, <3>2, CopiesStep
  <2>8. ASSUME NEW p \in Proposals, NEW decision \in {"approved", "rejected"},
               NEW required \in BOOLEAN, NEW passed \in BOOLEAN,
               Decide(c, p, decision, required, passed)
        PROVE  RowsBacked' /\ CopiesBacked'
    <3>1. proposal[p] \in ProposalRow /\ Backed(p, proposal[p]) /\ proposal[p].decision = "pending"
      BY <2>8 DEF Decide, IsPending, NoProposal, TypeOK, RowsBacked
    <3>2. PICK row : row = [proposal[p] EXCEPT !.decision = decision, !.required = required,
                                               !.passed = passed]
      OBVIOUS
    <3>3. row.decision = decision /\ row.required = required /\ row.passed = passed
      BY <3>1, <3>2 DEF ProposalRow
    <3>4. call'[c].about = p /\ call'[c].copy = row
      BY <2>8, <3>2 DEF Decide, Begin, Idle, TypeOK
    <3>5. CASE required = proposal[p].required /\ passed = proposal[p].passed
      <4>1. passed \/ (decision = "approved" /\ required) => proposal[p].passed
        BY <2>8, <3>5 DEF Decide, Blocked
      <4>2. passed \/ (decision = "approved" /\ required) => Vouched(p)'
        BY <1>1, <3>1, <4>1 DEF Backed
      <4>3. Backed(call[c].about, call[c].copy)'
        BY <3>3, <3>4, <4>2 DEF Backed
      <4> QED BY <1>1, <1>2, <2>1, <2>2, <4>3, CopiesStep
    <3>6. CASE required # proposal[p].required \/ passed # proposal[p].passed
      <4>1. PICK b \in HistoryRecord : b = Begun
        BY BegunTyped
      <4>2. history' = [b EXCEPT !.contested = @ \cup Contest(p), !.claimed = @ \cup {p}]
        BY <2>8, <3>6, <4>1 DEF Decide
      <4>3. p \in history'.claimed
        BY <4>2 DEF HistoryRecord
      <4>4. Backed(call[c].about, call[c].copy)'
        BY <3>4, <4>3 DEF Backed, Vouched
      <4> QED BY <1>1, <1>2, <2>1, <2>2, <4>4, CopiesStep
    <3> QED BY <3>5, <3>6
  <2> QED BY <1>4, <1>5, <2>1, <2>2, <2>3, <2>4, <2>5, <2>6, <2>7, <2>8 DEF Opening
<1>6. ASSUME NEW c \in Calls, Continuing(c) PROVE RowsBacked' /\ CopiesBacked'
  <2> DEFINE r == call[c]
  <2>0. r \in CallState
    BY DEF TypeOK
  <2>1. \A d \in Calls \ {c} : call'[d] = call[d]
    BY <1>6, OthersStay
  <2>2. CASE ReadToAppend(c) \/ ReadToRemove(c)
    <3>1. r.pc \in {"append", "remove"}
      BY <2>2 DEF ReadToAppend, ReadToRemove
    <3>a. PICK ids : ids = index[r.kind][r.scope]
      OBVIOUS
    <3>2. PICK pc \in {"appending", "removing"} : call'[c] = [r EXCEPT !.pc = pc, !.ids = ids]
      BY <2>2, <3>a DEF ReadToAppend, ReadToRemove, Reading, GoOn, TypeOK
    <3>3. call'[c].pc = pc
      BY <2>0, <3>2 DEF CallState, CallRecord
    <3>4. proposal' = proposal
      BY <2>2 DEF ReadToAppend, ReadToRemove
    <3> QED BY <1>4, <2>1, <3>3, <3>4
  <2>3. CASE AppendId(c)
    <3>0. PICK n : n = [r EXCEPT !.pc = "append", !.scope = "all", !.ids = {}]
      OBVIOUS
    <3>1. call'[c] = Idle \/ call'[c] = n
      BY <2>3, <3>0 DEF AppendId, GoOn, TypeOK
    <3>2. call'[c].pc \in {"idle", "append"}
      <4>1. n.pc = "append"
        BY <2>0, <3>0 DEF CallState, CallRecord
      <4> QED BY <3>1, <4>1 DEF Idle
    <3> QED BY <1>4, <2>1, <2>3, <3>2 DEF AppendId
  <2>4. ASSUME NEW x \in Ids, Delete(c, x) PROVE RowsBacked' /\ CopiesBacked'
    <3>1. PICK pc \in {"remove", "delete"} : call'[c] = [r EXCEPT !.todo = @ \ {x}, !.pc = pc]
      BY <2>4 DEF Delete, GoOn, TypeOK
    <3>2. call'[c].pc = pc
      BY <2>0, <3>1 DEF CallState, CallRecord
    <3>3. \A p \in Proposals : proposal'[p] = proposal[p] \/ proposal'[p] = NoProposal
      BY <2>4 DEF Delete
    <3> QED BY <1>1, <1>2, <2>1, <3>2, <3>3, CopiesStep
  <2>5. CASE Remove(c)
    BY <1>4, <2>0, <2>1, <2>5, RemovedPc DEF Remove, GoOn, TypeOK
  <2>6. ASSUME NEW s \in Staging, Select(c, s) PROVE RowsBacked' /\ CopiesBacked'
    <3>0. PICK n, m : n = [r EXCEPT !.todo = @ \ {s}] /\ m = [Idle EXCEPT !.pc = "propose", !.about = s]
      OBVIOUS
    <3>1. call'[c] \in {Idle, n, m}
      BY <2>6, <3>0 DEF Select, GoOn, TypeOK
    <3>2. call'[c].pc \in {"idle", "propose", "select"}
      <4>1. n.pc = "select"
        BY <2>0, <2>6, <3>0 DEF Select, CallState, CallRecord
      <4>2. m.pc = "propose"
        BY <3>0 DEF Idle
      <4> QED BY <3>1, <4>1, <4>2 DEF Idle
    <3> QED BY <1>4, <2>1, <2>6, <3>2 DEF Select
  <2>7. ASSUME NEW p \in Proposals, NEW required \in BOOLEAN, NEW passed \in BOOLEAN,
               Propose(c, p, required, passed)
        PROVE  RowsBacked' /\ CopiesBacked'
    <3>1. call'[c].pc = "append"
      BY <2>7 DEF Propose, GoOn, Idle, TypeOK
    <3>2. proposal'[p].passed = passed /\ proposal'[p].decision = "pending"
      BY <2>7 DEF Propose, TypeOK
    <3>3. \A q \in Proposals \ {p} : proposal'[q] = proposal[q]
      BY <2>7 DEF Propose, TypeOK
    <3>4. passed => p \in history'.claimed
      BY <2>7 DEF Propose, TypeOK, HistoryRecord
    <3>5. Backed(p, proposal[p])'
      BY <3>2, <3>4 DEF Backed, Vouched
    <3> QED BY <1>1, <1>2, <2>1, <3>1, <3>3, <3>5, CopiesStep
  <2>8. ASSUME NEW j \in Jobs, Assess(c, j) PROVE RowsBacked' /\ CopiesBacked'
    <3>1. proposal' = proposal
      BY <2>8 DEF Assess
    <3>2. CASE Accepts(r.about, j)
      <4>1. call'[c] = [r EXCEPT !.pc = "write", !.copy.passed = Passes(j)]
        BY <2>8, <3>2 DEF Assess, GoOn, TypeOK
      <4>2. /\ call'[c].about = r.about
            /\ call'[c].copy.passed = Passes(j)
            /\ call'[c].copy.decision = r.copy.decision
        BY <2>0, <2>8, <4>1 DEF Assess, CallState, CallRecord, Fits, ProposalRow
      <4>3. PICK p \in Proposals : p = r.about /\ r.copy.decision = "pending"
        BY <2>0, <2>8 DEF Assess, CallState, Fits
      <4>4. Passes(j) => Assured(p)
        BY <2>8, <3>2, <4>3 DEF Assess, Accepts, Passes, Assured
      <4>5. call'[c].copy.passed => Vouched(p)'
        BY <1>1, <4>2, <4>4 DEF Vouched
      <4>6. Backed(call[c].about, call[c].copy)'
        BY <4>2, <4>3, <4>5 DEF Backed
      <4> QED BY <1>1, <1>2, <2>1, <3>1, <4>6, CopiesStep
    <3>3. CASE ~Accepts(r.about, j)
      <4>1. call'[c].pc = "idle"
        BY <2>8, <3>3 DEF Assess, GoOn, Idle, TypeOK
      <4> QED BY <1>4, <2>1, <3>1, <4>1
    <3> QED BY <3>2, <3>3
  <2>9. CASE WriteBack(c)
    <3>1. call'[c].pc = "idle"
      BY <2>9 DEF WriteBack, GoOn, Idle, TypeOK
    <3>2. PICK p, row : p \in Proposals /\ p = r.about /\ row = r.copy /\ Backed(p, row)
      BY <2>0, <2>9 DEF WriteBack, CopiesBacked, CallState, Fits
    <3>3. \A q \in Proposals : proposal'[q] = IF q = p THEN row ELSE proposal[q]
      BY <2>9, <3>2 DEF WriteBack, TypeOK
    <3>4. Backed(p, proposal[p])'
      BY <1>1, <3>2, <3>3 DEF Backed
    <3> QED BY <1>1, <1>2, <2>1, <3>1, <3>3, <3>4, CopiesStep
  <2>10. ASSUME NEW p \in Proposals, NEW expired \in BOOLEAN, Scan(c, p, expired)
         PROVE  RowsBacked' /\ CopiesBacked'
    <3>1. PICK keep, drop : call'[c] = [r EXCEPT !.todo = @ \ {p}, !.kept = @ \cup keep,
                                                 !.doomed = @ \cup drop]
      BY <2>10 DEF Scan, GoOn, TypeOK
    <3>2. call'[c].pc = "scan"
      BY <2>0, <2>10, <3>1 DEF Scan, CallState, CallRecord
    <3> QED BY <1>4, <2>1, <2>10, <3>2 DEF Scan
  <2>11. CASE ListStaging(c)
    <3>0. PICK ids : ids = index["staging"][r.scope] \ r.kept
      OBVIOUS
    <3>1. ids \subseteq Ids
      <4>1. r.scope \in Scope
        BY <2>0 DEF CallState, CallRecord
      <4> QED BY <3>0, <4>1, IndexTyped DEF Kind
    <3>2. PICK n : n = [r EXCEPT !.pc = "probe", !.todo = ids]
      OBVIOUS
    <3>3. n \in CallState /\ n.pc = "probe"
      BY <2>0, <3>1, <3>2 DEF CallState, CallRecord, Fits, Pc
    <3>4. call'[c] = n \/ call'[c] = Purging(n)
      BY <2>11, <3>0, <3>2 DEF ListStaging, Probing, GoOn, TypeOK
    <3>5. call'[c].pc \in {"probe", "idle", "delete"}
      BY <3>3, <3>4, PurgingPc
    <3> QED BY <1>4, <2>1, <2>11, <3>5 DEF ListStaging
  <2>12. ASSUME NEW s \in Staging, NEW expired \in BOOLEAN, Probe(c, s, expired)
         PROVE  RowsBacked' /\ CopiesBacked'
    <3>1. PICK n : n = [r EXCEPT !.todo = @ \ {s},
                                 !.doomed = @ \cup {x \in {s} : x \in staged /\ expired}]
      OBVIOUS
    <3>2. n \in CallState /\ n.pc = "probe"
      BY <2>0, <2>12, <3>1 DEF Probe, CallState, CallRecord, Fits, Ids
    <3>3. call'[c] = n \/ call'[c] = Purging(n)
      BY <2>12, <3>1 DEF Probe, Probing, GoOn, TypeOK
    <3>4. call'[c].pc \in {"probe", "idle", "delete"}
      BY <3>2, <3>3, PurgingPc
    <3> QED BY <1>4, <2>1, <2>12, <3>4 DEF Probe
  <2> QED BY <1>6, <2>2, <2>3, <2>4, <2>5, <2>6, <2>7, <2>8, <2>9, <2>10, <2>11, <2>12
          DEF Continuing
<1>7. ASSUME NEW c \in Calls, Die(c) PROVE RowsBacked' /\ CopiesBacked'
  <2>1. call'[c].pc = "idle" /\ proposal' = proposal
    BY <1>7 DEF Die, GoOn, Idle, TypeOK
  <2> QED BY <1>4, <1>7, <2>1, OthersStay
<1>8. CASE Validating
  BY <1>2, <1>3, <1>8 DEF Validating, Submit, EndJob
<1>9. CASE UNCHANGED vars
  BY <1>2, <1>3, <1>9 DEF vars
<1> QED BY <1>5, <1>6, <1>7, <1>8, <1>9 DEF Next

-----------------------------------------------------------------------------
(* What requests may rely on *)

(* An item that is protected is a staged item.                             *)
LEMMA ItemStaged ==
  ASSUME TypeOK, NEW p \in Proposals, Protects(proposal[p])
  PROVE  proposal[p] \in ProposalRow /\ proposal[p].item \in Staging
BY DEF TypeOK, Protects, NoProposal, ProposalRow

LEMMA KindIs ==
  ASSUME NEW x \in Ids, NEW k \in Kind
  PROVE  KindOf(x) \in Kind /\ (KindOf(x) = k <=> x \in Members(k))
BY IdsDiffer DEF Ids, Kind, KindOf, Members

(* How a step may change the records that were there before and that no    *)
(* two requests contest: it deletes them, or writes back a pending one.    *)
Moves ==
  /\ history.known \subseteq history'.known /\ history.contested \subseteq history'.contested
  /\ \A p \in (Proposals \cap history.known) \ history'.contested :
       \/ proposal'[p] = proposal[p]
       \/ proposal'[p] = NoProposal
       \/ IsPending(p) /\ proposal'[p].item = proposal[p].item
  /\ \A s \in Staging \cap history.known : s \in staged' => s \in staged

LEMMA MovesNone ==
  ASSUME UNCHANGED <<staged, proposal>>, history.known \subseteq history'.known,
         history.contested \subseteq history'.contested
  PROVE  Moves
BY DEF Moves

(* What such a step leaves as a request relied on it.                      *)
LEMMA ViewFrame ==
  ASSUME TypeOK, TypeOK', NEW r \in CallState, View(r), Moves,
         r.pc \in {"assess", "write"} /\ r.about \notin history'.contested =>
           proposal'[r.about] = proposal[r.about]
  PROVE  View(r)'
<1>1. HoldsKnown(r)'
  BY DEF View, HoldsKnown, Moves
<1>2. Current(r)'
  BY DEF View, Current, Moves, IsPending
<1>3. r.seen \subseteq Proposals \cap history.known /\ r.doomed \subseteq Ids \cap history.known
  BY DEF View, HoldsKnown, CallState, CallRecord
<1>4. ASSUME NEW p \in (Proposals \cap history.known) \ history'.contested, Protects(proposal'[p])
      PROVE  Protects(proposal[p]) /\ proposal'[p].item = proposal[p].item
  <2>1. proposal'[p] # NoProposal
    BY <1>4 DEF Protects, NoProposal
  <2> QED BY <1>4, <2>1 DEF Moves, IsPending, Protects
<1>5. ASSUME NEW ps, ps \subseteq r.seen, NEW items, ItemsIn(ps, items)
      PROVE  ItemsIn(ps, items)'
  <2> SUFFICES ASSUME NEW p \in ps \ history'.contested, Protects(proposal'[p])
               PROVE  proposal'[p].item \in items
    BY DEF ItemsIn
  <2>1. p \in (Proposals \cap history.known) \ history'.contested /\ p \notin history.contested
    BY <1>3, <1>5 DEF Moves
  <2> QED BY <1>4, <1>5, <2>1 DEF ItemsIn
<1>6. Spares(r)'
  <2>1. ItemsIn(r.seen, Staging \ r.doomed)'
    BY <1>5 DEF View, Spares
  <2>2. r.pc = "scan" => ItemsIn(r.seen \ r.todo, r.kept)'
    BY <1>5 DEF View, Spares
  <2>3. r.pc = "probe" => ItemsIn(r.seen, r.kept)'
    BY <1>5 DEF View, Spares
  <2> QED BY <2>1, <2>2, <2>3 DEF View, Spares
<1>7. ASSUME NEW x \in (Ids \cap history.known) \ history'.contested, Exists(x)'
      PROVE  Exists(x)
  <2>1. CASE x \in staged'
    <3>1. x \in Staging \cap history.known
      BY <1>7, <2>1 DEF TypeOK
    <3> QED BY <2>1, <3>1 DEF Moves, Exists
  <2>2. CASE x \in Proposals /\ proposal'[x] # NoProposal
    <3>1. x \in (Proposals \cap history.known) \ history'.contested
      BY <1>7, <2>2
    <3>2. proposal'[x] = proposal[x] \/ proposal[x].decision = "pending"
      BY <2>2, <3>1 DEF Moves, IsPending
    <3>3. proposal[x] # NoProposal
      BY <2>2, <3>2 DEF NoProposal
    <3> QED BY <2>2, <3>3 DEF Exists
  <2> QED BY <1>7, <2>1, <2>2 DEF Exists
<1>8. DeletesFirst(r)'
  <2>1. ASSUME NEW p \in (r.doomed \cap Proposals) \ history'.contested
        PROVE  proposal'[p].decision \in {"none", "rejected"}
    <3>1. p \in history.known /\ p \notin history.contested
      BY <1>3, <2>1 DEF Moves
    <3>2. proposal[p].decision \in {"none", "rejected"}
      BY <2>1, <3>1 DEF View, DeletesFirst
    <3> QED BY <2>1, <3>1, <3>2 DEF Moves, IsPending, NoProposal
  <2>2. ASSUME Purges(r), NEW x \in (r.doomed \cap Members(r.kind)) \ history'.contested, Exists(x)'
        PROVE  x \in r.todo
    <3>1. x \in (Ids \cap history.known) \ history'.contested /\ x \notin history.contested
      BY <1>3, <2>2 DEF Moves
    <3>2. Exists(x)
      BY <1>7, <2>2, <3>1
    <3> QED BY <2>2, <3>1, <3>2 DEF View, DeletesFirst
  <2>3. /\ Purges(r) => r.todo \subseteq r.doomed
        /\ Purges(r) /\ r.scope = "all" => r.pc # "delete" /\ r.todo = {}
    BY DEF View, DeletesFirst
  <2> QED BY <2>1, <2>2, <2>3 DEF DeletesFirst, Purges
<1> QED BY <1>1, <1>2, <1>6, <1>8 DEF View

(* What is left to show when one request has moved.                        *)
LEMMA OrderlyStep ==
  ASSUME TypeOK, TypeOK', Orderly, NEW c \in Calls,
         \A d \in Calls \ {c} : call'[d] = call[d],
         Moves, NEW n, call'[c] = n, View(n)', RowsKnown', Findable',
         \A d \in Calls \ {c} : \A p \in Proposals \ history'.contested :
           Writes(call[d], p) => proposal'[p] = proposal[p] /\ ~Writes(n, p)
  PROVE  Orderly'
<1>1. ASSUME NEW d \in Calls PROVE View(call[d])'
  <2>1. CASE d = c
    BY <2>1
  <2>2. CASE d # c
    <3>1. PICK r \in CallState : r = call[d] /\ call'[d] = r
      BY <2>2 DEF TypeOK
    <3>2. View(r)
      BY <3>1 DEF Orderly
    <3>3. r.pc \in {"assess", "write"} /\ r.about \notin history'.contested =>
            proposal'[r.about] = proposal[r.about]
      BY <2>2, <3>1 DEF Writes, CallState, Fits
    <3>4. View(r)'
      BY <3>2, <3>3, ViewFrame
    <3> QED BY <3>1, <3>4
  <2> QED BY <2>1, <2>2
<1>2. OneWriter'
  <2> SUFFICES ASSUME NEW p \in Proposals \ history'.contested, NEW d \in Calls, NEW e \in Calls,
                      Writes(call'[d], p), Writes(call'[e], p), d # e
               PROVE  FALSE
    BY DEF OneWriter, Writes
  <2>1. CASE d # c /\ e # c
    BY <2>1 DEF Orderly, OneWriter, Moves
  <2>2. CASE d = c \/ e = c
    BY <2>2
  <2> QED BY <2>1, <2>2
<1> QED BY <1>1, <1>2 DEF Orderly

(* Nothing open writes a record that is unchanged.                         *)
LEMMA QuietStep ==
  ASSUME TypeOK, TypeOK', Orderly, NEW c \in Calls,
         \A d \in Calls \ {c} : call'[d] = call[d],
         UNCHANGED <<staged, proposal, index>>, history'.known = history.known,
         history'.told = history.told, history.contested \subseteq history'.contested,
         NEW n, call'[c] = n, View(n),
         \A d \in Calls \ {c} : \A p \in Proposals \ history'.contested :
           Writes(call[d], p) => ~Writes(n, p)
  PROVE  Orderly'
<1>1. Moves
  BY MovesNone
<1>2. RowsKnown'
  BY DEF Orderly, RowsKnown, Exists
<1>3. Findable'
  BY DEF Orderly, Findable, Exists
<1>4. View(n)'
  BY <1>1, ViewFrame DEF TypeOK
<1> QED BY <1>1, <1>2, <1>3, <1>4, OrderlyStep

(* A request that holds nothing relies on nothing.                         *)
LEMMA FreshView ==
  ASSUME NEW n, n.pc \in {"idle", "append", "select", "propose"},
         n.ids = {}, n.doomed = {}, n.seen = {}, n.pc = "append" => n.about \in history.known
  PROVE  View(n)
<1>1. HoldsKnown(n) /\ Current(n)
  BY DEF HoldsKnown, Current
<1>2. Spares(n)
  BY DEF Spares, ItemsIn
<1>3. DeletesFirst(n)
  BY DEF DeletesFirst, Purges
<1> QED BY <1>1, <1>2, <1>3 DEF View

LEMMA PurgingShape ==
  ASSUME NEW r \in CallState
  PROVE  \/ Purging(r) = Idle
         \/ /\ Purging(r).pc = "delete" /\ Purging(r).scope = "session"
            /\ Purging(r).doomed = r.doomed /\ Purging(r).seen = r.seen /\ Purging(r).ids = {}
            /\ Purging(r).todo = r.doomed \cap Members(Purging(r).kind)
<1>1. CASE r.doomed = {}
  BY <1>1 DEF Purging
<1>2. CASE r.doomed # {}
  <2>1. PICK k, todo : /\ todo = r.doomed \cap Members(k)
                       /\ Purging(r) = [r EXCEPT !.pc = "delete", !.kind = k, !.scope = "session",
                                                 !.kept = {}, !.ids = {}, !.todo = todo]
    BY <1>2 DEF Purging
  <2> QED BY <2>1 DEF CallState, CallRecord
<1> QED BY <1>1, <1>2

LEMMA PurgingView ==
  ASSUME NEW r \in CallState, r.doomed \cup r.seen \subseteq history.known,
         \A p \in (r.doomed \cap Proposals) \ history.contested :
           proposal[p].decision \in {"none", "rejected"},
         ItemsIn(r.seen, Staging \ r.doomed)
  PROVE  View(Purging(r)) /\ \A p : ~Writes(Purging(r), p)
<1>1. CASE Purging(r) = Idle
  <2>1. View(Idle)
    BY FreshView DEF Idle
  <2> QED BY <1>1, <2>1 DEF Writes, Idle
<1>2. ASSUME NEW n, n = Purging(r), n.pc = "delete", n.scope = "session", n.doomed = r.doomed,
             n.seen = r.seen, n.ids = {}, n.todo = r.doomed \cap Members(n.kind)
      PROVE  View(n) /\ \A p : ~Writes(n, p)
  <2>1. HoldsKnown(n) /\ Current(n)
    BY <1>2 DEF HoldsKnown, Current
  <2>2. Spares(n)
    BY <1>2 DEF Spares
  <2>3. DeletesFirst(n)
    BY <1>2 DEF DeletesFirst, Purges
  <2> QED BY <1>2, <2>1, <2>2, <2>3 DEF View, Writes
<1> QED BY <1>1, <1>2, PurgingShape

-----------------------------------------------------------------------------
(* The actions, one by one. First what holds of every step of a request.   *)
LEMMA StepFacts ==
  ASSUME TypeOK, Orderly, [Next]_vars, NEW c \in Calls, Opening(c) \/ Continuing(c) \/ Die(c)
  PROVE  /\ TypeOK' /\ \A d \in Calls \ {c} : call'[d] = call[d]
         /\ history.known \subseteq history'.known
         /\ history.contested \subseteq history'.contested
         /\ call[c] \in CallState /\ View(call[c])
BY TypeStep, OthersStay, HistoryGrows DEF TypeOK, Orderly

LEMMA StageOrderly ==
  ASSUME TypeOK, Orderly, [Next]_vars, NEW c \in Calls, NEW s \in Staging, Stage(c, s)
  PROVE  Orderly'
<1>0. /\ TypeOK' /\ \A d \in Calls \ {c} : call'[d] = call[d]
      /\ history.known \subseteq history'.known
      /\ history.contested \subseteq history'.contested
  BY StepFacts DEF Opening
<1>1. PICK b \in HistoryRecord : /\ b = Begun /\ b.known = history.known /\ b.told = history.told
                                 /\ b.contested = history.contested
  BY BegunTyped
<1>2. history' = [b EXCEPT !.known = @ \cup {s}]
  BY <1>1 DEF Stage
<1>3. /\ history'.known = history.known \cup {s} /\ history'.told = history.told
      /\ history'.contested = history.contested /\ s \notin history.known
  BY <1>1, <1>2 DEF HistoryRecord, Stage
<1>4. PICK n : n = [Idle EXCEPT !.pc = "append", !.about = s]
  OBVIOUS
<1>5. call'[c] = n /\ n.pc = "append" /\ n.about = s /\ n.ids = {} /\ n.doomed = {} /\ n.seen = {}
  BY <1>4 DEF Stage, Begin, Idle, TypeOK
<1>6. Moves
  BY <1>0, <1>3 DEF Moves, Stage
<1>7. View(n)'
  <2>1. HoldsKnown(n)' /\ Current(n)'
    BY <1>3, <1>5 DEF HoldsKnown, Current
  <2>2. Spares(n)'
    BY <1>5 DEF Spares, ItemsIn
  <2>3. DeletesFirst(n)'
    BY <1>5 DEF DeletesFirst, Purges
  <2> QED BY <2>1, <2>2, <2>3 DEF View
<1>8. RowsKnown'
  BY <1>3 DEF Stage, Orderly, RowsKnown, Exists
<1>9. Findable'
  <2> SUFFICES ASSUME NEW x \in history.told \ history.contested, Exists(x)'
               PROVE  x \in index[KindOf(x)]["all"]
    BY <1>3 DEF Findable, Stage
  <2>1. x # s
    BY <1>3 DEF Orderly, RowsKnown
  <2> QED BY <2>1 DEF Orderly, Findable, Exists, Stage
<1>10. \A d \in Calls \ {c} : \A p \in Proposals \ history'.contested :
         Writes(call[d], p) => proposal'[p] = proposal[p] /\ ~Writes(n, p)
  BY <1>5 DEF Stage, Writes
<1> QED BY <1>0, <1>5, <1>6, <1>7, <1>8, <1>9, <1>10, OrderlyStep

(* The requests that only read rows as they begin.                         *)
LEMMA DiscardOrderly ==
  ASSUME TypeOK, Orderly, [Next]_vars, NEW c \in Calls,
         NEW ids \in SUBSET index["staging"]["session"], Discard(c, ids)
  PROVE  Orderly'
<1>0. /\ TypeOK' /\ \A d \in Calls \ {c} : call'[d] = call[d]
  BY StepFacts DEF Opening
<1>1. /\ history'.known = history.known /\ history'.told = history.told
      /\ history'.contested = history.contested
  BY BegunTyped DEF Discard
<1>2. PICK r : r = [Idle EXCEPT !.doomed = ids]
  OBVIOUS
<1>3. ids \in SUBSET Staging /\ ids \in SUBSET Ids /\ ids \subseteq history.known
  BY IndexTyped DEF Kind, Scope, Members, Orderly, RowsKnown
<1>4. r \in CallState /\ r.doomed = ids /\ r.seen = {}
  BY <1>2, <1>3, IdleTyped DEF CallState, CallRecord, Fits, Idle
<1>5. PICK n : n = Purging(r)
  OBVIOUS
<1>6. View(n) /\ \A p : ~Writes(n, p)
  BY <1>3, <1>4, <1>5, IdsDiffer, PurgingView DEF ItemsIn
<1>7. call'[c] = n
  BY <1>2, <1>5 DEF Discard, Begin, TypeOK
<1> QED BY <1>0, <1>1, <1>6, <1>7, QuietStep DEF Discard

LEMMA RunOrderly ==
  ASSUME TypeOK, Orderly, [Next]_vars, NEW c \in Calls, NEW scope \in Scope, Run(c, scope)
  PROVE  Orderly'
<1>0. /\ TypeOK' /\ \A d \in Calls \ {c} : call'[d] = call[d]
  BY StepFacts DEF Opening
<1>1. /\ history'.known = history.known /\ history'.told = history.told
      /\ history'.contested = history.contested
  BY BegunTyped DEF Run
<1>2. PICK n : n = [Idle EXCEPT !.pc = "select", !.todo = index["staging"][scope]]
  OBVIOUS
<1>3. n.pc = "select" /\ n.ids = {} /\ n.doomed = {} /\ n.seen = {}
  BY <1>2 DEF Idle
<1>4. View(n) /\ \A p : ~Writes(n, p)
  BY <1>3, FreshView DEF Writes
<1>5. call'[c] = n
  BY <1>2 DEF Run, Begin, TypeOK
<1> QED BY <1>0, <1>1, <1>4, <1>5, QuietStep DEF Run

LEMMA CleanupOrderly ==
  ASSUME TypeOK, Orderly, [Next]_vars, NEW c \in Calls, NEW scope \in Scope, Cleanup(c, scope)
  PROVE  Orderly'
<1>0. /\ TypeOK' /\ \A d \in Calls \ {c} : call'[d] = call[d]
  BY StepFacts DEF Opening
<1>1. /\ history'.known = history.known /\ history'.told = history.told
      /\ history'.contested = history.contested
  BY BegunTyped DEF Cleanup
<1>2. PICK ids : ids = index["proposals"][scope]
  OBVIOUS
<1>3. ids \subseteq Proposals /\ ids \subseteq history.known
  BY <1>2, IndexTyped DEF Kind, Members, Orderly, RowsKnown
<1>4. PICK n : n = [Idle EXCEPT !.pc = "scan", !.cleans = TRUE, !.scope = scope,
                                !.todo = ids, !.seen = ids]
  OBVIOUS
<1>5. n.pc = "scan" /\ n.todo = ids /\ n.seen = ids /\ n.ids = {} /\ n.doomed = {} /\ n.kept = {}
  BY <1>4 DEF Idle
<1>6. HoldsKnown(n) /\ Current(n)
  BY <1>3, <1>5 DEF HoldsKnown, Current
<1>7. Spares(n)
  BY <1>3, <1>5, ItemStaged DEF Spares, ItemsIn
<1>8. DeletesFirst(n)
  BY <1>5 DEF DeletesFirst, Purges
<1>9. call'[c] = n /\ \A p : ~Writes(n, p)
  BY <1>2, <1>4, <1>5 DEF Cleanup, Begin, TypeOK, Writes
<1>10. View(n)
  BY <1>6, <1>7, <1>8 DEF View
<1> QED BY <1>0, <1>1, <1>9, <1>10, QuietStep DEF Cleanup

(* The requests that take a copy: nobody else holds one, or it is          *)
(* contested from now on.                                                  *)
LEMMA CopyOrderly ==
  ASSUME TypeOK, TypeOK', Orderly, NEW c \in Calls, \A d \in Calls \ {c} : call'[d] = call[d],
         NEW p \in Proposals, IsPending(p), call[c].pc = "idle",
         NEW n, call'[c] = n, n.pc \in {"assess", "write"}, n.about = p,
         n.ids = {}, n.doomed = {}, n.seen = {}, n.copy.item = proposal[p].item,
         UNCHANGED <<staged, proposal, index>>, history'.known = history.known,
         history'.told = history.told, history'.contested = history.contested \cup Contest(p)
  PROVE  Orderly'
<1>1. p \in history.known
  BY DEF IsPending, NoProposal, Orderly, RowsKnown, Exists, Ids
<1>2. View(n)
  <2>1. HoldsKnown(n) /\ Current(n)
    BY <1>1 DEF HoldsKnown, Current
  <2>2. Spares(n)
    BY DEF Spares, ItemsIn
  <2>3. DeletesFirst(n)
    BY DEF DeletesFirst, Purges
  <2> QED BY <2>1, <2>2, <2>3 DEF View
<1>3. \A d \in Calls \ {c} : \A q \in Proposals \ history'.contested :
        Writes(call[d], q) => ~Writes(n, q)
  BY DEF Writes, Contest
<1> QED BY <1>2, <1>3, QuietStep

LEMMA AssureOrderly ==
  ASSUME TypeOK, Orderly, [Next]_vars, NEW c \in Calls, NEW p \in Proposals, AttachAssurance(c, p)
  PROVE  Orderly'
<1>0. /\ TypeOK' /\ \A d \in Calls \ {c} : call'[d] = call[d]
  BY StepFacts DEF Opening
<1>1. PICK b \in HistoryRecord : /\ b = Begun /\ b.known = history.known /\ b.told = history.told
                                 /\ b.contested = history.contested
  BY BegunTyped
<1>2. history' = [b EXCEPT !.contested = @ \cup Contest(p)]
  BY <1>1 DEF AttachAssurance
<1>3. /\ history'.known = history.known /\ history'.told = history.told
      /\ history'.contested = history.contested \cup Contest(p)
  BY <1>1, <1>2 DEF HistoryRecord
<1>4. PICK n : n = [Idle EXCEPT !.pc = "assess", !.about = p, !.copy = proposal[p]]
  OBVIOUS
<1>5. /\ call'[c] = n /\ n.pc = "assess" /\ n.about = p /\ n.ids = {} /\ n.doomed = {}
      /\ n.seen = {} /\ n.copy = proposal[p]
  BY <1>4 DEF AttachAssurance, Begin, Idle, TypeOK
<1> QED BY <1>0, <1>3, <1>5, CopyOrderly DEF AttachAssurance, Begin

LEMMA DecideOrderly ==
  ASSUME TypeOK, Orderly, [Next]_vars, NEW c \in Calls, NEW p \in Proposals,
         NEW decision \in {"approved", "rejected"}, NEW required \in BOOLEAN,
         NEW passed \in BOOLEAN, Decide(c, p, decision, required, passed)
  PROVE  Orderly'
<1>0. /\ TypeOK' /\ \A d \in Calls \ {c} : call'[d] = call[d]
  BY StepFacts DEF Opening
<1>1. PICK b \in HistoryRecord : /\ b = Begun /\ b.known = history.known /\ b.told = history.told
                                 /\ b.contested = history.contested
  BY BegunTyped
<1>2. PICK more : history' = [b EXCEPT !.contested = @ \cup Contest(p), !.claimed = @ \cup more]
  BY <1>1 DEF Decide
<1>3. /\ history'.known = history.known /\ history'.told = history.told
      /\ history'.contested = history.contested \cup Contest(p)
  BY <1>1, <1>2 DEF HistoryRecord
<1>4. PICK row : row = [proposal[p] EXCEPT !.decision = decision, !.required = required,
                                           !.passed = passed]
  OBVIOUS
<1>5. row.item = proposal[p].item
  <2>1. proposal[p] \in ProposalRow
    BY DEF Decide, IsPending, NoProposal, TypeOK
  <2> QED BY <1>4, <2>1 DEF ProposalRow
<1>6. PICK n : n = [Idle EXCEPT !.pc = "write", !.about = p, !.copy = row]
  OBVIOUS
<1>7. /\ call'[c] = n /\ n.pc = "write" /\ n.about = p /\ n.ids = {} /\ n.doomed = {}
      /\ n.seen = {} /\ n.copy = row
  BY <1>4, <1>6 DEF Decide, Begin, Idle, TypeOK
<1> QED BY <1>0, <1>3, <1>5, <1>7, CopyOrderly DEF Decide, Begin

-----------------------------------------------------------------------------
(* A request that goes on with what it holds, and holds no copy.           *)
LEMMA KeepView ==
  ASSUME NEW r, View(r), NEW n, n.pc \in {"idle", "append", "select", "propose"},
         n.ids \subseteq r.ids, n.doomed = r.doomed, n.seen = r.seen,
         n.pc = "append" => n.about \in history.known
  PROVE  View(n) /\ \A p : ~Writes(n, p)
<1>1. HoldsKnown(n) /\ Current(n)
  BY DEF View, HoldsKnown, Current
<1>2. Spares(n)
  BY DEF View, Spares
<1>3. DeletesFirst(n)
  BY DEF View, DeletesFirst, Purges
<1> QED BY <1>1, <1>2, <1>3 DEF View, Writes

LEMMA ReadOrderly ==
  ASSUME TypeOK, Orderly, [Next]_vars, NEW c \in Calls, ReadToAppend(c) \/ ReadToRemove(c)
  PROVE  Orderly'
<1>0. /\ TypeOK' /\ \A d \in Calls \ {c} : call'[d] = call[d]
  BY StepFacts DEF Continuing
<1>1. PICK r \in CallState : r = call[c] /\ View(r) /\ r.pc \in {"append", "remove"}
  BY DEF TypeOK, Orderly, ReadToAppend, ReadToRemove
<1>2. PICK ids : ids = index[r.kind][r.scope]
  OBVIOUS
<1>3. ids \subseteq history.known
  BY <1>2 DEF CallState, CallRecord, Orderly, RowsKnown
<1>4. PICK pc \in {"appending", "removing"} :
        /\ r.pc = IF pc = "appending" THEN "append" ELSE "remove"
        /\ call' = [call EXCEPT ![c] = Reading(r, pc)]
  BY <1>1 DEF ReadToAppend, ReadToRemove, GoOn
<1>5. PICK n : n = [r EXCEPT !.pc = pc, !.ids = ids]
  OBVIOUS
<1>6. call'[c] = n
  BY <1>2, <1>4, <1>5 DEF Reading, TypeOK
<1>7. /\ n.pc = pc /\ n.ids = ids /\ n.about = r.about /\ n.todo = r.todo /\ n.kept = r.kept
      /\ n.doomed = r.doomed /\ n.seen = r.seen /\ n.kind = r.kind /\ n.scope = r.scope
  BY <1>5 DEF CallState, CallRecord
<1>8. HoldsKnown(n) /\ Current(n)
  BY <1>1, <1>3, <1>4, <1>7 DEF View, HoldsKnown, Current
<1>9. Spares(n)
  BY <1>1, <1>7 DEF View, Spares
<1>10. DeletesFirst(n)
  BY <1>1, <1>4, <1>7 DEF View, DeletesFirst, Purges
<1>11. View(n) /\ \A p : ~Writes(n, p)
  BY <1>7, <1>8, <1>9, <1>10 DEF View, Writes
<1>12. UNCHANGED <<staged, proposal, index, history>>
  BY DEF ReadToAppend, ReadToRemove
<1> QED BY <1>0, <1>6, <1>11, <1>12, QuietStep

(* Writing an index row keeps what was reported as stored in the index over*)
(* all sessions, unless the row had changed since it was read.             *)
LEMMA IndexWritten ==
  ASSUME TypeOK, RowsKnown, Findable, NEW r \in CallState, NEW ids, ids \subseteq Members(r.kind),
         ids \subseteq history.known, index' = Written(r, ids), UNCHANGED <<staged, proposal>>,
         history'.known = history.known, history'.contested = history.contested,
         NEW more \in SUBSET (Members(r.kind) \cap ids), more # {} => r.scope = "all",
         history'.told = Told(r) \cup more,
         r.scope = "all" => \A x \in r.ids \ history.contested : Exists(x) => x \in ids
  PROVE  RowsKnown' /\ Findable'
<1>1. r.kind \in Kind /\ r.scope \in Scope
  BY DEF CallState, CallRecord
<1>2. /\ index'[r.kind][r.scope] = ids
      /\ \A k \in Kind, scope \in Scope :
           k # r.kind \/ scope # r.scope => index'[k][scope] = index[k][scope]
  BY WrittenIs
<1>3. Told(r) \subseteq history.told
  BY DEF Told
<1>4. RowsKnown'
  <2>1. \A x \in Ids : Exists(x)' => x \in history'.known
    BY DEF RowsKnown, Exists
  <2>2. history'.told \subseteq history'.known
    BY <1>3 DEF RowsKnown
  <2>3. \A k \in Kind, scope \in Scope : index'[k][scope] \subseteq history'.known
    BY <1>2 DEF RowsKnown
  <2> QED BY <2>1, <2>2, <2>3 DEF RowsKnown
<1>5. Findable'
  <2> SUFFICES ASSUME NEW x \in history'.told \ history'.contested, Exists(x)'
               PROVE  x \in index'[KindOf(x)]["all"]
    BY DEF Findable
  <2>1. Exists(x) /\ x \in Ids
    BY DEF Exists, TypeOK, Ids
  <2>2. KindOf(x) \in Kind /\ (KindOf(x) = r.kind <=> x \in Members(r.kind))
    BY <1>1, <2>1, KindIs
  <2>3. x \in more => x \in index'[KindOf(x)]["all"]
    BY <1>2, <2>2
  <2>4. CASE x \in Told(r) /\ (KindOf(x) # r.kind \/ r.scope # "all")
    <3>1. x \in index[KindOf(x)]["all"]
      BY <1>3, <2>1, <2>4 DEF Findable
    <3> QED BY <1>2, <2>2, <2>4, <3>1 DEF Scope
  <2>5. CASE x \in Told(r) /\ KindOf(x) = r.kind /\ r.scope = "all"
    <3>1. ~Loses(r)
      BY <2>2, <2>5 DEF Told
    <3>2. x \in index[r.kind]["all"]
      BY <1>3, <2>1, <2>5 DEF Findable
    <3>3. x \in r.ids
      BY <2>5, <3>1, <3>2 DEF Loses
    <3> QED BY <1>2, <2>1, <2>5, <3>3
  <2> QED BY <2>3, <2>4, <2>5
<1> QED BY <1>4, <1>5

LEMMA AppendOrderly ==
  ASSUME TypeOK, Orderly, [Next]_vars, NEW c \in Calls, AppendId(c)
  PROVE  Orderly'
<1>0. /\ TypeOK' /\ \A d \in Calls \ {c} : call'[d] = call[d]
  BY StepFacts DEF Continuing
<1>1. PICK r \in CallState : r = call[c] /\ View(r) /\ r.pc = "appending"
  BY DEF TypeOK, Orderly, AppendId
<1>2. /\ r.about \in Members(r.kind) /\ r.ids \subseteq Members(r.kind)
      /\ r.about \in history.known /\ r.ids \subseteq history.known
  BY <1>1 DEF CallState, Fits, View, HoldsKnown
<1>3. PICK ids : ids = r.ids \cup {r.about}
  OBVIOUS
<1>4. index' = Written(r, ids) /\ UNCHANGED <<staged, proposal>>
  BY <1>1, <1>3 DEF AppendId, Appended
<1>5. PICK more : more = {x \in {r.about} : r.scope = "all"}
  OBVIOUS
<1>6. history' = [history EXCEPT !.told = Told(r) \cup more]
  BY <1>1, <1>5 DEF AppendId
<1>7. /\ history'.known = history.known /\ history'.contested = history.contested
      /\ history'.told = Told(r) \cup more
  BY <1>6 DEF TypeOK, HistoryRecord
<1>8. RowsKnown' /\ Findable'
  <2>1. more \in SUBSET (Members(r.kind) \cap ids) /\ (more # {} => r.scope = "all")
    BY <1>2, <1>3, <1>5
  <2>2. ids \subseteq Members(r.kind) /\ ids \subseteq history.known
    BY <1>2, <1>3
  <2>3. r.scope = "all" => \A x \in r.ids \ history.contested : Exists(x) => x \in ids
    BY <1>3
  <2> QED BY <1>4, <1>7, <2>1, <2>2, <2>3, IndexWritten DEF Orderly
<1>9. PICK m : m = [r EXCEPT !.pc = "append", !.scope = "all", !.ids = {}]
  OBVIOUS
<1>10. /\ m \in CallState /\ m.pc = "append" /\ m.ids = {} /\ m.doomed = r.doomed
       /\ m.seen = r.seen /\ m.about = r.about
  BY <1>2, <1>9 DEF CallState, CallRecord, Fits, Pc, Scope
<1>11. View(m) /\ \A p : ~Writes(m, p)
  BY <1>1, <1>2, <1>10, KeepView
<1>12. View(Idle) /\ \A p : ~Writes(Idle, p)
  BY FreshView DEF Idle, Writes
<1>13. PICK n \in CallState : call'[c] = n /\ View(n) /\ \A p : ~Writes(n, p)
  BY <1>1, <1>9, <1>10, <1>11, <1>12, IdleTyped DEF AppendId, GoOn, TypeOK
<1>14. Moves
  BY <1>4, <1>7, MovesNone
<1>15. View(n)'
  BY <1>0, <1>13, <1>14, ViewFrame DEF Writes, CallState, Fits
<1> QED BY <1>0, <1>4, <1>8, <1>13, <1>14, <1>15, OrderlyStep

LEMMA DeleteOrderly ==
  ASSUME TypeOK, Orderly, [Next]_vars, NEW c \in Calls, NEW x \in Ids, Delete(c, x)
  PROVE  Orderly'
<1>0. /\ TypeOK' /\ \A d \in Calls \ {c} : call'[d] = call[d]
  BY StepFacts DEF Continuing
<1>1. PICK r \in CallState : r = call[c] /\ View(r) /\ r.pc = "delete" /\ x \in r.todo
  BY DEF TypeOK, Orderly, Delete
<1>2. /\ staged' = staged \ {x} /\ UNCHANGED <<index, job, history>>
      /\ \A p \in Proposals : proposal'[p] = IF p = x THEN NoProposal ELSE proposal[p]
  BY DEF Delete
<1>3. ~Exists(x)' /\ \A y : Exists(y)' => Exists(y)
  BY <1>2 DEF Exists
<1>4. Moves
  BY <1>2 DEF Moves
<1>5. RowsKnown' /\ Findable'
  BY <1>2, <1>3 DEF Orderly, RowsKnown, Findable
<1>6. View(r)'
  BY <1>0, <1>1, <1>4, ViewFrame
<1>7. PICK pc \in {"remove", "delete"} : call' = [call EXCEPT ![c] = [r EXCEPT !.todo = @ \ {x}, !.pc = pc]]
  BY <1>1 DEF Delete, GoOn
<1>8. PICK n : n = [r EXCEPT !.todo = @ \ {x}, !.pc = pc]
  OBVIOUS
<1>9. call'[c] = n
  BY <1>7, <1>8 DEF TypeOK
<1>10. /\ n.pc = pc /\ n.todo = r.todo \ {x} /\ n.about = r.about /\ n.ids = r.ids
       /\ n.doomed = r.doomed /\ n.seen = r.seen /\ n.kind = r.kind /\ n.scope = r.scope
  BY <1>8 DEF CallState, CallRecord
<1>11. View(n)'
  <2>1. HoldsKnown(n)' /\ Current(n)'
    BY <1>6, <1>10 DEF View, HoldsKnown, Current
  <2>2. Spares(n)'
    BY <1>6, <1>10 DEF View, Spares
  <2>3. r.scope # "all" /\ r.todo \subseteq r.doomed
    BY <1>1 DEF View, DeletesFirst, Purges
  <2>4. \A y \in (n.doomed \cap Members(n.kind)) \ history'.contested : Exists(y)' => y \in n.todo
    BY <1>1, <1>3, <1>6, <1>10 DEF View, DeletesFirst, Purges
  <2>5. DeletesFirst(n)'
    BY <1>6, <1>10, <2>3, <2>4 DEF View, DeletesFirst, Purges
  <2> QED BY <2>1, <2>2, <2>5 DEF View
<1>12. ASSUME NEW d \in Calls \ {c}, NEW p \in Proposals \ history'.contested, Writes(call[d], p)
       PROVE  proposal'[p] = proposal[p] /\ ~Writes(n, p)
  <2>1. proposal[p].decision = "pending"
    BY <1>2, <1>12 DEF Orderly, View, Current, Writes, IsPending
  <2>2. p # x
    BY <1>1, <1>2, <1>12, <2>1 DEF View, DeletesFirst, Purges
  <2> QED BY <1>2, <1>10, <1>12, <2>2 DEF Writes
<1> QED BY <1>0, <1>4, <1>5, <1>9, <1>11, <1>12, OrderlyStep

LEMMA RemoveOrderly ==
  ASSUME TypeOK, Orderly, [Next]_vars, NEW c \in Calls, Remove(c)
  PROVE  Orderly'
<1>0. /\ TypeOK' /\ \A d \in Calls \ {c} : call'[d] = call[d]
  BY StepFacts DEF Continuing
<1>1. PICK r \in CallState : r = call[c] /\ View(r) /\ r.pc = "removing"
  BY DEF TypeOK, Orderly, Remove
<1>2. PICK ids : ids = r.ids \ r.doomed
  OBVIOUS
<1>3. index' = Written(r, ids) /\ UNCHANGED <<staged, proposal>> /\ call'[c] = Removed(r)
  BY <1>1, <1>2 DEF Remove, Kept, GoOn, TypeOK
<1>4. /\ history'.known = history.known /\ history'.contested = history.contested
      /\ history'.told = Told(r)
  BY <1>1 DEF Remove, TypeOK, HistoryRecord
<1>5. RowsKnown' /\ Findable'
  <2>1. ids \subseteq Members(r.kind) /\ ids \subseteq history.known /\ r.ids \subseteq Members(r.kind)
    BY <1>1, <1>2 DEF CallState, Fits, View, HoldsKnown
  <2>2. r.scope = "all" => \A x \in r.ids \ history.contested : Exists(x) => x \in ids
    BY <1>1, <1>2, <2>1 DEF View, DeletesFirst, Purges
  <2>3. {} \in SUBSET (Members(r.kind) \cap ids) /\ history'.told = Told(r) \cup {}
    BY <1>4
  <2> QED BY <1>3, <1>4, <2>1, <2>2, <2>3, IndexWritten DEF Orderly
<1>6. Moves
  BY <1>3, <1>4, MovesNone
<1>7. PICK n \in CallState : n = Removed(r)
  BY RemovedTyped
<1>8. View(n) /\ \A p : ~Writes(n, p)
  <2>1. CASE r.todo # {}
    <3>1. PICK m : m = [r EXCEPT !.pc = "delete", !.ids = {}]
      OBVIOUS
    <3>2. /\ m.pc = "delete" /\ m.ids = {} /\ m.todo = r.todo /\ m.doomed = r.doomed
          /\ m.seen = r.seen /\ m.kind = r.kind /\ m.scope = r.scope
      BY <3>1 DEF CallState, CallRecord
    <3>3. HoldsKnown(m) /\ Current(m)
      BY <1>1, <3>2 DEF View, HoldsKnown, Current
    <3>4. Spares(m)
      BY <1>1, <3>2 DEF View, Spares
    <3>5. DeletesFirst(m)
      BY <1>1, <2>1, <3>2 DEF View, DeletesFirst, Purges
    <3> QED BY <1>7, <2>1, <3>1, <3>2, <3>3, <3>4, <3>5 DEF View, Writes, Removed
  <2>2. CASE r.todo = {} /\ r.scope = "session"
    <3>1. PICK m : m = [r EXCEPT !.pc = "remove", !.scope = "all", !.ids = {}]
      OBVIOUS
    <3>2. /\ m.pc = "remove" /\ m.ids = {} /\ m.todo = r.todo /\ m.doomed = r.doomed
          /\ m.seen = r.seen /\ m.kind = r.kind
      BY <3>1 DEF CallState, CallRecord
    <3>3. HoldsKnown(m) /\ Current(m)
      BY <1>1, <3>2 DEF View, HoldsKnown, Current
    <3>4. Spares(m)
      BY <1>1, <3>2 DEF View, Spares
    <3>5. DeletesFirst(m)
      BY <1>1, <2>2, <3>2 DEF View, DeletesFirst, Purges
    <3> QED BY <1>7, <2>2, <3>1, <3>2, <3>3, <3>4, <3>5 DEF View, Writes, Removed
  <2>3. CASE r.todo = {} /\ r.scope # "session"
    <3>1. PICK m : m = [r EXCEPT !.doomed = @ \ Members(r.kind)]
      OBVIOUS
    <3>2. m \in CallState /\ m.doomed = r.doomed \ Members(r.kind) /\ m.seen = r.seen
      BY <3>1 DEF CallState, CallRecord, Fits
    <3>3. m.doomed \cup m.seen \subseteq history.known
      BY <1>1, <3>2 DEF View, HoldsKnown
    <3>4. \A p \in (m.doomed \cap Proposals) \ history.contested :
            proposal[p].decision \in {"none", "rejected"}
      BY <1>1, <3>2 DEF View, DeletesFirst
    <3>5. ItemsIn(m.seen, Staging \ m.doomed)
      BY <1>1, <3>2 DEF View, Spares, ItemsIn
    <3>6. n = Purging(m)
      BY <1>7, <2>3, <3>1 DEF Removed
    <3> QED BY <3>2, <3>3, <3>4, <3>5, <3>6, PurgingView
  <2> QED BY <2>1, <2>2, <2>3
<1>9. View(n)'
  BY <1>0, <1>6, <1>8, ViewFrame DEF Writes, CallState, Fits
<1> QED BY <1>0, <1>3, <1>5, <1>6, <1>7, <1>8, <1>9, OrderlyStep

LEMMA SelectOrderly ==
  ASSUME TypeOK, Orderly, [Next]_vars, NEW c \in Calls, NEW s \in Staging, Select(c, s)
  PROVE  Orderly'
<1>0. /\ TypeOK' /\ \A d \in Calls \ {c} : call'[d] = call[d]
  BY StepFacts DEF Continuing
<1>1. PICK r \in CallState : r = call[c] /\ View(r) /\ r.pc = "select"
  BY DEF TypeOK, Orderly, Select
<1>2. PICK m, o : m = [Idle EXCEPT !.pc = "propose", !.about = s] /\ o = [r EXCEPT !.todo = @ \ {s}]
  OBVIOUS
<1>3. /\ m.pc = "propose" /\ m.ids = {} /\ m.doomed = {} /\ m.seen = {}
      /\ o.pc = "select" /\ o.ids = r.ids /\ o.doomed = r.doomed /\ o.seen = r.seen
  BY <1>1, <1>2 DEF Idle, CallState, CallRecord
<1>4. View(m) /\ View(Idle) /\ \A p : ~Writes(m, p) /\ ~Writes(Idle, p)
  BY <1>3, FreshView DEF Idle, Writes
<1>5. View(o) /\ \A p : ~Writes(o, p)
  BY <1>1, <1>3, KeepView
<1>6. PICK n : call'[c] = n /\ View(n) /\ \A p : ~Writes(n, p)
  BY <1>1, <1>2, <1>4, <1>5 DEF Select, GoOn, TypeOK
<1> QED BY <1>0, <1>6, QuietStep DEF Select

LEMMA ProposeOrderly ==
  ASSUME TypeOK, Orderly, [Next]_vars, NEW c \in Calls, NEW p \in Proposals,
         NEW required \in BOOLEAN, NEW passed \in BOOLEAN, Propose(c, p, required, passed)
  PROVE  Orderly'
<1>0. /\ TypeOK' /\ \A d \in Calls \ {c} : call'[d] = call[d]
  BY StepFacts DEF Continuing
<1>1. PICK more : history' = [history EXCEPT !.known = @ \cup {p}, !.claimed = @ \cup more]
  BY DEF Propose
<1>2. /\ history'.known = history.known \cup {p} /\ history'.told = history.told
      /\ history'.contested = history.contested /\ p \notin history.known
  BY <1>1 DEF TypeOK, HistoryRecord, Propose
<1>3. \A q \in Proposals \ {p} : proposal'[q] = proposal[q]
  BY DEF Propose, TypeOK
<1>4. staged' = staged /\ index' = index
  BY DEF Propose
<1>5. PICK n : n = [Idle EXCEPT !.pc = "append", !.about = p, !.kind = "proposals"]
  OBVIOUS
<1>6. call'[c] = n /\ n.pc = "append" /\ n.about = p /\ n.ids = {} /\ n.doomed = {} /\ n.seen = {}
  BY <1>5 DEF Propose, GoOn, Idle, TypeOK
<1>7. Moves
  BY <1>2, <1>3, <1>4 DEF Moves
<1>8. View(n)'
  <2>1. HoldsKnown(n)' /\ Current(n)'
    BY <1>2, <1>6 DEF HoldsKnown, Current
  <2>2. Spares(n)'
    BY <1>6 DEF Spares, ItemsIn
  <2>3. DeletesFirst(n)'
    BY <1>6 DEF DeletesFirst, Purges
  <2> QED BY <2>1, <2>2, <2>3 DEF View
<1>9. \A x \in Ids \ {p} : Exists(x)' => Exists(x)
  BY <1>3, <1>4 DEF Exists
<1>10. RowsKnown'
  BY <1>2, <1>4, <1>9 DEF Orderly, RowsKnown
<1>11. Findable'
  BY <1>2, <1>4, <1>9 DEF Orderly, RowsKnown, Findable, TypeOK, HistoryRecord
<1>12. ASSUME NEW d \in Calls \ {c}, NEW q \in Proposals \ history'.contested, Writes(call[d], q)
       PROVE  proposal'[q] = proposal[q] /\ ~Writes(n, q)
  <2>1. q \in history.known
    BY <1>12 DEF Orderly, View, HoldsKnown, Writes
  <2> QED BY <1>2, <1>3, <1>6, <2>1 DEF Writes
<1> QED BY <1>0, <1>6, <1>7, <1>8, <1>10, <1>11, <1>12, OrderlyStep

LEMMA AssessOrderly ==
  ASSUME TypeOK, Orderly, [Next]_vars, NEW c \in Calls, NEW j \in Jobs, Assess(c, j)
  PROVE  Orderly'
<1>0. /\ TypeOK' /\ \A d \in Calls \ {c} : call'[d] = call[d]
  BY StepFacts DEF Continuing
<1>1. PICK r \in CallState : r = call[c] /\ View(r) /\ r.pc = "assess"
  BY DEF TypeOK, Orderly, Assess
<1>2. CASE Accepts(r.about, j)
  <2>1. PICK n : n = [r EXCEPT !.pc = "write", !.copy.passed = Passes(j)]
    OBVIOUS
  <2>2. call'[c] = n
    BY <1>1, <1>2, <2>1 DEF Assess, GoOn, TypeOK
  <2>3. /\ n.pc = "write" /\ n.about = r.about /\ n.copy.item = r.copy.item /\ n.ids = r.ids
        /\ n.doomed = r.doomed /\ n.seen = r.seen
    BY <1>1, <2>1 DEF CallState, CallRecord, Fits, ProposalRow
  <2>4. HoldsKnown(n) /\ Current(n)
    BY <1>1, <2>3 DEF View, HoldsKnown, Current
  <2>5. Spares(n)
    BY <1>1, <2>3 DEF View, Spares
  <2>6. DeletesFirst(n)
    BY <1>1, <2>3 DEF View, DeletesFirst, Purges
  <2>7. View(n)
    BY <2>4, <2>5, <2>6 DEF View
  <2>8. \A d \in Calls \ {c} : \A p \in Proposals \ history'.contested :
          Writes(call[d], p) => ~Writes(n, p)
    BY <1>1, <2>3 DEF Assess, Orderly, OneWriter, Writes
  <2> QED BY <1>0, <2>2, <2>7, <2>8, QuietStep DEF Assess
<1>3. CASE ~Accepts(r.about, j)
  <2>1. call'[c] = Idle
    BY <1>1, <1>3 DEF Assess, GoOn, TypeOK
  <2>2. View(Idle) /\ \A p : ~Writes(Idle, p)
    BY FreshView DEF Idle, Writes
  <2> QED BY <1>0, <2>1, <2>2, QuietStep DEF Assess
<1> QED BY <1>2, <1>3

LEMMA WriteOrderly ==
  ASSUME TypeOK, Orderly, [Next]_vars, NEW c \in Calls, WriteBack(c)
  PROVE  Orderly'
<1>0. /\ TypeOK' /\ \A d \in Calls \ {c} : call'[d] = call[d]
  BY StepFacts DEF Continuing
<1>1. PICK r \in CallState : r = call[c] /\ View(r) /\ r.pc = "write"
  BY DEF TypeOK, Orderly, WriteBack
<1>2. PICK p \in Proposals : p = r.about /\ p \in history.known
  BY <1>1 DEF CallState, Fits, View, HoldsKnown
<1>3. /\ \A q \in Proposals : proposal'[q] = IF q = p THEN r.copy ELSE proposal[q]
      /\ UNCHANGED <<staged, index, job, history>> /\ call'[c] = Idle
  BY <1>1, <1>2 DEF WriteBack, GoOn, TypeOK
<1>4. p \notin history.contested => IsPending(p) /\ r.copy.item = proposal[p].item
  BY <1>1, <1>2 DEF View, Current
<1>5. Moves
  BY <1>3, <1>4 DEF Moves
<1>6. View(Idle)' /\ \A q : ~Writes(Idle, q)
  <2>1. HoldsKnown(Idle)' /\ Current(Idle)'
    BY DEF HoldsKnown, Current, Idle
  <2>2. Spares(Idle)'
    BY DEF Spares, ItemsIn, Idle
  <2>3. DeletesFirst(Idle)'
    BY DEF DeletesFirst, Purges, Idle
  <2> QED BY <2>1, <2>2, <2>3 DEF View, Idle, Writes
<1>7. \A x \in Ids \ {p} : Exists(x)' => Exists(x)
  BY <1>3 DEF Exists
<1>8. p \notin history.contested => Exists(p)
  BY <1>4 DEF IsPending, Exists, NoProposal
<1>9. RowsKnown'
  BY <1>2, <1>3, <1>7 DEF Orderly, RowsKnown
<1>10. Findable'
  BY <1>3, <1>7, <1>8 DEF Orderly, Findable, TypeOK, HistoryRecord
<1>11. ASSUME NEW d \in Calls \ {c}, NEW q \in Proposals \ history'.contested, Writes(call[d], q)
       PROVE  proposal'[q] = proposal[q]
  <2>1. q # p
    BY <1>1, <1>2, <1>3, <1>11 DEF Orderly, OneWriter, Writes
  <2> QED BY <1>3, <2>1
<1> QED BY <1>0, <1>3, <1>5, <1>6, <1>9, <1>10, <1>11, OrderlyStep

LEMMA ScanOrderly ==
  ASSUME TypeOK, Orderly, [Next]_vars, NEW c \in Calls, NEW p \in Proposals,
         NEW expired \in BOOLEAN, Scan(c, p, expired)
  PROVE  Orderly'
<1>0. /\ TypeOK' /\ \A d \in Calls \ {c} : call'[d] = call[d]
  BY StepFacts DEF Continuing
<1>1. PICK r \in CallState : r = call[c] /\ View(r) /\ r.pc = "scan" /\ p \in r.todo
  BY DEF TypeOK, Orderly, Scan
<1>2. PICK keep : keep = {s \in Staging : proposal[p] # NoProposal /\ Protects(proposal[p])
                                          /\ s = proposal[p].item}
  OBVIOUS
<1>3. PICK drop : drop = {q \in {p} : proposal[p] # NoProposal /\ Removable(proposal[p]) /\ expired}
  OBVIOUS
<1>4. PICK n : n = [r EXCEPT !.todo = @ \ {p}, !.kept = @ \cup keep, !.doomed = @ \cup drop]
  OBVIOUS
<1>5. call'[c] = n
  BY <1>1, <1>2, <1>3, <1>4 DEF Scan, GoOn, TypeOK
<1>6. /\ n.pc = "scan" /\ n.todo = r.todo \ {p} /\ n.kept = r.kept \cup keep
      /\ n.doomed = r.doomed \cup drop /\ n.seen = r.seen /\ n.ids = r.ids
  BY <1>1, <1>4 DEF CallState, CallRecord
<1>7. drop \subseteq {p} /\ (drop # {} => Exists(p) /\ proposal[p].decision = "rejected")
  BY <1>3 DEF Exists, Removable
<1>8. HoldsKnown(n) /\ Current(n)
  <2>1. drop \subseteq history.known
    BY <1>7 DEF Orderly, RowsKnown, Ids
  <2> QED BY <1>1, <1>6, <2>1 DEF View, HoldsKnown, Current
<1>9. Spares(n)
  <2>1. r.seen \subseteq Proposals /\ n.doomed \subseteq Proposals
    BY <1>1, <1>6, <1>7 DEF View, Spares, CallState, CallRecord
  <2>2. ItemsIn(n.seen, Staging \ n.doomed)
    BY <1>6, <2>1, ItemStaged, IdsDiffer DEF ItemsIn
  <2>3. Protects(proposal[p]) => proposal[p].item \in keep
    BY <1>2, ItemStaged DEF Protects, NoProposal
  <2>4. ItemsIn(n.seen \ n.todo, n.kept)
    BY <1>1, <1>6, <2>3 DEF View, Spares, ItemsIn
  <2> QED BY <1>6, <2>1, <2>2, <2>4 DEF Spares
<1>10. DeletesFirst(n)
  BY <1>1, <1>6, <1>7 DEF View, DeletesFirst, Purges
<1>11. View(n) /\ \A q : ~Writes(n, q)
  BY <1>6, <1>8, <1>9, <1>10 DEF View, Writes
<1> QED BY <1>0, <1>5, <1>11, QuietStep DEF Scan

(* A cleanup that has looked at all proposals, and looks at staged items.  *)
LEMMA ProbingOrderly ==
  ASSUME TypeOK, TypeOK', Orderly, NEW c \in Calls, \A d \in Calls \ {c} : call'[d] = call[d],
         UNCHANGED <<staged, proposal, index, history>>, NEW n \in CallState,
         call'[c] = Probing(n), n.pc = "probe", n.ids \cup n.doomed \cup n.seen \subseteq history.known,
         \A p \in (n.doomed \cap Proposals) \ history.contested :
           proposal[p].decision \in {"none", "rejected"},
         ItemsIn(n.seen, n.kept), n.kept \cap (n.todo \cup n.doomed) = {}
  PROVE  Orderly'
<1>1. ItemsIn(n.seen, Staging \ n.doomed)
  <2>1. n.kept \subseteq Staging
    BY DEF CallState, CallRecord
  <2> QED BY <2>1 DEF ItemsIn
<1>2. View(n) /\ \A p : ~Writes(n, p)
  <2>1. HoldsKnown(n) /\ Current(n)
    BY DEF HoldsKnown, Current
  <2>2. Spares(n)
    BY <1>1 DEF Spares
  <2>3. DeletesFirst(n)
    BY DEF DeletesFirst, Purges
  <2> QED BY <2>1, <2>2, <2>3 DEF View, Writes
<1>3. View(Purging(n)) /\ \A p : ~Writes(Purging(n), p)
  BY <1>1, PurgingView
<1>4. PICK m : call'[c] = m /\ View(m) /\ \A p : ~Writes(m, p)
  BY <1>2, <1>3 DEF Probing
<1> QED BY <1>4, QuietStep

LEMMA ListOrderly ==
  ASSUME TypeOK, Orderly, [Next]_vars, NEW c \in Calls, ListStaging(c)
  PROVE  Orderly'
<1>0. /\ TypeOK' /\ \A d \in Calls \ {c} : call'[d] = call[d]
  BY StepFacts DEF Continuing
<1>1. PICK r \in CallState : r = call[c] /\ View(r) /\ r.pc = "scan" /\ r.todo = {}
  BY DEF TypeOK, Orderly, ListStaging
<1>2. PICK ids \in SUBSET Ids : ids = index["staging"][r.scope] \ r.kept
  BY <1>1, IndexTyped DEF CallState, CallRecord, Kind
<1>3. PICK n : n = [r EXCEPT !.pc = "probe", !.todo = ids]
  OBVIOUS
<1>4. /\ n \in CallState /\ n.pc = "probe" /\ n.todo = ids /\ n.kept = r.kept
      /\ n.doomed = r.doomed /\ n.seen = r.seen /\ n.ids = r.ids
  BY <1>3 DEF CallState, CallRecord, Fits, Pc
<1>5. call'[c] = Probing(n)
  BY <1>1, <1>2, <1>3 DEF ListStaging, GoOn, TypeOK
<1>6. /\ n.ids \cup n.doomed \cup n.seen \subseteq history.known
      /\ \A p \in (n.doomed \cap Proposals) \ history.contested :
           proposal[p].decision \in {"none", "rejected"}
  BY <1>1, <1>4 DEF View, HoldsKnown, DeletesFirst
<1>7. ItemsIn(n.seen, n.kept)
  BY <1>1, <1>4 DEF View, Spares, ItemsIn
<1>8. n.kept \cap (n.todo \cup n.doomed) = {}
  <2>1. n.kept \subseteq Staging /\ n.doomed \subseteq Proposals
    BY <1>1, <1>4 DEF View, Spares, CallState, CallRecord
  <2> QED BY <1>2, <1>4, <2>1, IdsDiffer
<1> QED BY <1>0, <1>4, <1>5, <1>6, <1>7, <1>8, ProbingOrderly DEF ListStaging

LEMMA ProbeOrderly ==
  ASSUME TypeOK, Orderly, [Next]_vars, NEW c \in Calls, NEW s \in Staging,
         NEW expired \in BOOLEAN, Probe(c, s, expired)
  PROVE  Orderly'
<1>0. /\ TypeOK' /\ \A d \in Calls \ {c} : call'[d] = call[d]
  BY StepFacts DEF Continuing
<1>1. PICK r \in CallState : r = call[c] /\ View(r) /\ r.pc = "probe" /\ s \in r.todo
  BY DEF TypeOK, Orderly, Probe
<1>2. PICK drop : drop = {x \in {s} : x \in staged /\ expired}
  OBVIOUS
<1>3. PICK n : n = [r EXCEPT !.todo = @ \ {s}, !.doomed = @ \cup drop]
  OBVIOUS
<1>4. /\ n.pc = "probe" /\ n.todo = r.todo \ {s} /\ n.kept = r.kept
      /\ n.doomed = r.doomed \cup drop /\ n.seen = r.seen /\ n.ids = r.ids
  BY <1>1, <1>3 DEF CallState, CallRecord
<1>5. n \in CallState
  BY <1>1, <1>2, <1>3 DEF CallState, CallRecord, Fits, Ids
<1>6. call'[c] = Probing(n)
  BY <1>1, <1>2, <1>3 DEF Probe, GoOn, TypeOK
<1>7. drop \subseteq {s} /\ drop \subseteq history.known /\ drop \cap Proposals = {}
  BY <1>2, IdsDiffer DEF Orderly, RowsKnown, Exists, Ids
<1>8. /\ n.ids \cup n.doomed \cup n.seen \subseteq history.known
      /\ \A p \in (n.doomed \cap Proposals) \ history.contested :
           proposal[p].decision \in {"none", "rejected"}
  BY <1>1, <1>4, <1>7 DEF View, HoldsKnown, DeletesFirst
<1>9. ItemsIn(n.seen, n.kept) /\ n.kept \cap (n.todo \cup n.doomed) = {}
  BY <1>1, <1>4, <1>7 DEF View, Spares
<1> QED BY <1>0, <1>4, <1>5, <1>6, <1>8, <1>9, ProbingOrderly DEF Probe

(* Steps that leave what requests rely on.                                 *)
LEMMA CalmStep ==
  ASSUME TypeOK, TypeOK', Orderly, UNCHANGED <<staged, proposal, index, call>>,
         history'.known = history.known, history'.told = history.told,
         history'.contested = history.contested
  PROVE  Orderly'
<1>1. RowsKnown' /\ Findable'
  BY DEF Orderly, RowsKnown, Findable, Exists
<1>2. OneWriter'
  BY DEF Orderly, OneWriter
<1>3. Moves
  BY MovesNone
<1>4. ASSUME NEW d \in Calls PROVE View(call[d])'
  <2>1. PICK r \in CallState : r = call[d] /\ View(r)
    BY DEF TypeOK, Orderly
  <2>2. View(r)'
    BY <1>3, <2>1, ViewFrame DEF CallState, Fits
  <2> QED BY <2>1, <2>2
<1> QED BY <1>1, <1>2, <1>4 DEF Orderly

-----------------------------------------------------------------------------
LEMMA OrderlyKept ==
  ASSUME TypeOK, Orderly, [Next]_vars PROVE Orderly'
<1>0. TypeOK'
  BY TypeStep
<1>1. ASSUME NEW c \in Calls, Opening(c) PROVE Orderly'
  BY <1>1, StageOrderly, DiscardOrderly, RunOrderly, AssureOrderly, DecideOrderly, CleanupOrderly
     DEF Opening
<1>2. ASSUME NEW c \in Calls, Continuing(c) PROVE Orderly'
  BY <1>2, ReadOrderly, AppendOrderly, DeleteOrderly, RemoveOrderly, SelectOrderly,
     ProposeOrderly, AssessOrderly, WriteOrderly, ScanOrderly, ListOrderly, ProbeOrderly
     DEF Continuing
<1>3. ASSUME NEW c \in Calls, Die(c) PROVE Orderly'
  <2>1. call'[c] = Idle /\ \A d \in Calls \ {c} : call'[d] = call[d]
    BY <1>3 DEF Die, GoOn, TypeOK
  <2>2. View(Idle) /\ \A p : ~Writes(Idle, p)
    BY FreshView DEF Idle, Writes
  <2> QED BY <1>0, <1>3, <2>1, <2>2, QuietStep DEF Die
<1>4. CASE Validating
  <2>1. UNCHANGED <<staged, proposal, index, call>> /\ history' \in {history, Begun}
    BY <1>4 DEF Validating, Submit, EndJob
  <2> QED BY <1>0, <2>1, BegunTyped, CalmStep
<1>5. CASE UNCHANGED vars
  BY <1>0, <1>5, CalmStep DEF vars
<1> QED BY <1>1, <1>2, <1>3, <1>4, <1>5 DEF Next

(* The invariant: every verdict and approval has a basis, nothing an open  *)
(* request holds of an uncontested proposal is stale, and no record is     *)
(* taken out of an index too early.                                        *)
THEOREM DreamingInvariant == Spec => []IInv
<1>1. Init => RowsBacked /\ CopiesBacked /\ Orderly
  <2> SUFFICES ASSUME Init PROVE RowsBacked /\ CopiesBacked /\ Orderly
    OBVIOUS
  <2>1. RowsBacked /\ CopiesBacked
    BY DEF Init, RowsBacked, CopiesBacked, Idle
  <2>2. \A d \in Calls : View(call[d])
    BY FreshView DEF Init, Idle
  <2>3. RowsKnown /\ Findable
    BY DEF Init, RowsKnown, Findable, Exists
  <2>4. OneWriter
    BY DEF Init, OneWriter, Writes, Idle
  <2> QED BY <2>1, <2>2, <2>3, <2>4 DEF Orderly
<1>2. TypeOK /\ RowsBacked /\ CopiesBacked /\ Orderly /\ [Next]_vars
        => RowsBacked' /\ CopiesBacked' /\ Orderly'
  BY BackedStep, OrderlyKept
<1> QED BY <1>1, <1>2, DreamingTypes, PTL DEF Spec, IInv

(* A verdict that says passed, and an approval that needs assurance, rest  *)
(* on a strict job that was bound to the proposal and ended clean, or on a *)
(* caller that set this proposal's flags itself.                           *)
THEOREM VerdictsBacked == Spec => []AssuredOrClaimed
<1>1. IInv => AssuredOrClaimed
  BY DEF IInv, RowsBacked, Backed, Vouched, AssuredOrClaimed
<1> QED BY <1>1, DreamingInvariant, PTL

(* Cleanup spares the staged item of every pending or approved proposal of *)
(* its index that no two requests held a copy of at once.                  *)
THEOREM ItemsSpared == Spec => []ProtectedKept
<1>1. IInv => ProtectedKept
  BY DEF IInv, Orderly, View, Spares, ItemsIn, Protects, ProtectedKept
<1> QED BY <1>1, DreamingInvariant, PTL

(* What a request reported as stored is in the index over all sessions for *)
(* as long as it exists and that index has lost no change.                 *)
THEOREM StoredIsFound == Spec => []Findable
<1>1. IInv => Findable
  BY DEF IInv, Orderly
<1> QED BY <1>1, DreamingInvariant, PTL

(* How a step changes a row that exists and is not contested: a deletion   *)
(* removes a rejection, or a request writes back its copy of a pending one.*)
LEMMA RowsMove ==
  ASSUME IInv, [Next]_vars, NEW p \in Proposals \ history'.contested, proposal[p] # NoProposal
  PROVE  \/ proposal'[p] = proposal[p]
         \/ proposal[p].decision = "rejected" /\ proposal'[p] = NoProposal
         \/ proposal[p].decision = "pending" /\ proposal'[p] # NoProposal
<1> DEFINE Goal == \/ proposal'[p] = proposal[p]
                   \/ proposal[p].decision = "rejected" /\ proposal'[p] = NoProposal
                   \/ proposal[p].decision = "pending" /\ proposal'[p] # NoProposal
<1>0. TypeOK /\ Orderly /\ p \notin history.contested
  BY HistoryGrows DEF IInv
<1>1. ASSUME NEW c \in Calls, Opening(c) PROVE Goal
  BY <1>1 DEF Opening, Stage, Discard, Run, AttachAssurance, Decide, Cleanup
<1>2. ASSUME NEW c \in Calls, NEW x \in Ids, Delete(c, x) PROVE Goal
  <2>1. PICK r \in CallState : r = call[c] /\ View(r) /\ r.pc = "delete" /\ x \in r.todo
    BY <1>0, <1>2 DEF TypeOK, Orderly, Delete
  <2>2. x = p => proposal[p].decision \in {"none", "rejected"}
    BY <1>0, <2>1 DEF View, DeletesFirst, Purges
  <2>3. x = p => proposal[p].decision = "rejected"
    BY <1>0, <2>2 DEF TypeOK, ProposalRow, Decisions
  <2> QED BY <1>2, <2>3 DEF Delete
<1>3. ASSUME NEW c \in Calls, NEW q \in Proposals, NEW required \in BOOLEAN,
             NEW passed \in BOOLEAN, Propose(c, q, required, passed)
      PROVE  Goal
  <2>1. p \in history.known
    BY <1>0 DEF Orderly, RowsKnown, Exists, Ids
  <2> QED BY <1>0, <1>3, <2>1 DEF Propose, TypeOK
<1>4. ASSUME NEW c \in Calls, WriteBack(c) PROVE Goal
  <2>1. PICK r \in CallState : r = call[c] /\ View(r) /\ r.pc = "write"
    BY <1>0, <1>4 DEF TypeOK, Orderly, WriteBack
  <2>2. r.copy \in ProposalRow
    BY <2>1 DEF CallState, Fits
  <2>3. r.about = p => proposal[p].decision = "pending"
    BY <1>0, <2>1 DEF View, Current, IsPending
  <2>4. proposal'[p] = IF p = r.about THEN r.copy ELSE proposal[p]
    BY <1>0, <1>4, <2>1 DEF WriteBack, TypeOK
  <2>5. r.copy # NoProposal
    BY <2>2 DEF ProposalRow, NoProposal, Decisions
  <2> QED BY <2>3, <2>4, <2>5
<1>5. ASSUME NEW c \in Calls, Continuing(c) PROVE Goal
  BY <1>2, <1>3, <1>4, <1>5 DEF Continuing, ReadToAppend, AppendId, ReadToRemove, Remove,
     Select, Assess, Scan, ListStaging, Probe
<1>6. CASE (\E c \in Calls : Die(c)) \/ Validating \/ UNCHANGED vars
  BY <1>6 DEF Die, Validating, Submit, EndJob, vars
<1> QED BY <1>1, <1>5, <1>6 DEF Next

(* A decision stays until cleanup removes a rejection.                     *)
THEOREM DecisionsFinal == Spec => DecisionFinal
<1> DEFINE Stays == \A p \in Proposals \ history'.contested :
                      proposal[p].decision \in {"approved", "rejected"} =>
                        \/ proposal'[p].decision = proposal[p].decision
                        \/ proposal[p].decision = "rejected" /\ proposal'[p] = NoProposal
<1>1. IInv /\ [Next]_vars => [Stays]_vars
  BY RowsMove DEF NoProposal
<1> QED BY <1>1, DreamingInvariant, PTL DEF Spec, DecisionFinal

(* Only a rejected proposal is removed.                                    *)
THEOREM RemovalsRejected == Spec => OnlyRejectedRemoved
<1> DEFINE Stays == \A p \in Proposals \ history'.contested :
                      proposal[p] # NoProposal /\ proposal'[p] = NoProposal =>
                        proposal[p].decision = "rejected"
<1>1. IInv /\ [Next]_vars => [Stays]_vars
  BY RowsMove
<1> QED BY <1>1, DreamingInvariant, PTL DEF Spec, OnlyRejectedRemoved
=============================================================================
