---------------------------- MODULE MemoryDreaming ----------------------------
(***************************************************************************)
(* The memory consolidation of BackedMemoryServiceStore: staged items,     *)
(* proposals made of them, validator jobs that assure proposals, decisions *)
(* and cleanup. Every record and every index is one row of a key-value     *)
(* table in Postgres; a request reads and writes them one at a time, with  *)
(* an await around each, and nothing orders it with other requests. A step *)
(* is one read or one write of a row. There is one session, with its       *)
(* indices, beside the indices over all sessions.                          *)
(***************************************************************************)
EXTENDS Naturals, FiniteSets

CONSTANTS Staging, Proposals, Jobs,  \* ids that requests may create
          Calls,                     \* requests that may be open at once
          MaxRequests,               \* bound: requests in all, beside the jobs
          MaxClaims,                 \* bound: proposals whose flags a caller sets itself
          None

ASSUME IdsDiffer == Staging \cap Proposals = {}
ASSUME BoundsAssumption == MaxRequests \in Nat /\ MaxClaims \in Nat

Ids  == Staging \cup Proposals
Kind == {"staging", "proposals"}
Members(k) == IF k = "staging" THEN Staging ELSE Proposals
Scope == {"session", "all"}

Decisions == {"pending", "approved", "rejected"}

(* assurance_required, and whether assurance_verdict is "passed".          *)
ProposalRow == [item : Staging, required : BOOLEAN, decision : Decisions, passed : BOOLEAN]
NoProposal  == [decision |-> "none"]

(* A job is open (queued or running), or has ended clean (completed, with  *)
(* exit code 0 and no warning or error among its findings) or unclean. It  *)
(* is bound to a proposal by the digest of its row and by its context.     *)
JobRow == [state : {"open", "clean", "unclean"}, proposal : Proposals,
           bound : BOOLEAN, strict : BOOLEAN]
NoJob  == [state |-> "none"]

VARIABLES staged,    \* staging ids that have a record
          proposal,  \* rows of the proposals
          index,     \* index rows: for each kind, that of the session and that of all
          job,       \* validator jobs
          call,      \* what each open request has read and is about to do
          history    \* for the properties: see HistoryRecord

vars == <<staged, proposal, index, job, call, history>>

Pc == {"idle", "append", "appending", "select", "propose",
       "assess", "write", "scan", "probe", "delete", "remove", "removing"}

(* seen: the ids of the proposals' index that a cleanup goes through.      *)
CallRecord == [pc : Pc, about : Ids \cup {None}, kind : Kind, scope : Scope,
               todo : SUBSET Ids, kept : SUBSET Staging, doomed : SUBSET Ids, ids : SUBSET Ids,
               copy : ProposalRow \cup {NoProposal}, cleans : BOOLEAN, seen : SUBSET Proposals]

(* What a request holds fits what it is about to do.                       *)
Fits(r) ==
  /\ r.pc \in {"append", "appending"} => r.about \in Members(r.kind)
  /\ r.pc = "propose" => r.about \in Staging
  /\ r.pc \in {"assess", "write"} => r.about \in Proposals /\ r.copy \in ProposalRow
  /\ r.pc = "assess" => r.copy.decision = "pending"
  /\ r.pc \in {"appending", "removing"} => r.ids \subseteq Members(r.kind)

CallState == {r \in CallRecord : Fits(r)}
Idle == [pc |-> "idle", about |-> None, kind |-> "staging", scope |-> "session",
         todo |-> {}, kept |-> {}, doomed |-> {}, ids |-> {},
         copy |-> NoProposal, cleans |-> FALSE, seen |-> {}]

(* Ids that were created; those reported as stored since the index of all  *)
(* sessions last lost a change; proposals whose caller set the assurance   *)
(* flags itself; proposals that two requests held a copy of at once; how   *)
(* many requests there were.                                               *)
HistoryRecord == [known : SUBSET Ids, told : SUBSET Ids, claimed : SUBSET Proposals,
                  contested : SUBSET Proposals, requests : Nat]

TypeOK ==
  /\ staged \subseteq Staging
  /\ proposal \in [Proposals -> ProposalRow \cup {NoProposal}]
  /\ index \in [staging : [Scope -> SUBSET Staging], proposals : [Scope -> SUBSET Proposals]]
  /\ job \in [Jobs -> JobRow \cup {NoJob}]
  /\ call \in [Calls -> CallState]
  /\ history \in HistoryRecord

Init ==
  /\ staged = {}
  /\ proposal = [p \in Proposals |-> NoProposal]
  /\ index = [k \in Kind |-> [scope \in Scope |-> {}]]
  /\ job = [j \in Jobs |-> NoJob]
  /\ call = [c \in Calls |-> Idle]
  /\ history = [known |-> {}, told |-> {}, claimed |-> {}, contested |-> {}, requests |-> 0]

-----------------------------------------------------------------------------
(* Requests begin, go on, and end; one that ends early, by an error of the *)
(* database or with the service, leaves what it wrote.                     *)

Begin(c, r) ==
  /\ call[c].pc = "idle" /\ history.requests < MaxRequests
  /\ call' = [call EXCEPT ![c] = r]
Begun == [history EXCEPT !.requests = @ + 1]

GoOn(c, r) == call' = [call EXCEPT ![c] = r]

Die(c) ==
  /\ call[c].pc # "idle"
  /\ GoOn(c, Idle)
  /\ UNCHANGED <<staged, proposal, index, job, history>>

-----------------------------------------------------------------------------
(* Index rows are read and written back whole, that of the session before  *)
(* that of all. Only the request that made an id appends it, so it is never*)
(* there already.                                                          *)

Appended(ids, x) == ids \cup {x}
Kept(ids, gone)  == ids \ gone

Written(r, ids) == [index EXCEPT ![r.kind] = [@ EXCEPT ![r.scope] = ids]]
Reading(r, pc)  == [r EXCEPT !.pc = pc, !.ids = index[r.kind][r.scope]]
Loses(r) == r.scope = "all" /\ index[r.kind]["all"] # r.ids
Told(r)  == IF Loses(r) THEN history.told \ Members(r.kind) ELSE history.told

ReadToAppend(c) ==
  /\ call[c].pc = "append"
  /\ GoOn(c, Reading(call[c], "appending"))
  /\ UNCHANGED <<staged, proposal, index, job, history>>

AppendId(c) ==
  LET r == call[c]
      done == r.scope = "all"
  IN
  /\ r.pc = "appending"
  /\ index' = Written(r, Appended(r.ids, r.about))
  /\ GoOn(c, IF done THEN Idle ELSE [r EXCEPT !.pc = "append", !.scope = "all", !.ids = {}])
  /\ history' = [history EXCEPT !.told = Told(r) \cup {x \in {r.about} : done}]
  /\ UNCHANGED <<staged, proposal, job>>

(* What is doomed is deleted and taken out of the indices: staged items    *)
(* first, then proposals.                                                  *)
NextKind(r) == IF r.doomed \cap Staging # {} THEN "staging" ELSE "proposals"
Purging(r) ==
  IF r.doomed = {} THEN Idle
  ELSE [r EXCEPT !.pc = "delete", !.kind = NextKind(r), !.scope = "session", !.kept = {},
                 !.ids = {}, !.todo = r.doomed \cap Members(NextKind(r))]

(* A cleanup takes all the doomed ids of the kind out of the session index *)
(* after each record it deletes, a discard after the last.                 *)
Delete(c, x) ==
  LET r == call[c] IN
  /\ r.pc = "delete" /\ x \in r.todo
  /\ staged' = staged \ {x}
  /\ proposal' = [p \in Proposals |-> IF p = x THEN NoProposal ELSE proposal[p]]
  /\ GoOn(c, [r EXCEPT !.todo = @ \ {x},
                       !.pc = IF r.cleans \/ r.todo = {x} THEN "remove" ELSE "delete"])
  /\ UNCHANGED <<index, job, history>>

ReadToRemove(c) ==
  /\ call[c].pc = "remove"
  /\ GoOn(c, Reading(call[c], "removing"))
  /\ UNCHANGED <<staged, proposal, index, job, history>>

Removed(r) ==
  IF r.todo # {} THEN [r EXCEPT !.pc = "delete", !.ids = {}]
  ELSE IF r.scope = "session" THEN [r EXCEPT !.pc = "remove", !.scope = "all", !.ids = {}]
  ELSE Purging([r EXCEPT !.doomed = @ \ Members(r.kind)])

Remove(c) ==
  LET r == call[c] IN
  /\ r.pc = "removing"
  /\ index' = Written(r, Kept(r.ids, r.doomed))
  /\ GoOn(c, Removed(r))
  /\ history' = [history EXCEPT !.told = Told(r)]
  /\ UNCHANGED <<staged, proposal, job>>

-----------------------------------------------------------------------------
(* Staging. That a record is touched, which changes its access count, is  *)
(* left out.                                                               *)

Stage(c, s) ==
  /\ s \in Staging \ history.known
  /\ staged' = staged \cup {s}
  /\ Begin(c, [Idle EXCEPT !.pc = "append", !.about = s])
  /\ history' = [Begun EXCEPT !.known = @ \cup {s}]
  /\ UNCHANGED <<proposal, index, job>>

Discard(c, ids) ==
  /\ ids # {} /\ ids \subseteq index["staging"]["session"]
  /\ Begin(c, Purging([Idle EXCEPT !.doomed = ids]))
  /\ history' = Begun
  /\ UNCHANGED <<staged, proposal, index, job>>

-----------------------------------------------------------------------------
(* A run makes a proposal of the first staged item it finds; a run over    *)
(* several items is several runs.                                          *)

Run(c, scope) ==
  /\ index["staging"][scope] # {}
  /\ Begin(c, [Idle EXCEPT !.pc = "select", !.todo = index["staging"][scope]])
  /\ history' = Begun
  /\ UNCHANGED <<staged, proposal, index, job>>

Select(c, s) ==
  LET r == call[c] IN
  /\ r.pc = "select" /\ s \in r.todo
  /\ GoOn(c, IF s \in staged THEN [Idle EXCEPT !.pc = "propose", !.about = s]
             ELSE IF r.todo = {s} THEN Idle ELSE [r EXCEPT !.todo = @ \ {s}])
  /\ UNCHANGED <<staged, proposal, index, job, history>>

(* The run's metadata goes into the row: a caller may put a verdict there, *)
(* of at most MaxClaims proposals here.                                    *)
MayClaim == Cardinality(history.claimed) < MaxClaims

Propose(c, p, required, passed) ==
  /\ call[c].pc = "propose"
  /\ p \in Proposals \ history.known
  /\ passed => MayClaim
  /\ proposal' = [proposal EXCEPT ![p] = [item |-> call[c].about, required |-> required,
                                          decision |-> "pending", passed |-> passed]]
  /\ GoOn(c, [Idle EXCEPT !.pc = "append", !.about = p, !.kind = "proposals"])
  /\ history' = [history EXCEPT !.known = @ \cup {p},
                                !.claimed = @ \cup {q \in {p} : passed}]
  /\ UNCHANGED <<staged, index, job>>

-----------------------------------------------------------------------------
(* Validator jobs: a job's row is written by its submission and by the one *)
(* task that runs it.                                                      *)

Submit(j, p, strict, assurance) ==
  /\ job[j] = NoJob /\ p \in history.known
  /\ job' = [job EXCEPT ![j] = [state |-> "open", proposal |-> p, strict |-> strict,
                                bound |-> assurance /\ proposal[p] # NoProposal]]
  /\ UNCHANGED <<staged, proposal, index, call, history>>

EndJob(j, state) ==
  /\ job[j].state = "open"
  /\ job' = [job EXCEPT ![j].state = state]
  /\ UNCHANGED <<staged, proposal, index, call, history>>

Passes(j) == job[j].state = "clean" /\ job[j].strict

Accepts_AnySubject(p, j) == job[j].bound
Accepts(p, j) == job[j].proposal = p /\ job[j].bound

-----------------------------------------------------------------------------
(* A proposal is assured and decided in copies, which are written back.    *)

IsPending_Undone(p) == proposal[p].decision \in {"pending", "rejected"}
IsPending(p) == proposal[p].decision = "pending"

Writes(r, p) == r.pc \in {"assess", "write"} /\ r.about = p
Contest(p) == {q \in {p} : \E d \in Calls : Writes(call[d], p)}

Blocked(row) == row.required /\ ~row.passed

AttachAssurance(c, p) ==
  /\ IsPending(p)
  /\ Begin(c, [Idle EXCEPT !.pc = "assess", !.about = p, !.copy = proposal[p]])
  /\ history' = [Begun EXCEPT !.contested = @ \cup Contest(p)]
  /\ UNCHANGED <<staged, proposal, index, job>>

Assess(c, j) ==
  LET r == call[c] IN
  /\ r.pc = "assess" /\ job[j] # NoJob
  /\ GoOn(c, IF Accepts(r.about, j)
             THEN [r EXCEPT !.pc = "write", !.copy.passed = Passes(j)]
             ELSE Idle)
  /\ UNCHANGED <<staged, proposal, index, job, history>>

(* The decision's metadata goes into the row as well, over both flags.     *)
Decide(c, p, decision, required, passed) ==
  LET claims == required # proposal[p].required \/ passed # proposal[p].passed IN
  /\ IsPending(p)
  /\ decision = "approved" => ~Blocked(proposal[p])
  /\ claims => MayClaim
  /\ Begin(c, [Idle EXCEPT !.pc = "write", !.about = p,
                           !.copy = [proposal[p] EXCEPT !.decision = decision,
                                                        !.required = required,
                                                        !.passed = passed]])
  /\ history' = [Begun EXCEPT !.contested = @ \cup Contest(p),
                              !.claimed = @ \cup {q \in {p} : claims}]
  /\ UNCHANGED <<staged, proposal, index, job>>

WriteBack(c) ==
  LET r == call[c] IN
  /\ r.pc = "write"
  /\ proposal' = [proposal EXCEPT ![r.about] = r.copy]
  /\ GoOn(c, Idle)
  /\ UNCHANGED <<staged, index, job, history>>

-----------------------------------------------------------------------------
(* Cleanup. Whether a retention time is over may differ from row to row.   *)

Protects_Pending(row) == row.decision = "pending"
Removable_Unapproved(row) == row.decision # "approved"
Protects(row)  == row.decision \in {"pending", "approved"}
Removable(row) == row.decision = "rejected"

Cleanup(c, scope) ==
  LET ids == index["proposals"][scope] IN
  /\ Begin(c, [Idle EXCEPT !.pc = "scan", !.cleans = TRUE, !.scope = scope,
                           !.todo = ids, !.seen = ids])
  /\ history' = Begun
  /\ UNCHANGED <<staged, proposal, index, job>>

Scan(c, p, expired) ==
  LET r == call[c]
      row == proposal[p]
  IN
  /\ r.pc = "scan" /\ p \in r.todo
  /\ GoOn(c, [r EXCEPT !.todo = @ \ {p},
                !.kept = @ \cup {s \in Staging : row # NoProposal /\ Protects(row) /\ s = row.item},
                !.doomed = @ \cup {q \in {p} : row # NoProposal /\ Removable(row) /\ expired}])
  /\ UNCHANGED <<staged, proposal, index, job, history>>

Probing(r) == IF r.todo = {} THEN Purging(r) ELSE r

ListStaging(c) ==
  LET r == call[c] IN
  /\ r.pc = "scan" /\ r.todo = {}
  /\ GoOn(c, Probing([r EXCEPT !.pc = "probe", !.todo = index["staging"][r.scope] \ r.kept]))
  /\ UNCHANGED <<staged, proposal, index, job, history>>

Probe(c, s, expired) ==
  LET r == call[c] IN
  /\ r.pc = "probe" /\ s \in r.todo
  /\ GoOn(c, Probing([r EXCEPT !.todo = @ \ {s},
                        !.doomed = @ \cup {x \in {s} : x \in staged /\ expired}]))
  /\ UNCHANGED <<staged, proposal, index, job, history>>

-----------------------------------------------------------------------------
Opening(c) ==
  \/ \E s \in Staging : Stage(c, s)
  \/ \E ids \in SUBSET index["staging"]["session"] : Discard(c, ids)
  \/ \E scope \in Scope : Run(c, scope)
  \/ \E p \in Proposals : AttachAssurance(c, p)
  \/ \E p \in Proposals, decision \in {"approved", "rejected"}, required, passed \in BOOLEAN :
       Decide(c, p, decision, required, passed)
  \/ \E scope \in Scope : Cleanup(c, scope)

Continuing(c) ==
  \/ ReadToAppend(c) \/ AppendId(c)
  \/ \E x \in Ids : Delete(c, x)
  \/ ReadToRemove(c) \/ Remove(c)
  \/ \E s \in Staging : Select(c, s)
  \/ \E p \in Proposals, required, passed \in BOOLEAN : Propose(c, p, required, passed)
  \/ \E j \in Jobs : Assess(c, j)
  \/ WriteBack(c)
  \/ \E p \in Proposals, expired \in BOOLEAN : Scan(c, p, expired)
  \/ ListStaging(c)
  \/ \E s \in Staging, expired \in BOOLEAN : Probe(c, s, expired)

Validating ==
  \E j \in Jobs :
    \/ \E p \in Proposals, strict \in BOOLEAN, assurance \in BOOLEAN : Submit(j, p, strict, assurance)
    \/ \E state \in {"clean", "unclean"} : EndJob(j, state)

Next ==
  \/ \E c \in Calls : Opening(c) \/ Continuing(c) \/ Die(c)
  \/ Validating

Spec == Init /\ [][Next]_vars
=============================================================================
