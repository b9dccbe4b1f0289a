--------------------------- MODULE MemoryDreamingInv ---------------------------
(***************************************************************************)
(* The properties of MemoryDreaming, and the invariant they follow from.   *)
(***************************************************************************)
EXTENDS MemoryDreaming

KindOf(x) == IF x \in Staging THEN "staging" ELSE "proposals"
Exists(x) == x \in staged \/ (x \in Proposals /\ proposal[x] # NoProposal)

(* A strict job that passed was bound to p.                                *)
Assured(p) ==
  \E j \in Jobs : /\ job[j] # NoJob /\ job[j].proposal = p /\ job[j].bound
                 /\ job[j].strict /\ job[j].state = "clean"

(* What the documentation says of a proposal that needs assurance: a       *)
(* decision approves it only once a strict job that was bound to it passed.*)
(* It does not hold, since a run may put the verdict in its metadata.      *)
ApprovedWasAssured ==
  \A c \in Calls : \A p \in Proposals :
    Writes(call[c], p) /\ call[c].copy.decision = "approved" /\ proposal[p].required
      => Assured(p)

(* However requests interleave and die, a verdict that says passed, and an*)
(* approval that needs assurance, rest on such a job, unless a caller of   *)
(* the run or of a decision set the flags of this very proposal itself:    *)
(* reports, decisions and copies of rows that are written over each other  *)
(* never bring about a verdict nobody gave.                                *)
AssuredOrClaimed ==
  \A p \in {q \in Proposals \ history.claimed : proposal[q] # NoProposal} :
    proposal[p].passed \/ (proposal[p].decision = "approved" /\ proposal[p].required)
      => Assured(p)

(* Only a rejected proposal is ever removed, however many decisions and    *)
(* cleanups are under way when one of them deletes it, unless two requests *)
(* held a copy of it at once.                                              *)
OnlyRejectedRemoved ==
  [][\A p \in Proposals \ history'.contested :
       proposal[p] # NoProposal /\ proposal'[p] = NoProposal =>
         proposal[p].decision = "rejected"]_vars

(* A decision stays until cleanup removes a rejection, whatever else is    *)
(* going on, unless two requests held a copy of the proposal at once.      *)
DecisionFinal ==
  [][\A p \in Proposals \ history'.contested :
       proposal[p].decision \in {"approved", "rejected"} =>
         \/ proposal'[p].decision = proposal[p].decision
         \/ proposal[p].decision = "rejected" /\ proposal'[p] = NoProposal]_vars

(* A cleanup never deletes the staged item of a pending or approved        *)
(* proposal it found in its index, though decisions, runs, discards and    *)
(* other cleanups go on meanwhile, unless two requests held a copy of that *)
(* proposal at once.                                                       *)
ProtectedKept ==
  \A c \in Calls : \A p \in call[c].seen \ history.contested :
    proposal[p].decision \in {"pending", "approved"} => proposal[p].item \notin call[c].doomed

(* What a request reported as stored is in the index over all sessions for *)
(* as long as it exists, wherever requests die, until that index loses a   *)
(* change to a request that overlaps.                                      *)
Findable ==
  \A x \in history.told \ history.contested : Exists(x) => x \in index[KindOf(x)]["all"]

-----------------------------------------------------------------------------
(* The inductive invariant. First what a verdict or an approval rests on,  *)
(* in the rows and in the copies that will be written back.                *)

Vouched(p) == Assured(p) \/ p \in history.claimed

Backed(p, row) ==
  row.passed \/ (row.decision = "approved" /\ row.required) => Vouched(p)

RowsBacked == \A p \in Proposals : proposal[p] # NoProposal => Backed(p, proposal[p])

CopiesBacked == \A c \in Calls :
  call[c].pc \in {"assess", "write"} => Backed(call[c].about, call[c].copy)

Purges(r) == r.pc \in {"delete", "remove", "removing"}

-----------------------------------------------------------------------------
(* Then what requests may rely on of the rows they have read.              *)

(* Whatever is in a row, an index or a request was created.                *)
RowsKnown ==
  /\ \A x \in Ids : Exists(x) => x \in history.known
  /\ history.told \subseteq history.known
  /\ \A k \in Kind, scope \in Scope : index[k][scope] \subseteq history.known

HoldsKnown(r) ==
  /\ r.pc \in {"append", "appending", "assess", "write"} => r.about \in history.known
  /\ r.ids \cup r.doomed \cup r.seen \subseteq history.known

(* A copy that no other request contests is of a proposal still pending.   *)
Current(r) ==
  r.pc \in {"assess", "write"} /\ r.about \notin history.contested =>
    IsPending(r.about) /\ r.copy.item = proposal[r.about].item

OneWriter == \A p \in Proposals \ history.contested : \A c, d \in Calls :
  Writes(call[c], p) /\ Writes(call[d], p) => c = d

(* The items of these proposals are in a set of staged items.              *)
ItemsIn(ps, items) ==
  \A p \in ps \ history.contested : Protects(proposal[p]) => proposal[p].item \in items

(* A cleanup keeps the items of the proposals it has looked at; it dooms   *)
(* proposals first, then staged items that are not kept.                   *)
Spares(r) ==
  /\ ItemsIn(r.seen, Staging \ r.doomed)
  /\ r.pc = "scan" => r.doomed \subseteq Proposals /\ ItemsIn(r.seen \ r.todo, r.kept)
  /\ r.pc = "probe" => ItemsIn(r.seen, r.kept) /\ r.kept \cap (r.todo \cup r.doomed) = {}

(* Only rejections are doomed. A record is gone, or about to be deleted by *)
(* the same request, before it is taken out of the session index, and gone *)
(* before it is taken out of the index of all.                             *)
DeletesFirst(r) ==
  /\ Purges(r) => r.todo \subseteq r.doomed
  /\ \A p \in (r.doomed \cap Proposals) \ history.contested :
       proposal[p].decision \in {"none", "rejected"}
  /\ Purges(r) => \A x \in (r.doomed \cap Members(r.kind)) \ history.contested :
                    Exists(x) => x \in r.todo
  /\ Purges(r) /\ r.scope = "all" => r.pc # "delete" /\ r.todo = {}

View(r) == HoldsKnown(r) /\ Current(r) /\ Spares(r) /\ DeletesFirst(r)

Orderly == RowsKnown /\ Findable /\ OneWriter /\ \A c \in Calls : View(call[c])

IInv == TypeOK /\ RowsBacked /\ CopiesBacked /\ Orderly
=============================================================================
