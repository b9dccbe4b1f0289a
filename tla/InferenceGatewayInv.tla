-------------------------- MODULE InferenceGatewayInv --------------------------
(***************************************************************************)
(* The properties of InferenceGateway, and the invariant they follow from. *)
(***************************************************************************)
EXTENDS InferenceGateway

(* A breaker that is not closed counts a failure, and the probe flag is    *)
(* only up while the breaker is half open: whatever late answers do to it, *)
(* it is never left half reset.                                            *)
BreakerConsistent ==
  \A p \in Providers :
    /\ breaker[p].opened_until > 0 => breaker[p].failures > 0
    /\ breaker[p].probe => HalfOpen(p)

(* A provider that is down is bothered once per cooldown: two probes of it *)
(* begin at least a cooldown apart, however many requests there are, and   *)
(* however late calls end that began before the breaker opened.            *)
ProbesApart ==
  [][\A r \in Requests, p \in Providers :
       attempt[r][p] # "probe" /\ attempt'[r][p] = "probe" /\ probed[p] > 0 =>
         now >= probed[p] + Cooldown]_vars

(* A request fails only if no provider of its mode answered it, and each   *)
(* was asked or refused; a chain asks a provider only after those before   *)
(* it gave no answer.                                                      *)
RoutedFully ==
  \A r \in Requests :
    LET chain == Chain[request[r].mode]
        tried(i) == attempt[r][chain[i]]
    IN  request[r].state # "idle" =>
          /\ request[r].state = "failed" =>
               \A i \in DOMAIN chain : tried(i) \in Over \ {"success"}
          /\ request[r].state = "success" => \E i \in DOMAIN chain : tried(i) = "success"
          /\ request[r].mode # "hybrid" =>
               \A i, j \in DOMAIN chain :
                 i < j /\ tried(j) # "none" => tried(i) \in {"failed", "refused"}

(* Every request is answered, if providers end every call.                 *)
RequestsEnd == \A r \in Requests :
  request[r].state = "waiting" ~> request[r].state \in {"success", "failed", "timeout"}

-----------------------------------------------------------------------------
(* What the documents say and the code does not do *)

(* "Half-open Probe" (liara-inference.md:45), "cooldown and half-open      *)
(* probe" (INFERENCE_ROUTING_MATRIX.md:104): a breaker that waits for its  *)
(* probe gets its answer. It does as long as no request races.             *)
ProbeResolved == \A p \in Providers : breaker[p].probe ~> ~breaker[p].probe

-----------------------------------------------------------------------------
(* The inductive invariant *)

(* A breaker that opened after a probe stays open for a cooldown from the  *)
(* time the probe began at the least, whichever call it was that opened it.*)
ProbesSpaced ==
  \A p \in Providers :
    /\ probed[p] <= now
    /\ breaker[p].opened_until > 0 /\ ~breaker[p].probe =>
         breaker[p].opened_until >= probed[p] + Cooldown

(* Only providers of the mode are asked, and only for one who asks.        *)
Asking(r) ==
  /\ request[r].state = "idle" => \A p \in Providers : attempt[r][p] = "none"
  /\ request[r].state # "idle" => request[r].mode \in Modes[r]
  /\ \A p \in Providers : attempt[r][p] # "none" => p \in Legs(request[r].mode)

(* How far a chain has come: no answer from the legs before i, none asked  *)
(* after it, and leg i tells how the request stands.                       *)
StandsAs(state, i, n, how) ==
  \/ state = "waiting" /\ how \in InFlight
  \/ state = "success" /\ how = "success"
  \/ state = "failed" /\ i = n /\ how \in {"failed", "refused"}

CameTo(chain, a, state, i) ==
  /\ \A j \in 1 .. i - 1 : a[chain[j]] \in {"failed", "refused"}
  /\ \A j \in i + 1 .. Len(chain) : a[chain[j]] = "none"
  /\ StandsAs(state, i, Len(chain), a[chain[i]])

InChain(r) ==
  request[r].state # "idle" /\ request[r].mode # "hybrid" =>
    \E i \in DOMAIN Chain[request[r].mode] :
      CameTo(Chain[request[r].mode], attempt[r], request[r].state, i)

(* In a race every leg was begun; once it has ended none is under way.     *)
InRace(r) ==
  request[r].state # "idle" /\ request[r].mode = "hybrid" =>
    /\ \A p \in Legs("hybrid") : attempt[r][p] # "none"
    /\ request[r].state # "waiting" => \A p \in Legs("hybrid") : attempt[r][p] \in Over
    /\ request[r].state \in {"failed", "timeout"} =>
         \A p \in Legs("hybrid") : attempt[r][p] # "success"
    /\ request[r].state = "success" =>
         \E p \in Legs("hybrid") : attempt[r][p] = "success"

RequestsRouted == \A r \in Requests : Asking(r) /\ InChain(r) /\ InRace(r)

IInv == TypeOK /\ BreakerConsistent /\ ProbesSpaced /\ RequestsRouted
=============================================================================
