--------------------------- MODULE InferenceGateway ---------------------------
(***************************************************************************)
(* The inference gateway: each request is routed to one provider, to a     *)
(* chain of fallbacks or to a race of two, and every provider call passes  *)
(* a circuit breaker. All of it runs on one event loop: a step goes from   *)
(* one await to the next, so whatever the legs of a chain that are refused *)
(* or the two tasks of a race do before they wait is part of one step.     *)
(* The breakers are enabled, as by default. A provider may take any time   *)
(* and answer anything.                                                    *)
(***************************************************************************)
EXTENDS Naturals, Sequences, SequencesExt, FiniteSetsExt

CONSTANTS Requests,
          Modes,      \* the provider modes each request may ask for
          Threshold,  \* INFERENCE_BREAKER_FAILURE_THRESHOLD
          Cooldown,   \* INFERENCE_BREAKER_COOLDOWN_SECONDS
          MaxTime     \* bound on the clock

ASSUME GatewayAssumption ==
  /\ Threshold \in Nat \ {0}
  /\ Cooldown \in Nat \ {0}
  /\ MaxTime \in Nat \ {0}

Chain == [llama_cpp      |-> <<"llama_cpp">>,
          ollama         |-> <<"ollama_gpu">>,
          ollama_cpu     |-> <<"ollama_cpu">>,
          openvino       |-> <<"openvino">>,
          ll_ol_fallback |-> <<"llama_cpp", "ollama_gpu", "ollama_cpu">>,
          hybrid         |-> <<"ollama_gpu", "openvino">>]
ASSUME ModesAssumption == Modes \in [Requests -> SUBSET DOMAIN Chain]

Legs(mode) == ToSet(Chain[mode])
Asked == UNION {Modes[r] : r \in Requests}
Providers == UNION {Legs(mode) : mode \in Asked}

VARIABLES breaker,  \* _breaker_state
          now,      \* time.time(), in units of the cooldown
          request,  \* what infer() is doing for each request
          attempt,  \* what became of each provider in each request
          probed    \* for the properties: when each provider's last probe began

vars == <<breaker, now, request, attempt, probed>>

InFlight == {"call", "probe"}
Over     == {"success", "failed", "refused", "cancelled"}

TypeOK ==
  /\ breaker \in [Providers -> [failures : Nat, opened_until : Nat, probe : BOOLEAN]]
  /\ now \in 1 .. MaxTime
  /\ request \in [Requests -> [mode : Asked \cup {"none"},
                    state : {"idle", "waiting", "success", "failed", "timeout"}]]
  /\ attempt \in [Requests -> [Providers -> {"none"} \cup InFlight \cup Over]]
  /\ probed \in [Providers -> Nat]

Unasked == [p \in Providers |-> "none"]

Init ==
  /\ breaker = [p \in Providers |-> [failures |-> 0, opened_until |-> 0, probe |-> FALSE]]
  /\ now = 1
  /\ request = [r \in Requests |-> [mode |-> "none", state |-> "idle"]]
  /\ attempt = [r \in Requests |-> Unasked]
  /\ probed = [p \in Providers |-> 0]

-----------------------------------------------------------------------------
(* The circuit breaker *)

Open(p)     == breaker[p].opened_until > now
HalfOpen(p) == breaker[p].opened_until > 0 /\ ~Open(p)

Refuses_OpenOnly(p) == Open(p)
Refuses(p) == Open(p) \/ (HalfOpen(p) /\ breaker[p].probe)

Begun(p) == IF Refuses(p) THEN "refused" ELSE IF HalfOpen(p) THEN "probe" ELSE "call"

(* The breakers, and the last probes, after these providers were called.   *)
Entered(ps, b) == [p \in Providers |->
  IF p \in ps /\ Begun(p) = "probe" THEN [b[p] EXCEPT !.probe = TRUE] ELSE b[p]]
Noted(ps) == [p \in Providers |->
  IF p \in ps /\ Begun(p) = "probe" THEN now ELSE probed[p]]

RecordedSuccess(b) == [failures |-> 0, opened_until |-> 0, probe |-> FALSE]

RecordedFailure_KeepsProbe(b, probing) ==
  IF probing \/ b.failures + 1 >= Threshold
  THEN [b EXCEPT !.failures = @ + 1, !.opened_until = now + Cooldown]
  ELSE [b EXCEPT !.failures = @ + 1]
RecordedFailure(b, probing) ==
  IF probing \/ b.failures + 1 >= Threshold
  THEN [failures |-> b.failures + 1, opened_until |-> now + Cooldown, probe |-> FALSE]
  ELSE [b EXCEPT !.failures = @ + 1]

Recorded(b, how, ok) ==
  IF ok THEN RecordedSuccess(b) ELSE RecordedFailure(b, how = "probe")

-----------------------------------------------------------------------------
(* Routing *)

(* The chain of a mode from its i-th leg on: legs that refuse are passed   *)
(* over, the first that does not is called, and if none is left the        *)
(* request has failed. b and a are the state the leg before left.          *)
GoOn(r, mode, i, b, a) ==
  LET chain == Chain[mode]
      able  == {j \in i .. Len(chain) : ~Refuses(chain[j])}
      next  == IF able = {} THEN Len(chain) + 1 ELSE Min(able)
      begun == {chain[j] : j \in {k \in i .. Len(chain) : k <= next}}
  IN  /\ attempt' = [attempt EXCEPT ![r] =
                       [p \in Providers |-> IF p \in begun THEN Begun(p) ELSE a[p]]]
      /\ breaker' = Entered(begun, b)
      /\ probed' = Noted(begun)
      /\ request' = [request EXCEPT ![r] =
           [mode |-> mode, state |-> IF able = {} THEN "failed" ELSE "waiting"]]
      /\ UNCHANGED now

Infer(r) ==
  /\ request[r].state = "idle"
  /\ \E mode \in Modes[r] \ {"hybrid"} : GoOn(r, mode, 1, breaker, Unasked)

(* Both tasks are made before either runs, and run one after the other.    *)
InferHybrid(r) ==
  /\ request[r].state = "idle"
  /\ "hybrid" \in Modes[r]
  /\ attempt' = [attempt EXCEPT ![r] =
       [p \in Providers |-> IF p \in Legs("hybrid") THEN Begun(p) ELSE "none"]]
  /\ breaker' = Entered(Legs("hybrid"), breaker)
  /\ probed' = Noted(Legs("hybrid"))
  /\ request' = [request EXCEPT ![r] = [mode |-> "hybrid", state |-> "waiting"]]
  /\ UNCHANGED now

(* A provider answers. In a chain the request ends or goes to its next     *)
(* leg; in a race the task ends and the request wakes up later. A race also*)
(* takes a success whose stop_reason is "error" for a failure, which no    *)
(* provider of a race returns: ok stands for both.                         *)
Position(mode, p) == CHOOSE i \in DOMAIN Chain[mode] : Chain[mode][i] = p

NextLeg_SkipsOne(mode, p) == Position(mode, p) + 2
NextLeg(mode, p) == Position(mode, p) + 1

Answer(r, p, ok) ==
  LET mode == request[r].mode
      how  == attempt[r][p]
      b    == [breaker EXCEPT ![p] = Recorded(@, how, ok)]
      a    == [attempt[r] EXCEPT ![p] = IF ok THEN "success" ELSE "failed"]
  IN  /\ how \in InFlight
      /\ IF mode # "hybrid" /\ ~ok
         THEN GoOn(r, mode, NextLeg(mode, p), b, a)
         ELSE /\ breaker' = b
              /\ attempt' = [attempt EXCEPT ![r] = a]
              /\ request' = IF mode = "hybrid" THEN request
                            ELSE [request EXCEPT ![r].state = "success"]
              /\ UNCHANGED <<now, probed>>

-----------------------------------------------------------------------------
(* The end of a race *)

Racing(r)  == request[r].mode = "hybrid" /\ request[r].state = "waiting"
Pending_Unanswered(r) ==
  {p \in Legs("hybrid") : attempt[r][p] \notin {"success", "failed"}}
Pending(r) == {p \in Legs("hybrid") : attempt[r][p] \in InFlight}
Won(r)     == \E p \in Legs("hybrid") : attempt[r][p] = "success"

(* A call that is cancelled leaves its breaker as it is; the OpenVINO      *)
(* provider takes the cancellation for an error and reports a failure.     *)
ReportsCancel(p) == p = "openvino"

CancelPending(r) ==
  LET failing == {p \in Pending(r) : ReportsCancel(p)}
  IN  /\ breaker' = [p \in Providers |-> IF p \in failing
                       THEN Recorded(breaker[p], attempt[r][p], FALSE) ELSE breaker[p]]
      /\ attempt' = [attempt EXCEPT ![r] = [p \in Providers |->
           IF p \notin Pending(r) THEN @[p]
           ELSE IF p \in failing THEN "failed" ELSE "cancelled"]]

EndHybrid(r, state) ==
  /\ CancelPending(r)
  /\ request' = [request EXCEPT ![r].state = state]
  /\ UNCHANGED <<now, probed>>

HybridWins(r)  == Racing(r) /\ Won(r) /\ EndHybrid(r, "success")
HybridFails(r) == /\ Racing(r) /\ ~Won(r) /\ Pending(r) = {}
                  /\ EndHybrid(r, "failed")

(* 120 s without another task that ends.                                   *)
HybridTimesOut(r) ==
  /\ Racing(r) /\ ~Won(r) /\ Pending(r) # {}
  /\ EndHybrid(r, IF Pending(r) = Legs("hybrid") THEN "timeout" ELSE "failed")

Tick == now < MaxTime /\ now' = now + 1 /\ UNCHANGED <<breaker, request, attempt, probed>>

-----------------------------------------------------------------------------
Next ==
  \/ Tick
  \/ \E r \in Requests :
       \/ Infer(r) \/ InferHybrid(r)
       \/ \E p \in Providers, ok \in BOOLEAN : Answer(r, p, ok)
       \/ HybridWins(r) \/ HybridFails(r) \/ HybridTimesOut(r)

Spec == Init /\ [][Next]_vars

(* That provider calls end is assumed: those over HTTP have a timeout,     *)
(* OpenVINO's, in a thread of its own, has none. The loop wakes whoever can*)
(* go on. Nobody has to ask.                                               *)
Fairness ==
  \A r \in Requests :
    /\ \A p \in Providers : WF_vars(\E ok \in BOOLEAN : Answer(r, p, ok))
    /\ WF_vars(HybridWins(r) \/ HybridFails(r))
FairSpec == Spec /\ Fairness
=============================================================================
