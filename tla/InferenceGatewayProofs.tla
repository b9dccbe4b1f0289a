------------------------ MODULE InferenceGatewayProofs ------------------------
(***************************************************************************)
(* Proofs about InferenceGateway: the invariant IInv, and from it          *)
(* BreakerConsistent, RoutedFully and ProbesApart.                         *)
(***************************************************************************)
EXTENDS InferenceGatewayInv, TLAPS

-----------------------------------------------------------------------------
(* Chains and minima *)

IsChain(chain) ==
  /\ Len(chain) \in 1 .. 3
  /\ DOMAIN chain = 1 .. Len(chain)
  /\ \A i, j \in 1 .. Len(chain) : chain[i] = chain[j] => i = j

(* Every chain has one to three legs, all different.                       *)
LEMMA Chains == \A mode \in DOMAIN Chain : IsChain(Chain[mode])
<1>1. DOMAIN Chain = {"llama_cpp", "ollama", "ollama_cpu", "openvino",
                      "ll_ol_fallback", "hybrid"}
  BY DEF Chain
<1>2. /\ Chain["llama_cpp"] = <<"llama_cpp">>
      /\ Chain["ollama"] = <<"ollama_gpu">>
      /\ Chain["ollama_cpu"] = <<"ollama_cpu">>
      /\ Chain["openvino"] = <<"openvino">>
      /\ Chain["ll_ol_fallback"] = <<"llama_cpp", "ollama_gpu", "ollama_cpu">>
      /\ Chain["hybrid"] = <<"ollama_gpu", "openvino">>
  BY DEF Chain
<1>3. \A x : IsChain(<<x>>)
  BY DEF IsChain
<1>4. IsChain(<<"llama_cpp", "ollama_gpu", "ollama_cpu">>)
  BY DEF IsChain
<1>5. IsChain(<<"ollama_gpu", "openvino">>)
  BY DEF IsChain
<1>6. QED
  BY <1>1, <1>2, <1>3, <1>4, <1>5

(* The two legs of a race.                                                 *)
LEMMA RaceLegs ==
  /\ "hybrid" \in DOMAIN Chain
  /\ Chain["hybrid"] = <<"ollama_gpu", "openvino">>
  /\ Legs("hybrid") = {"ollama_gpu", "openvino"}
<1>1. "hybrid" \in DOMAIN Chain /\ Chain["hybrid"] = <<"ollama_gpu", "openvino">>
  BY DEF Chain
<1>2. {<<"ollama_gpu", "openvino">>[i] : i \in 1 .. 2} = {"ollama_gpu", "openvino"}
  OBVIOUS
<1>3. DOMAIN <<"ollama_gpu", "openvino">> = 1 .. 2
  OBVIOUS
<1>4. QED
  BY <1>1, <1>2, <1>3 DEF Legs, ToSet

(* The least leg of some legs of a chain.                                  *)
LEMMA LeastLeg ==
  ASSUME NEW S \in SUBSET (1 .. 3), S # {}
  PROVE  Min(S) \in S /\ \A j \in S : Min(S) <= j
<1>1. \E x \in S : \A y \in S : x <= y
  <2>1. CASE 1 \in S
    BY <2>1
  <2>2. CASE 1 \notin S /\ 2 \in S
    BY <2>2
  <2>3. CASE 1 \notin S /\ 2 \notin S
    <3>1. \A y \in S : y \in 1 .. 3 /\ y # 1 /\ y # 2
      BY <2>3
    <3>2. \A y \in S : y = 3
      <4>1. \A y \in 1 .. 3 : y = 1 \/ y = 2 \/ y = 3
        OBVIOUS
      <4>2. QED
        BY <3>1, <4>1
    <3>3. 3 \in S
      BY <3>2, S # {}
    <3>4. QED
      BY <3>2, <3>3
  <2>4. QED
    BY <2>1, <2>2, <2>3
<1>2. QED
  BY <1>1 DEF Min

(* The legs of a mode that is asked for are providers.                     *)
LEMMA LegsAsked ==
  ASSUME NEW r \in Requests, NEW mode \in Modes[r]
  PROVE  /\ mode \in Asked /\ mode \in DOMAIN Chain
         /\ Legs(mode) \subseteq Providers
         /\ \A i \in 1 .. Len(Chain[mode]) :
              Chain[mode][i] \in Legs(mode) /\ Chain[mode][i] \in Providers
<1>1. mode \in Asked /\ mode \in DOMAIN Chain
  BY ModesAssumption DEF Asked
<1>2. Legs(mode) \subseteq Providers
  BY <1>1 DEF Providers
<1>3. \A i \in 1 .. Len(Chain[mode]) : Chain[mode][i] \in Legs(mode)
  BY <1>1, Chains DEF IsChain, Legs, ToSet
<1>4. QED
  BY <1>1, <1>2, <1>3

(* A leg has one position.                                                 *)
LEMMA PositionOf ==
  ASSUME NEW mode \in DOMAIN Chain, NEW i \in 1 .. Len(Chain[mode])
  PROVE  Position(mode, Chain[mode][i]) = i
BY Chains DEF IsChain, Position

-----------------------------------------------------------------------------
(* What the steps do *)

(* A call begins as refused, as a probe or as a plain call.                *)
LEMMA BeginsAs ==
  ASSUME NEW p
  PROVE  /\ Begun(p) \in {"refused", "probe", "call"}
         /\ Refuses(p) <=> Begun(p) = "refused"
         /\ Begun(p) = "probe" => HalfOpen(p) /\ ~breaker[p].probe
<1>1. /\ Begun(p) \in {"refused", "probe", "call"}
      /\ Refuses(p) <=> Begun(p) = "refused"
      /\ Begun(p) = "probe" => ~Refuses(p) /\ HalfOpen(p)
  BY DEF Begun
<1>2. ~Refuses(p) /\ HalfOpen(p) => ~breaker[p].probe
  BY Zenon DEF Refuses
<1>3. QED
  BY <1>1, <1>2

(* A chain that goes on at leg i passes legs up to k, which it waits for,  *)
(* or passes all that are left.                                            *)
Passed(chain, i, k) == {chain[j] : j \in i .. k}

Went(r, mode, i, b, a, k, state) ==
  LET passed == Passed(Chain[mode], i, k) IN
  /\ k \in i - 1 .. Len(Chain[mode])
  /\ attempt' = [attempt EXCEPT ![r] =
                   [p \in Providers |-> IF p \in passed THEN Begun(p) ELSE a[p]]]
  /\ breaker' = Entered(passed, b)
  /\ probed' = Noted(passed)
  /\ request' = [request EXCEPT ![r] = [mode |-> mode, state |-> state]]
  /\ now' = now
  /\ \A j \in i .. k - 1 : Begun(Chain[mode][j]) = "refused"
  /\ \/ state = "waiting" /\ i <= k /\ Begun(Chain[mode][k]) \in InFlight
     \/ /\ state = "failed" /\ k = Len(Chain[mode])
        /\ \A j \in i .. k : Begun(Chain[mode][j]) = "refused"

LEMMA GoesOn ==
  ASSUME NEW r, NEW mode \in DOMAIN Chain, NEW b, NEW a,
         NEW i \in 1 .. Len(Chain[mode]) + 1,
         GoOn(r, mode, i, b, a)
  PROVE  \E k, state : Went(r, mode, i, b, a, k, state)
<1> DEFINE chain == Chain[mode]
           able  == {j \in i .. Len(chain) : ~Refuses(chain[j])}
           next  == IF able = {} THEN Len(chain) + 1 ELSE Min(able)
           begun == {chain[j] : j \in {l \in i .. Len(chain) : l <= next}}
<1>1. Len(chain) \in 1 .. 3
  BY Chains DEF IsChain
<1>2. /\ attempt' = [attempt EXCEPT ![r] =
                       [p \in Providers |-> IF p \in begun THEN Begun(p) ELSE a[p]]]
      /\ breaker' = Entered(begun, b)
      /\ probed' = Noted(begun)
      /\ request' = [request EXCEPT ![r] =
           [mode |-> mode, state |-> IF able = {} THEN "failed" ELSE "waiting"]]
      /\ now' = now
  BY DEF GoOn
<1>3. CASE able = {}
  <2>1. {l \in i .. Len(chain) : l <= next} = i .. Len(chain)
    BY <1>1, <1>3
  <2>2. begun = Passed(chain, i, Len(chain))
    BY <2>1 DEF Passed
  <2>3. \A j \in i .. Len(chain) : Begun(chain[j]) = "refused"
    BY <1>3, BeginsAs
  <2>4. Len(chain) \in i - 1 .. Len(chain)
    BY <1>1
  <2>5. \A j \in i .. Len(chain) - 1 : Begun(chain[j]) = "refused"
    BY <2>3, <1>1
  <2>6. Went(r, mode, i, b, a, Len(chain), "failed")
    BY <1>2, <1>3, <2>2, <2>3, <2>4, <2>5 DEF Went
  <2>7. QED
    BY <2>6
<1>4. CASE able # {}
  <2>1. able \in SUBSET (1 .. 3)
    BY <1>1
  <2>2. Min(able) \in able /\ \A j \in able : Min(able) <= j
    BY <1>4, <2>1, LeastLeg
  <2>3. Min(able) \in i .. Len(chain) /\ ~Refuses(chain[Min(able)])
    BY <2>2
  <2>4. {l \in i .. Len(chain) : l <= next} = i .. Min(able)
    <3>1. next = Min(able)
      BY <1>4
    <3>2. \A m \in i .. Len(chain) : {l \in i .. Len(chain) : l <= m} = i .. m
      BY <1>1
    <3>3. QED
      BY <3>1, <3>2, <2>3
  <2>5. begun = Passed(chain, i, Min(able))
    BY <2>4 DEF Passed
  <2>6. \A j \in i .. Min(able) - 1 : Begun(chain[j]) = "refused"
    <3> SUFFICES ASSUME NEW j \in i .. Min(able) - 1
                 PROVE  Refuses(chain[j])
      BY BeginsAs
    <3>1. j \in i .. Len(chain) /\ ~(Min(able) <= j)
      BY <2>3, <1>1
    <3>2. QED
      BY <3>1, <2>2
  <2>7. Begun(chain[Min(able)]) \in InFlight
    BY <2>3, BeginsAs DEF InFlight
  <2>8. Min(able) \in i - 1 .. Len(chain) /\ i <= Min(able)
    BY <2>3, <1>1
  <2>9. Went(r, mode, i, b, a, Min(able), "waiting")
    BY <1>2, <1>4, <2>5, <2>6, <2>7, <2>8 DEF Went
  <2>10. QED
    BY <2>9
<1>5. QED
  BY <1>3, <1>4

-----------------------------------------------------------------------------
(* Breakers *)

Row == [failures : Nat, opened_until : Nat, probe : BOOLEAN]

BreakersTyped == /\ breaker \in [Providers -> Row]
                 /\ probed \in [Providers -> Nat]
                 /\ now \in Nat

(* A step leaves a provider's breaker alone, begins a probe or records how *)
(* a call of it ended.                                                     *)
Kept(p)  == breaker'[p] = breaker[p] /\ probed'[p] = probed[p] /\ now' \in {now, now + 1}
Probed(p) == /\ Begun(p) = "probe"
             /\ breaker'[p] = [breaker[p] EXCEPT !.probe = TRUE]
             /\ probed'[p] = now /\ now' = now
Ended(p) == /\ \E how, ok : breaker'[p] = Recorded(breaker[p], how, ok)
            /\ probed'[p] = probed[p] /\ now' = now

ProviderStep(p) == Kept(p) \/ Probed(p) \/ Ended(p)

ProbesBegin == \A r \in Requests, p \in Providers :
  attempt'[r][p] = "probe" => attempt[r][p] = "probe" \/ Probed(p)

BreakerStep == /\ breaker' \in [Providers -> Row]
               /\ probed' \in [Providers -> Nat]
               /\ \A p \in Providers : ProviderStep(p)
               /\ ProbesBegin

(* A recorded call closes the breaker, opens it from now on, or counts.    *)
RowMoved(b, c) ==
  /\ c.failures \in Nat /\ c.opened_until \in Nat
  /\ \/ c.opened_until = 0 /\ c.probe = FALSE
     \/ c.failures > 0 /\ c.opened_until = now + Cooldown /\ c.probe = FALSE
     \/ c.failures > 0 /\ c.opened_until = b.opened_until /\ c.probe = b.probe

LEMMA RecordedAs ==
  ASSUME now \in Nat, NEW b \in Row, NEW c, NEW how, NEW ok, c = Recorded(b, how, ok)
  PROVE  c \in Row /\ RowMoved(b, c)
<1> DEFINE opened  == [failures |-> b.failures + 1, opened_until |-> now + Cooldown,
                       probe |-> FALSE]
           counted == [b EXCEPT !.failures = @ + 1]
<1>1. RecordedSuccess(b) \in Row /\ RecordedSuccess(b).opened_until = 0
      /\ RecordedSuccess(b).probe = FALSE
  BY DEF RecordedSuccess, Row
<1>2. opened \in Row /\ opened.failures > 0 /\ opened.opened_until = now + Cooldown
      /\ opened.probe = FALSE
  BY GatewayAssumption DEF Row
<1>3. counted \in Row /\ counted.failures > 0
      /\ counted.opened_until = b.opened_until /\ counted.probe = b.probe
  BY DEF Row
<1>4. Recorded(b, how, ok) \in {RecordedSuccess(b), opened, counted}
  BY DEF Recorded, RecordedFailure
<1>5. c \in Row => c.failures \in Nat /\ c.opened_until \in Nat
  BY DEF Row
<1>6. QED
  BY <1>1, <1>2, <1>3, <1>4, <1>5 DEF RowMoved

(* What the three kinds of steps do to a breaker keeps it consistent, and  *)
(* its probes a cooldown apart.                                            *)
LEMMA BreakersKept ==
  ASSUME BreakersTyped, BreakerStep, BreakerConsistent, ProbesSpaced
  PROVE  BreakerConsistent' /\ ProbesSpaced'
<1>1. ASSUME NEW p \in Providers
      PROVE  /\ breaker'[p].opened_until \in Nat /\ now' \in Nat
             /\ breaker'[p].opened_until > 0 => breaker'[p].failures > 0
             /\ breaker'[p].probe =>
                  breaker'[p].opened_until > 0 /\ breaker'[p].opened_until <= now'
             /\ probed'[p] <= now'
             /\ breaker'[p].opened_until > 0 /\ ~breaker'[p].probe =>
                  breaker'[p].opened_until >= probed'[p] + Cooldown
  <2>1. /\ breaker[p] \in Row /\ probed[p] \in Nat /\ now \in Nat
        /\ Cooldown \in Nat /\ Cooldown > 0
    BY GatewayAssumption DEF BreakersTyped
  <2>2. /\ breaker[p].failures \in Nat /\ breaker[p].opened_until \in Nat
        /\ breaker[p].probe \in BOOLEAN
    BY <2>1 DEF Row
  <2>3. /\ breaker[p].opened_until > 0 => breaker[p].failures > 0
        /\ breaker[p].probe =>
             breaker[p].opened_until > 0 /\ breaker[p].opened_until <= now
        /\ probed[p] <= now
        /\ breaker[p].opened_until > 0 /\ ~breaker[p].probe =>
             breaker[p].opened_until >= probed[p] + Cooldown
    BY <2>1, <2>2 DEF BreakerConsistent, ProbesSpaced, HalfOpen, Open
  <2>4. CASE Kept(p)
    BY <2>1, <2>2, <2>3, <2>4 DEF Kept
  <2>5. CASE Probed(p)
    <3>1. breaker'[p].failures = breaker[p].failures
          /\ breaker'[p].opened_until = breaker[p].opened_until
          /\ breaker'[p].probe = TRUE /\ probed'[p] = now /\ now' = now
      BY <2>1, <2>5 DEF Probed, Row
    <3>2. breaker[p].opened_until > 0 /\ breaker[p].opened_until <= now
      BY <2>1, <2>2, <2>5, BeginsAs DEF Probed, HalfOpen, Open
    <3>3. QED
      BY <2>1, <2>2, <2>3, <3>1, <3>2
  <2>6. CASE Ended(p)
    <3>1. PICK how, ok : breaker'[p] = Recorded(breaker[p], how, ok)
      BY <2>6 DEF Ended
    <3>2. probed'[p] = probed[p] /\ now' = now
      BY <2>6 DEF Ended
    <3>3. RowMoved(breaker[p], breaker'[p])
      BY <2>1, <3>1, RecordedAs
    <3>4. QED
      BY <2>1, <2>2, <2>3, <3>2, <3>3 DEF RowMoved
  <2>7. QED
    BY <2>4, <2>5, <2>6 DEF BreakerStep, ProviderStep
<1>2. QED
  BY <1>1 DEF BreakerConsistent, ProbesSpaced, HalfOpen, Open

(* And whoever begins a probe begins it a cooldown after the last one.     *)
LEMMA ProbesWait ==
  ASSUME BreakersTyped, BreakerStep, ProbesSpaced,
         NEW r \in Requests, NEW p \in Providers,
         attempt[r][p] # "probe", attempt'[r][p] = "probe"
  PROVE  now >= probed[p] + Cooldown
<1>1. Begun(p) = "probe"
  BY DEF BreakerStep, ProbesBegin, Probed
<1>2. /\ breaker[p].opened_until > 0 /\ ~(breaker[p].opened_until > now)
      /\ ~breaker[p].probe
  BY <1>1, BeginsAs DEF HalfOpen, Open
<1>3. breaker[p].opened_until >= probed[p] + Cooldown
  BY <1>2 DEF ProbesSpaced
<1>4. /\ breaker[p].opened_until \in Nat /\ now \in Nat /\ probed[p] \in Nat
      /\ Cooldown \in Nat
  BY GatewayAssumption DEF BreakersTyped, Row
<1>5. QED
  BY <1>2, <1>3, <1>4

-----------------------------------------------------------------------------
(* What steps do to breakers *)

Answers == {"none"} \cup InFlight \cup Over

Typed == /\ BreakersTyped
         /\ attempt \in [Requests -> [Providers -> Answers]]

LEMMA TypedByType == ASSUME TypeOK PROVE Typed
BY GatewayAssumption DEF TypeOK, Typed, BreakersTyped, Row, Answers

(* Some providers are called, after some calls may have been recorded in b. *)
Enters(r, ps, b, a) ==
  /\ breaker' = Entered(ps, b)
  /\ probed' = Noted(ps)
  /\ now' = now
  /\ attempt' = [attempt EXCEPT ![r] =
                   [p \in Providers |-> IF p \in ps THEN Begun(p) ELSE a[p]]]

(* b is the breakers after the end of some calls.                          *)
Follows(b) == /\ b \in [Providers -> Row]
              /\ \A p \in Providers :
                   b[p] = breaker[p] \/ \E how, ok : b[p] = Recorded(breaker[p], how, ok)

LEMMA EnterSteps ==
  ASSUME Typed, NEW r \in Requests, NEW ps, NEW b, NEW a,
         Enters(r, ps, b, a), Follows(b),
         \A p \in Providers : p \in ps => b[p] = breaker[p],
         \A p \in Providers : a[p] = "probe" => attempt[r][p] = "probe"
  PROVE  BreakerStep
<1>1. ASSUME NEW p \in Providers
      PROVE  breaker'[p] \in Row /\ probed'[p] \in Nat /\ ProviderStep(p)
  <2>1. breaker'[p] = IF p \in ps /\ Begun(p) = "probe"
                      THEN [b[p] EXCEPT !.probe = TRUE] ELSE b[p]
    BY DEF Enters, Entered
  <2>2. probed'[p] = IF p \in ps /\ Begun(p) = "probe" THEN now ELSE probed[p]
    BY DEF Enters, Noted
  <2>3. b[p] \in Row /\ now \in Nat /\ probed[p] \in Nat /\ now' = now
    BY DEF Enters, Typed, BreakersTyped, Follows
  <2>4. [b[p] EXCEPT !.probe = TRUE] \in Row
    BY <2>3 DEF Row
  <2>5. CASE p \in ps /\ Begun(p) = "probe"
    BY <2>1, <2>2, <2>3, <2>4, <2>5 DEF ProviderStep, Probed
  <2>6. CASE ~(p \in ps /\ Begun(p) = "probe")
    <3>1. breaker'[p] = b[p] /\ probed'[p] = probed[p]
      BY <2>1, <2>2, <2>6
    <3>2. Kept(p) \/ Ended(p)
      BY <2>3, <3>1 DEF Kept, Ended, Follows
    <3>3. QED
      BY <2>3, <3>1, <3>2 DEF ProviderStep
  <2>7. QED
    BY <2>5, <2>6
<1>2. breaker' \in [Providers -> Row] /\ probed' \in [Providers -> Nat]
  BY <1>1 DEF Enters, Entered, Noted
<1>3. ASSUME NEW q \in Requests, NEW p \in Providers,
             attempt'[q][p] = "probe", attempt[q][p] # "probe"
      PROVE  Probed(p)
  <2>1. q = r /\ p \in ps /\ Begun(p) = "probe"
    BY <1>3 DEF Enters, Typed
  <2>2. breaker'[p] = [b[p] EXCEPT !.probe = TRUE] /\ probed'[p] = now /\ now' = now
    BY <2>1 DEF Enters, Entered, Noted
  <2>3. QED
    BY <2>1, <2>2 DEF Probed
<1>4. ProbesBegin
  BY <1>3 DEF ProbesBegin
<1>5. QED
  BY <1>1, <1>2, <1>4 DEF BreakerStep

(* Calls end, in some of the requests, and nobody is called.               *)
LEMMA EndSteps ==
  ASSUME Typed, NEW b, breaker' = b, Follows(b), probed' = probed, now' = now,
         \A q \in Requests, p \in Providers :
           attempt'[q][p] = "probe" => attempt[q][p] = "probe"
  PROVE  BreakerStep
<1>1. \A p \in Providers : Kept(p) \/ Ended(p)
  BY DEF Kept, Ended, Typed, BreakersTyped, Follows
<1>2. QED
  BY <1>1 DEF BreakerStep, ProviderStep, ProbesBegin, Typed, BreakersTyped, Follows

-----------------------------------------------------------------------------
(* What steps do to requests *)

Routed(r) == Asking(r) /\ InChain(r) /\ InRace(r)

RequestsTyped == request \in [Requests -> [mode : Asked \cup {"none"},
                   state : {"idle", "waiting", "success", "failed", "timeout"}]]

LEMMA OtherRouted ==
  ASSUME NEW q \in Requests, Routed(q), request'[q] = request[q], attempt'[q] = attempt[q]
  PROVE  Routed(q)'
BY DEF Routed, Asking, InChain, InRace, CameTo, StandsAs

(* A chain that goes on after legs that gave no answer.                    *)
LEMMA WentRouted ==
  ASSUME Typed, RequestsTyped, NEW r \in Requests, NEW mode \in Modes[r], mode # "hybrid",
         NEW i \in 1 .. Len(Chain[mode]) + 1, NEW b, NEW k, NEW state,
         NEW a \in [Providers -> Answers],
         Went(r, mode, i, b, a, k, state),
         \A j \in 1 .. i - 1 : a[Chain[mode][j]] \in {"failed", "refused"},
         \A j \in i .. Len(Chain[mode]) : a[Chain[mode][j]] = "none",
         \A p \in Providers : a[p] # "none" => p \in Legs(mode)
  PROVE  /\ Routed(r)'
         /\ attempt'[r] \in [Providers -> Answers]
         /\ request'[r] = [mode |-> mode, state |-> state]
         /\ state \in {"waiting", "failed"}
<1> DEFINE chain == Chain[mode]
           n == Len(chain)
<1>1. n \in 1 .. 3 /\ (\A j \in 1 .. n : chain[j] \in Legs(mode) /\ chain[j] \in Providers)
      /\ mode \in DOMAIN Chain /\ mode \in Asked
  BY LegsAsked, Chains DEF IsChain
<1>2. \A j, l \in 1 .. n : chain[j] = chain[l] => j = l
  BY <1>1, Chains DEF IsChain
<1>3. /\ attempt'[r] = [p \in Providers |->
           IF p \in Passed(chain, i, k) THEN Begun(p) ELSE a[p]]
      /\ request'[r] = [mode |-> mode, state |-> state]
      /\ state \in {"waiting", "failed"}
      /\ k \in i - 1 .. n
  BY DEF Went, Typed, RequestsTyped
<1>4. \A j \in 1 .. n : chain[j] \in Passed(chain, i, k) <=> i <= j /\ j <= k
  <2>1. TAKE j \in 1 .. n
  <2>2. ASSUME chain[j] \in Passed(chain, i, k)
        PROVE  i <= j /\ j <= k
    <3>1. PICK l \in i .. k : chain[j] = chain[l]
      BY <2>2 DEF Passed
    <3>2. l \in 1 .. n
      BY <1>1, <1>3
    <3>3. QED
      BY <1>2, <3>1, <3>2
  <2>3. ASSUME i <= j, j <= k
        PROVE  chain[j] \in Passed(chain, i, k)
    <3>1. j \in i .. k
      BY <1>1, <1>3, <2>3
    <3>2. QED
      BY <3>1 DEF Passed
  <2>4. QED
    BY <2>2, <2>3
<1>5. \A j \in 1 .. n : attempt'[r][chain[j]] =
           IF i <= j /\ j <= k THEN Begun(chain[j]) ELSE a[chain[j]]
  BY <1>1, <1>3, <1>4
<1>6. \A p \in Providers : attempt'[r][p] # "none" => p \in Legs(mode)
  <2>1. \A p \in Passed(chain, i, k) : p \in Legs(mode)
    BY <1>1, <1>3 DEF Passed
  <2>2. QED
    BY <1>3, <2>1
<1>7. attempt'[r] \in [Providers -> Answers]
  BY <1>3, BeginsAs DEF Answers, InFlight, Over
<1>8. Asking(r)'
  BY <1>3, <1>6 DEF Asking
<1>9. InRace(r)'
  BY <1>3 DEF InRace
<1>10. \E m \in 1 .. n : CameTo(chain, attempt'[r], state, m)
  <2>1. CASE state = "waiting"
    <3>1. i <= k /\ Begun(chain[k]) \in InFlight
      BY <2>1 DEF Went
    <3>2. k \in 1 .. n
      BY <1>1, <1>3, <3>1
    <3>3. \A j \in 1 .. k - 1 : attempt'[r][chain[j]] \in {"failed", "refused"}
      <4>1. TAKE j \in 1 .. k - 1
      <4>0. j \in 1 .. n /\ j < k
        BY <3>2
      <4>2. CASE j < i
        BY <1>5, <4>0, <4>2
      <4>3. CASE j >= i
        <5>1. Begun(chain[j]) = "refused"
          BY <1>1, <1>3, <4>3 DEF Went
        <5>2. QED
          BY <1>1, <1>3, <1>5, <4>3, <5>1
      <4>4. QED
        BY <4>0, <4>2, <4>3
    <3>4. \A j \in k + 1 .. n : attempt'[r][chain[j]] = "none"
      BY <1>1, <1>3, <1>5, <3>1
    <3>5. attempt'[r][chain[k]] \in InFlight
      BY <1>5, <3>1, <3>2
    <3>6. CameTo(chain, attempt'[r], state, k)
      BY <2>1, <3>3, <3>4, <3>5 DEF CameTo, StandsAs
    <3>7. QED
      BY <3>2, <3>6
  <2>2. CASE state = "failed"
    <3>1. k = n /\ \A j \in i .. n : Begun(chain[j]) = "refused"
      BY <2>2 DEF Went
    <3>2. \A j \in 1 .. n : attempt'[r][chain[j]] \in {"failed", "refused"}
      <4>1. TAKE j \in 1 .. n
      <4>2. CASE j < i
        <5>1. ~(i <= j)
          BY <1>1, <4>2
        <5>2. attempt'[r][chain[j]] = a[chain[j]]
          BY <1>5, <5>1
        <5>3. j \in 1 .. i - 1
          BY <1>1, <4>2
        <5>4. a[chain[j]] \in {"failed", "refused"}
          BY <5>3
        <5>5. QED
          BY <5>2, <5>4
      <4>3. CASE j >= i
        <5>1. i <= j /\ j <= k /\ j \in i .. n
          BY <1>1, <3>1, <4>3
        <5>2. attempt'[r][chain[j]] = "refused"
          BY <1>5, <3>1, <5>1
        <5>3. QED
          BY <5>2
      <4>4. QED
        BY <1>1, <4>2, <4>3
    <3>3. CameTo(chain, attempt'[r], state, n)
      BY <1>1, <2>2, <3>2 DEF CameTo, StandsAs
    <3>4. n \in 1 .. n
      <4>1. \A m \in 1 .. 3 : m \in 1 .. m
        OBVIOUS
      <4>2. QED
        BY <1>1, <4>1
    <3>5. QED
      BY <3>3, <3>4
  <2>3. state = "waiting" \/ state = "failed"
    BY <1>3
  <2>4. QED
    BY <2>1, <2>2, <2>3
<1>11. InChain(r)'
  BY <1>1, <1>3, <1>10, Chains DEF InChain, IsChain
<1>12. QED
  BY <1>3, <1>7, <1>8, <1>9, <1>11 DEF Routed

(* The leg a chain waits for is the one it has come to.                    *)
LEMMA WaitsAt ==
  ASSUME Typed, RequestsTyped, NEW r \in Requests, NEW p \in Providers, Routed(r),
         attempt[r][p] \in InFlight, request[r].mode # "hybrid"
  PROVE  /\ request[r].state = "waiting"
         /\ request[r].mode \in Modes[r] /\ request[r].mode \in DOMAIN Chain
         /\ \E i \in 1 .. Len(Chain[request[r].mode]) :
              /\ p = Chain[request[r].mode][i]
              /\ Position(request[r].mode, p) = i
              /\ CameTo(Chain[request[r].mode], attempt[r], "waiting", i)
<1> DEFINE mode == request[r].mode
           chain == Chain[mode]
<1>1. attempt[r][p] \notin {"none", "failed", "refused", "success"}
  BY DEF InFlight
<1>2. request[r].state # "idle" /\ p \in Legs(mode) /\ mode \in Modes[r]
  BY <1>1 DEF Routed, Asking
<1>3. mode \in DOMAIN Chain /\ DOMAIN chain = 1 .. Len(chain) /\ Len(chain) \in 1 .. 3
  BY <1>2, LegsAsked, Chains DEF IsChain
<1>4. PICK i \in 1 .. Len(chain) : CameTo(chain, attempt[r], request[r].state, i)
  BY <1>2, <1>3 DEF Routed, InChain
<1>5. PICK l \in 1 .. Len(chain) : p = chain[l]
  BY <1>2, <1>3 DEF Legs, ToSet
<1>6. l = i
  <2>1. l \notin 1 .. i - 1
    BY <1>1, <1>4, <1>5 DEF CameTo
  <2>2. l \notin i + 1 .. Len(chain)
    BY <1>1, <1>4, <1>5 DEF CameTo
  <2>3. QED
    BY <1>3, <2>1, <2>2
<1>7. request[r].state = "waiting"
  BY <1>1, <1>4, <1>5, <1>6 DEF CameTo, StandsAs
<1>8. Position(mode, p) = i
  BY <1>3, <1>5, <1>6, PositionOf
<1>9. QED
  BY <1>2, <1>3, <1>4, <1>5, <1>6, <1>7, <1>8

-----------------------------------------------------------------------------
(* The actions *)

Keeps == /\ BreakerStep
         /\ now' \in 1 .. MaxTime
         /\ request' \in [Requests -> [mode : Asked \cup {"none"},
                state : {"idle", "waiting", "success", "failed", "timeout"}]]
         /\ attempt' \in [Requests -> [Providers -> Answers]]
         /\ RequestsRouted'

LEMMA InferKeeps ==
  ASSUME IInv, NEW r \in Requests, Infer(r)
  PROVE  Keeps
<1>1. Typed /\ RequestsTyped /\ now \in 1 .. MaxTime
  BY TypedByType DEF IInv, TypeOK, RequestsTyped
<1>2. PICK mode \in Modes[r] \ {"hybrid"} : GoOn(r, mode, 1, breaker, Unasked)
  BY DEF Infer
<1>3. /\ mode \in DOMAIN Chain /\ mode \in Asked /\ mode \in Modes[r] /\ mode # "hybrid"
      /\ 1 \in 1 .. Len(Chain[mode]) + 1
  BY <1>2, LegsAsked, Chains DEF IsChain
<1>4. PICK k, state : Went(r, mode, 1, breaker, Unasked, k, state)
  BY <1>2, <1>3, GoesOn
<1>5. Unasked \in [Providers -> Answers] /\ \A p \in Providers : Unasked[p] = "none"
  BY DEF Unasked, Answers
<1>6. BreakerStep
  <2>1. Enters(r, Passed(Chain[mode], 1, k), breaker, Unasked)
    BY <1>4 DEF Went, Enters
  <2>2. Follows(breaker)
    BY <1>1 DEF Typed, BreakersTyped, Follows
  <2>3. QED
    BY <1>1, <1>5, <2>1, <2>2, EnterSteps
<1>7. /\ Routed(r)' /\ attempt'[r] \in [Providers -> Answers]
      /\ request'[r] = [mode |-> mode, state |-> state] /\ state \in {"waiting", "failed"}
  <2>1. \A j \in 1 .. Len(Chain[mode]) : Unasked[Chain[mode][j]] = "none"
    BY <1>3, <1>5, LegsAsked
  <2>2. \A j \in 1 .. 1 - 1 : Unasked[Chain[mode][j]] \in {"failed", "refused"}
    OBVIOUS
  <2>3. QED
    BY <1>1, <1>3, <1>4, <1>5, <2>1, <2>2, WentRouted
<1>8. /\ request' = [request EXCEPT ![r] = [mode |-> mode, state |-> state]]
      /\ \A q \in Requests : q # r => attempt'[q] = attempt[q]
      /\ DOMAIN attempt' = Requests /\ attempt' = [q \in Requests |-> attempt'[q]]
      /\ now' = now
  BY <1>1, <1>4 DEF Went, Typed
<1>9. attempt' \in [Requests -> [Providers -> Answers]]
  BY <1>1, <1>7, <1>8 DEF Typed
<1>10. RequestsRouted'
  BY <1>1, <1>7, <1>8, OtherRouted DEF IInv, RequestsRouted, Routed, RequestsTyped
<1>11. QED
  BY <1>1, <1>3, <1>6, <1>7, <1>8, <1>9, <1>10 DEF Keeps, RequestsTyped

(* An answer records itself, and what comes next depends on the mode.      *)
RecordedIn(p, how, ok) == [breaker EXCEPT ![p] = Recorded(@, how, ok)]
AnsweredIn(r, p, ok) == [attempt[r] EXCEPT ![p] = IF ok THEN "success" ELSE "failed"]

LEMMA AnswerRecords ==
  ASSUME Typed, NEW r \in Requests, NEW p \in Providers, NEW ok \in BOOLEAN,
         attempt[r][p] \in InFlight
  PROVE  LET b == RecordedIn(p, attempt[r][p], ok)
             a == AnsweredIn(r, p, ok)
         IN  /\ Follows(b)
             /\ \A q \in Providers : q # p => b[q] = breaker[q]
             /\ a \in [Providers -> Answers]
             /\ a[p] \in {"success", "failed"} /\ (ok => a[p] = "success")
             /\ (~ok => a[p] = "failed")
             /\ \A q \in Providers : q # p => a[q] = attempt[r][q]
             /\ \A q \in Providers : a[q] = "probe" => attempt[r][q] = "probe"
<1> DEFINE how == attempt[r][p]
           new == Recorded(breaker[p], how, ok)
<1>1. breaker \in [Providers -> Row] /\ now \in Nat
  BY DEF Typed, BreakersTyped
<1>2. new \in Row
  BY <1>1, RecordedAs
<1>3. RecordedIn(p, how, ok) = [breaker EXCEPT ![p] = new]
  BY DEF RecordedIn
<1>4. attempt[r] \in [Providers -> Answers]
  BY DEF Typed
<1>5. "success" \in Answers /\ "failed" \in Answers
  BY DEF Answers, Over
<1>6. AnsweredIn(r, p, ok) \in [Providers -> Answers]
  BY <1>4, <1>5 DEF AnsweredIn
<1>7. AnsweredIn(r, p, ok)[p] = IF ok THEN "success" ELSE "failed"
  BY <1>4 DEF AnsweredIn
<1>8. \A q \in Providers : q # p => AnsweredIn(r, p, ok)[q] = attempt[r][q]
  BY <1>4 DEF AnsweredIn
<1>9. \A q \in Providers : AnsweredIn(r, p, ok)[q] = "probe" => attempt[r][q] = "probe"
  BY <1>7, <1>8
<1>10. RecordedIn(p, how, ok)[p] = new /\ RecordedIn(p, how, ok) \in [Providers -> Row]
       /\ \A q \in Providers : q # p => RecordedIn(p, how, ok)[q] = breaker[q]
  <2> HIDE DEF new
  <2>1. QED
    BY <1>1, <1>2, <1>3
<1>11. QED
  BY <1>6, <1>7, <1>8, <1>9, <1>10 DEF Follows

(* A leg of a chain gives no answer.                                       *)
LEMMA FailedLegKeeps ==
  ASSUME IInv, NEW r \in Requests, NEW p \in Providers, attempt[r][p] \in InFlight,
         request[r].mode # "hybrid",
         GoOn(r, request[r].mode, NextLeg(request[r].mode, p),
              RecordedIn(p, attempt[r][p], FALSE), AnsweredIn(r, p, FALSE))
  PROVE  Keeps
<1>0. PICK mode, b, a : /\ mode = request[r].mode
                       /\ b = RecordedIn(p, attempt[r][p], FALSE)
                       /\ a = AnsweredIn(r, p, FALSE)
  OBVIOUS
<1> DEFINE chain == Chain[mode]
<1>1. Typed /\ RequestsTyped /\ now \in 1 .. MaxTime /\ Routed(r)
  BY TypedByType DEF IInv, TypeOK, RequestsTyped, RequestsRouted, Routed
<1>2. PICK i \in 1 .. Len(chain) : /\ p = chain[i]
                                   /\ Position(mode, p) = i
                                   /\ CameTo(chain, attempt[r], "waiting", i)
  BY <1>0, <1>1, WaitsAt
<1>3. mode \in Modes[r] /\ mode \in DOMAIN Chain /\ mode \in Asked
  <2>1. mode \in Modes[r] /\ mode \in DOMAIN Chain
    BY <1>0, <1>1, WaitsAt
  <2>2. QED
    BY <2>1, LegsAsked
<1>4. Len(chain) \in 1 .. 3 /\ \A j, l \in 1 .. Len(chain) : chain[j] = chain[l] => j = l
  BY <1>3, Chains DEF IsChain
<1>5. i + 1 \in 1 .. Len(chain) + 1 /\ GoOn(r, mode, i + 1, b, a)
  <2>1. i + 1 \in 1 .. Len(chain) + 1
    BY <1>4
  <2>2. NextLeg(mode, p) = i + 1
    BY <1>2 DEF NextLeg
  <2>3. GoOn(r, mode, NextLeg(mode, p), b, a)
    BY <1>0
  <2>4. QED
    BY <2>1, <2>2, <2>3
<1>6. PICK k, state : Went(r, mode, i + 1, b, a, k, state)
  BY <1>3, <1>5, GoesOn
<1>7. /\ Follows(b)
      /\ \A q \in Providers : q # p => b[q] = breaker[q]
      /\ a \in [Providers -> Answers]
      /\ a[p] = "failed"
      /\ \A q \in Providers : q # p => a[q] = attempt[r][q]
      /\ \A q \in Providers : a[q] = "probe" => attempt[r][q] = "probe"
  <2>1. /\ Follows(RecordedIn(p, attempt[r][p], FALSE))
        /\ \A q \in Providers : q # p => RecordedIn(p, attempt[r][p], FALSE)[q] = breaker[q]
        /\ AnsweredIn(r, p, FALSE) \in [Providers -> Answers]
        /\ AnsweredIn(r, p, FALSE)[p] = "failed"
        /\ \A q \in Providers : q # p => AnsweredIn(r, p, FALSE)[q] = attempt[r][q]
        /\ \A q \in Providers : AnsweredIn(r, p, FALSE)[q] = "probe" => attempt[r][q] = "probe"
    BY <1>1, AnswerRecords
  <2>2. QED
    BY <1>0, <2>1
<1>8. \A j \in 1 .. Len(chain) : chain[j] \in Providers
  BY <1>3, LegsAsked
<1>9. p \notin Passed(chain, i + 1, k)
  <2>1. k <= Len(chain) /\ k \in Int
    BY <1>4, <1>6 DEF Went
  <2>2. SUFFICES ASSUME NEW j \in i + 1 .. k
                 PROVE  chain[j] # p
    BY DEF Passed
  <2>3. j \in 1 .. Len(chain) /\ j # i
    BY <1>4, <2>1
  <2>4. QED
    BY <1>2, <1>4, <2>3
<1>10. BreakerStep
  <2>1. Enters(r, Passed(chain, i + 1, k), b, a)
    BY <1>6 DEF Went, Enters
  <2>2. \A q \in Providers : q \in Passed(chain, i + 1, k) => b[q] = breaker[q]
    BY <1>7, <1>9
  <2>4. Follows(b) /\ Typed
    BY <1>1, <1>7
  <2>5. \A q \in Providers : a[q] = "probe" => attempt[r][q] = "probe"
    BY <1>7
  <2>6. QED
    BY <2>1, <2>2, <2>4, <2>5, EnterSteps
<1>11. \A j \in 1 .. (i + 1) - 1 : a[chain[j]] \in {"failed", "refused"}
  <2>1. TAKE j \in 1 .. (i + 1) - 1
  <2>2. j \in 1 .. Len(chain) /\ (j # i => j \in 1 .. i - 1)
    BY <1>4
  <2>3. CASE j = i
    BY <1>2, <1>7, <2>3
  <2>4. CASE j # i
    <3>1. attempt[r][chain[j]] \in {"failed", "refused"}
      BY <1>2, <2>2, <2>4 DEF CameTo
    <3>2. chain[j] # p
      BY <1>2, <1>4, <2>2, <2>4
    <3>3. QED
      BY <1>7, <1>8, <2>2, <3>1, <3>2
  <2>5. QED
    BY <2>3, <2>4
<1>12. \A j \in i + 1 .. Len(chain) : a[chain[j]] = "none"
  <2>1. TAKE j \in i + 1 .. Len(chain)
  <2>2. j \in 1 .. Len(chain) /\ j # i
    BY <1>4
  <2>3. attempt[r][chain[j]] = "none"
    BY <1>2, <1>4 DEF CameTo
  <2>4. chain[j] # p
    BY <1>2, <1>4, <2>2
  <2>5. QED
    BY <1>7, <1>8, <2>2, <2>3, <2>4
<1>13. \A q \in Providers : a[q] # "none" => q \in Legs(mode)
  <2>1. p \in Legs(mode)
    BY <1>2, <1>3, LegsAsked
  <2>2. QED
    BY <1>0, <1>1, <1>7, <2>1 DEF Routed, Asking
<1>14. /\ Routed(r)' /\ attempt'[r] \in [Providers -> Answers]
       /\ request'[r] = [mode |-> mode, state |-> state] /\ state \in {"waiting", "failed"}
  <2>1. a \in [Providers -> Answers]
    BY <1>7
  <2>2. mode \in Modes[r] /\ mode # "hybrid" /\ Typed /\ RequestsTyped
    BY <1>0, <1>1, <1>3
  <2>3. i + 1 \in 1 .. Len(Chain[mode]) + 1 /\ Went(r, mode, i + 1, b, a, k, state)
    BY <1>5, <1>6
  <2>4. \A j \in 1 .. (i + 1) - 1 : a[Chain[mode][j]] \in {"failed", "refused"}
    BY <1>11
  <2>5. \A j \in i + 1 .. Len(Chain[mode]) : a[Chain[mode][j]] = "none"
    BY <1>12
  <2>6. QED
    BY <2>1, <2>2, <2>3, <2>4, <2>5, <1>13, WentRouted
<1>15. /\ request' = [request EXCEPT ![r] = [mode |-> mode, state |-> state]]
       /\ \A q \in Requests : q # r => attempt'[q] = attempt[q]
       /\ DOMAIN attempt' = Requests /\ attempt' = [q \in Requests |-> attempt'[q]]
       /\ now' = now
  BY <1>1, <1>6 DEF Went, Typed
<1>16. attempt' \in [Requests -> [Providers -> Answers]]
  BY <1>1, <1>14, <1>15 DEF Typed
<1>17. RequestsRouted'
  BY <1>1, <1>14, <1>15, OtherRouted DEF IInv, RequestsRouted, Routed, RequestsTyped
<1>18. QED
  BY <1>1, <1>3, <1>10, <1>14, <1>15, <1>16, <1>17 DEF Keeps, RequestsTyped

(* A leg of a chain answers, or a leg of a race does either.               *)
LEMMA AnswerKeeps ==
  ASSUME IInv, NEW r \in Requests, NEW p \in Providers, NEW ok \in BOOLEAN, Answer(r, p, ok)
  PROVE  Keeps
<1>0. PICK mode, b, a : /\ mode = request[r].mode
                       /\ b = RecordedIn(p, attempt[r][p], ok)
                       /\ a = AnsweredIn(r, p, ok)
  OBVIOUS
<1>1. Typed /\ RequestsTyped /\ now \in 1 .. MaxTime /\ Routed(r)
  BY TypedByType DEF IInv, TypeOK, RequestsTyped, RequestsRouted, Routed
<1>2. attempt[r][p] \in InFlight
  BY DEF Answer
<1>3. CASE mode # "hybrid" /\ ~ok
  <2>1. ok = FALSE
    BY <1>3
  <2>2. GoOn(r, request[r].mode, NextLeg(request[r].mode, p),
             RecordedIn(p, attempt[r][p], FALSE), AnsweredIn(r, p, FALSE))
    BY <1>0, <1>3, <2>1 DEF Answer, RecordedIn, AnsweredIn
  <2>3. QED
    BY <1>0, <1>2, <1>3, <2>2, FailedLegKeeps
<1>4. CASE ~(mode # "hybrid" /\ ~ok)
  <2>1. /\ breaker' = b
        /\ attempt' = [attempt EXCEPT ![r] = a]
        /\ request' = IF mode = "hybrid" THEN request
                      ELSE [request EXCEPT ![r].state = "success"]
        /\ now' = now /\ probed' = probed
    BY <1>0, <1>4 DEF Answer, RecordedIn, AnsweredIn
  <2>2. /\ Follows(b)
        /\ a \in [Providers -> Answers]
        /\ a[p] \in {"success", "failed"} /\ (ok => a[p] = "success")
        /\ \A q \in Providers : q # p => a[q] = attempt[r][q]
        /\ \A q \in Providers : a[q] = "probe" => attempt[r][q] = "probe"
    <3>1. /\ Follows(RecordedIn(p, attempt[r][p], ok))
          /\ AnsweredIn(r, p, ok) \in [Providers -> Answers]
          /\ AnsweredIn(r, p, ok)[p] \in {"success", "failed"}
          /\ (ok => AnsweredIn(r, p, ok)[p] = "success")
          /\ \A q \in Providers : q # p => AnsweredIn(r, p, ok)[q] = attempt[r][q]
          /\ \A q \in Providers : AnsweredIn(r, p, ok)[q] = "probe" => attempt[r][q] = "probe"
      BY <1>1, <1>2, AnswerRecords
    <3>2. QED
      BY <1>0, <3>1
  <2>3. attempt'[r] = a /\ \A q \in Requests : q # r => attempt'[q] = attempt[q]
    BY <1>1, <2>1 DEF Typed
  <2>4. attempt' \in [Requests -> [Providers -> Answers]]
    BY <1>1, <2>1, <2>2 DEF Typed
  <2>5. BreakerStep
    <3>1. \A q \in Requests, x \in Providers :
            attempt'[q][x] = "probe" => attempt[q][x] = "probe"
      BY <2>2, <2>3
    <3>2. QED
      BY <1>1, <2>1, <2>2, <3>1, EndSteps
  <2>6. /\ request'[r].mode = mode
        /\ request'[r].state = IF mode = "hybrid" THEN request[r].state ELSE "success"
        /\ \A q \in Requests : q # r => request'[q] = request[q]
        /\ request' \in [Requests -> [mode : Asked \cup {"none"},
                state : {"idle", "waiting", "success", "failed", "timeout"}]]
    BY <1>0, <1>1, <2>1 DEF RequestsTyped
  <2>7. attempt[r][p] \notin {"none", "success", "failed", "refused", "cancelled"}
    BY <1>2 DEF InFlight
  <2>8. /\ request[r].state # "idle" /\ mode \in Modes[r] /\ p \in Legs(mode)
        /\ \A q \in Providers : a[q] # "none" => q \in Legs(mode)
    BY <1>0, <1>1, <2>2, <2>7 DEF Routed, Asking
  <2>9. Asking(r)'
    <3>1. request'[r].state # "idle"
      BY <2>6, <2>8
    <3>2. QED
      BY <2>3, <2>6, <2>8, <3>1 DEF Asking
  <2>10. InChain(r)'
    <3>1. CASE mode = "hybrid"
      BY <2>6, <3>1 DEF InChain
    <3>2. CASE mode # "hybrid"
      <4>1. ok /\ a[p] = "success"
        BY <1>4, <2>2, <3>2
      <4>2. PICK i \in 1 .. Len(Chain[mode]) :
              p = Chain[mode][i] /\ CameTo(Chain[mode], attempt[r], "waiting", i)
        BY <1>0, <1>1, <1>2, <3>2, WaitsAt
      <4>3. /\ mode \in DOMAIN Chain /\ DOMAIN Chain[mode] = 1 .. Len(Chain[mode])
            /\ Len(Chain[mode]) \in 1 .. 3
            /\ \A j, l \in 1 .. Len(Chain[mode]) : Chain[mode][j] = Chain[mode][l] => j = l
            /\ \A j \in 1 .. Len(Chain[mode]) : Chain[mode][j] \in Providers
        BY <2>8, LegsAsked, Chains DEF IsChain
      <4>4. \A j \in 1 .. Len(Chain[mode]) :
              j # i => a[Chain[mode][j]] = attempt[r][Chain[mode][j]]
        BY <2>2, <4>2, <4>3
      <4>5. CameTo(Chain[mode], a, "success", i)
        <5>1. \A j \in 1 .. i - 1 : a[Chain[mode][j]] \in {"failed", "refused"}
          BY <4>2, <4>3, <4>4 DEF CameTo
        <5>2. \A j \in i + 1 .. Len(Chain[mode]) : a[Chain[mode][j]] = "none"
          BY <4>2, <4>3, <4>4 DEF CameTo
        <5>3. QED
          BY <4>1, <4>2, <5>1, <5>2 DEF CameTo, StandsAs
      <4>6. QED
        BY <2>3, <2>6, <3>2, <4>3, <4>5 DEF InChain
    <3>3. QED
      BY <3>1, <3>2
  <2>11. InRace(r)'
    <3>1. CASE mode # "hybrid"
      BY <2>6, <3>1 DEF InRace
    <3>2. CASE mode = "hybrid"
      <4>1. Legs("hybrid") \subseteq Providers
        BY <2>8, <3>2, LegsAsked
      <4>2. request[r].state = "waiting"
        BY <1>0, <1>1, <2>7, <2>8, <3>2 DEF Routed, InRace, RequestsTyped, Over
      <4>3. \A q \in Legs("hybrid") : a[q] # "none"
        BY <1>0, <1>1, <2>2, <2>8, <3>2, <4>1 DEF Routed, InRace
      <4>4. QED
        BY <2>3, <2>6, <3>2, <4>2, <4>3 DEF InRace
    <3>3. QED
      BY <3>1, <3>2
  <2>12. RequestsRouted'
    BY <2>3, <2>6, <2>9, <2>10, <2>11, OtherRouted DEF IInv, RequestsRouted, Routed
  <2>13. QED
    BY <1>1, <2>1, <2>4, <2>5, <2>6, <2>12 DEF Keeps
<1>5. QED
  BY <1>3, <1>4

(* A race begins.                                                          *)
LEMMA InferHybridKeeps ==
  ASSUME IInv, NEW r \in Requests, InferHybrid(r)
  PROVE  Keeps
<1>1. Typed /\ RequestsTyped /\ now \in 1 .. MaxTime
  BY TypedByType DEF IInv, TypeOK, RequestsTyped
<1>2. "hybrid" \in Modes[r] /\ "hybrid" \in Asked /\ Legs("hybrid") \subseteq Providers
  BY LegsAsked DEF InferHybrid
<1>3. /\ attempt' = [attempt EXCEPT ![r] =
            [p \in Providers |-> IF p \in Legs("hybrid") THEN Begun(p) ELSE Unasked[p]]]
      /\ breaker' = Entered(Legs("hybrid"), breaker)
      /\ probed' = Noted(Legs("hybrid"))
      /\ request' = [request EXCEPT ![r] = [mode |-> "hybrid", state |-> "waiting"]]
      /\ now' = now
  BY DEF InferHybrid, Unasked
<1>4. BreakerStep
  <2>1. Enters(r, Legs("hybrid"), breaker, Unasked)
    BY <1>3 DEF Enters
  <2>2. Follows(breaker)
    BY <1>1 DEF Typed, BreakersTyped, Follows
  <2>3. \A p \in Providers : Unasked[p] = "probe" => attempt[r][p] = "probe"
    BY DEF Unasked
  <2>4. QED
    BY <1>1, <2>1, <2>2, <2>3, EnterSteps
<1>5. attempt'[r] = [p \in Providers |-> IF p \in Legs("hybrid") THEN Begun(p) ELSE "none"]
  BY <1>1, <1>3 DEF Typed, Unasked
<1>6. attempt'[r] \in [Providers -> Answers]
  BY <1>5, BeginsAs DEF Answers, InFlight, Over
<1>7. /\ request'[r].mode = "hybrid" /\ request'[r].state = "waiting"
      /\ \A q \in Requests : q # r => request'[q] = request[q] /\ attempt'[q] = attempt[q]
      /\ request' \in [Requests -> [mode : Asked \cup {"none"},
                state : {"idle", "waiting", "success", "failed", "timeout"}]]
  BY <1>1, <1>2, <1>3 DEF Typed, RequestsTyped
<1>8. attempt' \in [Requests -> [Providers -> Answers]]
  BY <1>1, <1>3, <1>6 DEF Typed
<1>9. \A p \in Legs("hybrid") : attempt'[r][p] # "none"
  BY <1>2, <1>5, BeginsAs
<1>10. Asking(r)' /\ InChain(r)' /\ InRace(r)'
  BY <1>2, <1>5, <1>7, <1>9 DEF Asking, InChain, InRace
<1>11. RequestsRouted'
  BY <1>7, <1>10, OtherRouted DEF IInv, RequestsRouted, Routed
<1>12. QED
  BY <1>1, <1>3, <1>4, <1>7, <1>8, <1>11 DEF Keeps

(* A race ends: what is still under way is cancelled.                      *)
LEMMA EndHybridKeeps ==
  ASSUME IInv, NEW r \in Requests, Racing(r),
         NEW state \in {"success", "failed", "timeout"}, EndHybrid(r, state),
         state = "success" <=> Won(r)
  PROVE  Keeps
<1> DEFINE failing == {p \in Pending(r) : ReportsCancel(p)}
<1>1. Typed /\ RequestsTyped /\ now \in 1 .. MaxTime /\ Routed(r)
  BY TypedByType DEF IInv, TypeOK, RequestsTyped, RequestsRouted, Routed
<1>2. PICK b, a :
        /\ b = [p \in Providers |-> IF p \in failing
                  THEN Recorded(breaker[p], attempt[r][p], FALSE) ELSE breaker[p]]
        /\ a = [p \in Providers |-> IF p \notin Pending(r) THEN attempt[r][p]
                  ELSE IF p \in failing THEN "failed" ELSE "cancelled"]
  OBVIOUS
<1>3. /\ breaker' = b
      /\ attempt' = [attempt EXCEPT ![r] = a]
      /\ request' = [request EXCEPT ![r].state = state]
      /\ now' = now /\ probed' = probed
  BY <1>2 DEF EndHybrid, CancelPending
<1>4. Follows(b)
  <2>1. ASSUME NEW p \in Providers
        PROVE  b[p] \in Row /\ (b[p] = breaker[p] \/
                 \E how, ok : b[p] = Recorded(breaker[p], how, ok))
    <3>1. breaker[p] \in Row /\ now \in Nat
      BY <1>1 DEF Typed, BreakersTyped
    <3>2. CASE p \in failing
      <4>1. b[p] = Recorded(breaker[p], attempt[r][p], FALSE)
        BY <1>2, <3>2
      <4>2. b[p] \in Row
        BY <3>1, <4>1, RecordedAs
      <4>3. QED
        BY <4>1, <4>2
    <3>3. CASE p \notin failing
      BY <1>2, <3>1, <3>3
    <3>4. QED
      BY <3>2, <3>3
  <2>2. QED
    BY <1>2, <2>1 DEF Follows
<1>5. /\ request[r].mode = "hybrid" /\ request[r].state = "waiting"
      /\ "hybrid" \in Modes[r] /\ Legs("hybrid") \subseteq Providers
  <2>1. request[r].mode = "hybrid" /\ request[r].state = "waiting"
    BY DEF Racing
  <2>2. "hybrid" \in Modes[r]
    BY <1>1, <2>1 DEF Routed, Asking
  <2>3. QED
    BY <2>1, <2>2, LegsAsked
<1>6. \A p \in Providers : attempt[r][p] \in Answers
  BY <1>1 DEF Typed
<1>7. a \in [Providers -> Answers] /\ \A p \in Providers : a[p] # "probe"
  <2>1. ASSUME NEW p \in Providers
        PROVE  a[p] \in Answers /\ a[p] # "probe"
    <3>1. CASE p \in Pending(r)
      BY <1>2, <3>1 DEF Answers, Over
    <3>2. CASE p \notin Pending(r)
      <4>1. a[p] = attempt[r][p]
        BY <1>2, <3>2
      <4>2. attempt[r][p] \in InFlight => p \in Legs("hybrid")
        BY <1>1, <1>5 DEF Routed, Asking, InFlight
      <4>3. attempt[r][p] \notin InFlight
        BY <3>2, <4>2 DEF Pending
      <4>4. QED
        BY <1>6, <4>1, <4>3 DEF InFlight
    <3>3. QED
      BY <3>1, <3>2
  <2>2. QED
    BY <1>2, <2>1
<1>8. attempt'[r] = a /\ \A q \in Requests : q # r => attempt'[q] = attempt[q]
  BY <1>1, <1>3 DEF Typed
<1>9. attempt' \in [Requests -> [Providers -> Answers]]
  BY <1>1, <1>3, <1>7 DEF Typed
<1>10. BreakerStep
  <2>1. \A q \in Requests, p \in Providers :
          attempt'[q][p] = "probe" => attempt[q][p] = "probe"
    BY <1>7, <1>8
  <2>2. QED
    BY <1>1, <1>3, <1>4, <2>1, EndSteps
<1>11. /\ request'[r].mode = "hybrid" /\ request'[r].state = state
       /\ \A q \in Requests : q # r => request'[q] = request[q]
       /\ request' \in [Requests -> [mode : Asked \cup {"none"},
                state : {"idle", "waiting", "success", "failed", "timeout"}]]
  BY <1>1, <1>3, <1>5 DEF RequestsTyped
<1>12. \A p \in Legs("hybrid") :
         /\ a[p] \in Over
         /\ a[p] = "success" <=> attempt[r][p] = "success"
  <2>1. TAKE p \in Legs("hybrid")
  <2>2. p \in Providers
    BY <1>5
  <2>3. attempt[r][p] # "none"
    BY <1>1, <1>5 DEF Routed, InRace
  <2>4. CASE p \in Pending(r)
    BY <1>2, <2>2, <2>4 DEF Pending, Over, InFlight
  <2>5. CASE p \notin Pending(r)
    <3>1. attempt[r][p] \notin InFlight
      BY <2>5 DEF Pending
    <3>2. a[p] = attempt[r][p]
      BY <1>2, <2>2, <2>5
    <3>3. QED
      BY <1>6, <2>2, <2>3, <3>1, <3>2 DEF Answers, Over
  <2>6. QED
    BY <2>4, <2>5
<1>13. Asking(r)'
  <2>1. \A p \in Providers : a[p] # "none" => p \in Legs("hybrid")
    <3>1. TAKE p \in Providers
    <3>2. p \in Pending(r) => p \in Legs("hybrid")
      BY DEF Pending
    <3>3. p \notin Pending(r) => a[p] = attempt[r][p]
      BY <1>2
    <3>4. QED
      BY <1>1, <1>5, <3>2, <3>3 DEF Routed, Asking
  <2>2. QED
    BY <1>5, <1>8, <1>11, <2>1 DEF Asking
<1>14. InChain(r)'
  BY <1>11 DEF InChain
<1>15. InRace(r)'
  <2>1. \A p \in Legs("hybrid") : a[p] # "none" /\ a[p] \in Over
    BY <1>12 DEF Over
  <2>2. Won(r) <=> \E p \in Legs("hybrid") : a[p] = "success"
    BY <1>12 DEF Won
  <2>3. QED
    BY <1>8, <1>11, <2>1, <2>2 DEF InRace
<1>16. RequestsRouted'
  BY <1>8, <1>11, <1>13, <1>14, <1>15, OtherRouted DEF IInv, RequestsRouted, Routed
<1>17. QED
  BY <1>1, <1>3, <1>9, <1>10, <1>11, <1>16 DEF Keeps

-----------------------------------------------------------------------------
(* The theorems *)

LEMMA NextKeeps ==
  ASSUME IInv, Next
  PROVE  Keeps
<1>1. CASE Tick
  <2>1. Typed /\ now \in 1 .. MaxTime /\ MaxTime \in Nat
    BY TypedByType, GatewayAssumption DEF IInv, TypeOK
  <2>2. now' = now + 1 /\ now < MaxTime /\ UNCHANGED <<breaker, request, attempt, probed>>
    BY <1>1 DEF Tick
  <2>3. BreakerStep
    BY <2>1, <2>2 DEF BreakerStep, ProviderStep, Kept, ProbesBegin, Typed, BreakersTyped
  <2>4. RequestsRouted'
    BY <2>2 DEF IInv, RequestsRouted, Asking, InChain, InRace
  <2>5. now' \in 1 .. MaxTime
    BY <2>1, <2>2
  <2>6. QED
    BY <2>1, <2>2, <2>3, <2>4, <2>5 DEF Keeps, IInv, TypeOK, Typed
<1>2. ASSUME NEW r \in Requests, HybridWins(r)
      PROVE  Keeps
  BY <1>2, EndHybridKeeps DEF HybridWins
<1>3. ASSUME NEW r \in Requests, HybridFails(r)
      PROVE  Keeps
  BY <1>3, EndHybridKeeps DEF HybridFails
<1>4. ASSUME NEW r \in Requests, HybridTimesOut(r)
      PROVE  Keeps
  <2>1. PICK state \in {"timeout", "failed"} : EndHybrid(r, state)
    BY <1>4 DEF HybridTimesOut
  <2>2. Racing(r) /\ ~Won(r)
    BY <1>4 DEF HybridTimesOut
  <2>3. QED
    BY <2>1, <2>2, EndHybridKeeps
<1>5. QED
  BY <1>1, <1>2, <1>3, <1>4, InferKeeps, InferHybridKeeps, AnswerKeeps DEF Next

LEMMA InitIInv == Init => IInv
<1> SUFFICES ASSUME Init PROVE IInv
  OBVIOUS
<1>1. Unasked \in [Providers -> Answers] /\ \A p \in Providers : Unasked[p] = "none"
  BY DEF Unasked, Answers
<1>2. TypeOK
  BY <1>1, GatewayAssumption DEF Init, TypeOK, Answers
<1>3. BreakerConsistent /\ ProbesSpaced
  BY DEF Init, BreakerConsistent, ProbesSpaced
<1>4. RequestsRouted
  BY <1>1 DEF Init, RequestsRouted, Asking, InChain, InRace
<1>5. QED
  BY <1>2, <1>3, <1>4 DEF IInv

LEMMA StepIInv == IInv /\ [Next]_vars => IInv'
<1> SUFFICES ASSUME IInv, [Next]_vars PROVE IInv'
  OBVIOUS
<1>1. CASE Next
  <2>1. Keeps
    BY <1>1, NextKeeps
  <2>2. Typed
    BY TypedByType DEF IInv
  <2>3. BreakerConsistent' /\ ProbesSpaced'
    BY <2>1, <2>2, BreakersKept DEF IInv, Keeps, Typed
  <2>4. TypeOK'
    BY <2>1 DEF Keeps, BreakerStep, Row, Answers, TypeOK
  <2>5. QED
    BY <2>1, <2>3, <2>4 DEF IInv, Keeps
<1>2. CASE UNCHANGED vars
  BY <1>2 DEF vars, IInv, TypeOK, BreakerConsistent, HalfOpen, Open, ProbesSpaced,
              RequestsRouted, Asking, InChain, InRace
<1>3. QED
  BY <1>1, <1>2

(* The invariant of breakers and requests.                                 *)
THEOREM GatewayInvariant == Spec => []IInv
<1>1. Init => IInv
  BY InitIInv
<1>2. IInv /\ [Next]_vars => IInv'
  BY StepIInv
<1>3. QED
  BY <1>1, <1>2, PTL DEF Spec

(* Every variable keeps its type.                                          *)
THEOREM GatewayTypes == Spec => []TypeOK
<1>1. IInv => TypeOK
  BY DEF IInv
<1>2. QED
  BY <1>1, GatewayInvariant, PTL

(* No breaker is left half reset, whatever late answers do to it.          *)
THEOREM BreakersConsistent == Spec => []BreakerConsistent
<1>1. IInv => BreakerConsistent
  BY DEF IInv
<1>2. QED
  BY <1>1, GatewayInvariant, PTL

(* Two probes of a provider begin a cooldown apart.                        *)
THEOREM ProbesAlwaysApart == Spec => ProbesApart
<1>1. ASSUME IInv, Next, NEW r \in Requests, NEW p \in Providers,
             attempt[r][p] # "probe", attempt'[r][p] = "probe", probed[p] > 0
      PROVE  now >= probed[p] + Cooldown
  <2>1. Typed /\ BreakerStep /\ ProbesSpaced
    BY <1>1, NextKeeps, TypedByType DEF IInv, Keeps
  <2>2. QED
    BY <1>1, <2>1, ProbesWait DEF Typed
<1>2. IInv /\ [Next]_vars =>
        [\A r \in Requests, p \in Providers :
           attempt[r][p] # "probe" /\ attempt'[r][p] = "probe" /\ probed[p] > 0 =>
             now >= probed[p] + Cooldown]_vars
  BY <1>1
<1>3. QED
  BY <1>2, GatewayInvariant, PTL DEF Spec, ProbesApart

(* Legs before the one a chain has come to did not succeed, and none after *)
(* it was asked.                                                           *)
LEMMA CameBetween ==
  ASSUME NEW chain, NEW n \in Nat, Len(chain) = n, NEW a, NEW state, NEW m \in 1 .. n,
         CameTo(chain, a, state, m), NEW j \in 1 .. n
  PROVE  /\ j < m => a[chain[j]] \in {"failed", "refused"}
         /\ j > m => a[chain[j]] = "none"
<1>1. j < m => j \in 1 .. m - 1
  OBVIOUS
<1>2. j > m => j \in m + 1 .. n
  OBVIOUS
<1> QED BY <1>1, <1>2 DEF CameTo

(* A request fails only after every provider of its mode was asked or      *)
(* refused, each in its turn.                                              *)
THEOREM RequestsRoutedFully == Spec => []RoutedFully
<1>1. ASSUME IInv, NEW r \in Requests, request[r].state # "idle"
      PROVE  LET chain == Chain[request[r].mode]
                 tried(i) == attempt[r][chain[i]]
             IN  /\ request[r].state = "failed" =>
                      \A i \in DOMAIN chain : tried(i) \in Over \ {"success"}
                 /\ request[r].state = "success" =>
                      \E i \in DOMAIN chain : tried(i) = "success"
                 /\ request[r].mode # "hybrid" =>
                      \A i, j \in DOMAIN chain :
                        i < j /\ tried(j) # "none" => tried(i) \in {"failed", "refused"}
  <2> DEFINE chain == Chain[request[r].mode]
  <2>1. Asking(r) /\ InChain(r) /\ InRace(r) /\ request[r].mode \in Modes[r]
    BY <1>1 DEF IInv, RequestsRouted, Asking
  <2>2. DOMAIN chain = 1 .. Len(chain) /\ Len(chain) \in 1 .. 3
    BY <2>1, LegsAsked, Chains DEF IsChain
  <2>3. CASE request[r].mode # "hybrid"
    <3>1. PICK m \in 1 .. Len(chain) : CameTo(chain, attempt[r], request[r].state, m)
      BY <1>1, <2>1, <2>2, <2>3 DEF InChain
    <3>2. \A j \in 1 .. Len(chain) :
            /\ j < m => attempt[r][chain[j]] \in {"failed", "refused"}
            /\ j > m => attempt[r][chain[j]] = "none"
      BY <2>2, <3>1, CameBetween
    <3>3. request[r].state = "failed" =>
            m = Len(chain) /\ attempt[r][chain[m]] \in {"failed", "refused"}
      BY <3>1 DEF CameTo, StandsAs
    <3>4. request[r].state = "success" => attempt[r][chain[m]] = "success"
      BY <3>1 DEF CameTo, StandsAs
    <3>5. request[r].state = "failed" =>
            \A j \in 1 .. Len(chain) : attempt[r][chain[j]] \in Over \ {"success"}
      <4>1. \A j \in 1 .. Len(chain) : j < m \/ j = m \/ j > m
        BY <2>2
      <4>2. \A j \in 1 .. Len(chain) : ~(j > Len(chain))
        BY <2>2
      <4>3. QED
        BY <3>2, <3>3, <4>1, <4>2 DEF Over
    <3>6. \A i, j \in 1 .. Len(chain) :
            i < j /\ attempt[r][chain[j]] # "none" =>
              attempt[r][chain[i]] \in {"failed", "refused"}
      <4>1. \A i, j \in 1 .. Len(chain) : i < j => i < m \/ j > m
        BY <2>2
      <4>2. QED
        BY <3>2, <4>1
    <3>7. QED
      BY <2>2, <3>4, <3>5, <3>6
  <2>4. CASE request[r].mode = "hybrid"
    <3>1. DOMAIN chain = 1 .. 2 /\ chain[1] = "ollama_gpu" /\ chain[2] = "openvino"
      BY <2>4, RaceLegs
    <3>2. Legs("hybrid") = {chain[1], chain[2]}
      BY <3>1, RaceLegs
    <3>3. QED
      BY <1>1, <2>1, <2>4, <3>1, <3>2 DEF InRace
  <2>5. QED
    BY <2>3, <2>4
<1>2. IInv => RoutedFully
  BY <1>1 DEF RoutedFully
<1>3. QED
  BY <1>2, GatewayInvariant, PTL
=============================================================================
