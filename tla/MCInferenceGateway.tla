-------------------------- MODULE MCInferenceGateway --------------------------
(* Instances of InferenceGateway for TLC. *)
EXTENDS InferenceGatewayInv, TLC

CONSTANTS r1, r2, r3

(* Races, chains and calls to one provider, which all share Ollama.        *)
MCModes == r1 :> {"hybrid", "ll_ol_fallback"} @@ r2 :> {"hybrid"} @@ r3 :> {"ollama"}
RacesOnly == r1 :> {"hybrid"} @@ r2 :> {"ollama"}
=============================================================================
