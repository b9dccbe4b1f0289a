--------------------------- MODULE MCLinepExchange ---------------------------
(* Instances of LinepExchange for TLC. *)
EXTENDS LinepExchangeInv, TLC

CONSTANTS t1, t2

(* A task of TcpTaskSender and one of the scheduler's own transport, sent  *)
(* to the same TcpTaskReceiver.                                            *)
BothClients == t1 :> "sender" @@ t2 :> "scheduler"
=============================================================================
