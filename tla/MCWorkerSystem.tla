----------------------------- MODULE MCWorkerSystem -----------------------------
(* Two reshares of one vault, which owes one entry; the slots of the queue *)
(* are too few for both reshares and a signature.                          *)
EXTENDS WorkerSystem

CONSTANTS k1, f1, t1, t2

MCKeyOf == [t \in Tasks |-> k1]
MCOwner == [f \in Fees |-> k1]
MCEntry == [f \in Fees |-> [txType |-> "debit", amount |-> 3]]
=============================================================================
