--------------------------- MODULE MCDepositWorker ---------------------------
(***************************************************************************)
(* Instances of DepositWorker: two deposits, one of them paid twice.       *)
(***************************************************************************)
EXTENDS DepositWorker, TLC

CONSTANTS d1, d2, o1, o2, o3

MCPaysTo == [o \in Outputs |-> IF o = o3 THEN d2 ELSE d1]
MCExpiry == [d \in Deposits |-> 0]
=============================================================================
