----------------------------- MODULE BlockTime -----------------------------
(***************************************************************************)
(* block.timestamp: every transaction of a block sees the same one, and it *)
(* grows by any amount between blocks.                                     *)
(***************************************************************************)
EXTENDS Naturals

CONSTANT MaxTime           \* bound: the last timestamp of an instance

ASSUME MaxTimeAssumption == MaxTime \in Nat

VARIABLE now

Tick == \E t \in now + 1 .. MaxTime : now' = t

=============================================================================
