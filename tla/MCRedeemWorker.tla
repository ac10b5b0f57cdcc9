--------------------------- MODULE MCRedeemWorker ---------------------------
(***************************************************************************)
(* Instances of RedeemWorker: two redeems and two treasury coins, so       *)
(* that rows overtake each other and compete for coins.                    *)
(***************************************************************************)
EXTENDS RedeemWorker, TLC

CONSTANTS r1, r2, c1, c2

MCDeadlines == [r \in Redeems |-> 1]
MCSymmetry == Permutations({r1, r2}) \cup Permutations({c1, c2})
=============================================================================
