-------------------------- MODULE MCReleaseService --------------------------
(***************************************************************************)
(* Instances of ReleaseService: two redeems over a few blocks, one of      *)
(* which may change its place in its block.                                *)
(***************************************************************************)
EXTENDS ReleaseService

CONSTANTS r1, r2

MCLogIndexes == [r \in Redeems |-> IF r = r1 THEN {1, 2} ELSE {1}]

=============================================================================
