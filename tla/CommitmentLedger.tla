-------------------------- MODULE CommitmentLedger --------------------------
(***************************************************************************)
(* What a table that decides for others promises: an id is committed to    *)
(* one plan for good, and nothing but that plan is ever used under the id. *)
(* The signer promises it of a redeem id and its spend plan, the redeem    *)
(* service of a redeem and its authorization, the worker of a deposit and  *)
(* the authorization of its mint.                                          *)
(***************************************************************************)
CONSTANTS Id, Plan, NoPlan

VARIABLES committed,       \* [Id -> plan], NoPlan before there is one
          used             \* the <<id, plan>> that were acted on

ledgerVars == <<committed, used>>

Init == committed = [id \in Id |-> NoPlan] /\ used = {}

Commit(id) ==
  /\ committed[id] = NoPlan
  /\ committed' \in [Id -> Plan \cup {NoPlan}]
  /\ \A other \in Id \ {id} : committed'[other] = committed[other]
  /\ UNCHANGED used

Use(id) ==
  /\ committed[id] # NoPlan
  /\ used' = used \cup {<<id, committed[id]>>}
  /\ UNCHANGED committed

Next == \E id \in Id : Commit(id) \/ Use(id)

Spec == Init /\ [][Next]_ledgerVars
=============================================================================
