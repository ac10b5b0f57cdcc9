-------------------------- MODULE RedeemSettlement --------------------------
(***************************************************************************)
(* What the release of a redeem promises: one spend plan is agreed for it, *)
(* the EVM side is settled for that plan, and only then is that plan paid, *)
(* each treasury coin for one redeem at most.                              *)
(***************************************************************************)
CONSTANTS Redeem, Coin, NoPlan, NoPayee

VARIABLES agreed,          \* [Redeem -> plan], NoPlan before there is one
          settled,         \* the <<redeem, plan>> settled on the EVM chain
          paid             \* [Coin -> redeem], NoPayee while unspent

settlementVars == <<agreed, settled, paid>>

Init == /\ agreed = [r \in Redeem |-> NoPlan] /\ settled = {}
        /\ paid = [c \in Coin |-> NoPayee]

Agree(r, plan) ==
  /\ agreed[r] = NoPlan
  /\ agreed' = [agreed EXCEPT ![r] = plan]
  /\ UNCHANGED <<settled, paid>>

Settle(r) ==
  /\ agreed[r] # NoPlan
  /\ settled' = settled \cup {<<r, agreed[r]>>}
  /\ UNCHANGED <<agreed, paid>>

Pay(r) ==
  /\ <<r, agreed[r]>> \in settled
  /\ paid[agreed[r]] = NoPayee
  /\ paid' = [paid EXCEPT ![agreed[r]] = r]
  /\ UNCHANGED <<agreed, settled>>

Next == \E r \in Redeem : Settle(r) \/ Pay(r) \/ \E plan \in Coin : Agree(r, plan)

Spec == Init /\ [][Next]_settlementVars
=============================================================================
