---------------------------- MODULE BridgeLedger ----------------------------
(***************************************************************************)
(* What the bridge promises on the EVM side, with nothing of how: a supply *)
(* that grows by deposits, each counted once per deposit and once per      *)
(* outpoint, and shrinks by redeem requests, each of which ends in at most *)
(* one way.  Until the supply is sealed it may also be issued by fiat.     *)
(***************************************************************************)
EXTENDS Integers

CONSTANTS Deposit, Outpoint, Amount, AmountOf(_)

VARIABLES supply,          \* the wrapped satoshis in circulation
          mints,           \* the [deposit, utxo, sats] turned into supply
          redeems,         \* what became of each request made
          sealed           \* no supply but by deposits

ledgerVars == <<supply, mints, redeems, sealed>>

Init == /\ supply = 0 /\ mints = {} /\ sealed = FALSE
        /\ redeems = [r \in {} |-> "BURNED"]

Mint(deposit, utxo, sats) ==
  /\ \A m \in mints : m.deposit # deposit /\ m.utxo # utxo
  /\ mints' = mints \cup {[deposit |-> deposit, utxo |-> utxo, sats |-> sats]}
  /\ supply' = supply + sats
  /\ UNCHANGED <<redeems, sealed>>

Burn(request) ==
  /\ request \notin DOMAIN redeems
  /\ supply' = supply - AmountOf(request)
  /\ redeems' = [r \in DOMAIN redeems \cup {request} |->
                   IF r = request THEN "BURNED" ELSE redeems[r]]
  /\ UNCHANGED <<mints, sealed>>

\* A request is paid out on Bitcoin, cancelled or resolved by hand; only a
\* cancelled one has a further step.
Settle(request, state) ==
  /\ \/ /\ redeems[request] = "BURNED"
        /\ state \in {"CONSUMED", "CANCELLED", "MANUALLY_RESOLVED"}
     \/ redeems[request] = "CANCELLED" /\ state = "MANUALLY_RESOLVED"
  /\ redeems' = [redeems EXCEPT ![request] = state]
  /\ UNCHANGED <<supply, mints, sealed>>

Issue == ~sealed /\ supply' > supply /\ UNCHANGED <<mints, redeems, sealed>>

Destroy == supply' < supply /\ UNCHANGED <<mints, redeems, sealed>>

Seal == ~sealed /\ sealed' = TRUE /\ UNCHANGED <<supply, mints, redeems>>

Next ==
  \/ \E d \in Deposit, u \in Outpoint, s \in Amount : Mint(d, u, s)
  \/ \E r \in DOMAIN redeems' : Burn(r)
  \/ \E r \in DOMAIN redeems, s \in {"CONSUMED", "CANCELLED", "MANUALLY_RESOLVED"} :
       Settle(r, s)
  \/ Issue \/ Destroy \/ Seal

Spec == Init /\ [][Next]_ledgerVars
=============================================================================
