---------------------------- MODULE RedeemChains ----------------------------
(***************************************************************************)
(* The two chains as the redeem half of the public worker meets them: the  *)
(* burns and their settlement on the EVM chain (contracts/BurnGateway.sol, *)
(* ChainlinkFunctionsVerifier.sol), the worker account's transactions, and *)
(* the treasury's coins.  What fails, is lost or is undone out here spends *)
(* the budget MaxFaults.                                                   *)
(***************************************************************************)
EXTENDS Sequences, BlockTime, RedeemStore

CONSTANTS Nobody,
          RedeemDeadline,  \* [Redeems -> Nat], the deadline the burner named
          MaxBlock,        \* bound: the last block an instance burns in
          MaxFaults        \* bound: faults of the chains, the calls, the process

ASSUME ChainsAssumption ==
  /\ Nobody \notin Redeems
  /\ RedeemDeadline \in [Redeems -> Nat]
  /\ MaxBlock \in Nat
  /\ MaxFaults \in Nat

VARIABLES head,            \* the latest EVM block
          burnedIn,        \* [Redeems -> block of the burn], 0 before it
          fork,            \* [Redeems -> which version of that block is canonical]
          escrow,          \* [Redeems -> redeem state on the gateway]
          txs,             \* the worker account's transactions, in nonce order
          consumed,        \* history: each <<redeem, plan>> ever settled
          published,       \* [Coins -> the redeem whose release spends it]
          confirmed,       \* coins whose spending is in a Bitcoin block
          reserved,        \* coins the custody's wallet has locked
          walletRestarted, \* history: those locks were once lost
          faults

chainVars == <<now, head, burnedIn, fork, escrow, txs, consumed, published,
               confirmed, reserved, walletRestarted, faults>>

EscrowStates == {"NONE", "BURNED", "CONSUMED", "CANCELLED"}

\* A mined request waits for the oracle and is then approved or rejected.
Tx == [kind : {"request", "complete"}, redeem : Redeems, plan : Coins, deadline : Nat,
       request : Nat,
       state : {"pending", "dropped", "reverted", "mined", "approved", "rejected"}]

ChainsTypeOK ==
  /\ now \in 0 .. MaxTime /\ head \in Nat
  /\ burnedIn \in [Redeems -> 0 .. MaxBlock] /\ fork \in [Redeems -> 0 .. 1]
  /\ escrow \in [Redeems -> EscrowStates]
  /\ txs \in Seq(Tx) /\ consumed \subseteq Redeems \X Coins
  /\ published \in [Coins -> Redeems \cup {Nobody}]
  /\ confirmed \subseteq Coins /\ reserved \subseteq Coins
  /\ walletRestarted \in BOOLEAN /\ faults \in 0 .. MaxFaults

ChainsInit ==
  /\ now = 0 /\ head = 0 /\ burnedIn = [r \in Redeems |-> 0]
  /\ fork = [r \in Redeems |-> 0] /\ escrow = [r \in Redeems |-> "NONE"]
  /\ txs = << >> /\ consumed = {} /\ published = [c \in Coins |-> Nobody]
  /\ confirmed = {} /\ reserved = {} /\ walletRestarted = FALSE /\ faults = 0

Fault == faults < MaxFaults /\ faults' = faults + 1

Bitcoin == <<published, confirmed, reserved, walletRestarted>>
Burns == <<head, burnedIn, fork>>

-----------------------------------------------------------------------------
(* The EVM chain.                                                           *)

\* A block, with the burns of some redeems: BurnGateway.burn.
NextBlock ==
  /\ head < MaxBlock
  /\ head' = head + 1
  /\ \E burns \in SUBSET {r \in Redeems : escrow[r] = "NONE"} :
       /\ burnedIn' = [r \in Redeems |-> IF r \in burns THEN head' ELSE burnedIn[r]]
       /\ escrow' = [r \in Redeems |-> IF r \in burns THEN "BURNED" ELSE escrow[r]]
  /\ UNCHANGED <<now, fork, txs, consumed, Bitcoin, faults>>

\* The block of a burn gives way to another with the same burn.
ReorgBurn(r) ==
  /\ escrow[r] = "BURNED" /\ fork[r] = 0
  /\ Fault
  /\ fork' = [fork EXCEPT ![r] = 1]
  /\ UNCHANGED <<now, head, burnedIn, escrow, txs, consumed, Bitcoin>>

\* The redeem whose completion an approved request allows is open and in time.
Completable(r, request, deadline) ==
  /\ escrow[r] = "BURNED"
  /\ now <= deadline
  /\ txs[request].state = "approved"

\* Mining, in nonce order: a request or a completion past its deadline, or a
\* completion of a redeem no longer open, reverts.
Mine(i) ==
  /\ i \in DOMAIN txs /\ txs[i].state = "pending"
  /\ \A j \in 1 .. i - 1 : txs[j].state # "pending"
  /\ \/ /\ txs[i].kind = "request" /\ now <= txs[i].deadline
        /\ txs' = [txs EXCEPT ![i].state = "mined"]
        /\ UNCHANGED <<escrow, consumed>>
     \/ /\ txs[i].kind = "complete"
        /\ Completable(txs[i].redeem, txs[i].request, txs[i].deadline)
        /\ txs' = [txs EXCEPT ![i].state = "mined"]
        /\ escrow' = [escrow EXCEPT ![txs[i].redeem] = "CONSUMED"]
        /\ consumed' = consumed \cup {<<txs[i].redeem, txs[i].plan>>}
     \/ /\ IF txs[i].kind = "request"
           THEN now > txs[i].deadline
           ELSE ~Completable(txs[i].redeem, txs[i].request, txs[i].deadline)
        /\ txs' = [txs EXCEPT ![i].state = "reverted"]
        /\ UNCHANGED <<escrow, consumed>>
  /\ UNCHANGED <<now, Burns, Bitcoin, faults>>

\* A node loses the account's pending transactions from nonce i on.
LosePending(i) ==
  /\ i \in DOMAIN txs /\ txs[i].state = "pending"
  /\ Fault
  /\ txs' = [j \in DOMAIN txs |-> IF j >= i /\ txs[j].state = "pending"
                                  THEN [txs[j] EXCEPT !.state = "dropped"] ELSE txs[j]]
  /\ UNCHANGED <<now, Burns, escrow, consumed, Bitcoin>>

\* handleOracleFulfillment: the DON approves or not, and approves only in time.
Answer(i) ==
  /\ i \in DOMAIN txs /\ txs[i].kind = "request" /\ txs[i].state = "mined"
  /\ \E verdict \in {"approved", "rejected"} :
       /\ verdict = "approved" => now <= txs[i].deadline
       /\ txs' = [txs EXCEPT ![i].state = verdict]
  /\ UNCHANGED <<now, Burns, escrow, consumed, Bitcoin, faults>>

\* An approved authorization is public: anyone may complete the redeem with it.
CompleteElsewhere(i) ==
  /\ i \in DOMAIN txs /\ txs[i].kind = "request"
  /\ Completable(txs[i].redeem, i, txs[i].deadline)
  /\ escrow' = [escrow EXCEPT ![txs[i].redeem] = "CONSUMED"]
  /\ consumed' = consumed \cup {<<txs[i].redeem, txs[i].plan>>}
  /\ UNCHANGED <<now, Burns, txs, Bitcoin, faults>>

\* setRedeemState, where the gateway still has an owner.
Cancel(r) ==
  /\ escrow[r] = "BURNED"
  /\ escrow' = [escrow EXCEPT ![r] = "CANCELLED"]
  /\ UNCHANGED <<now, Burns, txs, consumed, Bitcoin, faults>>

\* The block of a completion is undone; the worker's own, if that is what it
\* was, is pending again.
UndoCompletion(r) ==
  LET own == {i \in DOMAIN txs : /\ txs[i].redeem = r /\ txs[i].kind = "complete"
                                 /\ txs[i].state = "mined"} IN
  /\ escrow[r] = "CONSUMED"
  /\ \A i \in own, j \in DOMAIN txs : j > i => txs[j].state \in {"pending", "dropped"}
  /\ Fault
  /\ escrow' = [escrow EXCEPT ![r] = "BURNED"]
  /\ txs' = [i \in DOMAIN txs |-> IF i \in own THEN [txs[i] EXCEPT !.state = "pending"]
                                               ELSE txs[i]]
  /\ UNCHANGED <<now, Burns, consumed, Bitcoin>>

-----------------------------------------------------------------------------
(* Bitcoin.                                                                 *)

Confirm(c) ==
  /\ published[c] # Nobody /\ c \notin confirmed
  /\ confirmed' = confirmed \cup {c}
  /\ UNCHANGED <<now, Burns, escrow, txs, consumed, published, reserved,
                 walletRestarted, faults>>

\* The locks of walletcreatefundedpsbt's lockUnspents live in the node's memory.
WalletRestart ==
  /\ reserved # {} /\ Fault
  /\ reserved' = {} /\ walletRestarted' = TRUE
  /\ UNCHANGED <<now, Burns, escrow, txs, consumed, published, confirmed>>

Wait == Tick /\ UNCHANGED <<Burns, escrow, txs, consumed, Bitcoin, faults>>

ChainStep ==
  \/ NextBlock \/ WalletRestart \/ Wait
  \/ \E r \in Redeems : ReorgBurn(r) \/ Cancel(r) \/ UndoCompletion(r)
  \/ \E i \in DOMAIN txs : \/ Mine(i) \/ LosePending(i) \/ Answer(i)
                           \/ CompleteElsewhere(i)
  \/ \E c \in Coins : Confirm(c)

=============================================================================
