------------------------------ MODULE WebPage ------------------------------
(***************************************************************************)
(* The web page (public/app.js) with the user's wallet and the token: the  *)
(* flows a click or a timer starts, which run side by side and share       *)
(* appState.  An action is what runs between two awaits.  Amounts are      *)
(* within the limits shown: a click with another one ends where it began.  *)
(***************************************************************************)
EXTENDS PublicApi

CONSTANTS Accounts, NoAccount,
          PageIp, PageRecipient,
          Amounts,         \* what a user redeems
          Balance          \* bound: what an account has at first

Flows == Callers \ {Other}

ASSUME WebPageAssumption ==
  /\ Flows \subseteq Nat /\ NoAccount \notin Accounts
  /\ PageIp \in Ips /\ PageRecipient \in Recipients
  /\ Amounts \subseteq Nat \ {0} /\ Balance \in Nat

VARIABLES flow,            \* [Flows -> Flow]: the calls under way
          shown,           \* appState.status: since when it is true, or NotTold
          ticket,          \* appState.latestDeposit, kept in sessionStorage
          busy, walletBusy,
          account, balance, allowance,  \* appState.wallet, 0 for null amounts
          token,           \* the accounts' balances and the gateway's allowances
          txs,             \* the wallet's transactions, in nonce order
          sepolia          \* whether the wallet is on Sepolia

pageVars == <<flow, shown, ticket, busy, walletBusy, account, balance, allowance>>
walletVars == <<token, txs, sepolia>>

NoTicket == 0

WalletKinds == {"connect", "approve", "redeem"}

Flow == [kind : {"refresh", "deposit"} \cup WalletKinds,
         at : {"none", "posted", "asking", "told", "reading", "accounts", "chain",
               "checking", "approving", "approved", "rereading", "burning", "burned"},
         account : Accounts \cup {NoAccount}, amount : Nat, tx : Nat, alone : BOOLEAN]

NoFlow == [kind |-> "refresh", at |-> "none", account |-> NoAccount, amount |-> 0,
           tx |-> 0, alone |-> FALSE]

Tx == [kind : {"approve", "burn"}, from : Accounts, amount : Nat, sepolia : BOOLEAN,
       state : {"pending", "mined", "reverted"}, alone : BOOLEAN]

PageTypeOK ==
  /\ flow \in [Flows -> Flow] /\ shown \in Nat \cup {NotTold}
  /\ ticket \in Nat /\ busy \in BOOLEAN /\ walletBusy \in BOOLEAN
  /\ account \in Accounts \cup {NoAccount} /\ balance \in Nat /\ allowance \in Nat
  /\ token \in [Accounts -> [balance : Nat, allowance : Nat]]
  /\ txs \in Seq(Tx) /\ sepolia \in BOOLEAN

PageInit ==
  /\ flow = [f \in Flows |-> NoFlow] /\ shown = NotTold /\ ticket = NoTicket
  /\ busy = FALSE /\ walletBusy = FALSE
  /\ account = NoAccount /\ balance = 0 /\ allowance = 0
  /\ token = [a \in Accounts |-> [balance |-> Balance, allowance |-> 0]]
  /\ txs = << >> /\ sepolia \in BOOLEAN

-----------------------------------------------------------------------------
(* Flows. *)

At(f, at) == flow[f].at = at

\* history: a flow is alone while no other one uses the wallet beside it and
\* nothing the wallet sent before is pending.
Disturbed == [g \in Flows |-> [flow[g] EXCEPT !.alone = FALSE]]

Undisturbed == /\ \A g \in Flows : At(g, "none") \/ flow[g].kind \notin WalletKinds
               /\ \A i \in DOMAIN txs : txs[i].state # "pending"

Free(f) == At(f, "none") /\ \A g \in Flows : At(g, "none") => f <= g

Starts(f, new) ==
  /\ Free(f)
  /\ flow' = IF new.kind \in WalletKinds
             THEN [Disturbed EXCEPT ![f] = [new EXCEPT !.alone = Undisturbed]]
             ELSE [flow EXCEPT ![f] = new]

MovesTo(f, at) == flow' = [flow EXCEPT ![f].at = at, ![f].account = account]

\* The finally clauses: what a flow has set, it resets, whoever set it too.
HoldsBusy(f) == flow[f].kind = "deposit" \/ (flow[f].kind = "redeem" /\ ~At(f, "chain"))

HoldsWallet(f) ==
  flow[f].kind = "connect" \/ flow[f].at \in {"approving", "approved", "rereading"}

Ends(f) ==
  /\ flow' = [flow EXCEPT ![f] = NoFlow]
  /\ busy' = (busy /\ ~HoldsBusy(f)) /\ walletBusy' = (walletBusy /\ ~HoldsWallet(f))

Flags == <<busy, walletBusy>>
Purse == <<account, balance, allowance>>
OnlyPage == UNCHANGED <<apiVars, walletVars>>

-----------------------------------------------------------------------------
(* refreshAll and createDeposit. *)

RefreshBegins(f) ==
  /\ Spend("refresh") /\ Starts(f, [NoFlow EXCEPT !.at = "asking"])
  /\ UNCHANGED <<now, intentVars, statusVars, walletVars, shown, ticket, Flags, Purse>>

PageAsks(f) ==
  /\ At(f, "asking") /\ flow' = [flow EXCEPT ![f].at = "told"]
  /\ AskStatus(f)
  /\ UNCHANGED <<budget, walletVars, shown, ticket, Flags, Purse>>

\* Answers of overlapping refreshes are shown in the order they arrive in.
StatusLands(f) ==
  /\ At(f, "told") /\ told[f] # {}
  /\ told' = [told EXCEPT ![f] = {}]
  /\ \/ /\ told[f] = {NotTold} /\ Ends(f) /\ UNCHANGED shown
     \/ /\ told[f] # {NotTold} /\ shown' \in told[f]
        /\ IF account = NoAccount THEN Ends(f)
           ELSE MovesTo(f, "reading") /\ UNCHANGED Flags
  /\ UNCHANGED <<now, intentVars, cache, reads, served, budget, walletVars, ticket, Purse>>

DepositBegins(f) ==
  /\ ~busy /\ busy' = TRUE
  /\ Starts(f, [NoFlow EXCEPT !.kind = "deposit", !.at = "posted", !.tx = Len(posts) + 1])
  /\ Spend("deposit") /\ PostDeposit(f, PageIp, PageRecipient)
  /\ UNCHANGED <<now, statusVars, walletVars, shown, ticket, walletBusy, Purse>>

DepositLands(f) ==
  /\ At(f, "posted")
  /\ \/ /\ posts[flow[f].tx].stage = "answered"
        /\ ticket' = flow[f].tx /\ flow' = [flow EXCEPT ![f].at = "asking"]
        /\ UNCHANGED Flags
     \/ posts[flow[f].tx].stage = "failed" /\ Ends(f) /\ UNCHANGED ticket
  /\ OnlyPage /\ UNCHANGED <<shown, Purse>>

-----------------------------------------------------------------------------
(* refreshWalletState, for the account of its beginning. *)

WalletState(f) ==
  \/ /\ flow[f].account = NoAccount /\ UNCHANGED <<balance, allowance, budget>>
  \/ /\ flow[f].account # NoAccount /\ sepolia
     /\ balance' = token[flow[f].account].balance
     /\ allowance' = token[flow[f].account].allowance
     /\ UNCHANGED budget
  \/ /\ flow[f].account # NoAccount /\ balance' = 0 /\ allowance' = 0
     /\ IF sepolia THEN Spend("fault") ELSE UNCHANGED budget

OnlyWallet ==
  UNCHANGED <<now, intentVars, statusVars, walletVars, shown, ticket, account>>

WalletRead(f) == At(f, "reading") /\ WalletState(f) /\ Ends(f) /\ OnlyWallet

-----------------------------------------------------------------------------
(* connectWallet, approveRedeem and createRedeem. *)

ConnectBegins(f) ==
  /\ Spend("connect") /\ walletBusy' = TRUE
  /\ Starts(f, [NoFlow EXCEPT !.kind = "connect", !.at = "accounts"])
  /\ UNCHANGED <<now, intentVars, statusVars, walletVars, shown, ticket, busy, Purse>>

AccountsAnswered(f) ==
  /\ At(f, "accounts")
  /\ \/ /\ account' \in Accounts /\ flow' = [flow EXCEPT ![f].at = "chain"]
        /\ UNCHANGED Flags
     \/ Ends(f) /\ UNCHANGED account
  /\ OnlyPage /\ UNCHANGED <<shown, ticket, balance, allowance>>

\* The button is drawn disabled while the wallet or a redeem is busy; what a
\* deposit does is drawn with the next refresh only.
ApproveBegins(f, amount) ==
  /\ account # NoAccount /\ shown # NotTold
  /\ ~walletBusy /\ (busy => \E g \in Flows : flow[g].kind = "deposit")
  /\ Spend("approve")
  /\ Starts(f, [NoFlow EXCEPT !.kind = "approve", !.at = "chain", !.amount = amount])
  /\ UNCHANGED <<now, intentVars, statusVars, walletVars, shown, ticket, Flags, Purse>>

\* busy is looked at here and set behind the next await: a second click in
\* between begins a second redeem.
RedeemBegins(f, amount) ==
  /\ account # NoAccount /\ ~busy /\ ~walletBusy
  /\ Spend("redeem")
  /\ Starts(f, [NoFlow EXCEPT !.kind = "redeem", !.at = "chain", !.amount = amount])
  /\ UNCHANGED <<now, intentVars, statusVars, walletVars, shown, ticket, Flags, Purse>>

\* Behind ensureSepolia, where the user may refuse to switch.
OnSepolia(f) ==
  CASE flow[f].kind = "connect" ->
         IF shown = NotTold THEN Ends(f) ELSE MovesTo(f, "reading") /\ UNCHANGED Flags
    [] flow[f].kind = "approve" ->
         MovesTo(f, "approving") /\ walletBusy' = TRUE /\ UNCHANGED busy
    [] OTHER ->
         IF shown = NotTold \/ balance < flow[f].amount THEN Ends(f)
         ELSE MovesTo(f, "checking") /\ busy' = TRUE /\ UNCHANGED walletBusy

ChainAnswered(f) ==
  /\ At(f, "chain")
  /\ \/ sepolia' = TRUE /\ OnSepolia(f)
     \/ ~sepolia /\ Ends(f) /\ UNCHANGED sepolia
  /\ UNCHANGED <<apiVars, token, txs, shown, ticket, Purse>>

\* Mutant of AllowanceChecked: the allowance is the one read some time before.
AllowanceRemembered(f) ==
  /\ At(f, "checking")
  /\ IF allowance < flow[f].amount
     THEN MovesTo(f, "approving") /\ walletBusy' = TRUE
     ELSE MovesTo(f, "burning") /\ UNCHANGED walletBusy
  /\ OnlyPage /\ UNCHANGED <<busy, Purse, shown, ticket>>

AllowanceChecked(f) ==
  /\ At(f, "checking") /\ WalletState(f)
  /\ IF allowance' < flow[f].amount
     THEN MovesTo(f, "approving") /\ walletBusy' = TRUE
     ELSE MovesTo(f, "burning") /\ UNCHANGED walletBusy
  /\ OnlyWallet /\ UNCHANGED busy

\* eth_sendTransaction, from the account that was appState's when it was asked
\* for and on the chain the wallet is on by now; or the user says no.
Prompted(f, asked, sent, kind) ==
  /\ At(f, asked)
  /\ \/ /\ flow[f].account # NoAccount
        /\ txs' = Append(txs, [kind |-> kind, from |-> flow[f].account,
                               amount |-> flow[f].amount, sepolia |-> sepolia,
                               state |-> "pending", alone |-> flow[f].alone])
        /\ flow' = [flow EXCEPT ![f].at = sent, ![f].tx = Len(txs')]
        /\ UNCHANGED Flags
     \/ Ends(f) /\ UNCHANGED txs
  /\ UNCHANGED <<apiVars, token, sepolia, shown, ticket, Purse>>

ApprovePrompted(f) == Prompted(f, "approving", "approved", "approve")

BurnPrompted(f) == Prompted(f, "burning", "burned", "burn")

Seen(f) == LET tx == txs[flow[f].tx] IN tx.state = "mined" /\ tx.sepolia = sepolia

\* Mutant of GivesUp: the receipt is waited for until it comes.
NeverGivesUp(f) ==
  txs[flow[f].tx].state = "reverted"

\* waitForReceipt throws when the transaction reverted or after 90 attempts.
GivesUp(f) == ~Seen(f)

ApproveReceipt(f) ==
  /\ At(f, "approved")
  /\ \/ Seen(f) /\ MovesTo(f, "rereading") /\ UNCHANGED Flags
     \/ GivesUp(f) /\ Ends(f)
  /\ OnlyPage /\ UNCHANGED <<shown, ticket, Purse>>

ApproveRead(f) ==
  /\ At(f, "rereading") /\ WalletState(f)
  /\ IF flow[f].kind = "approve" THEN Ends(f)
     ELSE MovesTo(f, "burning") /\ walletBusy' = FALSE /\ UNCHANGED busy
  /\ OnlyWallet

BurnReceipt(f) ==
  /\ At(f, "burned")
  /\ \/ Seen(f) /\ flow' = [flow EXCEPT ![f].at = "asking"] /\ UNCHANGED Flags
     \/ GivesUp(f) /\ Ends(f)
  /\ OnlyPage /\ UNCHANGED <<shown, ticket, Purse>>

-----------------------------------------------------------------------------
(* The wallet, the token and the user's browser. *)

\* accountsChanged and chainChanged: the page reads the wallet's state anew.
Rereads(a) ==
  IF a = NoAccount \/ shown = NotTold THEN flow' = Disturbed
  ELSE \E f \in Flows : /\ Free(f)
                        /\ flow' = [Disturbed EXCEPT ![f].at = "reading", ![f].account = a]

AccountSwitched ==
  /\ Spend("switch") /\ account # NoAccount
  /\ account' \in (Accounts \cup {NoAccount}) \ {account} /\ Rereads(account')
  /\ UNCHANGED <<now, intentVars, statusVars, walletVars, shown, ticket, Flags, balance,
                 allowance>>

ChainSwitched ==
  /\ Spend("switch") /\ sepolia' = ~sepolia /\ Rereads(account)
  /\ UNCHANGED <<now, intentVars, statusVars, token, txs, shown, ticket, Flags, Purse>>

Covers(a, amount) == token[a].allowance >= amount /\ token[a].balance >= amount

\* A transaction sent to another chain finds nothing there to do.
TxMined(i) == LET tx == txs[i] IN
  /\ tx.state = "pending"
  /\ \A j \in 1 .. i - 1 : txs[j].from = tx.from => txs[j].state # "pending"
  /\ \/ /\ tx.kind = "approve" \/ ~tx.sepolia
        /\ txs' = [txs EXCEPT ![i].state = "mined"]
        /\ token' = IF tx.sepolia THEN [token EXCEPT ![tx.from].allowance = tx.amount]
                    ELSE token
     \/ /\ tx.kind = "burn" /\ tx.sepolia /\ Covers(tx.from, tx.amount)
        /\ txs' = [txs EXCEPT ![i].state = "mined"]
        /\ token' = [token EXCEPT ![tx.from].allowance = @ - tx.amount,
                                  ![tx.from].balance = @ - tx.amount]
     \/ /\ tx.kind = "burn" /\ tx.sepolia /\ ~Covers(tx.from, tx.amount)
        /\ txs' = [txs EXCEPT ![i].state = "reverted"]
        /\ UNCHANGED token
  /\ UNCHANGED <<apiVars, pageVars, sepolia>>

\* The page is loaded anew; only sessionStorage remembers.
Reload ==
  /\ Spend("fault")
  /\ flow' = [f \in Flows |-> NoFlow] /\ shown' = NotTold
  /\ busy' = FALSE /\ walletBusy' = FALSE
  /\ account' = NoAccount /\ balance' = 0 /\ allowance' = 0
  /\ told' = [c \in Callers |-> {}]
  /\ reads' = {[r EXCEPT !.callers = @ \ Flows] : r \in reads}
  /\ UNCHANGED <<now, intentVars, cache, served, walletVars, ticket>>

Begins(f) ==
  \/ RefreshBegins(f) \/ DepositBegins(f) \/ ConnectBegins(f)
  \/ \E amount \in Amounts : ApproveBegins(f, amount) \/ RedeemBegins(f, amount)

Continues(f) ==
  \/ PageAsks(f) \/ StatusLands(f) \/ DepositLands(f) \/ WalletRead(f)
  \/ AccountsAnswered(f) \/ ChainAnswered(f) \/ AllowanceChecked(f)
  \/ ApprovePrompted(f) \/ ApproveReceipt(f) \/ ApproveRead(f)
  \/ BurnPrompted(f) \/ BurnReceipt(f)

=============================================================================
