-------------------------------- MODULE Site --------------------------------
(***************************************************************************)
(* The public site: its API, its page in one user's browser and other      *)
(* clients, and what holds of them together.                               *)
(***************************************************************************)
EXTENDS WebPage, FiniteSets

vars == <<apiVars, pageVars, walletVars>>

Init == ApiInit /\ PageInit

OnlyApi == UNCHANGED <<pageVars, walletVars>>

Next ==
  \/ (Serving \/ ApiFaults \/ Pass \/ OtherAsks) /\ OnlyApi
  \/ \E ip \in Ips, recipient \in Recipients : OtherPosts(ip, recipient) /\ OnlyApi
  \/ \E f \in Flows : Begins(f) \/ Continues(f)
  \/ \E i \in DOMAIN txs : TxMined(i)
  \/ AccountSwitched \/ ChainSwitched \/ Reload

Spec == Init /\ [][Next]_vars

\* The server and its chains go on, the relayer's transactions are mined, and
\* the wallet answers its prompts, with yes or no.  What the user's own
\* transactions come to is left open, and so is whether time passes.
Fairness ==
  /\ WF_vars(Serving /\ OnlyApi)
  /\ \A f \in Flows : WF_vars(Continues(f))

FairSpec == Spec /\ Fairness

-----------------------------------------------------------------------------
(* Properties. *)

\* Every variable keeps the values its code gives it.
SiteTypeOK == ApiTypeOK /\ PageTypeOK

\* Nobody is told an address that nobody watches: the deposit of the ticket,
\* which outlives the page, and every deposit the API lists are stored and have
\* their intent on chain, however requests fail and the server restarts.
TicketIsTracked ==
  /\ ticket # NoTicket => ticket \in rows
  /\ \A i \in rows : posts[i].tx = "mined"

PostsOf(k) == {i \in life + 1 .. Len(posts) : k \in posts[i].keys}

\* The limiter keeps its rates while its process lives: no span as long as a
\* key's window admits more than twice its limit, which the edge of two fixed
\* windows does reach, or anything at all without a limit above zero, and no
\* request is refused for a key that was not asked limit times within one window
\* before, refused requests counted.
DepositsMetered ==
  \A k \in Keys : LET limit == Limit[KindOf(k)] window == Window[KindOf(k)] IN
    /\ \A t \in 0 .. now :
         Cardinality({i \in PostsOf(k) : /\ posts[i].refusedBy = NoKey
                                         /\ posts[i].at \in t .. t + window - 1})
           <= IF limit > 0 THEN 2 * limit ELSE 0
    /\ \A i \in PostsOf(k) : posts[i].refusedBy = k =>
         Cardinality({j \in PostsOf(k) : /\ j < i
                                         /\ posts[j].at > posts[i].at - window})
           >= limit

\* The statuses the API answers with are never older than one it has answered
\* with before, and none is handed out longer than the time it may be kept.
StatusNeverOlder ==
  [][/\ served'.since >= served.since
     /\ served'.at = served'.doneAt \/ served'.at < served'.doneAt + Ttl]_vars

\* A redeem that has the wallet to itself has the approval it needs when its
\* burn is executed: the page reads the allowance anew rather than trust what a
\* burn it gave up waiting for may have used.
BurnsCovered ==
  \A i \in DOMAIN txs :
    txs[i].kind = "burn" /\ txs[i].state = "pending" /\ txs[i].sepolia /\ txs[i].alone
      => token[txs[i].from].allowance >= txs[i].amount

\* The page comes back: what is sent and never mined, refused or lost leaves
\* its buttons usable in the end.
PageReturns == busy \/ walletBusy ~> ~busy /\ ~walletBusy

=============================================================================
