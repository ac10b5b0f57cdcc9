------------------------------ MODULE PublicApi ------------------------------
(***************************************************************************)
(* The HTTP server of the public service (scripts/public-testnet-api.js):  *)
(* POST /deposits from the limiter to the stored row, and GET /status      *)
(* behind its cache.  An action is what runs between two awaits.  A        *)
(* deposit is named by the request that makes it: its address and nonce    *)
(* are fresh.  The receipt of one block is final here, as it is there.     *)
(***************************************************************************)
EXTENDS CostLimiter

CONSTANTS Callers,         \* who asks: the page's flows, and Other clients
          Budgets,         \* bound: what users and faults may do, one per behaviour
          MinFunds,        \* http.minRelayerBalanceEth, in intents
          Ttl              \* http.statusCacheTtlMs

Other == 0

ASSUME PublicApiAssumption ==
  /\ Other \in Callers
  /\ MinFunds \in Nat /\ Ttl \in Nat

VARIABLES posts,           \* the POST /deposits so far, in the order they came
          life,            \* history: how many of them came to earlier processes
          rows,            \* deposits in the store
          funds,           \* what the relayer's balance pays for, in intents
          cache,           \* the status kept: since when it is true, until when kept
          reads,           \* status reads in flight, with the callers that wait
          told,            \* status answers on their way to the page
          served,          \* history: the last status answer
          budget

intentVars == <<buckets, posts, life, rows, funds>>
statusVars == <<cache, reads, told, served>>
apiVars == <<now, intentVars, statusVars, budget>>

Moves == {"post", "read", "deposit", "redeem", "approve", "connect", "refresh",
          "switch", "tick", "fault", "intent"}

ASSUME BudgetsAssumption == Budgets \subseteq [Moves -> Nat]

NotTold == -1
NoKey == "none"

ASSUME NoKeyAssumption == NoKey \notin Keys

Stages == {"funding", "creating", "waiting", "answered", "failed"}

Post == [client : Callers, at : Nat, keys : SUBSET Keys, refusedBy : Keys \cup {NoKey},
         stage : Stages, tx : {"none", "pending", "mined", "reverted"}]

Read == [since : Nat, callers : SUBSET Callers]

ApiTypeOK ==
  /\ now \in 0 .. MaxTime /\ buckets \in [Keys -> Bucket]
  /\ posts \in Seq(Post) /\ life \in 0 .. Len(posts)
  /\ rows \subseteq DOMAIN posts /\ funds \in Nat
  /\ cache \in [since : Nat, doneAt : Nat, until : Nat] /\ reads \subseteq Read
  /\ told \in [Callers -> {{}, {NotTold}} \cup {{t} : t \in 0 .. MaxTime}]
  /\ served \in [since : Nat, doneAt : Nat, at : Nat]
  /\ budget \in [Moves -> Nat]

NoCache == [since |-> 0, doneAt |-> 0, until |-> 0]

ApiInit ==
  /\ now = 0 /\ buckets = [k \in Keys |-> NoBucket]
  /\ posts = << >> /\ life = 0 /\ rows = {}
  /\ cache = NoCache /\ reads = {} /\ told = [c \in Callers |-> {}]
  /\ served = [since |-> 0, doneAt |-> 0, at |-> 0]
  /\ budget \in Budgets /\ funds = budget.intent

Spend(move) == budget[move] > 0 /\ budget' = [budget EXCEPT ![move] = @ - 1]

-----------------------------------------------------------------------------
(* POST /deposits.                                                          *)

\* The key that refuses is the last one asked.
Refuser(ip, recipient) ==
  IF Allowed(ip, recipient) THEN NoKey
  ELSE CHOOSE k \in Asked(ip, recipient) : ~HasRoom(k)

PostDeposit(client, ip, recipient) ==
  /\ posts' = Append(posts,
       [client |-> client, at |-> now, keys |-> Asked(ip, recipient),
        refusedBy |-> Refuser(ip, recipient), tx |-> "none",
        stage |-> IF Allowed(ip, recipient) THEN "funding" ELSE "failed"])
  /\ Count(ip, recipient)
  /\ UNCHANGED <<life, rows, funds>>

OtherPosts(ip, recipient) ==
  /\ Spend("post") /\ PostDeposit(Other, ip, recipient)
  /\ UNCHANGED <<now, statusVars>>

Goes(i, from, to) == posts[i].stage = from /\ posts' = [posts EXCEPT ![i].stage = to]

OnlyPosts == UNCHANGED <<now, buckets, life, statusVars>>

\* assertRelayerCanPayDeposit, and then the range check of createDepositIntent,
\* which an amount may fail; the limiter has counted the request by then.
FundingChecked(i) ==
  /\ \/ funds >= MinFunds /\ Goes(i, "funding", "creating")
     \/ Goes(i, "funding", "failed")
  /\ OnlyPosts /\ UNCHANGED <<rows, funds, budget>>

\* Mutant of IntentSent: the answer does not wait for the receipt.
IntentSentAnswers(i) ==
  /\ funds > 0 /\ funds' = funds - 1
  /\ posts[i].stage = "creating"
  /\ posts' = [posts EXCEPT ![i].stage = "answered", ![i].tx = "pending"]
  /\ rows' = rows \cup {i}
  /\ OnlyPosts /\ UNCHANGED budget

\* The address is new and the transaction is sent; concurrent requests that
\* passed the same balance may find nothing left to pay with.
IntentSent(i) ==
  /\ posts[i].stage = "creating"
  /\ \/ /\ funds > 0 /\ funds' = funds - 1
        /\ posts' = [posts EXCEPT ![i].stage = "waiting", ![i].tx = "pending"]
     \/ /\ funds = 0 /\ Goes(i, "creating", "failed")
        /\ UNCHANGED funds
  /\ OnlyPosts /\ UNCHANGED <<rows, budget>>

\* The registry takes the intent, or its expiry has passed.
IntentMined(i) ==
  /\ posts[i].tx = "pending"
  /\ \E end \in {"mined", "reverted"} : posts' = [posts EXCEPT ![i].tx = end]
  /\ OnlyPosts /\ UNCHANGED <<rows, funds, budget>>

ReceiptArrives(i) ==
  /\ \/ /\ posts[i].tx = "mined" /\ Goes(i, "waiting", "answered")
        /\ rows' = rows \cup {i}
     \/ /\ posts[i].tx = "reverted" /\ Goes(i, "waiting", "failed")
        /\ UNCHANGED rows
  /\ OnlyPosts /\ UNCHANGED <<funds, budget>>

Handling(i) == posts[i].stage \in {"funding", "creating", "waiting"}

\* An error at any of the awaits, the answer to the send included, which may
\* come back as an error though the transaction is out.
RequestFails(i) ==
  /\ Handling(i) /\ Spend("fault")
  /\ \/ posts' = [posts EXCEPT ![i].stage = "failed"] /\ UNCHANGED funds
     \/ /\ posts[i].stage = "creating" /\ funds > 0 /\ funds' = funds - 1
        /\ posts' = [posts EXCEPT ![i].stage = "failed", ![i].tx = "pending"]
  /\ OnlyPosts /\ UNCHANGED rows

\* The answer is lost: the caller sees an error, the deposit stays.
AnswerLost(i) ==
  /\ Goes(i, "answered", "failed") /\ Spend("fault")
  /\ OnlyPosts /\ UNCHANGED <<rows, funds>>

-----------------------------------------------------------------------------
(* GET /status: createCachedStatus.                                         *)

OnlyStatus == UNCHANGED <<now, intentVars>>

\* Those who wait get the same answer, or the same error.
Tell(callers, value) ==
  told' = [c \in Callers |-> IF c \in callers \ {Other} THEN {value} ELSE told[c]]

Cached == cache.until > 0 /\ now < cache.until

\* Mutant of Joins: every caller reads for itself.
JoinsNobody(c) ==
  /\ ~Cached
  /\ reads' = reads \cup {[since |-> now, callers |-> {c}]}
  /\ UNCHANGED <<cache, told, served>>

Joins(c) ==
  /\ ~Cached
  /\ reads' = IF reads = {} THEN {[since |-> now, callers |-> {c}]}
              ELSE {[r EXCEPT !.callers = @ \cup {c}] : r \in reads}
  /\ UNCHANGED <<cache, told, served>>

ServesCached(c) ==
  /\ Cached
  /\ served' = [since |-> cache.since, doneAt |-> cache.doneAt, at |-> now]
  /\ Tell({c}, cache.since)
  /\ UNCHANGED <<cache, reads>>

AskStatus(c) == (ServesCached(c) \/ Joins(c)) /\ OnlyStatus

OtherAsks == Spend("read") /\ AskStatus(Other)

\* serviceStatus: the chains' answers, failed ones included, and then the
\* store's counts.  It is dated by its beginning.
ReadEnds(r) ==
  /\ r \in reads /\ reads' = reads \ {r}
  /\ cache' = [since |-> r.since, doneAt |-> now, until |-> now + Ttl]
  /\ served' = [since |-> r.since, doneAt |-> now, at |-> now]
  /\ Tell(r.callers, r.since)
  /\ OnlyStatus /\ UNCHANGED budget

\* The store throws: all who wait are told so, and what was kept is kept.
ReadFails(r) ==
  /\ r \in reads /\ Spend("fault") /\ reads' = reads \ {r}
  /\ Tell(r.callers, NotTold)
  /\ OnlyStatus /\ UNCHANGED <<cache, served>>

-----------------------------------------------------------------------------

\* The process dies and starts again: what it handled is lost, with the
\* buckets and the cache.
ApiRestarts ==
  /\ Spend("fault")
  /\ posts' = [i \in DOMAIN posts |->
       IF Handling(i) THEN [posts[i] EXCEPT !.stage = "failed"] ELSE posts[i]]
  /\ life' = Len(posts) /\ buckets' = [k \in Keys |-> NoBucket]
  /\ cache' = NoCache /\ reads' = {}
  /\ Tell(UNION {r.callers : r \in reads}, NotTold)
  /\ UNCHANGED <<now, rows, funds, served>>

Pass == Spend("tick") /\ Tick /\ UNCHANGED <<intentVars, statusVars>>

Serving ==
  \/ \E i \in DOMAIN posts : FundingChecked(i) \/ IntentSent(i) \/ ReceiptArrives(i)
  \/ \E i \in DOMAIN posts : IntentMined(i)
  \/ \E r \in reads : ReadEnds(r)

ApiFaults ==
  \/ \E i \in DOMAIN posts : RequestFails(i) \/ AnswerLost(i)
  \/ \E r \in reads : ReadFails(r)
  \/ ApiRestarts

=============================================================================
